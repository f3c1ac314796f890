--------------------------- MODULE MarketDataProofs ---------------------------
(***************************************************************************)
(* Proofs about MarketData, for any subscriptions, groups and limit, and   *)
(* any number of callers, sockets and changes.                             *)
(***************************************************************************)
EXTENDS MarketData, FiniteSetTheorems, SequenceTheorems, TLAPS

USE MarketDataAssumption

-----------------------------------------------------------------------------
\* The inductive invariant, in parts.

AMessage == [subscribe : BOOLEAN, keys : (SUBSET Keys) \ {{}}]
Turn     == [task : Tasks, ws : 1 .. MaxSockets]

\* Who waits in the bucket has a message to send; a caller waits with its only
\* one, and nobody waits twice.
WaitingOK ==
    /\ \A i \in 1 .. Len(pacing) : pending[pacing[i].task] # <<>>
    /\ \A i, j \in 1 .. Len(pacing) : pacing[i].task = pacing[j].task => i = j
    /\ \A c \in Callers : pending[c] # <<>> => Waiting(c) /\ Len(pending[c]) = 1

\* Nobody waits with a socket that is still to come; the hook is at work for the
\* current one, only while the connection counts as open, and only subscribes.
LinkOK ==
    /\ up => isOpen
    /\ isOpen => ws # 0
    /\ ~ isOpen => pending[Hook] = <<>>
    /\ \A i \in 1 .. Len(pacing) :
        pacing[i].ws <= ws /\ (pacing[i].task = Hook => pacing[i].ws = ws)
    /\ \A i \in 1 .. Len(pending[Hook]) : pending[Hook][i].subscribe

\* The turn i is that of a caller whose message, on this socket, is about key k.
About(i, k) ==
    /\ pacing[i].ws = ws /\ pacing[i].task # Hook
    /\ k \in pending[pacing[i].task][1].keys

\* Of the messages of callers about a key the last one says what the registry
\* says; when there is none the server knows it, or the hook will say it.
LastWord(k) ==
    \A i \in 1 .. Len(pacing) :
        About(i, k) /\ (\A j \in i + 1 .. Len(pacing) : ~ About(j, k))
            => (pending[pacing[i].task][1].subscribe <=> k \in registry)

Unspoken(k) == \A i \in 1 .. Len(pacing) : ~ About(i, k)

WordOK(k) ==
    /\ LastWord(k)
    /\ Unspoken(k) => /\ k \in registry => k \in served \cup Unsent(Hook)
                      /\ k \in served => k \in registry \cup raced
    /\ k \in Unsent(Hook) => k \in registry \cup raced

LastWordOK == up => \A k \in Keys \ cancelled : WordOK(k)

IInv == TypeOK /\ WaitingOK /\ LinkOK /\ LastWordOK

-----------------------------------------------------------------------------
\* Sequences.

\* The first of a sequence and the rest.
LEMMA Rest ==
  ASSUME NEW S, NEW q \in Seq(S), q # <<>>
  PROVE  /\ Len(q) \in Nat /\ Len(q) >= 1 /\ Head(q) = q[1] /\ q[1] \in S
         /\ Tail(q) \in Seq(S) /\ Len(Tail(q)) = Len(q) - 1
         /\ \A i \in 1 .. Len(q) - 1 : Tail(q)[i] = q[i + 1]
<1>1. Len(q) \in Nat /\ Len(q) >= 1
  BY EmptySeq, LenProperties
<1> QED
  BY <1>1, HeadTailProperties, ElementOfSeq

\* What is left without place r.
Without(q, r, p) ==
    /\ Len(p) = Len(q) - 1
    /\ \A i \in 1 .. Len(p) : p[i] = q[IF i < r THEN i ELSE i + 1]

LEMMA WithoutFirst ==
  ASSUME NEW S, NEW q \in Seq(S), q # <<>>
  PROVE  Tail(q) \in Seq(S) /\ Without(q, 1, Tail(q))
BY Rest DEF Without

LEMMA WithoutPlace ==
  ASSUME NEW S, NEW q \in Seq(S), NEW r \in DOMAIN q
  PROVE  RemoveAt(q, r) \in Seq(S) /\ Without(q, r, RemoveAt(q, r))
<1> DEFINE before == SubSeq(q, 1, r - 1)
           after  == SubSeq(q, r + 1, Len(q))
<1>1. Len(q) \in Nat /\ r \in 1 .. Len(q)
  BY LenProperties
<1>2. \A j \in 1 .. Len(q) : q[j] \in S
  BY ElementOfSeq
<1>3. before \in Seq(S) /\ Len(before) = r - 1 /\ \A i \in 1 .. r - 1 : before[i] = q[i]
  BY <1>1, <1>2, SubSeqProperties
<1>4. /\ after \in Seq(S) /\ Len(after) = Len(q) - r
      /\ \A i \in 1 .. Len(q) - r : after[i] = q[r + i]
  <2>1. \A j \in r + 1 .. Len(q) : q[j] \in S
    BY <1>1, <1>2
  <2>2. /\ after \in Seq(S)
        /\ Len(after) = IF r + 1 <= Len(q) THEN Len(q) - (r + 1) + 1 ELSE 0
        /\ \A i \in 1 .. Len(q) - (r + 1) + 1 : after[i] = q[r + 1 + i - 1]
    BY <1>1, <2>1, SubSeqProperties
  <2> QED
    BY <1>1, <2>2
<1> HIDE DEF before, after
<1>5. /\ before \o after \in Seq(S)
      /\ Len(before \o after) = Len(before) + Len(after)
      /\ \A i \in 1 .. Len(before) + Len(after) :
          (before \o after)[i] = IF i <= Len(before) THEN before[i] ELSE after[i - Len(before)]
  BY <1>3, <1>4, ConcatProperties, SMTT(30)
<1>6. Len(before \o after) = Len(q) - 1
  BY <1>1, <1>3, <1>4, <1>5
<1>7. ASSUME NEW i \in 1 .. Len(before \o after)
      PROVE  (before \o after)[i] = q[IF i < r THEN i ELSE i + 1]
  <2>1. (before \o after)[i] = IF i <= r - 1 THEN before[i] ELSE after[i - (r - 1)]
    BY <1>1, <1>3, <1>4, <1>5, <1>6
  <2>2. CASE i < r
    BY <1>1, <1>3, <2>1, <2>2
  <2>3. CASE ~ i < r
    <3>1. i - (r - 1) \in 1 .. Len(q) - r /\ r + (i - (r - 1)) = i + 1
      BY <1>1, <1>6, <2>3
    <3>2. (before \o after)[i] = after[i - (r - 1)]
      BY <1>1, <1>6, <2>1, <2>3
    <3>3. after[i - (r - 1)] = q[i + 1]
      BY <1>4, <3>1
    <3> QED
      BY <2>3, <3>2, <3>3
  <2> QED
    BY <2>2, <2>3
<1> QED
  BY <1>5, <1>6, <1>7 DEF RemoveAt, Without, before, after

-----------------------------------------------------------------------------
\* The messages.

\* The keys of messages, of which Unsent is an instance.
KeysIn(q) == UNION {q[i].keys : i \in DOMAIN q}

LEMMA KeyOfMessage ==
  ASSUME NEW q, NEW i \in DOMAIN q, NEW k \in q[i].keys
  PROVE  k \in KeysIn(q)
BY DEF KeysIn

LEMMA KeysOfRest ==
  ASSUME NEW q \in Seq(AMessage), q # <<>>
  PROVE  KeysIn(q) = q[1].keys \cup KeysIn(Tail(q))
<1>1. /\ Len(q) \in Nat /\ Len(q) >= 1
      /\ Tail(q) \in Seq(AMessage) /\ Len(Tail(q)) = Len(q) - 1
      /\ \A i \in 1 .. Len(q) - 1 : Tail(q)[i] = q[i + 1]
  BY Rest
<1>2. DOMAIN q = 1 .. Len(q) /\ DOMAIN Tail(q) = 1 .. Len(q) - 1
  BY <1>1, LenProperties
<1>3. ASSUME NEW k \in KeysIn(q) PROVE k \in q[1].keys \cup KeysIn(Tail(q))
  <2>1. PICK i \in 1 .. Len(q) : k \in q[i].keys
    BY <1>2, <1>3 DEF KeysIn
  <2>2. CASE i = 1
    BY <2>1, <2>2
  <2>3. CASE i # 1
    <3>1. i - 1 \in DOMAIN Tail(q) /\ Tail(q)[i - 1] = q[(i - 1) + 1] /\ (i - 1) + 1 = i
      BY <1>1, <1>2, <2>1, <2>3
    <3>2. k \in Tail(q)[i - 1].keys
      BY <2>1, <3>1
    <3>3. k \in KeysIn(Tail(q))
      BY <3>1, <3>2, KeyOfMessage
    <3> QED
      BY <3>3
  <2> QED
    BY <2>2, <2>3
<1>4. q[1].keys \subseteq KeysIn(q)
  BY <1>1, <1>2 DEF KeysIn
<1>5. ASSUME NEW k \in KeysIn(Tail(q)) PROVE k \in KeysIn(q)
  <2>1. PICK i \in 1 .. Len(q) - 1 : k \in Tail(q)[i].keys
    BY <1>2, <1>5 DEF KeysIn
  <2>2. i + 1 \in 1 .. Len(q) /\ k \in q[i + 1].keys
    BY <1>1, <2>1
  <2> QED
    BY <1>2, <2>2 DEF KeysIn
<1> QED
  BY <1>3, <1>4, <1>5

\* What resubscribe builds, in whatever order, tells of the whole registry and of
\* nothing else.
LEMMA ReplayTellsAll ==
  ASSUME TypeOK, NEW m \in SetToSeqs(Replay)
  PROVE  /\ m \in Seq(AMessage)
         /\ \A i \in 1 .. Len(m) : m[i].subscribe
         /\ KeysIn(m) = registry
<1> DEFINE held == {g \in Groups : KeysOf[g] \cap registry # {}}
           f == [g \in held |-> Message(TRUE, KeysOf[g] \cap registry)]
           n == Cardinality(Replay)
<1>1. Replay = {Message(TRUE, KeysOf[g] \cap registry) : g \in held}
  BY DEF Replay
<1>2. \A x \in Replay : x \in AMessage /\ x.subscribe /\ x.keys \subseteq registry
  <2> SUFFICES ASSUME NEW g \in held
               PROVE  LET x == Message(TRUE, KeysOf[g] \cap registry)
                      IN  x \in AMessage /\ x.subscribe /\ x.keys \subseteq registry
    BY <1>1
  <2>1. KeysOf[g] \cap registry \in (SUBSET Keys) \ {{}}
    <3>1. registry \subseteq Keys
      BY DEF TypeOK
    <3> QED
      BY <3>1
  <2> QED
    BY <2>1 DEF Message, AMessage
<1>3. IsFiniteSet(Replay)
  <2>1. IsFiniteSet(held)
    BY FS_Subset
  <2>2. f \in Surjection(held, Replay)
    BY <1>1 DEF Surjection
  <2> QED
    BY <2>1, <2>2, FS_Surjection
<1>4. n \in Nat
  BY <1>3, FS_CardinalityType
<1>5. m \in [1 .. n -> Replay] /\ \A i, j \in 1 .. n : i # j => m[i] # m[j]
  BY DEF SetToSeqs
<1>6. IsFiniteSet(1 .. n) /\ Cardinality(1 .. n) = n
  BY <1>4, FS_Interval
<1>7. m \in Injection(1 .. n, Replay)
  BY <1>5 DEF Injection, IsInjective
<1>8. \A x \in Replay : \E i \in 1 .. n : m[i] = x
  <2>1. Cardinality(1 .. n) = Cardinality(Replay)
    BY <1>6
  <2>2. m \in Surjection(1 .. n, Replay)
    BY <1>3, <1>7, <2>1, FS_Injection
  <2> QED
    BY <2>2 DEF Surjection
<1>9. m \in Seq(AMessage) /\ DOMAIN m = 1 .. n /\ Len(m) = n
  <2>1. m \in [1 .. n -> AMessage]
    BY <1>2, <1>5
  <2>2. m \in Seq(AMessage)
    BY <1>4, <2>1, SeqDef
  <2> QED
    BY <1>4, <1>5, <2>2, LenProperties
<1>10. \A k \in registry : \E x \in Replay : k \in x.keys
  <2> SUFFICES ASSUME NEW k \in registry PROVE \E x \in Replay : k \in x.keys
    OBVIOUS
  <2>1. PICK g \in Groups : k \in KeysOf[g]
    BY DEF TypeOK, Keys
  <2>2. g \in held /\ k \in Message(TRUE, KeysOf[g] \cap registry).keys
    BY <2>1 DEF Message
  <2> QED
    BY <1>1, <2>2
<1> HIDE DEF held, f, n
<1>11. KeysIn(m) \subseteq registry
  BY <1>2, <1>5, <1>9 DEF KeysIn
<1>12. registry \subseteq KeysIn(m)
  BY <1>8, <1>9, <1>10 DEF KeysIn
<1> QED
  BY <1>2, <1>5, <1>9, <1>11, <1>12

-----------------------------------------------------------------------------
\* Turns that come and go.

\* The turn r ends, and its task has `rest` still to send.
Ended(r, rest) ==
    /\ r \in 1 .. Len(pacing)
    /\ pacing' \in Seq(Turn) /\ Without(pacing, r, pacing')
    /\ \/ rest = <<>>
       \/ pacing[r].task = Hook /\ rest = Tail(pending[Hook])
    /\ pending' = [pending EXCEPT ![pacing[r].task] = rest]

Before(r, i) == IF i < r THEN i ELSE i + 1

\* The turns that are left are those of other tasks, in their order.
LEMMA OtherTurns ==
  ASSUME TypeOK, WaitingOK, NEW r, NEW rest, Ended(r, rest)
  PROVE  /\ Len(pacing) \in Nat /\ Len(pacing') = Len(pacing) - 1
         /\ \A i \in 1 .. Len(pacing') :
              /\ Before(r, i) \in 1 .. Len(pacing) /\ Before(r, i) # r
              /\ pacing'[i] = pacing[Before(r, i)]
              /\ pacing'[i].task # pacing[r].task
              /\ pending'[pacing'[i].task] = pending[pacing[Before(r, i)].task]
         /\ \A j \in 1 .. Len(pacing) : j # r => \E i \in 1 .. Len(pacing') : Before(r, i) = j
<1>1. Len(pacing) \in Nat /\ r \in 1 .. Len(pacing) /\ Len(pacing') = Len(pacing) - 1
  BY LenProperties DEF TypeOK, Ended, Without
<1>2. \A i \in 1 .. Len(pacing) : pacing[i] \in Turn
  BY ElementOfSeq, LenProperties DEF TypeOK, Turn
<1>3. ASSUME NEW i \in 1 .. Len(pacing')
      PROVE  /\ Before(r, i) \in 1 .. Len(pacing) /\ Before(r, i) # r
             /\ pacing'[i] = pacing[Before(r, i)]
             /\ pacing'[i].task # pacing[r].task
             /\ pending'[pacing'[i].task] = pending[pacing[Before(r, i)].task]
  <2>1. Before(r, i) \in 1 .. Len(pacing) /\ Before(r, i) # r
    BY <1>1 DEF Before
  <2>2. pacing'[i] = pacing[Before(r, i)]
    BY DEF Ended, Without, Before
  <2>3. pacing[Before(r, i)].task # pacing[r].task
    BY <1>1, <2>1 DEF WaitingOK
  <2>4. pacing[Before(r, i)].task \in Tasks
    BY <1>2, <2>1 DEF Turn
  <2>5. pending \in [Tasks -> Seq(AMessage)]
    BY DEF TypeOK, AMessage
  <2>6. pending'[pacing[Before(r, i)].task] = pending[pacing[Before(r, i)].task]
    BY <2>3, <2>4, <2>5 DEF Ended
  <2> QED
    BY <2>1, <2>2, <2>3, <2>6
<1>4. ASSUME NEW j \in 1 .. Len(pacing), j # r
      PROVE  \E i \in 1 .. Len(pacing') : Before(r, i) = j
  <2>1. CASE j < r
    <3>1. j \in 1 .. Len(pacing') /\ Before(r, j) = j
      BY <1>1, <2>1 DEF Before
    <3> QED
      BY <3>1
  <2>2. CASE ~ j < r
    <3>1. j - 1 \in 1 .. Len(pacing') /\ Before(r, j - 1) = j
      BY <1>1, <1>4, <2>2 DEF Before
    <3> QED
      BY <3>1
  <2> QED
    BY <2>1, <2>2
<1> QED
  BY <1>1, <1>3, <1>4

\* An end of a turn keeps the order of things in the bucket.
LEMMA EndedKeeps ==
  ASSUME TypeOK, WaitingOK, LinkOK, NEW r, NEW rest, Ended(r, rest), UNCHANGED Link
  PROVE  WaitingOK' /\ LinkOK' /\ pending' \in [Tasks -> Seq(AMessage)]
<1>1. /\ Len(pacing) \in Nat /\ r \in 1 .. Len(pacing) /\ Len(pacing') = Len(pacing) - 1
      /\ \A i \in 1 .. Len(pacing') :
              /\ Before(r, i) \in 1 .. Len(pacing) /\ Before(r, i) # r
              /\ pacing'[i] = pacing[Before(r, i)]
              /\ pacing'[i].task # pacing[r].task
              /\ pending'[pacing'[i].task] = pending[pacing[Before(r, i)].task]
      /\ \A j \in 1 .. Len(pacing) : j # r => \E i \in 1 .. Len(pacing') : Before(r, i) = j
  BY OtherTurns DEF Ended
<1> DEFINE t == pacing[r].task
<1>2. t \in Tasks /\ pending[t] # <<>>
  <2>1. pacing[r] \in Turn
    BY <1>1, ElementOfSeq DEF TypeOK, Turn
  <2> QED
    BY <1>1, <2>1 DEF Turn, WaitingOK
<1>3. pending \in [Tasks -> Seq(AMessage)] /\ Hook \in Tasks /\ Callers \subseteq Tasks
  BY DEF TypeOK, AMessage, Tasks
<1>4. rest \in Seq(AMessage) /\ (t # Hook => rest = <<>>)
  <2>1. CASE rest = <<>>
    BY <2>1, EmptySeq
  <2>2. CASE t = Hook /\ rest = Tail(pending[Hook])
    BY <1>2, <1>3, <2>2, HeadTailProperties
  <2> QED
    BY <2>1, <2>2 DEF Ended
<1>5. pending' = [pending EXCEPT ![t] = rest]
  BY DEF Ended
<1>6. pending'[t] = rest /\ \A u \in Tasks : u # t => pending'[u] = pending[u]
  BY <1>2, <1>3, <1>5
<1> HIDE DEF t
<1>7. WaitingOK'
  <2>1. \A i \in 1 .. Len(pacing') : pending'[pacing'[i].task] # <<>>
    BY <1>1, SMTT(30) DEF WaitingOK
  <2>2. ASSUME NEW i \in 1 .. Len(pacing'), NEW j \in 1 .. Len(pacing'),
               pacing'[i].task = pacing'[j].task
        PROVE  i = j
    <3>1. Before(r, i) = Before(r, j)
      BY <1>1, <2>2, SMTT(30) DEF WaitingOK
    <3> QED
      BY <1>1, <3>1 DEF Before
  <2>3. ASSUME NEW c \in Callers, pending'[c] # <<>>
        PROVE  Waiting(c)' /\ Len(pending'[c]) = 1
    <3>1. c # t /\ pending'[c] = pending[c]
      BY <1>3, <1>4, <1>6, <2>3
    <3>2. Waiting(c) /\ Len(pending[c]) = 1
      BY <2>3, <3>1 DEF WaitingOK
    <3>3. DOMAIN pacing = 1 .. Len(pacing) /\ DOMAIN pacing' = 1 .. Len(pacing')
      BY LenProperties DEF TypeOK, Ended
    <3>4. PICK j \in 1 .. Len(pacing) : pacing[j].task = c
      BY <3>2, <3>3 DEF Waiting
    <3>5. j # r
      BY <3>1, <3>4 DEF t
    <3>6. PICK i \in 1 .. Len(pacing') : Before(r, i) = j
      BY <1>1, <3>5
    <3>7. pacing'[i].task = c
      BY <1>1, <3>4, <3>6
    <3> QED
      BY <3>1, <3>2, <3>3, <3>7 DEF Waiting
  <2> QED
    BY <2>1, <2>2, <2>3 DEF WaitingOK
<1>8. LinkOK'
  <2>1. isOpen' = isOpen /\ ws' = ws /\ up' = up
    BY DEF Link
  <2>2. \A i \in 1 .. Len(pacing') :
          pacing'[i].ws <= ws' /\ (pacing'[i].task = Hook => pacing'[i].ws = ws')
    BY <1>1, <2>1, ZenonT(60) DEF LinkOK
  <2>3. ~ isOpen' => pending'[Hook] = <<>>
    BY <1>2, <1>3, <1>6, <2>1 DEF LinkOK
  <2>4. \A i \in 1 .. Len(pending'[Hook]) : pending'[Hook][i].subscribe
    <3>1. CASE t # Hook
      BY <1>3, <1>6, <3>1 DEF LinkOK
    <3>2. CASE t = Hook /\ rest = <<>>
      BY <1>6, <3>2
    <3>3. CASE t = Hook /\ rest = Tail(pending[Hook])
      <4>1. /\ Len(pending[Hook]) \in Nat /\ Len(rest) = Len(pending[Hook]) - 1
            /\ \A i \in 1 .. Len(pending[Hook]) - 1 : rest[i] = pending[Hook][i + 1]
        BY <1>2, <1>3, <3>3, Rest
      <4>2. ASSUME NEW i \in 1 .. Len(rest) PROVE rest[i].subscribe
        <5>1. i \in 1 .. Len(pending[Hook]) - 1 /\ i + 1 \in 1 .. Len(pending[Hook])
          BY <4>1, <4>2
        <5>2. rest[i] = pending[Hook][i + 1]
          BY <4>1, <5>1
        <5>3. pending[Hook][i + 1].subscribe
          BY <5>1 DEF LinkOK
        <5> QED
          BY <5>2, <5>3
      <4> QED
        BY <1>6, <3>3, <4>2
    <3> QED
      BY <3>1, <3>2, <3>3 DEF Ended, t
  <2> QED
    BY <2>1, <2>2, <2>3, <2>4 DEF LinkOK
<1>9. pending' \in [Tasks -> Seq(AMessage)]
  BY <1>3, <1>4, <1>5
<1> QED
  BY <1>7, <1>8, <1>9

\* What the end of a turn leaves of the words about a key.
LEMMA EndedWord ==
  ASSUME TypeOK, WaitingOK, LinkOK, NEW r, NEW rest, Ended(r, rest),
         UNCHANGED <<Link, registry>>, NEW k
  PROVE  /\ LastWord(k) /\ (r = 1 \/ ~ About(r, k)) => LastWord(k)'
         /\ Unspoken(k)' /\ ~ About(r, k) => Unspoken(k)
         /\ Unspoken(k)' /\ About(r, k) /\ LastWord(k) =>
              (pending[pacing[r].task][1].subscribe <=> k \in registry)
<1>1. /\ Len(pacing) \in Nat /\ r \in 1 .. Len(pacing) /\ Len(pacing') = Len(pacing) - 1
      /\ \A i \in 1 .. Len(pacing') :
              /\ Before(r, i) \in 1 .. Len(pacing) /\ Before(r, i) # r
              /\ pacing'[i] = pacing[Before(r, i)]
              /\ pacing'[i].task # pacing[r].task
              /\ pending'[pacing'[i].task] = pending[pacing[Before(r, i)].task]
      /\ \A j \in 1 .. Len(pacing) : j # r => \E i \in 1 .. Len(pacing') : Before(r, i) = j
  BY OtherTurns DEF Ended
<1>2. ws' = ws /\ registry' = registry
  BY DEF Link
<1>3. \A i \in 1 .. Len(pacing') : About(i, k)' <=> About(Before(r, i), k)
  BY <1>1, <1>2 DEF About
<1>4. ASSUME LastWord(k), r = 1 \/ ~ About(r, k) PROVE LastWord(k)'
  <2> SUFFICES ASSUME NEW i \in 1 .. Len(pacing'), About(i, k)',
                      \A j \in i + 1 .. Len(pacing') : ~ About(j, k)'
               PROVE  pending'[pacing'[i].task][1].subscribe <=> k \in registry'
    BY DEF LastWord
  <2>1. About(Before(r, i), k)
    BY <1>3
  <2>2. ASSUME NEW j \in Before(r, i) + 1 .. Len(pacing) PROVE ~ About(j, k)
    <3>1. j \in 1 .. Len(pacing) /\ j > Before(r, i) /\ j > 1
      BY <1>1, <2>2
    <3>2. CASE j = r
      BY <1>4, <3>1, <3>2
    <3>3. CASE j # r
      <4>1. PICK l \in 1 .. Len(pacing') : Before(r, l) = j
        BY <1>1, <3>1, <3>3
      <4>2. l \in i + 1 .. Len(pacing')
        BY <1>1, <3>1, <4>1 DEF Before
      <4>3. ~ About(l, k)'
        BY <4>2
      <4> QED
        BY <1>3, <4>1, <4>3
    <3> QED
      BY <3>2, <3>3
  <2>3. pending[pacing[Before(r, i)].task][1].subscribe <=> k \in registry
    BY <1>1, <1>4, <2>1, <2>2 DEF LastWord
  <2> QED
    BY <1>1, <1>2, <2>3
<1>5. ASSUME Unspoken(k)', NEW j \in 1 .. Len(pacing), j # r PROVE ~ About(j, k)
  <2>1. PICK l \in 1 .. Len(pacing') : Before(r, l) = j
    BY <1>1, <1>5
  <2>2. ~ About(l, k)'
    BY <1>5 DEF Unspoken
  <2> QED
    BY <1>3, <2>1, <2>2
<1>6. Unspoken(k)' /\ ~ About(r, k) => Unspoken(k)
  BY <1>5 DEF Unspoken
<1>7. ASSUME Unspoken(k)', About(r, k), LastWord(k)
      PROVE  pending[pacing[r].task][1].subscribe <=> k \in registry
  <2>1. \A j \in r + 1 .. Len(pacing) : j \in 1 .. Len(pacing) /\ j # r
    BY <1>1
  <2>2. \A j \in r + 1 .. Len(pacing) : ~ About(j, k)
    BY <1>5, <1>7, <2>1
  <2> QED
    BY <1>1, <1>7, <2>2 DEF LastWord
<1> QED
  BY <1>4, <1>6, <1>7

-----------------------------------------------------------------------------
\* The steps, one lemma for each.

LEMMA PacedKeeps ==
  ASSUME IInv, Paced
  PROVE  IInv'
<1> DEFINE t == pacing[1].task
           m == pending[t][1]
           sent == up /\ pacing[1].ws = ws
           rest == IF sent THEN Tail(pending[t]) ELSE <<>>
<1>1. TypeOK /\ WaitingOK /\ LinkOK /\ LastWordOK
  BY DEF IInv
<1>2. /\ pending \in [Tasks -> Seq(AMessage)] /\ pacing \in Seq(Turn) /\ pacing # <<>>
      /\ Hook \in Tasks /\ Tasks = Callers \cup {Hook}
  BY <1>1 DEF TypeOK, AMessage, Turn, Tasks, Paced
<1>3. /\ Len(pacing) \in Nat /\ 1 \in 1 .. Len(pacing) /\ Head(pacing) = pacing[1]
      /\ pacing[1] \in Turn /\ Tail(pacing) \in Seq(Turn) /\ Without(pacing, 1, Tail(pacing))
  BY <1>2, Rest, WithoutFirst
<1>4. t \in Tasks /\ pending[t] # <<>> /\ pending[t] \in Seq(AMessage)
  BY <1>1, <1>2, <1>3 DEF Turn, WaitingOK
<1>5. Head(pending[t]) = m /\ m \in AMessage
  BY <1>4, Rest
<1>6. t # Hook => Tail(pending[t]) = <<>>
  <2> SUFFICES ASSUME t # Hook PROVE Tail(pending[t]) = <<>>
    OBVIOUS
  <2>1. Len(pending[t]) = 1
    BY <1>1, <1>2, <1>4 DEF WaitingOK
  <2>2. Tail(pending[t]) \in Seq(AMessage) /\ Len(Tail(pending[t])) = 0
    BY <1>4, <2>1, Rest
  <2> QED
    BY <2>2, EmptySeq
<1>7. /\ pacing' = Tail(pacing)
      /\ registry' = registry /\ UNCHANGED <<Link, registry>> /\ changes' = changes
      /\ cancelled' = cancelled /\ raced' = raced
      /\ ws' = ws /\ up' = up /\ isOpen' = isOpen
  BY DEF Paced, Link, History
<1>8. \/ sent /\ served' = Apply(m) /\ pending' = [pending EXCEPT ![t] = Tail(pending[t])]
      \/ ~ sent /\ served' = served /\ pending' = [pending EXCEPT ![t] = <<>>]
  BY <1>3, <1>5 DEF Paced
<1>9. Ended(1, rest)
  <2>1. CASE sent
    BY <1>3, <1>6, <1>7, <1>8, <2>1 DEF Ended
  <2>2. CASE ~ sent
    BY <1>3, <1>6, <1>7, <1>8, <2>2 DEF Ended
  <2> QED
    BY <2>1, <2>2
<1>10. pending'[Hook] = IF t = Hook THEN rest ELSE pending[Hook]
  BY <1>2, <1>4, <1>9 DEF Ended
<1> HIDE DEF t, m, sent, rest
<1>11. WaitingOK' /\ LinkOK' /\ pending' \in [Tasks -> Seq(AMessage)]
  BY <1>1, <1>7, <1>9, EndedKeeps
<1>12. served' \subseteq Keys
  <2>1. served \subseteq Keys /\ m.keys \subseteq Keys
    BY <1>1, <1>5 DEF TypeOK, AMessage
  <2>2. Apply(m) \subseteq Keys
    BY <2>1 DEF Apply
  <2> QED
    BY <1>8, <2>1, <2>2
<1>13. TypeOK'
  <2>1. pacing' \in Seq([task : Tasks, ws : 1 .. MaxSockets])
    BY <1>3, <1>7 DEF Turn
  <2> QED
    BY <1>1, <1>7, <1>11, <1>12, <2>1 DEF TypeOK, AMessage
<1>14. ASSUME up', NEW k \in Keys \ cancelled' PROVE WordOK(k)'
  <2>1. WordOK(k) /\ up
    BY <1>1, <1>7, <1>14 DEF LastWordOK
  <2>2. /\ LastWord(k)'
        /\ Unspoken(k)' /\ ~ About(1, k) => Unspoken(k)
        /\ Unspoken(k)' /\ About(1, k) => (m.subscribe <=> k \in registry)
    BY <1>1, <1>7, <1>9, <2>1, EndedWord DEF WordOK, m, t
  <2>3. About(1, k) <=> pacing[1].ws = ws /\ t # Hook /\ k \in m.keys
    BY DEF About, m, t
  <2>4. sent <=> pacing[1].ws = ws
    BY <2>1 DEF sent
  <2>5. CASE t # Hook
    <3>1. Unsent(Hook)' = Unsent(Hook)
      BY <1>10, <2>5 DEF Unsent
    <3>2. CASE About(1, k)
      <4>1. sent /\ k \in m.keys
        BY <2>3, <2>4, <3>2
      <4>2. k \in served' <=> m.subscribe
        BY <1>8, <4>1 DEF Apply
      <4> QED
        BY <1>7, <2>1, <2>2, <3>1, <3>2, <4>2 DEF WordOK
    <3>3. CASE ~ About(1, k)
      <4>1. k \in served' <=> k \in served
        <5>1. ~ sent \/ k \notin m.keys
          BY <2>3, <2>4, <2>5, <3>3
        <5> QED
          BY <1>8, <5>1 DEF Apply
      <4> QED
        BY <1>7, <2>1, <2>2, <3>1, <3>3, <4>1 DEF WordOK
    <3> QED
      BY <3>2, <3>3
  <2>6. CASE t = Hook
    <3>1. pacing[1].ws = ws
      BY <1>1, <1>3, <2>6 DEF LinkOK, t
    <3>2. sent /\ ~ About(1, k)
      BY <2>3, <2>4, <2>6, <3>1
    <3>3. pending'[Hook] = Tail(pending[Hook])
      BY <1>10, <2>6, <3>2 DEF rest
    <3>4. Unsent(Hook) = m.keys \cup Unsent(Hook)'
      <4>1. KeysIn(pending[Hook]) = pending[Hook][1].keys \cup KeysIn(Tail(pending[Hook]))
        BY <1>4, <2>6, KeysOfRest
      <4> QED
        BY <2>6, <3>3, <4>1 DEF Unsent, KeysIn, m
    <3>5. m.subscribe
      <4>1. Len(pending[Hook]) \in Nat /\ 1 \in 1 .. Len(pending[Hook])
        BY <1>4, <2>6, Rest
      <4> QED
        BY <1>1, <2>6, <4>1 DEF LinkOK, m
    <3>6. k \in served' <=> k \in served \/ k \in m.keys
      BY <1>8, <3>2, <3>5 DEF Apply
    <3> QED
      BY <1>7, <2>1, <2>2, <3>2, <3>4, <3>6 DEF WordOK
  <2> QED
    BY <2>5, <2>6
<1> QED
  BY <1>11, <1>13, <1>14 DEF IInv, LastWordOK

LEMMA CancelKeeps ==
  ASSUME IInv, NEW c \in Callers, Cancel(c)
  PROVE  IInv'
<1>1. TypeOK /\ WaitingOK /\ LinkOK /\ LastWordOK
  BY DEF IInv
<1>2. PICK r \in DOMAIN pacing : pacing[r].task = c /\ pacing' = RemoveAt(pacing, r)
  BY DEF Cancel
<1>3. /\ pending' = [pending EXCEPT ![c] = <<>>]
      /\ cancelled' = cancelled \cup Unsent(c)
      /\ registry' = registry /\ UNCHANGED <<Link, registry>> /\ changes' = changes
      /\ served' = served /\ raced' = raced
      /\ ws' = ws /\ up' = up /\ isOpen' = isOpen
  BY DEF Cancel, Link
<1>4. /\ pending \in [Tasks -> Seq(AMessage)] /\ pacing \in Seq(Turn)
      /\ c \in Tasks /\ Hook \in Tasks /\ c # Hook
  BY <1>1 DEF TypeOK, AMessage, Turn, Tasks
<1>5. r \in 1 .. Len(pacing) /\ pacing' \in Seq(Turn) /\ Without(pacing, r, pacing')
  BY <1>2, <1>4, LenProperties, WithoutPlace
<1>6. Ended(r, <<>>)
  BY <1>2, <1>3, <1>5 DEF Ended
<1>7. WaitingOK' /\ LinkOK' /\ pending' \in [Tasks -> Seq(AMessage)]
  BY <1>1, <1>3, <1>6, EndedKeeps
<1>8. /\ Len(pending[c]) \in Nat /\ 1 \in DOMAIN pending[c]
      /\ \A i \in DOMAIN pending[c] : pending[c][i] \in AMessage
  <2>1. pending[c] \in Seq(AMessage) /\ pending[c] # <<>>
    BY <1>1, <1>2, <1>4, <1>5 DEF WaitingOK
  <2> QED
    BY <2>1, Rest, LenProperties, ElementOfSeq
<1>9. TypeOK'
  <2>1. Unsent(c) \subseteq Keys
    BY <1>8 DEF Unsent, AMessage
  <2>2. pacing' \in Seq([task : Tasks, ws : 1 .. MaxSockets])
    BY <1>5 DEF Turn
  <2> QED
    BY <1>1, <1>3, <1>7, <2>1, <2>2 DEF TypeOK, AMessage
<1>10. ASSUME up', NEW k \in Keys \ cancelled' PROVE WordOK(k)'
  <2>1. WordOK(k) /\ k \notin Unsent(c)
    BY <1>1, <1>3, <1>10 DEF LastWordOK
  <2>2. ~ About(r, k)
    BY <1>2, <1>8, <2>1 DEF About, Unsent
  <2>3. LastWord(k)' /\ (Unspoken(k)' => Unspoken(k))
    BY <1>1, <1>3, <1>6, <2>1, <2>2, EndedWord DEF WordOK
  <2>4. Unsent(Hook)' = Unsent(Hook)
    <3>1. pending'[Hook] = pending[Hook]
      BY <1>3, <1>4
    <3> QED
      BY <3>1 DEF Unsent
  <2> QED
    BY <1>3, <2>1, <2>3, <2>4 DEF WordOK
<1> QED
  BY <1>7, <1>9, <1>10 DEF IInv, LastWordOK

\* A turn at the end of the bucket, and the turns before it.
Queued(t) == pacing' = Append(pacing, [task |-> t, ws |-> ws'])

LEMMA LastTurn ==
  ASSUME TypeOK, NEW t \in Tasks, ws' \in 1 .. MaxSockets, Queued(t)
  PROVE  /\ Len(pacing) \in Nat /\ Len(pacing') = Len(pacing) + 1
         /\ pacing' \in Seq(Turn)
         /\ \A i \in 1 .. Len(pacing) : pacing'[i] = pacing[i] /\ pacing[i] \in Turn
         /\ pacing'[Len(pacing) + 1].task = t /\ pacing'[Len(pacing) + 1].ws = ws'
<1> DEFINE e == [task |-> t, ws |-> ws']
<1>1. pacing \in Seq(Turn) /\ e \in Turn
  BY DEF TypeOK, Turn
<1>2. Len(pacing) \in Nat /\ \A i \in 1 .. Len(pacing) : pacing[i] \in Turn
  BY <1>1, LenProperties, ElementOfSeq
<1>3. e.task = t /\ e.ws = ws'
  OBVIOUS
<1>4. pacing' = Append(pacing, e)
  BY DEF Queued
<1> HIDE DEF e
<1> QED
  BY <1>1, <1>2, <1>3, <1>4, AppendProperties

\* A turn is added for a task that had none and now has something to send: for
\* a caller one message.
LEMMA QueuedKeeps ==
  ASSUME TypeOK, WaitingOK, LinkOK, NEW t \in Tasks, ws' \in 1 .. MaxSockets, Queued(t),
         ~ Waiting(t), pending'[t] # <<>>, t \in Callers => Len(pending'[t]) = 1,
         \A u \in Tasks : u # t => pending'[u] = pending[u],
         ws <= ws', t # Hook => ws' = ws /\ isOpen' = isOpen,
         isOpen', up' => isOpen', pending[Hook] # <<>> => ws' = ws,
         \A i \in 1 .. Len(pending'[Hook]) : pending'[Hook][i].subscribe
  PROVE  WaitingOK' /\ LinkOK'
<1>1. /\ Len(pacing) \in Nat /\ Len(pacing') = Len(pacing) + 1
      /\ pacing' \in Seq(Turn)
      /\ \A i \in 1 .. Len(pacing) : pacing'[i] = pacing[i] /\ pacing[i] \in Turn
      /\ pacing'[Len(pacing) + 1].task = t /\ pacing'[Len(pacing) + 1].ws = ws'
  BY LastTurn
<1>2. DOMAIN pacing = 1 .. Len(pacing) /\ DOMAIN pacing' = 1 .. Len(pacing')
  BY <1>1, LenProperties DEF TypeOK
<1>3. \A i \in 1 .. Len(pacing) : pacing[i].task # t /\ pacing[i].task \in Tasks
  BY <1>1, <1>2 DEF Waiting, Turn
<1>4. \A i \in 1 .. Len(pacing') : i \in 1 .. Len(pacing) \/ i = Len(pacing) + 1
  BY <1>1
<1>5. ws \in Nat /\ ws' \in Nat /\ ws' # 0
  BY DEF TypeOK
<1>6. WaitingOK'
  <2>1. \A i \in 1 .. Len(pacing') : pending'[pacing'[i].task] # <<>>
    BY <1>1, <1>3, <1>4 DEF WaitingOK
  <2>2. \A i, j \in 1 .. Len(pacing') : pacing'[i].task = pacing'[j].task => i = j
    BY <1>1, <1>3, <1>4 DEF WaitingOK
  <2>3. ASSUME NEW c \in Callers, pending'[c] # <<>>
        PROVE  Waiting(c)' /\ Len(pending'[c]) = 1
    <3>1. CASE c = t
      <4>1. Len(pacing) + 1 \in DOMAIN pacing'
        BY <1>1, <1>2
      <4> QED
        BY <1>1, <3>1, <4>1 DEF Waiting
    <3>2. CASE c # t
      <4>1. pending'[c] = pending[c]
        BY <3>2 DEF Tasks
      <4>2. Waiting(c) /\ Len(pending[c]) = 1
        BY <2>3, <4>1 DEF WaitingOK
      <4>3. PICK i \in 1 .. Len(pacing) : pacing[i].task = c
        BY <1>2, <4>2 DEF Waiting
      <4>4. i \in DOMAIN pacing' /\ pacing'[i].task = c
        BY <1>1, <1>2, <4>3
      <4> QED
        BY <4>1, <4>2, <4>4 DEF Waiting
    <3> QED
      BY <3>1, <3>2
  <2> QED
    BY <2>1, <2>2, <2>3 DEF WaitingOK
<1>7. LinkOK'
  <2>1. ASSUME NEW i \in 1 .. Len(pacing')
        PROVE  pacing'[i].ws <= ws' /\ (pacing'[i].task = Hook => pacing'[i].ws = ws')
    <3>1. CASE i \in 1 .. Len(pacing)
      <4>1. pacing'[i] = pacing[i] /\ pacing[i].ws \in Nat /\ pacing[i].ws <= ws
        BY <1>1, <3>1 DEF Turn, LinkOK
      <4>2. pacing[i].task = Hook => pacing[i].ws = ws /\ ws' = ws
        BY <3>1 DEF LinkOK, WaitingOK
      <4> QED
        BY <1>5, <4>1, <4>2
    <3>2. CASE i = Len(pacing) + 1
      BY <1>1, <1>5, <3>2
    <3> QED
      BY <1>4, <3>1, <3>2
  <2> QED
    BY <1>5, <2>1 DEF LinkOK
<1> QED
  BY <1>6, <1>7

LEMMA ResubscribeKeeps ==
  ASSUME IInv, Resubscribe
  PROVE  IInv'
<1>1. TypeOK /\ WaitingOK /\ LinkOK /\ LastWordOK
  BY DEF IInv
<1>2. /\ pending[Hook] # <<>> /\ ~ Waiting(Hook)
      /\ UNCHANGED <<registry, Link, served, pending, changes, History>>
      /\ registry' = registry /\ served' = served /\ pending' = pending /\ changes' = changes
      /\ cancelled' = cancelled /\ raced' = raced
      /\ ws' = ws /\ up' = up /\ isOpen' = isOpen
  BY DEF Resubscribe, Link, History
<1>3. isOpen /\ ws' \in 1 .. MaxSockets /\ ws <= ws' /\ Hook \in Tasks /\ Hook \notin Callers
  BY <1>1, <1>2 DEF LinkOK, TypeOK, Tasks
<1>4. Queued(Hook)
  BY <1>2 DEF Resubscribe, Queued
<1>5. WaitingOK' /\ LinkOK'
  <2>1. up' => isOpen'
    BY <1>1, <1>2 DEF LinkOK
  <2>2. \A i \in 1 .. Len(pending'[Hook]) : pending'[Hook][i].subscribe
    BY <1>1, <1>2 DEF LinkOK
  <2> QED
    BY <1>1, <1>2, <1>3, <1>4, <2>1, <2>2, QueuedKeeps
<1>6. /\ Len(pacing) \in Nat /\ Len(pacing') = Len(pacing) + 1
      /\ pacing' \in Seq(Turn)
      /\ \A i \in 1 .. Len(pacing) : pacing'[i] = pacing[i]
      /\ pacing'[Len(pacing) + 1].task = Hook
  BY <1>1, <1>3, <1>4, LastTurn
<1>7. TypeOK'
  <2>1. pacing' \in Seq([task : Tasks, ws : 1 .. MaxSockets])
    BY <1>6 DEF Turn
  <2> QED
    BY <1>1, <1>2, <2>1 DEF TypeOK
<1>8. PICK last \in Nat : last = Len(pacing) + 1
  BY <1>6
<1>9. ASSUME NEW k \in Keys, WordOK(k) PROVE WordOK(k)'
  <2>1. \A i \in 1 .. Len(pacing) : About(i, k)' <=> About(i, k)
    BY <1>2, <1>6 DEF About
  <2>2. ~ About(last, k)'
    BY <1>6, <1>8 DEF About
  <2>3. LastWord(k)'
    <3> SUFFICES ASSUME NEW i \in 1 .. Len(pacing'), About(i, k)',
                        \A j \in i + 1 .. Len(pacing') : ~ About(j, k)'
                 PROVE  pending'[pacing'[i].task][1].subscribe <=> k \in registry'
      BY DEF LastWord
    <3>1. i \in 1 .. Len(pacing) /\ About(i, k)
      BY <1>6, <1>8, <2>1, <2>2
    <3>2. \A j \in i + 1 .. Len(pacing) : j \in 1 .. Len(pacing) /\ j \in i + 1 .. Len(pacing')
      BY <1>6, <3>1
    <3>3. \A j \in i + 1 .. Len(pacing) : ~ About(j, k)
      BY <2>1, <3>2
    <3>4. pending[pacing[i].task][1].subscribe <=> k \in registry
      BY <1>9, <3>1, <3>3 DEF WordOK, LastWord
    <3> QED
      BY <1>2, <1>6, <3>1, <3>4
  <2>4. Unspoken(k)' => Unspoken(k)
    BY <1>6, <2>1 DEF Unspoken
  <2>5. Unsent(Hook)' = Unsent(Hook)
    BY <1>2 DEF Unsent
  <2> QED
    BY <1>2, <1>9, <2>3, <2>4, <2>5 DEF WordOK
<1> QED
  BY <1>1, <1>2, <1>5, <1>7, <1>9 DEF IInv, LastWordOK

\* A change that is told: the caller stands in the bucket with its message.
LEMMA ToldKeeps ==
  ASSUME IInv, NEW c \in Callers, NEW message \in AMessage, pending[c] = <<>>, isOpen, Queued(c),
         pending' = [pending EXCEPT ![c] = <<message>>],
         registry' = IF message.subscribe THEN registry \cup message.keys
                                          ELSE registry \ message.keys,
         raced' = IF message.subscribe THEN raced
                                       ELSE raced \cup (message.keys \cap Unsent(Hook)),
         changes' \in 0 .. MaxChanges, UNCHANGED <<Link, served, cancelled>>
  PROVE  IInv'
<1>1. TypeOK /\ WaitingOK /\ LinkOK /\ LastWordOK
  BY DEF IInv
<1>2. /\ served' = served /\ cancelled' = cancelled
      /\ ws' = ws /\ up' = up /\ isOpen' = isOpen
  BY DEF Link
<1>3. /\ pending \in [Tasks -> Seq(AMessage)] /\ pacing \in Seq(Turn)
      /\ c \in Tasks /\ Hook \in Tasks /\ c # Hook /\ ws' \in 1 .. MaxSockets /\ ws <= ws'
  <2>1. pending \in [Tasks -> Seq(AMessage)] /\ pacing \in Seq(Turn)
    BY <1>1 DEF TypeOK, AMessage, Turn
  <2>2. c \in Tasks /\ Hook \in Tasks /\ c # Hook
    BY DEF Tasks
  <2>3. ws' \in 1 .. MaxSockets /\ ws <= ws'
    BY <1>1, <1>2 DEF TypeOK, LinkOK
  <2> QED
    BY <2>1, <2>2, <2>3
<1>4. /\ pending'[c] = <<message>> /\ \A u \in Tasks : u # c => pending'[u] = pending[u]
      /\ pending' \in [Tasks -> Seq(AMessage)]
      /\ <<message>>[1] = message /\ <<message>> # <<>> /\ Len(<<message>>) = 1
  BY <1>3
<1>5. /\ Len(pacing) \in Nat /\ Len(pacing') = Len(pacing) + 1
      /\ pacing' \in Seq(Turn)
      /\ \A i \in 1 .. Len(pacing) : pacing'[i] = pacing[i] /\ pacing[i] \in Turn
      /\ pacing'[Len(pacing) + 1].task = c /\ pacing'[Len(pacing) + 1].ws = ws'
  BY <1>1, <1>3, LastTurn
<1>6. \A i \in 1 .. Len(pacing) : pacing[i].task # c /\ pacing[i].task \in Tasks
  BY <1>1, <1>5 DEF WaitingOK, Turn
<1>7. WaitingOK' /\ LinkOK'
  <2>1. ~ Waiting(c)
    BY <1>3, <1>6, LenProperties DEF Waiting
  <2>2. up' => isOpen'
    BY <1>1, <1>2 DEF LinkOK
  <2>3. \A i \in 1 .. Len(pending'[Hook]) : pending'[Hook][i].subscribe
    BY <1>1, <1>3, <1>4 DEF LinkOK
  <2> QED
    BY <1>1, <1>2, <1>3, <1>4, <2>1, <2>2, <2>3, QueuedKeeps
<1>8. TypeOK'
  <2>1. pacing' \in Seq([task : Tasks, ws : 1 .. MaxSockets])
    BY <1>5 DEF Turn
  <2>2. registry' \subseteq Keys /\ raced' \subseteq Keys
    BY <1>1 DEF TypeOK, AMessage
  <2> QED
    BY <1>1, <1>2, <1>4, <2>1, <2>2 DEF TypeOK, AMessage
<1>9. PICK last \in Nat : last = Len(pacing) + 1 /\ last = Len(pacing')
  BY <1>5
<1>10. ASSUME NEW k \in Keys, WordOK(k) PROVE WordOK(k)'
  <2>1. \A i \in 1 .. Len(pacing) : About(i, k)' <=> About(i, k)
    BY <1>2, <1>4, <1>5, <1>6 DEF About
  <2>2. About(last, k)' <=> k \in message.keys
    BY <1>2, <1>3, <1>4, <1>5, <1>9 DEF About
  <2>3. Unsent(Hook)' = Unsent(Hook)
    BY <1>3, <1>4 DEF Unsent
  <2>4. CASE k \in message.keys
    <3>1. message.subscribe <=> k \in registry'
      BY <2>4
    <3>2. ~ Unspoken(k)'
      BY <1>5, <1>9, <2>2, <2>4 DEF Unspoken
    <3>3. LastWord(k)'
      <4> SUFFICES ASSUME NEW i \in 1 .. Len(pacing'), About(i, k)',
                          \A j \in i + 1 .. Len(pacing') : ~ About(j, k)'
                   PROVE  pending'[pacing'[i].task][1].subscribe <=> k \in registry'
        BY DEF LastWord
      <4>1. i = last
        BY <1>5, <1>9, <2>2, <2>4
      <4> QED
        BY <1>4, <1>5, <1>9, <3>1, <4>1
    <3>4. k \in Unsent(Hook)' => k \in registry' \cup raced'
      BY <1>10, <2>3, <2>4, <3>1 DEF WordOK
    <3> QED
      BY <3>2, <3>3, <3>4 DEF WordOK
  <2>5. CASE k \notin message.keys
    <3>1. (k \in registry' <=> k \in registry) /\ (k \in raced' <=> k \in raced)
      BY <2>5
    <3>2. LastWord(k)'
      <4> SUFFICES ASSUME NEW i \in 1 .. Len(pacing'), About(i, k)',
                          \A j \in i + 1 .. Len(pacing') : ~ About(j, k)'
                   PROVE  pending'[pacing'[i].task][1].subscribe <=> k \in registry'
        BY DEF LastWord
      <4>1. i \in 1 .. Len(pacing) /\ About(i, k)
        BY <1>5, <1>9, <2>1, <2>2, <2>5
      <4>2. \A j \in i + 1 .. Len(pacing) : j \in 1 .. Len(pacing) /\ j \in i + 1 .. Len(pacing')
        BY <1>5, <4>1
      <4>3. \A j \in i + 1 .. Len(pacing) : ~ About(j, k)
        BY <2>1, <4>2
      <4>4. pending[pacing[i].task][1].subscribe <=> k \in registry
        BY <1>10, <4>1, <4>3 DEF WordOK, LastWord
      <4> QED
        BY <1>4, <1>5, <1>6, <3>1, <4>1, <4>4, SMTT(30)
    <3>3. Unspoken(k)' => Unspoken(k)
      BY <1>5, <2>1 DEF Unspoken
    <3> QED
      BY <1>2, <1>10, <2>3, <3>1, <3>2, <3>3 DEF WordOK
  <2> QED
    BY <2>4, <2>5
<1> QED
  BY <1>1, <1>2, <1>7, <1>8, <1>10 DEF IInv, LastWordOK

\* A change while the connection is not open: the hook will say it.
LEMMA UntoldKeeps ==
  ASSUME IInv, ~ isOpen, registry' \subseteq Keys, raced' \subseteq Keys,
         changes' \in 0 .. MaxChanges, UNCHANGED <<Link, served, cancelled, pacing, pending>>
  PROVE  IInv'
<1>1. /\ isOpen' = isOpen /\ ws' = ws /\ up' = up /\ served' = served
      /\ cancelled' = cancelled /\ pacing' = pacing /\ pending' = pending
  BY DEF Link
<1>2. TypeOK'
  BY <1>1 DEF IInv, TypeOK
<1>3. WaitingOK'
  BY <1>1 DEF IInv, WaitingOK, Waiting
<1>4. LinkOK' /\ ~ up'
  BY <1>1 DEF IInv, LinkOK
<1> QED
  BY <1>2, <1>3, <1>4 DEF IInv, LastWordOK

LEMMA SubscribeKeeps ==
  ASSUME IInv, NEW c \in Callers, NEW g \in Groups, NEW keys \in (SUBSET KeysOf[g]) \ {{}},
         Subscribe(c, keys)
  PROVE  IInv'
<1>1. changes' \in 0 .. MaxChanges /\ pending[c] = <<>> /\ registry \subseteq Keys /\ ws' = ws
  BY DEF IInv, TypeOK, Subscribe, Ready, Link
<1>2. keys \in (SUBSET Keys) \ {{}}
  BY DEF Keys
<1> DEFINE message == Message(TRUE, keys)
<1>3. message \in AMessage /\ message.subscribe /\ message.keys = keys
  BY <1>2 DEF Message, AMessage
<1>4. /\ registry' = registry \cup keys /\ Send(c, message) /\ raced' = raced
      /\ UNCHANGED <<Link, served, cancelled>>
  BY DEF Subscribe, History
<1> HIDE DEF message
<1>5. CASE isOpen
  <2>1. Queued(c) /\ pending' = [pending EXCEPT ![c] = <<message>>]
    BY <1>1, <1>4, <1>5 DEF Send, Queued
  <2> QED
    BY <1>1, <1>3, <1>4, <1>5, <2>1, ToldKeeps
<1>6. CASE ~ isOpen
  <2>1. registry' \subseteq Keys /\ raced' \subseteq Keys
    BY <1>1, <1>2, <1>4 DEF IInv, TypeOK
  <2>2. UNCHANGED <<Link, served, cancelled, pacing, pending>>
    BY <1>4, <1>6 DEF Send
  <2> QED
    BY <1>1, <1>6, <2>1, <2>2, UntoldKeeps
<1> QED
  BY <1>5, <1>6

LEMMA UnsubscribeKeeps ==
  ASSUME IInv, NEW c \in Callers, NEW g \in Groups, NEW keys \in (SUBSET KeysOf[g]) \ {{}},
         Unsubscribe(c, keys)
  PROVE  IInv'
<1>1. changes' \in 0 .. MaxChanges /\ pending[c] = <<>> /\ registry \subseteq Keys /\ ws' = ws
  BY DEF IInv, TypeOK, Unsubscribe, Ready, Link
<1>2. keys \in (SUBSET Keys) \ {{}}
  BY DEF Keys
<1> DEFINE message == Message(FALSE, keys)
<1>3. message \in AMessage /\ ~ message.subscribe /\ message.keys = keys
  BY <1>2 DEF Message, AMessage
<1>4. /\ registry' = registry \ keys /\ Send(c, message)
      /\ raced' = raced \cup (keys \cap Unsent(Hook))
      /\ UNCHANGED <<Link, served, cancelled>>
  BY DEF Unsubscribe
<1> HIDE DEF message
<1>5. CASE isOpen
  <2>1. Queued(c) /\ pending' = [pending EXCEPT ![c] = <<message>>]
    BY <1>1, <1>4, <1>5 DEF Send, Queued
  <2> QED
    BY <1>1, <1>3, <1>4, <1>5, <2>1, ToldKeeps
<1>6. CASE ~ isOpen
  <2>1. registry' \subseteq Keys /\ raced' \subseteq Keys
    BY <1>1, <1>2, <1>4 DEF IInv, TypeOK
  <2>2. UNCHANGED <<Link, served, cancelled, pacing, pending>>
    BY <1>4, <1>6 DEF Send
  <2> QED
    BY <1>1, <1>6, <2>1, <2>2, UntoldKeeps
<1> QED
  BY <1>5, <1>6

LEMMA ConnectKeeps ==
  ASSUME IInv, Connect
  PROVE  IInv'
<1>1. TypeOK /\ WaitingOK /\ LinkOK /\ LastWordOK
  BY DEF IInv
<1>2. PICK messages \in SetToSeqs(Replay) :
        /\ pending' = [pending EXCEPT ![Hook] = messages]
        /\ pacing' = IF messages = <<>> THEN pacing ELSE Append(pacing, [task |-> Hook, ws |-> ws'])
  BY DEF Connect
<1>3. /\ ~ isOpen /\ isOpen' /\ up' /\ isOpen' \in BOOLEAN /\ up' \in BOOLEAN
      /\ ws < MaxSockets /\ ws' = ws + 1 /\ served' = {}
      /\ cancelled' = {} /\ raced' = {} /\ registry' = registry /\ changes' = changes
  BY DEF Connect
<1>4. ws \in Nat /\ ws' \in 1 .. MaxSockets /\ ws < ws'
  BY <1>1, <1>3 DEF TypeOK
<1>5. /\ pending \in [Tasks -> Seq(AMessage)] /\ pacing \in Seq(Turn)
      /\ Hook \in Tasks /\ Hook \notin Callers
  BY <1>1 DEF TypeOK, AMessage, Turn, Tasks
<1>6. /\ messages \in Seq(AMessage)
      /\ \A i \in 1 .. Len(messages) : messages[i].subscribe
      /\ KeysIn(messages) = registry
  BY <1>1, <1>2, ReplayTellsAll
<1>7. /\ pending[Hook] = <<>> /\ pending'[Hook] = messages
      /\ \A u \in Tasks : u # Hook => pending'[u] = pending[u]
      /\ pending' \in [Tasks -> Seq(AMessage)]
  BY <1>1, <1>2, <1>3, <1>5, <1>6 DEF LinkOK
<1>8. /\ Len(pacing) \in Nat
      /\ \A i \in 1 .. Len(pacing) : pacing[i] \in Turn /\ pacing[i].ws # ws'
  <2>1. Len(pacing) \in Nat /\ \A i \in 1 .. Len(pacing) : pacing[i] \in Turn
    BY <1>5, LenProperties, ElementOfSeq
  <2>2. \A i \in 1 .. Len(pacing) : pacing[i].ws \in Nat /\ pacing[i].ws <= ws
    BY <1>1, <2>1 DEF LinkOK, Turn
  <2>3. \A i \in 1 .. Len(pacing) : pacing[i].ws # ws'
    BY <1>4, <2>2
  <2> QED
    BY <2>1, <2>3
<1>9. messages # <<>> => Queued(Hook)
  BY <1>2 DEF Queued
<1>10. WaitingOK' /\ LinkOK'
  <2>1. CASE messages = <<>>
    <3>1. pacing' = pacing /\ pending' = pending
      BY <1>2, <1>5, <1>7, <2>1
    <3>2. WaitingOK'
      BY <1>1, <3>1 DEF WaitingOK, Waiting
    <3>3. \A i \in 1 .. Len(pacing) : pacing[i].task # Hook /\ pacing[i].ws <= ws'
      <4>1. \A i \in 1 .. Len(pacing) : pacing[i].task # Hook
        BY <1>1, <1>7 DEF WaitingOK
      <4>2. \A i \in 1 .. Len(pacing) : pacing[i].ws \in Nat /\ pacing[i].ws <= ws
        BY <1>1, <1>8 DEF LinkOK, Turn
      <4> QED
        BY <1>4, <4>1, <4>2
    <3> QED
      BY <1>1, <1>3, <1>4, <3>1, <3>2, <3>3 DEF LinkOK
  <2>2. CASE messages # <<>>
    <3>1. ~ Waiting(Hook)
      BY <1>1, <1>5, <1>7, LenProperties DEF WaitingOK, Waiting
    <3>2. pending'[Hook] # <<>> /\ Queued(Hook) /\ pending[Hook] = <<>>
      BY <1>7, <1>9, <2>2
    <3>3. ws <= ws' /\ isOpen' /\ (up' => isOpen')
      BY <1>3, <1>4
    <3>4. \A i \in 1 .. Len(pending'[Hook]) : pending'[Hook][i].subscribe
      BY <1>6, <1>7
    <3>5. \A u \in Tasks : u # Hook => pending'[u] = pending[u]
      BY <1>7
    <3> QED
      BY <1>1, <1>4, <1>5, <3>1, <3>2, <3>3, <3>4, <3>5, QueuedKeeps
  <2> QED
    BY <2>1, <2>2
<1>11. /\ pacing' \in Seq(Turn)
       /\ \A i \in 1 .. Len(pacing') : pacing'[i].ws = ws' => pacing'[i].task = Hook
  <2>1. CASE messages = <<>>
    <3>1. pacing' = pacing
      BY <1>2, <2>1
    <3> QED
      BY <1>5, <1>8, <3>1
  <2>2. CASE messages # <<>>
    <3>1. /\ Len(pacing') = Len(pacing) + 1 /\ pacing' \in Seq(Turn)
          /\ \A i \in 1 .. Len(pacing) : pacing'[i] = pacing[i]
          /\ pacing'[Len(pacing) + 1].task = Hook
      BY <1>1, <1>4, <1>5, <1>9, <2>2, LastTurn
    <3>2. \A i \in 1 .. Len(pacing') : i \in 1 .. Len(pacing) \/ i = Len(pacing) + 1
      BY <1>8, <3>1
    <3> QED
      BY <1>8, <3>1, <3>2
  <2> QED
    BY <2>1, <2>2
<1>12. TypeOK'
  <2>1. pacing' \in Seq([task : Tasks, ws : 1 .. MaxSockets])
    BY <1>11 DEF Turn
  <2>2. ws' \in 0 .. MaxSockets
    BY <1>4
  <2> QED
    BY <1>1, <1>3, <1>7, <2>1, <2>2 DEF TypeOK, AMessage
<1>13. ASSUME NEW k \in Keys PROVE WordOK(k)'
  <2>1. \A i \in 1 .. Len(pacing') : ~ About(i, k)'
    BY <1>11 DEF About
  <2>2. Unsent(Hook)' = registry
    BY <1>6, <1>7 DEF Unsent, KeysIn
  <2>3. LastWord(k)'
    BY <2>1 DEF LastWord
  <2> QED
    BY <1>3, <2>2, <2>3 DEF WordOK
<1> QED
  BY <1>10, <1>12, <1>13 DEF IInv, LastWordOK

LEMMA LossKeeps ==
  ASSUME IInv, Drop \/ Notice
  PROVE  IInv'
<1>1. TypeOK /\ WaitingOK /\ LinkOK
  BY DEF IInv
<1>2. /\ registry' = registry /\ ws' = ws /\ served' = served /\ pacing' = pacing
      /\ pending' = pending /\ changes' = changes /\ cancelled' = cancelled /\ raced' = raced
  BY DEF Drop, Notice, History
<1>3. up' = FALSE
  <2>1. CASE Drop
    BY <2>1 DEF Drop
  <2>2. CASE Notice
    BY <1>1, <2>2 DEF Notice, TypeOK
  <2> QED
    BY <2>1, <2>2
<1>4. isOpen' = isOpen \/ (isOpen' = FALSE /\ pending[Hook] = <<>>)
  BY DEF Drop, Notice
<1>5. TypeOK'
  BY <1>1, <1>2, <1>3, <1>4 DEF TypeOK
<1>6. WaitingOK'
  BY <1>1, <1>2 DEF WaitingOK, Waiting
<1>7. LinkOK'
  BY <1>1, <1>2, <1>3, <1>4 DEF LinkOK
<1> QED
  BY <1>3, <1>5, <1>6, <1>7 DEF IInv, LastWordOK

-----------------------------------------------------------------------------
\* The theorems.

LEMMA Inductive == Spec => []IInv
<1>1. Init => IInv
  <2> SUFFICES ASSUME Init PROVE IInv
    OBVIOUS
  <2>1. /\ registry \in Presets /\ isOpen = FALSE /\ ws = 0 /\ up = FALSE /\ served = {}
        /\ pacing = <<>> /\ pending = [t \in Tasks |-> <<>>] /\ changes = 0
        /\ cancelled = {} /\ raced = {}
    BY DEF Init
  <2>2. Len(pacing) = 0 /\ \A t \in Tasks : pending[t] = <<>>
    BY <2>1
  <2>3. TypeOK
    <3>1. pacing \in Seq([task : Tasks, ws : 1 .. MaxSockets])
      BY <2>1, EmptySeq
    <3>2. pending \in [Tasks -> Seq([subscribe : BOOLEAN, keys : (SUBSET Keys) \ {{}}])]
      BY <2>1, EmptySeq
    <3>3. registry \subseteq Keys /\ ws \in 0 .. MaxSockets /\ changes \in 0 .. MaxChanges
      BY <2>1
    <3>4. isOpen \in BOOLEAN /\ up \in BOOLEAN
      BY <2>1
    <3>5. served \subseteq Keys /\ cancelled \subseteq Keys /\ raced \subseteq Keys
      BY <2>1
    <3> QED
      BY <3>1, <3>2, <3>3, <3>4, <3>5 DEF TypeOK
  <2>4. WaitingOK
    BY <2>2 DEF WaitingOK, Tasks
  <2>5. LinkOK
    BY <2>1, <2>2 DEF LinkOK, Tasks
  <2> QED
    BY <2>1, <2>3, <2>4, <2>5 DEF IInv, LastWordOK
<1>2. IInv /\ [Next]_vars => IInv'
  <2> SUFFICES ASSUME IInv, [Next]_vars PROVE IInv'
    OBVIOUS
  <2>1. CASE Change
    <3>1. PICK c \in Callers, g \in Groups : \E keys \in (SUBSET KeysOf[g]) \ {{}} :
            Subscribe(c, keys) \/ Unsubscribe(c, keys)
      BY <2>1 DEF Change
    <3>2. PICK keys \in (SUBSET KeysOf[g]) \ {{}} : Subscribe(c, keys) \/ Unsubscribe(c, keys)
      BY <3>1
    <3> QED
      BY <3>2, SubscribeKeeps, UnsubscribeKeeps
  <2>2. CASE Paced
    BY <2>2, PacedKeeps
  <2>3. CASE Resubscribe
    BY <2>3, ResubscribeKeeps
  <2>4. CASE Connect
    BY <2>4, ConnectKeeps
  <2>5. CASE Drop \/ Notice
    BY <2>5, LossKeeps
  <2>6. CASE \E c \in Callers : Cancel(c)
    BY <2>6, CancelKeeps
  <2>7. CASE UNCHANGED vars
    <3>1. /\ registry' = registry /\ isOpen' = isOpen /\ ws' = ws /\ up' = up /\ served' = served
          /\ pacing' = pacing /\ pending' = pending /\ changes' = changes
          /\ cancelled' = cancelled /\ raced' = raced
      BY <2>7 DEF vars
    <3>2. TypeOK' /\ WaitingOK' /\ LinkOK'
      <4>1. TypeOK'
        BY <3>1 DEF IInv, TypeOK
      <4>2. WaitingOK'
        BY <3>1 DEF IInv, WaitingOK, Waiting
      <4>3. LinkOK'
        BY <3>1 DEF IInv, LinkOK
      <4> QED
        BY <4>1, <4>2, <4>3
    <3>3. LastWordOK'
      BY <3>1 DEF IInv, LastWordOK, WordOK, LastWord, Unspoken, About, Unsent
    <3> QED
      BY <3>2, <3>3 DEF IInv
  <2> QED
    BY <2>1, <2>2, <2>3, <2>4, <2>5, <2>6, <2>7 DEF Next
<1> QED
  BY <1>1, <1>2, PTL DEF Spec

\* Type correctness, for any number of callers, sockets and changes.
THEOREM TypeCorrect == Spec => []TypeOK
<1>1. IInv => TypeOK
  BY DEF IInv
<1> QED
  BY <1>1, Inductive, PTL

\* The registry is what the server has: once nothing is on its way on a live
\* socket, the subscriptions the server keeps are those of the registry, save the
\* messages cancelled and the keys unsubscribed before the hook had sent them,
\* whatever sockets were lost and in whatever order messages were sent.
THEOREM RegistryIsServed == Spec => []RegistryServed
<1>1. IInv => RegistryServed
  <2> SUFFICES ASSUME IInv, Quiet
               PROVE  /\ registry \ cancelled \subseteq served
                      /\ served \ (cancelled \cup raced) \subseteq registry
    BY DEF RegistryServed
  <2>1. Hook \in Tasks /\ \A t \in Tasks : pending[t] = <<>>
    BY DEF Quiet, Tasks
  <2>2. Unsent(Hook) = {}
    BY <2>1 DEF Unsent
  <2>3. \A i \in 1 .. Len(pacing) : FALSE
    <3> SUFFICES ASSUME NEW i \in 1 .. Len(pacing) PROVE FALSE
      OBVIOUS
    <3>1. pacing[i] \in Turn
      BY ElementOfSeq DEF IInv, TypeOK, Turn
    <3>2. pending[pacing[i].task] = <<>>
      BY <2>1, <3>1 DEF Turn
    <3> QED
      BY <3>2 DEF IInv, WaitingOK
  <2>4. \A k \in Keys \ cancelled :
          (k \in registry => k \in served) /\ (k \in served => k \in registry \cup raced)
    BY <2>2, <2>3 DEF IInv, LastWordOK, WordOK, Unspoken, Quiet
  <2>5. registry \subseteq Keys /\ served \subseteq Keys
    BY DEF IInv, TypeOK
  <2> QED
    BY <2>4, <2>5
<1> QED
  BY <1>1, Inductive, PTL

=============================================================================
