-------------------------- MODULE AccessTokensProofs --------------------------
(***************************************************************************)
(* Proofs about AccessTokens, for any refresh tokens, scopes and lives,    *)
(* and any number of callers, minted tokens and ticks.                     *)
(***************************************************************************)
EXTENDS AccessTokens, SequenceTheorems, TLAPS

USE TokensAssumption

-----------------------------------------------------------------------------
\* The inductive invariant, in parts.

\* The calls that may wait at the lock: only a token there has been is refused.
Calls == {c \in Call : c.scope = "none" => c.token \in 1 .. minted}

\* Where the holder of a get is from its first candidate on.
Getting == {"reading", "exchanging", "storing", "dropping", "reporting"}

\* The types of what is kept.
DataOK ==
    /\ now \in Nat /\ minted \in 0 .. MaxMint
    /\ file \in [Refresh -> Access]
    /\ readable \in BOOLEAN /\ writable \in BOOLEAN
    /\ memory \in [Refresh -> Access]
    /\ hot \in [Scope -> [from : Refresh \cup {None}, token : Access]]
    /\ \A s \in Scope : hot[s].from \in Granting(s) \cup {None}
    /\ \A s \in Scope : hot[s].from = None => hot[s].token.n = 0
    /\ late \subseteq [Refresh -> Access]
    /\ resolved \in BOOLEAN
    /\ rejected \subseteq Refresh
    /\ dropped \subseteq 1 .. minted

Tasks ==
    [at : Places, asof : Nat, left : SUBSET Refresh,
     trying : Refresh \cup {None}, scopes : SUBSET Scope]

\* Nobody is anywhere but at the lock without holding it.
LockOK ==
    /\ queue \in Seq(Calls)
    /\ task \in Tasks
    /\ queue = <<>> => task = Idle

\* The holder of a get asks the source for, then tries, a candidate that grants
\* its scope, that of an invalidate the refresh token of the scopes that the
\* refused token serves.
HolderOK ==
    /\ task.at = "resolving" => Holder.scope \in Scope /\ task.asof <= now
    /\ task.at \in Getting =>
        /\ Holder.scope \in Scope
        /\ task.left \subseteq Granting(Holder.scope)
        /\ task.trying \in task.left
        /\ task.asof <= now
    /\ task.at = "expiring" =>
        /\ Holder.scope = "none"
        /\ task.trying \in Refresh
        /\ \A s \in task.scopes : hot[s].token.n = Holder.token

TypeInv == DataOK /\ LockOK /\ HolderOK

\* Access token n is kept somewhere as one of refresh token r.
Kept(n, r) ==
    /\ n # 0
    /\ \/ file[r].n = n
       \/ memory[r].n = n
       \/ \E c \in late : c[r].n = n
       \/ \E s \in Scope : hot[s].from = r /\ hot[s].token.n = n

\* An access token was minted, and from one refresh token only.
OneOrigin ==
    /\ \A n \in 0 .. MaxMint, r \in Refresh : Kept(n, r) => n <= minted
    /\ \A n \in 0 .. MaxMint, r, q \in Refresh : Kept(n, r) /\ Kept(n, q) => r = q

\* While a refused token is expired scope by scope it is not in memory, and no
\* scope that is done serves it.
ExpiringOK ==
    task.at = "expiring" =>
        /\ memory[task.trying] = NoAccess
        /\ \A s \in Scope : hot[s].token.n = Holder.token => s \in task.scopes \/ hot[s].token.exp = 0

\* The candidates that are left are those not rejected or expired, but for the
\* one just rejected, and the one tried is the best of them.
CandidatesOK ==
    /\ task.at = "resolving" => ~ Valid(hot[Holder.scope].token, task.asof)
    /\ task.at \in Getting =>
        /\ task.at \in {"reading", "exchanging", "storing"} => task.left \cap rejected = {}
        /\ task.at \in {"dropping", "reporting"} => task.trying \in rejected
        /\ task.left \cap rejected \subseteq {task.trying}
        /\ \A q \in Granting(Holder.scope) :
               q \in task.left \/ q \in rejected \/ Expired(q, task.asof)
        /\ \A q \in task.left : ~ Better(q, task.trying)
        /\ ~ Valid(hot[Holder.scope].token, task.asof)

IInv ==
    /\ TypeInv /\ OneOrigin /\ ExpiringOK /\ CandidatesOK
    /\ LeastPrivilege /\ InvalidatedStaysDropped

-----------------------------------------------------------------------------
\* The queue at the lock.

\* A call that comes is last; the holder stays first.
LEMMA QueueGrows ==
  ASSUME LockOK, NEW c \in Calls
  PROVE  /\ Append(queue, c) \in Seq(Calls)
         /\ Append(queue, c) # <<>>
         /\ queue # <<>> => Head(Append(queue, c)) = Head(queue)
BY AppendProperties, HeadTailAppend DEF LockOK

\* A waiter that goes leaves the holder first.
LEMMA QueueWithout ==
  ASSUME LockOK, NEW i \in DOMAIN queue, i > 1
  PROVE  /\ RemoveAt(queue, i) \in Seq(Calls)
         /\ RemoveAt(queue, i) # <<>>
         /\ Head(RemoveAt(queue, i)) = Head(queue)
<1> DEFINE before == SubSeq(queue, 1, i - 1)
           after  == SubSeq(queue, i + 1, Len(queue))
<1>1. queue \in Seq(Calls) /\ Len(queue) \in Nat /\ i \in 2 .. Len(queue)
  BY LenProperties DEF LockOK
<1>2. \A j \in 1 .. Len(queue) : queue[j] \in Calls
  BY <1>1, ElementOfSeq
<1>3. before \in Seq(Calls) /\ Len(before) = i - 1 /\ before[1] = queue[1]
  BY <1>1, <1>2, SubSeqProperties
<1>4. after \in Seq(Calls)
  BY <1>1, <1>2, SubSeqProperties
<1> HIDE DEF before, after
<1>5. before \o after \in Seq(Calls) /\ (before \o after)[1] = before[1] /\ Len(before \o after) >= 1
  BY <1>1, <1>3, <1>4, ConcatProperties, LenProperties
<1>6. before \o after # <<>>
  BY <1>5, EmptySeq
<1>7. Head(before \o after) = (before \o after)[1] /\ Head(queue) = queue[1]
  BY <1>1, <1>5
<1> QED
  BY <1>3, <1>5, <1>6, <1>7 DEF RemoveAt, before, after

\* The call at the head, and what is left when it goes.
LEMMA HolderCall ==
  ASSUME LockOK, queue # <<>>
  PROVE  Holder \in Calls /\ Tail(queue) \in Seq(Calls)
BY HeadTailProperties DEF LockOK, Holder

\* The calls stay calls when more tokens are minted.
LEMMA MoreCalls ==
  ASSUME DataOK, LockOK, minted' = minted + 1
  PROVE  queue \in Seq(Calls')
<1>1. Calls \subseteq Calls'
  BY DEF Calls, Call, DataOK
<1> QED
  BY <1>1, SeqMonotonic DEF LockOK

-----------------------------------------------------------------------------
\* The file.

\* A write replaces an entry by the new one or by nothing, and one that fails
\* is the last.
LEMMA WrittenFile ==
  ASSUME DataOK, NEW entries \in [Refresh -> Access], Written(entries)
  PROVE  /\ file' \in [Refresh -> Access]
         /\ writable' \in BOOLEAN /\ (writable' => writable)
         /\ \A r \in Refresh : file'[r] \in {file[r], entries[r], NoAccess}
         /\ writable' /\ readable => \A r \in Refresh : file'[r] \in {entries[r], NoAccess}
<1>1. NoAccess \in Access
  BY DEF NoAccess, Access
<1>2. CASE readable /\ writable /\ Write(entries) /\ UNCHANGED writable
  BY <1>1, <1>2 DEF Write, Unexpired, DataOK
<1>3. CASE WriteFails
  BY <1>3 DEF WriteFails, DataOK
<1>4. CASE ~ (readable /\ writable) /\ UNCHANGED <<file, writable>>
  BY <1>4 DEF DataOK
<1> QED
  BY <1>2, <1>3, <1>4 DEF Written

\* A deletion takes the entry out unless the file is not written any more.
LEMMA DeletedFile ==
  ASSUME DataOK, NEW r \in Refresh, Deleted(r)
  PROVE  /\ file' \in [Refresh -> Access]
         /\ writable' \in BOOLEAN /\ (writable' => writable)
         /\ \A q \in Refresh : file'[q] \in {file[q], NoAccess}
         /\ writable' /\ readable => file'[r] = NoAccess
<1>1. CASE file[r] # NoAccess /\ Written([file EXCEPT ![r] = NoAccess])
  <2> DEFINE entries == [file EXCEPT ![r] = NoAccess]
  <2>1. /\ entries \in [Refresh -> Access] /\ entries[r] = NoAccess
        /\ \A q \in Refresh : entries[q] \in {file[q], NoAccess}
    BY DEF DataOK, NoAccess, Access
  <2> HIDE DEF entries
  <2>2. Written(entries)
    BY <1>1 DEF entries
  <2> QED
    BY <2>1, <2>2, WrittenFile
<1>2. CASE file[r] = NoAccess /\ UNCHANGED <<file, writable>>
  BY <1>2 DEF DataOK
<1>3. CASE WriteFails
  BY <1>3 DEF WriteFails, DataOK
<1> QED
  BY <1>1, <1>2, <1>3 DEF Deleted


-----------------------------------------------------------------------------
\* The types.

\* The parts have the types.
LEMMA Typed == TypeInv => TypeOK
<1> SUFFICES ASSUME TypeInv PROVE TypeOK
  OBVIOUS
<1>1. Calls \subseteq Call
  BY DEF Calls
<1>2. queue \in Seq(Call)
  BY <1>1, SeqMonotonic DEF TypeInv, LockOK
<1> QED
  BY <1>2 DEF TypeInv, DataOK, LockOK, TypeOK, Tasks

LEMMA IdleTyped == Idle \in Tasks /\ Idle.at = "entering"
BY DEF Idle, Tasks, Places

LEMMA NothingTyped == NoAccess \in Access
BY DEF NoAccess, Access

LEMMA ForgetTyped ==
  ASSUME DataOK, NEW r, Forget(r)
  PROVE  /\ memory' \in [Refresh -> Access]
         /\ \A q \in Refresh : memory'[q] = IF q = r THEN NoAccess ELSE memory[q]
<1>1. memory \in [Refresh -> Access]
  BY DEF DataOK
<1> QED
  BY <1>1, NothingTyped DEF Forget

\* Whoever leaves gives the lock to the next.
LEMMA LeaveTyped ==
  ASSUME TypeInv, queue # <<>>, Leave, UNCHANGED minted
  PROVE  LockOK' /\ task' = Idle
<1>1. Calls' = Calls
  BY DEF Calls, Call
<1>2. Tail(queue) \in Seq(Calls)
  BY HolderCall DEF TypeInv
<1> QED
  BY <1>1, <1>2, IdleTyped DEF Leave, LockOK

\* The next turn of the loop leaves, or tries the best of what is left.
LEMMA TryNextTyped ==
  ASSUME TypeInv, queue # <<>>, NEW asof \in Nat, NEW left \in SUBSET Refresh,
         TryNext(asof, left), UNCHANGED minted
  PROVE  /\ LockOK'
         /\ \/ task' = Idle
            \/ /\ queue' = queue
               /\ task'.at = "reading" /\ task'.asof = asof /\ task'.left = left
               /\ task'.trying \in left
               /\ \A q \in left : ~ Better(q, task'.trying)
<1>1. CASE Leave
  BY <1>1, LeaveTyped
<1>2. ASSUME NEW r \in left, ~ \E q \in left : Better(q, r),
             task' = [Idle EXCEPT !.at = "reading", !.asof = asof, !.left = left, !.trying = r],
             UNCHANGED queue
      PROVE  /\ LockOK' /\ queue' = queue
             /\ task'.at = "reading" /\ task'.asof = asof /\ task'.left = left
             /\ task'.trying = r
  <2>1. Calls' = Calls
    BY DEF Calls, Call
  <2>2. queue \in Seq(Calls)
    BY DEF TypeInv, LockOK
  <2>3. task' = [at |-> "reading", asof |-> asof, left |-> left, trying |-> r, scopes |-> {}]
    BY <1>2 DEF Idle
  <2>4. task' \in Tasks
    BY <2>3 DEF Tasks, Places
  <2> QED
    BY <1>2, <2>1, <2>2, <2>3, <2>4 DEF LockOK
<1> QED
  BY <1>1, <1>2, ZenonT(60) DEF TryNext

\* So does the loop of invalidate, with a scope that the token serves.
LEMMA ExpireNextTyped ==
  ASSUME TypeInv, queue # <<>>, NEW scopes \in SUBSET Scope, ExpireNext(scopes),
         UNCHANGED minted
  PROVE  /\ LockOK'
         /\ memory' \in [Refresh -> Access]
         /\ \/ task' = Idle /\ scopes = {} /\ memory' = memory
            \/ /\ queue' = queue
               /\ task'.at = "expiring" /\ task'.scopes = scopes
               /\ \E s \in scopes : task'.trying = hot[s].from /\ Forget(hot[s].from)
<1>1. CASE scopes = {} /\ Leave /\ UNCHANGED memory
  BY <1>1, LeaveTyped DEF TypeInv, DataOK
<1>2. ASSUME NEW s \in scopes, Forget(hot[s].from), UNCHANGED queue,
             task' = [Idle EXCEPT !.at = "expiring", !.trying = hot[s].from, !.scopes = scopes]
      PROVE  /\ LockOK' /\ queue' = queue
             /\ memory' \in [Refresh -> Access]
             /\ task'.at = "expiring" /\ task'.scopes = scopes /\ task'.trying = hot[s].from
  <2>1. Calls' = Calls
    BY DEF Calls, Call
  <2>2. queue \in Seq(Calls)
    BY DEF TypeInv, LockOK
  <2>3. task' = [at |-> "expiring", asof |-> 0, left |-> {}, trying |-> hot[s].from, scopes |-> scopes]
    BY <1>2 DEF Idle
  <2>4. task' \in Tasks
    BY <2>3 DEF TypeInv, DataOK, Tasks, Places
  <2>5. memory' \in [Refresh -> Access]
    BY <1>2, ForgetTyped DEF TypeInv
  <2> QED
    BY <1>2, <2>1, <2>2, <2>3, <2>4, <2>5 DEF LockOK
<1> QED
  BY <1>1, <1>2 DEF ExpireNext


\* Another caller comes, or gives up waiting.
LEMMA QueueTyped ==
  ASSUME TypeInv,
         \/ \E s \in Scope : Get(s)
         \/ \E n \in 1 .. minted : Invalidate(n)
         \/ \E i \in DOMAIN queue : CancelWaiter(i)
  PROVE  /\ LockOK'
         /\ queue # <<>> => Holder' = Holder
         /\ UNCHANGED <<now, minted, file, Usability, memory, late, hot, resolved, rejected, task, dropped>>
<1>1. ASSUME NEW s \in Scope, Get(s)
      PROVE  \E c \in Calls : queue' = Append(queue, c)
  <2>1. [scope |-> s, token |-> 0] \in Calls
    BY DEF Calls, Call, TypeInv, DataOK, Scope
  <2> QED
    BY <1>1, <2>1 DEF Get
<1>2. ASSUME NEW n \in 1 .. minted, Invalidate(n)
      PROVE  \E c \in Calls : queue' = Append(queue, c)
  <2>1. [scope |-> "none", token |-> n] \in Calls
    BY DEF Calls, Call, TypeInv, DataOK
  <2> QED
    BY <1>2, <2>1 DEF Invalidate
<1>3. UNCHANGED <<now, minted, file, Usability, memory, late, hot, resolved, rejected, task, dropped>>
  BY DEF Get, Invalidate, CancelWaiter, Usability
<1>4. Calls' = Calls
  BY <1>3 DEF Calls, Call
<1>5. CASE \E c \in Calls : queue' = Append(queue, c)
  BY <1>3, <1>4, <1>5, QueueGrows DEF LockOK, TypeInv, Holder
<1>6. ASSUME NEW i \in DOMAIN queue, CancelWaiter(i)
      PROVE  LockOK' /\ (queue # <<>> => Holder' = Holder)
  BY <1>3, <1>4, <1>6, QueueWithout DEF LockOK, TypeInv, Holder, CancelWaiter
<1> QED
  BY <1>1, <1>2, <1>3, <1>5, <1>6


\* A step of the holder past the taking of the lock, in which nobody comes or
\* goes, keeps the lock's types when its own are kept.
LEMMA HolderStays ==
  ASSUME TypeInv, minted' \in {minted, minted + 1}, UNCHANGED queue,
         queue # <<>>, task' \in Tasks
  PROVE  LockOK'
<1>1. CASE minted' = minted
  BY <1>1 DEF TypeInv, LockOK, Calls, Call
<1>2. CASE minted' = minted + 1
  BY <1>2, MoreCalls DEF TypeInv, LockOK
<1> QED
  BY <1>1, <1>2

\* The first token of a scope, and the next.
LEMMA AdoptTyped ==
  ASSUME TypeInv, queue # <<>>, task.at \in Getting, NEW a \in Access, Adopt(a),
         UNCHANGED minted
  PROVE  /\ LockOK' /\ task' = Idle
         /\ hot' \in [Scope -> [from : Refresh \cup {None}, token : Access]]
         /\ hot'[Holder.scope] = [from |-> task.trying, token |-> a]
         /\ \A s \in Scope \ {Holder.scope} : hot'[s] = hot[s]
         /\ task.trying \in Granting(Holder.scope)
<1>1. task.trying \in Granting(Holder.scope) /\ Holder.scope \in Scope /\ task.trying \in Refresh
  BY DEF TypeInv, HolderOK, Granting
<1>2. LockOK' /\ task' = Idle
  BY LeaveTyped DEF Adopt
<1>3. hot \in [Scope -> [from : Refresh \cup {None}, token : Access]]
  BY DEF TypeInv, DataOK
<1>4. hot' = [hot EXCEPT ![Holder.scope] = [from |-> task.trying, token |-> a]]
  BY DEF Adopt
<1> HIDE DEF Holder
<1> QED
  BY <1>1, <1>2, <1>3, <1>4

\* Which is of its kind.
LEMMA AdoptData ==
  ASSUME TypeInv, NEW a, NEW c \in Refresh,
         hot' \in [Scope -> [from : Refresh \cup {None}, token : Access]],
         hot'[Holder.scope] = [from |-> c, token |-> a],
         \A s \in Scope \ {Holder.scope} : hot'[s] = hot[s],
         c \in Granting(Holder.scope),
         file' \in [Refresh -> Access], readable' \in BOOLEAN, writable' \in BOOLEAN,
         UNCHANGED <<now, minted, memory, late, resolved, rejected, dropped>>
  PROVE  DataOK'
<1>1. ASSUME NEW s \in Scope
      PROVE  hot'[s].from \in Granting(s) \cup {None} /\ (hot'[s].from = None => hot'[s].token.n = 0)
  <2>1. CASE s = Holder.scope
    BY <2>1
  <2>2. CASE s # Holder.scope
    BY <2>2 DEF TypeInv, DataOK
  <2> QED
    BY <2>1, <2>2
<1> QED
  BY <1>1 DEF TypeInv, DataOK, Granting

\* What a token that is read from the cache is.
LEMMA CachedTyped ==
  ASSUME DataOK, NEW r \in Refresh
  PROVE  memory[r] \in Access /\ file[r] \in Access /\ NoAccess \in Access
BY NothingTyped DEF DataOK

LEMMA ReadCacheTyped ==
  ASSUME TypeInv, ReadCache
  PROVE  TypeInv'
<1> DEFINE a == IF memory[task.trying] # NoAccess THEN memory[task.trying]
                ELSE IF readable' THEN file[task.trying] ELSE NoAccess
<1>1. queue # <<>> /\ task.at = "reading" /\ task.at \in Getting /\ task.trying \in Refresh
  BY DEF ReadCache, At, TypeInv, HolderOK, Getting, Granting
<1>2. a \in Access
  BY <1>1, CachedTyped DEF TypeInv
<1>3. /\ readable' \in BOOLEAN
      /\ UNCHANGED <<now, minted, file, writable, memory, late, resolved, rejected, dropped>>
  BY DEF ReadCache, TypeInv, DataOK
<1>4. CASE Adopt(a)
  <2> HIDE DEF a
  <2>1. LockOK' /\ task' = Idle /\ hot' \in [Scope -> [from : Refresh \cup {None}, token : Access]]
        /\ hot'[Holder.scope] = [from |-> task.trying, token |-> a]
        /\ (\A s \in Scope \ {Holder.scope} : hot'[s] = hot[s])
        /\ task.trying \in Granting(Holder.scope)
    BY <1>1, <1>2, <1>3, <1>4, AdoptTyped
  <2>2. DataOK'
    <3>1. file' \in [Refresh -> Access] /\ writable' \in BOOLEAN
      BY <1>3 DEF TypeInv, DataOK
    <3> QED
      BY <1>1, <1>3, <2>1, <3>1, AdoptData
  <2> QED
    BY <2>1, <2>2, IdleTyped DEF TypeInv, HolderOK, Getting
<1>5. CASE task' = [task EXCEPT !.at = "exchanging"] /\ UNCHANGED <<queue, hot>>
  <2>1. task' \in Tasks
    BY <1>5 DEF TypeInv, LockOK, Tasks, Places
  <2>2. LockOK'
    BY <1>1, <1>3, <1>5, <2>1, HolderStays
  <2>3. DataOK'
    BY <1>3, <1>5 DEF TypeInv, DataOK, Granting
  <2>4. /\ task'.at = "exchanging" /\ task'.left = task.left /\ task'.trying = task.trying
        /\ task'.asof = task.asof
    BY <1>5 DEF TypeInv, LockOK, Tasks
  <2> QED
    BY <1>1, <1>3, <1>5, <2>2, <2>3, <2>4 DEF TypeInv, HolderOK, Getting, Holder, Granting
<1> QED
  BY <1>4, <1>5 DEF ReadCache


LEMMA MintTyped ==
  ASSUME TypeInv, Mint
  PROVE  TypeInv'
<1>1. queue # <<>> /\ task.at = "exchanging" /\ task.at \in Getting
  BY DEF Mint, At, Getting
<1>2. minted' = minted + 1 /\ minted' \in 0 .. MaxMint
      /\ UNCHANGED <<now, file, Usability, late, hot, resolved, rejected, queue, dropped>>
  BY DEF Mint, TypeInv, DataOK
<1>3. task' = [task EXCEPT !.at = "storing"]
  BY DEF Mint
<1>4. /\ task' \in Tasks /\ task'.at = "storing" /\ task'.left = task.left
      /\ task'.trying = task.trying /\ task'.asof = task.asof
  BY <1>3 DEF TypeInv, LockOK, Tasks, Places
<1>5. LockOK'
  BY <1>1, <1>2, <1>4, HolderStays
<1>6. [n |-> minted', exp |-> task.asof + Life] \in Access
  BY <1>2 DEF Access, TypeInv, LockOK, Tasks
<1>7. DataOK'
  <2>1. memory' \in [Refresh -> Access]
    BY <1>6 DEF Mint, TypeInv, DataOK
  <2>2. dropped' \subseteq 1 .. minted'
    BY <1>2 DEF TypeInv, DataOK
  <2> QED
    BY <1>2, <2>1, <2>2 DEF TypeInv, DataOK, Usability, Granting
<1> QED
  BY <1>1, <1>2, <1>4, <1>5, <1>7 DEF TypeInv, HolderOK, Getting, Holder, Granting

LEMMA StoredTyped ==
  ASSUME TypeInv, Stored
  PROVE  TypeInv'
<1> DEFINE r == task.trying
<1>1. queue # <<>> /\ task.at = "storing" /\ task.at \in Getting /\ r \in Refresh
  BY DEF Stored, At, TypeInv, HolderOK, Getting, Granting
<1>2. memory[r] \in Access /\ [file EXCEPT ![r] = memory[r]] \in [Refresh -> Access]
  BY <1>1 DEF TypeInv, DataOK
<1>3. file' \in [Refresh -> Access] /\ writable' \in BOOLEAN
  BY <1>2, WrittenFile DEF Stored, TypeInv
<1>4. readable' \in BOOLEAN /\ UNCHANGED <<now, minted, readable, memory, late, resolved, rejected, dropped>>
  BY DEF Stored, TypeInv, DataOK
<1>5. Adopt(memory[r])
  BY DEF Stored
<1> HIDE DEF r
<1>6. LockOK' /\ task' = Idle /\ hot' \in [Scope -> [from : Refresh \cup {None}, token : Access]]
      /\ hot'[Holder.scope] = [from |-> task.trying, token |-> memory[r]]
      /\ (\A s \in Scope \ {Holder.scope} : hot'[s] = hot[s])
      /\ task.trying \in Granting(Holder.scope)
  BY <1>1, <1>2, <1>4, <1>5, AdoptTyped
<1>7. DataOK'
  BY <1>1, <1>3, <1>4, <1>6, AdoptData DEF r
<1> QED
  BY <1>6, <1>7, IdleTyped DEF TypeInv, HolderOK, Getting

LEMMA RejectTyped ==
  ASSUME TypeInv, Reject
  PROVE  TypeInv'
<1>1. queue # <<>> /\ task.at = "exchanging" /\ task.at \in Getting /\ task.trying \in Refresh
  BY DEF Reject, At, TypeInv, HolderOK, Getting, Granting
<1>2. task' = [task EXCEPT !.at = "dropping"] /\ rejected' = rejected \cup {task.trying}
      /\ UNCHANGED <<now, minted, file, Usability, late, hot, resolved, queue, dropped>>
  BY DEF Reject
<1>3. /\ task' \in Tasks /\ task'.at = "dropping" /\ task'.left = task.left
      /\ task'.trying = task.trying /\ task'.asof = task.asof
  BY <1>2 DEF TypeInv, LockOK, Tasks, Places
<1>4. LockOK'
  BY <1>1, <1>2, <1>3, HolderStays
<1>5. DataOK'
  BY <1>1, <1>2, ForgetTyped DEF Reject, TypeInv, DataOK, Usability, Granting
<1> QED
  BY <1>1, <1>2, <1>3, <1>4, <1>5 DEF TypeInv, HolderOK, Getting, Holder, Granting

LEMMA DroppedTyped ==
  ASSUME TypeInv, Dropped
  PROVE  TypeInv'
<1>1. queue # <<>> /\ task.at = "dropping" /\ task.at \in Getting /\ task.trying \in Refresh
  BY DEF Dropped, At, TypeInv, HolderOK, Getting, Granting
<1>2. task' = [task EXCEPT !.at = "reporting"]
      /\ UNCHANGED <<now, minted, readable, memory, late, hot, resolved, rejected, queue, dropped>>
  BY DEF Dropped
<1>3. /\ task' \in Tasks /\ task'.at = "reporting" /\ task'.left = task.left
      /\ task'.trying = task.trying /\ task'.asof = task.asof
  BY <1>2 DEF TypeInv, LockOK, Tasks, Places
<1>4. LockOK'
  BY <1>1, <1>2, <1>3, HolderStays
<1>5. DataOK'
  BY <1>1, <1>2, DeletedFile DEF Dropped, TypeInv, DataOK, Granting
<1> QED
  BY <1>1, <1>2, <1>3, <1>4, <1>5 DEF TypeInv, HolderOK, Getting, Holder, Granting

\* A turn of the loop over the candidates changes nothing else.
LEMMA LoopTyped ==
  ASSUME TypeInv, queue # <<>>, Holder.scope \in Scope,
         NEW asof \in Nat, asof <= now, NEW left \in SUBSET Granting(Holder.scope),
         TryNext(asof, left), resolved' \in BOOLEAN,
         UNCHANGED <<now, minted, file, Usability, memory, late, hot, rejected, dropped>>
  PROVE  TypeInv'
<1>1. left \in SUBSET Refresh
  BY DEF Granting
<1>2. /\ LockOK'
      /\ \/ task' = Idle
         \/ /\ queue' = queue
            /\ task'.at = "reading" /\ task'.asof = asof /\ task'.left = left
            /\ task'.trying \in left
  BY <1>1, TryNextTyped
<1>3. DataOK'
  BY DEF TypeInv, DataOK, Usability, Granting
<1> QED
  BY <1>2, <1>3, IdleTyped DEF TypeInv, HolderOK, Getting, Holder, Granting


\* A hot token that expires keeps its number and where it is from.
LEMMA HotExpires ==
  ASSUME NEW s \in Scope, hot \in [Scope -> [from : Refresh \cup {None}, token : Access]],
         hot' = [hot EXCEPT ![s].token.exp = 0]
  PROVE  /\ hot' \in [Scope -> [from : Refresh \cup {None}, token : Access]]
         /\ \A t \in Scope : hot'[t].from = hot[t].from /\ hot'[t].token.n = hot[t].token.n
         /\ hot'[s].token.exp = 0
         /\ \A t \in Scope \ {s} : hot'[t] = hot[t]
<1>1. hot[s] \in [from : Refresh \cup {None}, token : Access] /\ hot[s].token \in Access
  OBVIOUS
<1>2. [hot[s].token EXCEPT !.exp = 0] = [n |-> hot[s].token.n, exp |-> 0]
  BY <1>1 DEF Access
<1>3. hot' = [hot EXCEPT ![s] = [from |-> hot[s].from, token |-> [n |-> hot[s].token.n, exp |-> 0]]]
  <2>1. [hot[s] EXCEPT !.token = [hot[s].token EXCEPT !.exp = 0]]
          = [from |-> hot[s].from, token |-> [n |-> hot[s].token.n, exp |-> 0]]
    BY <1>1, <1>2
  <2>2. hot' = [hot EXCEPT ![s] = [hot[s] EXCEPT !.token = [hot[s].token EXCEPT !.exp = 0]]]
    OBVIOUS
  <2> QED
    BY <2>1, <2>2
<1>4. [from |-> hot[s].from, token |-> [n |-> hot[s].token.n, exp |-> 0]]
        \in [from : Refresh \cup {None}, token : Access]
  BY <1>1 DEF Access
<1> QED
  BY <1>3, <1>4

\* Every step of the lock's holder keeps the types.
LEMMA HolderTyped ==
  ASSUME TypeInv, HolderStep
  PROVE  TypeInv'
<1>1. CASE EnterGet
  <2>1. queue # <<>> /\ Holder.scope \in Scope /\ now \in Nat
        /\ UNCHANGED <<now, minted, file, Usability, memory, late, hot, resolved, rejected, dropped>>
    <3>1. queue # <<>> /\ Holder.scope # "none"
      BY <1>1 DEF EnterGet, At
    <3>2. Holder \in Calls
      BY <3>1, HolderCall DEF TypeInv
    <3> QED
      BY <1>1, <3>1, <3>2 DEF EnterGet, Calls, Call, TypeInv, DataOK
  <2>2. CASE Leave
    <3>1. LockOK' /\ task' = Idle
      BY <2>1, <2>2, LeaveTyped
    <3>2. DataOK'
      BY <2>1 DEF TypeInv, DataOK, Usability, Granting
    <3> QED
      BY <3>1, <3>2, IdleTyped DEF TypeInv, HolderOK, Getting
  <2>3. CASE TryNext(now, Usable(Holder.scope, now))
    <3>1. Usable(Holder.scope, now) \in SUBSET Granting(Holder.scope) /\ resolved' \in BOOLEAN
      BY <2>1 DEF Usable, TypeInv, DataOK
    <3> QED
      BY <2>1, <2>3, <3>1, LoopTyped
  <2>4. CASE task' = [Idle EXCEPT !.at = "resolving", !.asof = now] /\ UNCHANGED queue
    <3>1. task' = [at |-> "resolving", asof |-> now, left |-> {}, trying |-> None, scopes |-> {}]
      BY <2>4 DEF Idle
    <3>2. task' \in Tasks /\ task'.at = "resolving" /\ task'.asof = now
      BY <2>1, <3>1 DEF Tasks, Places
    <3>3. LockOK'
      BY <2>1, <2>4, <3>2, HolderStays
    <3>4. DataOK'
      BY <2>1 DEF TypeInv, DataOK, Usability, Granting
    <3> QED
      BY <2>1, <2>4, <3>2, <3>3, <3>4 DEF TypeInv, HolderOK, Getting, Holder
  <2> QED
    BY <1>1, <2>2, <2>3, <2>4 DEF EnterGet
<1>6. CASE Resolve
  <2>1. /\ queue # <<>> /\ task.at = "resolving" /\ resolved' \in BOOLEAN
        /\ UNCHANGED <<now, minted, file, Usability, memory, late, hot, rejected, dropped>>
    BY <1>6 DEF Resolve, At, TypeInv, DataOK
  <2>2. CASE Leave
    <3>1. LockOK' /\ task' = Idle
      BY <2>1, <2>2, LeaveTyped
    <3>2. DataOK'
      BY <2>1 DEF TypeInv, DataOK, Usability, Granting
    <3> QED
      BY <3>1, <3>2, IdleTyped DEF TypeInv, HolderOK, Getting
  <2>3. CASE TryNext(task.asof, Usable(Holder.scope, task.asof))
    <3>1. /\ Holder.scope \in Scope /\ task.asof \in Nat /\ task.asof <= now
          /\ Usable(Holder.scope, task.asof) \in SUBSET Granting(Holder.scope)
      BY <2>1 DEF TypeInv, HolderOK, LockOK, Tasks, Usable
    <3> QED
      BY <2>1, <2>3, <3>1, LoopTyped
  <2> QED
    BY <1>6, <2>2, <2>3 DEF Resolve
<1>2. CASE Fail
  <2>1. LockOK' /\ task' = Idle
    BY <1>2, LeaveTyped DEF Fail, At
  <2>2. DataOK'
    BY <1>2 DEF Fail, TypeInv, DataOK, Usability, Granting
  <2> QED
    BY <2>1, <2>2, IdleTyped DEF TypeInv, HolderOK, Getting
<1>3. CASE Reported
  <2>1. /\ queue # <<>> /\ task.at \in Getting
        /\ UNCHANGED <<now, minted, file, Usability, memory, late, hot, resolved, rejected, dropped>>
    BY <1>3 DEF Reported, At, Getting
  <2>2. CASE Leave
    <3>1. LockOK' /\ task' = Idle
      BY <2>1, <2>2, LeaveTyped
    <3>2. DataOK'
      BY <2>1 DEF TypeInv, DataOK, Usability, Granting
    <3> QED
      BY <3>1, <3>2, IdleTyped DEF TypeInv, HolderOK, Getting
  <2>3. CASE TryNext(task.asof, task.left \ {task.trying})
    <3>1. /\ Holder.scope \in Scope /\ task.asof \in Nat /\ task.asof <= now
          /\ task.left \ {task.trying} \in SUBSET Granting(Holder.scope)
          /\ resolved' \in BOOLEAN
      BY <2>1 DEF TypeInv, DataOK, HolderOK, LockOK, Tasks
    <3> QED
      BY <2>1, <2>3, <3>1, LoopTyped
  <2> QED
    BY <1>3, <2>2, <2>3 DEF Reported
<1>4. CASE EnterInvalidate
  <2> DEFINE scopes == {s \in Scope : hot[s].token.n = Holder.token}
  <2>1. queue # <<>> /\ Holder.scope = "none" /\ ExpireNext(scopes)
        /\ UNCHANGED <<now, minted, file, Usability, late, hot, resolved, rejected, dropped>>
    BY <1>4 DEF EnterInvalidate, At
  <2>2. Holder.token \in 1 .. minted /\ minted \in Nat
    BY <2>1, HolderCall DEF TypeInv, Calls, DataOK
  <2>3. scopes \in SUBSET Scope /\ \A s \in scopes : hot[s].token.n = Holder.token
    OBVIOUS
  <2> HIDE DEF scopes
  <2>4. /\ LockOK'
        /\ memory' \in [Refresh -> Access]
        /\ \/ task' = Idle /\ scopes = {} /\ memory' = memory
           \/ /\ queue' = queue
              /\ task'.at = "expiring" /\ task'.scopes = scopes
              /\ \E s \in scopes : task'.trying = hot[s].from /\ Forget(hot[s].from)
    BY <2>1, <2>3, ExpireNextTyped
  <2>5. \A s \in scopes : hot[s].from \in Refresh
    <3>1. \A s \in scopes : hot[s].from # None
      BY <2>2, <2>3 DEF TypeInv, DataOK
    <3> QED
      BY <2>3, <3>1 DEF TypeInv, DataOK
  <2>6. DataOK'
    BY <2>1, <2>4 DEF TypeInv, DataOK, Usability, Granting
  <2>7. HolderOK'
    BY <2>1, <2>3, <2>4, <2>5, IdleTyped DEF HolderOK, Getting, Holder
  <2> QED
    BY <2>4, <2>6, <2>7 DEF TypeInv
<1>5. CASE Expire
  <2>1. queue # <<>> /\ task.at = "expiring" /\ Deleted(task.trying)
        /\ UNCHANGED <<now, minted, readable, late, resolved, rejected>>
    BY <1>5 DEF Expire, At
  <2>2. PICK s \in task.scopes :
          /\ hot[s].from = task.trying
          /\ hot' = [hot EXCEPT ![s].token.exp = 0]
          /\ ExpireNext(task.scopes \ {s})
          /\ dropped' = IF task.scopes = {s} THEN dropped \cup {Holder.token} ELSE dropped
    BY <1>5 DEF Expire
  <2>3. /\ Holder.scope = "none" /\ task.trying \in Refresh
        /\ task.scopes \in SUBSET Scope
        /\ \A t \in task.scopes : hot[t].token.n = Holder.token
    BY <2>1 DEF TypeInv, HolderOK, LockOK, Tasks
  <2>4. Holder.token \in 1 .. minted /\ minted \in Nat
    BY <2>1, <2>3, HolderCall DEF TypeInv, Calls, DataOK
  <2> DEFINE rest == task.scopes \ {s}
  <2>5. /\ LockOK'
        /\ memory' \in [Refresh -> Access]
        /\ \/ task' = Idle /\ rest = {} /\ memory' = memory
           \/ /\ queue' = queue
              /\ task'.at = "expiring" /\ task'.scopes = rest
              /\ \E t \in rest : task'.trying = hot[t].from /\ Forget(hot[t].from)
    BY <2>1, <2>2, <2>3, ExpireNextTyped
  <2>6. /\ hot' \in [Scope -> [from : Refresh \cup {None}, token : Access]]
        /\ \A t \in Scope : hot'[t].from = hot[t].from /\ hot'[t].token.n = hot[t].token.n
    <3>1. s \in Scope /\ hot \in [Scope -> [from : Refresh \cup {None}, token : Access]]
      BY <2>2, <2>3 DEF TypeInv, DataOK
    <3> QED
      BY <2>2, <3>1, HotExpires
  <2>7. ASSUME NEW t \in rest PROVE hot[t].from \in Refresh
    <3>1. t \in Scope /\ hot[t].token.n # 0
      BY <2>3, <2>4
    <3>2. /\ hot \in [Scope -> [from : Refresh \cup {None}, token : Access]]
          /\ hot[t].from = None => hot[t].token.n = 0
      BY <3>1 DEF TypeInv, DataOK
    <3> QED
      BY <3>1, <3>2
  <2>8. dropped' \subseteq 1 .. minted'
    BY <2>1, <2>2, <2>4 DEF TypeInv, DataOK
  <2>9. file' \in [Refresh -> Access] /\ writable' \in BOOLEAN
    BY <2>1, <2>3, DeletedFile DEF TypeInv
  <2>10. DataOK'
    BY <2>1, <2>5, <2>6, <2>8, <2>9 DEF TypeInv, DataOK, Granting
  <2>11. HolderOK'
    BY <2>3, <2>5, <2>6, <2>7, <2>10, IdleTyped DEF HolderOK, DataOK, Getting, Holder
  <2> QED
    BY <2>5, <2>10, <2>11 DEF TypeInv
<1> QED
  BY <1>1, <1>2, <1>3, <1>4, <1>5, <1>6, ReadCacheTyped, MintTyped, StoredTyped, RejectTyped, DroppedTyped
     DEF HolderStep


\* What is left of file's and entries' tokens in what is written later.
LEMMA LeftLate ==
  ASSUME DataOK, NEW entries \in [Refresh -> Access], LeaveLate(entries)
  PROVE  /\ late' \subseteq [Refresh -> Access]
         /\ \A c \in late' : c \in late \/ \A q \in Refresh : c[q] \in {entries[q], NoAccess}
<1> DEFINE kept == Unexpired(entries)
<1>1. kept \in [Refresh -> Access] /\ \A q \in Refresh : kept[q] \in {entries[q], NoAccess}
  BY NothingTyped DEF Unexpired
<1>2. late' = late \cup {kept}
  BY DEF LeaveLate
<1> HIDE DEF kept
<1> QED
  BY <1>1, <1>2 DEF DataOK

\* What a holder that is cancelled was writing may be written later.
LEMMA CancelledWrite ==
  ASSUME TypeInv, CancelHolder
  PROVE  /\ late' \subseteq [Refresh -> Access]
         /\ \A c \in late' : \/ c \in late
                             \/ \A q \in Refresh : c[q] \in {file[q], memory[q], NoAccess}
<1>1. CASE UNCHANGED late
  BY <1>1 DEF TypeInv, DataOK
<1>2. CASE task.at = "storing" /\ LeaveLate([file EXCEPT ![task.trying] = memory[task.trying]])
  <2> DEFINE entries == [file EXCEPT ![task.trying] = memory[task.trying]]
  <2>1. task.trying \in Refresh
    BY <1>2 DEF TypeInv, HolderOK, Getting, Granting
  <2>2. entries \in [Refresh -> Access]
        /\ \A r \in Refresh : entries[r] \in {file[r], memory[r]}
    BY <2>1 DEF TypeInv, DataOK
  <2>3. LeaveLate(entries)
    BY <1>2
  <2> HIDE DEF entries
  <2> QED
    BY <2>2, <2>3, LeftLate DEF TypeInv
<1>3. CASE task.at \in {"dropping", "expiring"} /\ LeaveLate([file EXCEPT ![task.trying] = NoAccess])
  <2> DEFINE entries == [file EXCEPT ![task.trying] = NoAccess]
  <2>1. task.trying \in Refresh
    BY <1>3 DEF TypeInv, HolderOK, Getting, Granting
  <2>2. entries \in [Refresh -> Access]
        /\ \A r \in Refresh : entries[r] \in {file[r], NoAccess}
    BY <2>1, NothingTyped DEF TypeInv, DataOK
  <2>3. LeaveLate(entries)
    BY <1>3
  <2> HIDE DEF entries
  <2> QED
    BY <2>2, <2>3, LeftLate DEF TypeInv
<1> QED
  BY <1>1, <1>2, <1>3 DEF CancelHolder

\* A late write that is done, or comes to nothing.
LEMMA LateWriteTyped ==
  ASSUME TypeInv, NEW c \in late, LateWrite(c)
  PROVE  /\ TypeInv'
         /\ late' \subseteq late /\ (file' = c \/ file' = file)
         /\ UNCHANGED <<now, minted, Usability, memory, hot, resolved, rejected, queue, task>>
<1>1. /\ late' \subseteq late /\ (file' = c \/ file' = file)
      /\ UNCHANGED <<now, minted, Usability, memory, hot, resolved, rejected, queue, task>>
  BY DEF LateWrite
<1>2. dropped' \subseteq dropped
  BY DEF LateWrite, TypeInv, DataOK
<1>3. DataOK'
  BY <1>1, <1>2 DEF TypeInv, DataOK, Usability, Granting
<1>4. LockOK' /\ HolderOK'
  BY <1>1 DEF TypeInv, LockOK, HolderOK, Holder, Granting, Calls, Call
<1> QED
  BY <1>1, <1>3, <1>4 DEF TypeInv

\* What another process does to the file, or leaves for later.
LEMMA OthersWrite ==
  ASSUME DataOK, NEW entries \in [Refresh -> Access], OtherWrites(entries)
  PROVE  /\ file' \in [Refresh -> Access] /\ late' \subseteq [Refresh -> Access]
         /\ \A r \in Refresh : file'[r] \in {file[r], entries[r], NoAccess}
         /\ \A c \in late' : c \in late \/ \A q \in Refresh : c[q] \in {entries[q], NoAccess}
<1>1. CASE Write(entries) /\ UNCHANGED late
  BY <1>1, NothingTyped DEF Write, Unexpired, DataOK
<1>2. CASE LeaveLate(entries) /\ UNCHANGED file
  BY <1>2, LeftLate DEF DataOK
<1> QED
  BY <1>1, <1>2 DEF OtherWrites

LEMMA OtherStoresTyped ==
  ASSUME TypeInv, NEW r \in Refresh, OtherStores(r)
  PROVE  /\ TypeInv'
         /\ minted' = minted + 1
         /\ \A q \in Refresh : \/ file'[q] \in {file[q], NoAccess}
                               \/ q = r /\ file'[q].n = minted + 1
         /\ \A c \in late' :
               \/ c \in late
               \/ \A q \in Refresh : c[q] \in {file[q], NoAccess} \/ (q = r /\ c[q].n = minted + 1)
<1> DEFINE new     == [n |-> minted', exp |-> now + Life]
           entries == [file EXCEPT ![r] = new]
<1>1. /\ minted' = minted + 1 /\ minted' \in 0 .. MaxMint
      /\ UNCHANGED <<now, Usability, memory, hot, resolved, rejected, queue, task, dropped>>
  BY DEF OtherStores, TypeInv, DataOK
<1>2. new \in Access
  BY <1>1 DEF Access, TypeInv, DataOK
<1>3. entries \in [Refresh -> Access]
      /\ \A q \in Refresh : entries[q] = IF q = r THEN new ELSE file[q]
  BY <1>2 DEF TypeInv, DataOK
<1>4. OtherWrites(entries)
  BY DEF OtherStores
<1>5. new.n = minted + 1
  BY <1>1
<1> HIDE DEF entries, new
<1>6. /\ file' \in [Refresh -> Access] /\ late' \subseteq [Refresh -> Access]
      /\ \A q \in Refresh : file'[q] \in {file[q], entries[q], NoAccess}
      /\ \A c \in late' : c \in late \/ \A q \in Refresh : c[q] \in {entries[q], NoAccess}
  BY <1>3, <1>4, OthersWrite DEF TypeInv
<1>7. LockOK'
  BY <1>1, MoreCalls DEF TypeInv, LockOK
<1>8. dropped' \subseteq 1 .. minted'
  BY <1>1 DEF TypeInv, DataOK
<1>9. DataOK'
  BY <1>1, <1>6, <1>8 DEF TypeInv, DataOK, Usability, Granting
<1>10. HolderOK'
  BY <1>1 DEF TypeInv, HolderOK, Holder, Granting
<1>11. ASSUME NEW c \in late', c \notin late, NEW q \in Refresh
       PROVE  c[q] \in {file[q], NoAccess} \/ (q = r /\ c[q].n = minted + 1)
  BY <1>3, <1>5, <1>6, <1>11
<1> QED
  BY <1>1, <1>3, <1>5, <1>6, <1>7, <1>9, <1>10, <1>11 DEF TypeInv

LEMMA OtherDeletesTyped ==
  ASSUME TypeInv, NEW r \in Refresh, OtherDeletes(r)
  PROVE  /\ TypeInv'
         /\ \A q \in Refresh : file'[q] \in {file[q], NoAccess}
         /\ \A c \in late' : c \in late \/ \A q \in Refresh : c[q] \in {file[q], NoAccess}
<1> DEFINE entries == [file EXCEPT ![r] = NoAccess]
<1>1. UNCHANGED <<now, minted, Usability, memory, hot, resolved, rejected, queue, task, dropped>>
  BY DEF OtherDeletes
<1>2. entries \in [Refresh -> Access] /\ \A q \in Refresh : entries[q] \in {file[q], NoAccess}
  BY NothingTyped DEF TypeInv, DataOK
<1>3. OtherWrites(entries)
  BY DEF OtherDeletes
<1> HIDE DEF entries
<1>4. /\ file' \in [Refresh -> Access] /\ late' \subseteq [Refresh -> Access]
      /\ \A q \in Refresh : file'[q] \in {file[q], entries[q], NoAccess}
      /\ \A c \in late' : c \in late \/ \A q \in Refresh : c[q] \in {entries[q], NoAccess}
  BY <1>2, <1>3, OthersWrite DEF TypeInv
<1>5. DataOK'
  BY <1>1, <1>4 DEF TypeInv, DataOK, Usability, Granting
<1>6. LockOK' /\ HolderOK'
  BY <1>1 DEF TypeInv, LockOK, HolderOK, Holder, Granting, Calls, Call
<1>7. ASSUME NEW c \in late', c \notin late, NEW q \in Refresh
      PROVE  c[q] \in {file[q], NoAccess}
  BY <1>2, <1>4, <1>7
<1> QED
  BY <1>2, <1>4, <1>5, <1>6, <1>7 DEF TypeInv

\* A process that starts again has nothing but the file.
LEMMA RestartTyped ==
  ASSUME TypeInv, Restart
  PROVE  TypeInv'
<1>1. NotServing = [from |-> None, token |-> NoAccess] /\ NoAccess.n = 0 /\ NoAccess \in Access
  BY NothingTyped DEF NotServing, NoAccess
<1>2. DataOK'
  BY <1>1 DEF Restart, TypeInv, DataOK
<1>3. <<>> \in Seq(Calls')
  BY EmptySeq
<1>4. LockOK'
  BY <1>3, IdleTyped DEF Restart, LockOK
<1> QED
  BY <1>2, <1>4, IdleTyped DEF Restart, TypeInv, HolderOK, Getting

\* Every step keeps the types.
LEMMA TypesKept == TypeInv /\ [Next]_vars => TypeInv'
<1> SUFFICES ASSUME TypeInv, [Next]_vars PROVE TypeInv'
  OBVIOUS
<1>1. CASE CancelHolder
  <2>1. LockOK' /\ task' = Idle
    BY <1>1, LeaveTyped DEF CancelHolder
  <2>2. DataOK'
    BY <1>1, CancelledWrite DEF CancelHolder, TypeInv, DataOK, Usability, Granting
  <2> QED
    BY <2>1, <2>2, IdleTyped DEF TypeInv, HolderOK, Getting
<1>2. CASE Tick
  <2>1. now' = now + 1 /\ UNCHANGED <<minted, file, Usability, memory, late, hot, resolved, rejected, queue, task, dropped>>
    BY <1>2 DEF Tick
  <2>2. DataOK'
    BY <2>1 DEF TypeInv, DataOK, Usability, Granting
  <2>3. LockOK'
    BY <2>1 DEF TypeInv, LockOK, Calls, Call
  <2>4. HolderOK'
    BY <2>1 DEF TypeInv, DataOK, LockOK, HolderOK, Tasks, Holder, Granting
  <2> QED
    BY <2>2, <2>3, <2>4 DEF TypeInv
<1>3. CASE \/ \E s \in Scope : Get(s)
           \/ \E n \in 1 .. minted : Invalidate(n)
           \/ \E i \in DOMAIN queue : CancelWaiter(i)
  <2>1. /\ LockOK'
        /\ queue # <<>> => Holder' = Holder
        /\ UNCHANGED <<now, minted, file, Usability, memory, late, hot, resolved, rejected, task, dropped>>
    BY <1>3, QueueTyped
  <2>2. DataOK'
    BY <2>1 DEF TypeInv, DataOK, Usability, Granting
  <2>3. CASE queue = <<>>
    BY <2>1, <2>2, <2>3, IdleTyped DEF TypeInv, LockOK, HolderOK, Getting
  <2>4. CASE queue # <<>>
    BY <2>1, <2>2, <2>4 DEF TypeInv, HolderOK, Granting
  <2> QED
    BY <2>3, <2>4
<1>4. CASE UNCHANGED vars
  BY <1>4 DEF vars, Usability, TypeInv, DataOK, LockOK, HolderOK, Holder, Granting, Calls, Call
<1> QED
  BY <1>1, <1>2, <1>3, <1>4, HolderTyped, RestartTyped, LateWriteTyped, OtherStoresTyped,
     OtherDeletesTyped
     DEF Next

\* A process that starts has the types.
LEMMA InitTyped == Init => TypeInv
<1> SUFFICES ASSUME Init PROVE TypeInv
  OBVIOUS
<1>1. NotServing = [from |-> None, token |-> NoAccess] /\ NoAccess.n = 0 /\ NoAccess \in Access
  BY NothingTyped DEF NotServing, NoAccess
<1>0. late \subseteq [Refresh -> Access] /\ resolved \in BOOLEAN
  BY DEF Init
<1>2. DataOK
  BY <1>0, <1>1 DEF Init, DataOK
<1>3. LockOK
  BY EmptySeq, IdleTyped DEF Init, LockOK
<1> QED
  BY <1>2, <1>3, IdleTyped DEF Init, TypeInv, HolderOK, Getting

\* The types of the clock, the caches and the lock hold throughout, and what
\* serves a scope was minted from a refresh token that grants it.
THEOREM TypeCorrect == Spec => []TypeOK
BY InitTyped, TypesKept, Typed, PTL DEF Spec

-----------------------------------------------------------------------------
\* Where access tokens come from.

\* What a step may do with the tokens: one minted for r may appear, and the
\* others go from the memory to the file, or from either to a scope or to what is
\* written late, or vanish.
Flow(r) ==
    /\ \A q \in Refresh : \/ file'[q].n \in {0, file[q].n, memory[q].n}
                          \/ q = r /\ file'[q].n = minted + 1
    /\ \A c \in late' :
          \/ c \in late
          \/ \A q \in Refresh : \/ c[q].n \in {0, file[q].n, memory[q].n}
                                \/ q = r /\ c[q].n = minted + 1
    /\ \A q \in Refresh : \/ memory'[q].n \in {0, memory[q].n}
                          \/ q = r /\ memory'[q].n = minted + 1
    /\ \A s \in Scope :
          \/ /\ hot'[s].from = hot[s].from /\ hot'[s].token.n = hot[s].token.n
             /\ hot'[s].token.exp \in {0, hot[s].token.exp}
          \/ hot'[s].token.n = 0
          \/ /\ hot'[s].from \in Refresh
             /\ \/ hot'[s].token.n = memory[hot'[s].from].n
                \/ readable' /\ hot'[s].token.n = file[hot'[s].from].n

\* A step that leaves the tokens where they are.
LEMMA StillFlows ==
  ASSUME UNCHANGED <<file, memory, late, hot>>
  PROVE  Flow(None)
BY DEF Flow

LEMMA HolderFlows ==
  ASSUME TypeInv, HolderStep
  PROVE  \/ Flow(None) /\ minted' = minted
         \/ task.trying \in Refresh /\ Flow(task.trying) /\ minted' = minted + 1
<1> NoAccess.n = 0
  BY DEF NoAccess
<1>1. CASE EnterGet \/ Resolve \/ Fail \/ Reported
  BY <1>1, StillFlows DEF EnterGet, Resolve, Fail, Reported
<1>2. CASE ReadCache
  <2> DEFINE a == IF memory[task.trying] # NoAccess THEN memory[task.trying]
                  ELSE IF readable' THEN file[task.trying] ELSE NoAccess
  <2>1. queue # <<>> /\ task.at \in Getting /\ task.trying \in Refresh
        /\ UNCHANGED <<minted, file, memory, late>>
    BY <1>2 DEF ReadCache, At, TypeInv, HolderOK, Getting, Granting
  <2>2. a \in Access
    BY <2>1, CachedTyped DEF TypeInv
  <2>3. \/ a.n = 0
        \/ a.n = memory[task.trying].n
        \/ readable' /\ a.n = file[task.trying].n
    OBVIOUS
  <2>4. Adopt(a) \/ UNCHANGED hot
    BY <1>2 DEF ReadCache
  <2> HIDE DEF a
  <2>5. CASE Adopt(a)
    <3>1. hot'[Holder.scope] = [from |-> task.trying, token |-> a]
          /\ \A s \in Scope \ {Holder.scope} : hot'[s] = hot[s]
      BY <2>1, <2>2, <2>5, AdoptTyped
    <3> QED
      BY <2>1, <2>3, <3>1 DEF Flow
  <2> QED
    BY <2>1, <2>4, <2>5, StillFlows
<1>3. CASE Mint
  <2>1. /\ task.trying \in Refresh /\ minted' = minted + 1
        /\ memory' = [memory EXCEPT ![task.trying] = [n |-> minted', exp |-> task.asof + Life]]
        /\ UNCHANGED <<file, late, hot>>
    BY <1>3 DEF Mint, At, TypeInv, HolderOK, Getting, Granting
  <2> QED
    BY <2>1 DEF Flow, TypeInv, DataOK
<1>4. CASE Stored
  <2> DEFINE r == task.trying
             entries == [file EXCEPT ![r] = memory[r]]
  <2>1. queue # <<>> /\ task.at \in Getting /\ r \in Refresh /\ UNCHANGED <<minted, memory, late>>
        /\ Written(entries) /\ Adopt(memory[r])
    BY <1>4 DEF Stored, At, TypeInv, HolderOK, Getting, Granting
  <2>2. memory[r] \in Access /\ entries \in [Refresh -> Access]
        /\ \A q \in Refresh : entries[q] = IF q = r THEN memory[r] ELSE file[q]
    BY <2>1 DEF TypeInv, DataOK
  <2> HIDE DEF entries
  <2>3. \A q \in Refresh : file'[q] \in {file[q], entries[q], NoAccess}
    BY <2>1, <2>2, WrittenFile DEF TypeInv
  <2> HIDE DEF r
  <2>4. hot'[Holder.scope] = [from |-> task.trying, token |-> memory[r]]
        /\ \A s \in Scope \ {Holder.scope} : hot'[s] = hot[s]
    BY <2>1, <2>2, AdoptTyped
  <2>5. \A q \in Refresh : file'[q].n \in {0, file[q].n, memory[q].n}
    BY <2>2, <2>3
  <2>6. ASSUME NEW s \in Scope
        PROVE  \/ hot'[s] = hot[s]
               \/ hot'[s].from = r /\ hot'[s].token.n = memory[r].n
    BY <2>4 DEF r
  <2> QED
    BY <2>1, <2>5, <2>6 DEF Flow
<1>5. CASE Reject
  BY <1>5, ForgetTyped DEF Reject, Flow, TypeInv
<1>6. CASE Dropped
  <2>1. task.trying \in Refresh /\ Deleted(task.trying) /\ UNCHANGED <<minted, memory, late, hot>>
    BY <1>6 DEF Dropped, At, TypeInv, HolderOK, Getting, Granting
  <2>2. \A q \in Refresh : file'[q] \in {file[q], NoAccess}
    BY <2>1, DeletedFile DEF TypeInv
  <2> QED
    BY <2>1, <2>2 DEF Flow
<1>7. CASE EnterInvalidate
  <2>1. UNCHANGED <<minted, file, late, hot>> /\ \A q \in Refresh : memory'[q] \in {memory[q], NoAccess}
    BY <1>7, ForgetTyped DEF EnterInvalidate, ExpireNext, TypeInv
  <2> QED
    BY <2>1 DEF Flow
<1>8. CASE Expire
  <2>1. PICK s \in task.scopes : hot' = [hot EXCEPT ![s].token.exp = 0] /\ ExpireNext(task.scopes \ {s})
    BY <1>8 DEF Expire
  <2>2. task.trying \in Refresh /\ s \in Scope /\ Deleted(task.trying) /\ UNCHANGED <<minted, late>>
    BY <1>8 DEF Expire, At, TypeInv, HolderOK, LockOK, Tasks
  <2>3. \A q \in Refresh : file'[q] \in {file[q], NoAccess}
    BY <2>2, DeletedFile DEF TypeInv
  <2>4. \A q \in Refresh : memory'[q] \in {memory[q], NoAccess}
    BY <2>1, ForgetTyped DEF ExpireNext, TypeInv
  <2>5. /\ \A t \in Scope : hot'[t].from = hot[t].from /\ hot'[t].token.n = hot[t].token.n
        /\ hot'[s].token.exp = 0
        /\ \A t \in Scope \ {s} : hot'[t] = hot[t]
    BY <2>1, <2>2, HotExpires DEF TypeInv, DataOK
  <2> QED
    BY <2>2, <2>3, <2>4, <2>5 DEF Flow
<1> QED
  BY <1>1, <1>2, <1>3, <1>4, <1>5, <1>6, <1>7, <1>8 DEF HolderStep

\* Every step but a late write lets the tokens flow, and counts what is minted.
LEMMA StepFlows ==
  ASSUME TypeInv, [Next]_vars
  PROVE  \/ \E c \in late : LateWrite(c)
         \/ Flow(None) /\ minted' = minted
         \/ \E r \in Refresh : Flow(r) /\ minted' = minted + 1
<1> NoAccess.n = 0
  BY DEF NoAccess
<1>1. CASE CancelHolder
  <2>1. UNCHANGED <<minted, file, memory, hot>>
    BY <1>1 DEF CancelHolder
  <2>2. \A c \in late' : c \in late \/ \A q \in Refresh : c[q].n \in {0, file[q].n, memory[q].n}
    BY <1>1, CancelledWrite
  <2> QED
    BY <2>1, <2>2 DEF Flow
<1>2. CASE Restart
  BY <1>2 DEF Restart, Flow, NotServing
<1>3. ASSUME NEW r \in Refresh, OtherStores(r) PROVE Flow(r) /\ minted' = minted + 1
  <2>1. UNCHANGED <<memory, hot>>
    BY <1>3 DEF OtherStores
  <2> QED
    <3>1. \A q \in Refresh : \/ file'[q].n \in {0, file[q].n}
                             \/ q = r /\ file'[q].n = minted + 1
      BY <1>3, OtherStoresTyped
    <3>2. \A c \in late' : \/ c \in late
                           \/ \A q \in Refresh : c[q].n \in {0, file[q].n} \/ (q = r /\ c[q].n = minted + 1)
      BY <1>3, OtherStoresTyped
    <3> QED
      BY <1>3, <2>1, <3>1, <3>2, OtherStoresTyped DEF Flow
<1>4. ASSUME NEW r \in Refresh, OtherDeletes(r) PROVE Flow(None) /\ minted' = minted
  <2>1. UNCHANGED <<minted, memory, hot>>
    BY <1>4 DEF OtherDeletes
  <2> QED
    <3>1. \A q \in Refresh : file'[q].n \in {0, file[q].n}
      BY <1>4, OtherDeletesTyped
    <3>2. \A c \in late' : c \in late \/ \A q \in Refresh : c[q].n \in {0, file[q].n}
      BY <1>4, OtherDeletesTyped
    <3> QED
      BY <2>1, <3>1, <3>2 DEF Flow
<1>5. CASE \/ Tick \/ UNCHANGED vars
           \/ \E s \in Scope : Get(s)
           \/ \E n \in 1 .. minted : Invalidate(n)
           \/ \E i \in DOMAIN queue : CancelWaiter(i)
  <2>1. UNCHANGED <<minted, file, memory, late, hot>>
    BY <1>5 DEF Tick, vars, Get, Invalidate, CancelWaiter
  <2> QED
    BY <2>1, StillFlows
<1> QED
  BY <1>1, <1>2, <1>3, <1>4, <1>5, HolderFlows DEF Next

\* An access token that is kept afterwards was kept before, or is the one that
\* was minted.
LEMMA FlowKept ==
  ASSUME TypeInv, NEW r \in Refresh \cup {None}, Flow(r),
         NEW q \in Refresh, NEW n \in 0 .. MaxMint, Kept(n, q)'
  PROVE  Kept(n, q) \/ (q = r /\ n = minted + 1)
<1>1. n # 0
  BY DEF Kept
<1>2. CASE file'[q].n = n
  BY <1>1, <1>2 DEF Flow, Kept
<1>3. CASE memory'[q].n = n
  BY <1>1, <1>3 DEF Flow, Kept
<1>5. ASSUME NEW c \in late', c[q].n = n
      PROVE  Kept(n, q) \/ (q = r /\ n = minted + 1)
  BY <1>1, <1>5 DEF Flow, Kept
<1>4. ASSUME NEW s \in Scope, hot'[s].from = q, hot'[s].token.n = n
      PROVE  Kept(n, q)
  BY <1>1, <1>4 DEF Flow, Kept
<1> QED
  BY <1>2, <1>3, <1>4, <1>5 DEF Kept

\* No number is given twice, and none to two refresh tokens.
LEMMA OriginKept == TypeInv /\ OneOrigin /\ [Next]_vars => OneOrigin'
<1> SUFFICES ASSUME TypeInv, OneOrigin, [Next]_vars PROVE OneOrigin'
  OBVIOUS
<1>1. minted \in Nat /\ None \notin Refresh
  BY DEF TypeInv, DataOK
<1>2. CASE Flow(None) /\ minted' = minted
  <2>1. ASSUME NEW n \in 0 .. MaxMint, NEW q \in Refresh, Kept(n, q)' PROVE Kept(n, q)
    BY <1>1, <1>2, <2>1, FlowKept
  <2> QED
    BY <1>2, <2>1 DEF OneOrigin
<1>3. ASSUME NEW r \in Refresh, Flow(r), minted' = minted + 1 PROVE OneOrigin'
  <2>1. ASSUME NEW n \in 0 .. MaxMint, NEW q \in Refresh, Kept(n, q)'
        PROVE  Kept(n, q) \/ (q = r /\ n = minted + 1)
    BY <1>3, <2>1, FlowKept
  <2>2. \A q \in Refresh : minted + 1 \in 0 .. MaxMint => ~ Kept(minted + 1, q)
    BY <1>1 DEF OneOrigin
  <2>3. \A n \in 0 .. MaxMint, q \in Refresh : Kept(n, q)' => n <= minted'
    BY <1>1, <1>3, <2>1 DEF OneOrigin
  <2>4. \A n \in 0 .. MaxMint, p, q \in Refresh : Kept(n, p)' /\ Kept(n, q)' => p = q
    BY <2>1, <2>2 DEF OneOrigin
  <2> QED
    BY <2>3, <2>4 DEF OneOrigin
<1>4. ASSUME NEW c \in late, LateWrite(c) PROVE OneOrigin'
  <2>1. /\ late' \subseteq late /\ (file' = c \/ file' = file)
        /\ UNCHANGED <<minted, memory, hot>>
    BY <1>4, LateWriteTyped
  <2>2. ASSUME NEW n \in 0 .. MaxMint, NEW q \in Refresh, Kept(n, q)' PROVE Kept(n, q)
    BY <2>1, <2>2 DEF Kept
  <2> QED
    BY <2>1, <2>2 DEF OneOrigin
<1> QED
  BY <1>2, <1>3, <1>4, StepFlows


-----------------------------------------------------------------------------
\* What becomes of the access tokens that were invalidated.

\* The steps that are not the process starting again, nor the end of the
\* invalidation of a token, leave the history alone; time passes, and the file
\* is not used again once it has failed.
LEMMA HistoryKept ==
  ASSUME TypeInv, [Next]_vars
  PROVE  \/ Restart
         \/ Expire
         \/ \E c \in late : LateWrite(c)
         \/ /\ UNCHANGED dropped
            /\ writable' => writable
            /\ readable' => readable
            /\ now' >= now
<1>1. CASE Stored \/ Dropped
  <2>1. task.trying \in Refresh /\ UNCHANGED <<now, late, resolved, dropped, readable>>
        /\ (Written([file EXCEPT ![task.trying] = memory[task.trying]]) \/ Deleted(task.trying))
    BY <1>1 DEF Stored, Dropped, At, TypeInv, HolderOK, Getting, Granting
  <2>2. writable' => writable
    BY <2>1 DEF Written, Deleted, WriteFails
  <2> QED
    BY <2>1, <2>2 DEF TypeInv, DataOK
<1>2. CASE CancelHolder
  BY <1>2 DEF CancelHolder, Usability, TypeInv, DataOK
<1>3. CASE \/ EnterGet \/ Resolve \/ ReadCache \/ Mint \/ Reject \/ Fail \/ Reported \/ EnterInvalidate
  BY <1>3 DEF EnterGet, Resolve, ReadCache, Mint, Reject, Fail, Reported, EnterInvalidate, Usability,
              TypeInv, DataOK
<1>4. CASE Tick
  BY <1>4 DEF Tick, Usability, TypeInv, DataOK
<1>5. CASE \/ UNCHANGED vars
           \/ \E s \in Scope : Get(s)
           \/ \E n \in 1 .. minted : Invalidate(n)
           \/ \E i \in DOMAIN queue : CancelWaiter(i)
           \/ \E r \in Refresh : OtherStores(r) \/ OtherDeletes(r)
  <2>1. UNCHANGED <<now, Usability, dropped>>
    BY <1>5 DEF vars, Get, Invalidate, CancelWaiter, OtherStores, OtherDeletes
  <2> QED
    BY <2>1 DEF Usability, TypeInv, DataOK
<1> QED
  BY <1>1, <1>2, <1>3, <1>4, <1>5 DEF Next, HolderStep

\* A token that has gone is not among those that flow.
LEMMA GoneFlows ==
  ASSUME TypeInv, NEW n \in 1 .. minted, IsGone(n),
         NEW r \in Refresh \cup {None}, Flow(r),
         readable' => readable, now' \in Nat, now' >= now
  PROVE  IsGone(n)'
<1>1. \A q \in Refresh : memory'[q].n # n /\ (readable' => file'[q].n # n)
  BY DEF Flow, IsGone, TypeInv, DataOK
<1>2. ASSUME NEW s \in Scope, hot'[s].token.n = n PROVE ~ Valid(hot'[s].token, now')
  <2>1. hot'[s].token.n = hot[s].token.n /\ hot'[s].token.exp \in {0, hot[s].token.exp}
    BY <1>2 DEF Flow, IsGone, TypeInv, DataOK
  <2>2. ~ Valid(hot[s].token, now)
    BY <1>2, <2>1 DEF IsGone, Serves
  <2>3. hot[s].token.exp \in Nat /\ now \in Nat
    BY DEF TypeInv, DataOK, Access
  <2> QED
    BY <2>1, <2>2, <2>3 DEF Valid
<1> QED
  BY <1>1, <1>2 DEF IsGone, Serves

\* The token that was invalidated for its last scope has gone.
LEMMA LastExpires ==
  ASSUME TypeInv, OneOrigin, ExpiringOK, Expire,
         NEW s \in task.scopes, task.scopes = {s},
         hot[s].from = task.trying,
         hot' = [hot EXCEPT ![s].token.exp = 0],
         ExpireNext({}),
         writable', NEW n, n = Holder.token
  PROVE  IsGone(n)'
<1>1. /\ queue # <<>> /\ task.at = "expiring" /\ Deleted(task.trying)
      /\ UNCHANGED <<now, readable>> /\ Holder.scope = "none"
      /\ task.trying \in Refresh /\ s \in Scope /\ hot[s].token.n = n
  BY DEF Expire, At, TypeInv, HolderOK, LockOK, Tasks
<1>2. n \in 1 .. minted /\ n \in 0 .. MaxMint
  BY <1>1, HolderCall DEF TypeInv, DataOK, Calls
<1>3. \A q \in Refresh : Kept(n, q) => q = task.trying
  <2>1. Kept(n, task.trying)
    BY <1>1, <1>2 DEF Kept
  <2> QED
    BY <1>1, <1>2, <2>1 DEF OneOrigin
<1>4. memory' = memory /\ memory[task.trying].n = 0
  BY <1>1 DEF ExpireNext, ExpiringOK, NoAccess
<1>5. \A q \in Refresh : memory'[q].n # n
  BY <1>2, <1>3, <1>4 DEF Kept
<1>6. \A q \in Refresh : readable' => file'[q].n # n
  <2>1. (\A q \in Refresh : file'[q] \in {file[q], NoAccess})
        /\ (writable' /\ readable => file'[task.trying] = NoAccess)
    BY <1>1, DeletedFile DEF TypeInv
  <2> SUFFICES ASSUME NEW q \in Refresh, readable' PROVE file'[q].n # n
    OBVIOUS
  <2>2. CASE q = task.trying
    <3>1. writable' /\ readable
      BY <1>1
    <3>2. file'[q] = NoAccess
      BY <2>1, <2>2, <3>1
    <3> QED
      BY <1>2, <3>2 DEF NoAccess
  <2>3. CASE q # task.trying
    <3>1. ~ Kept(n, q)
      BY <1>3, <2>3
    <3>2. file[q].n # n
      BY <1>2, <3>1 DEF Kept
    <3>3. NoAccess.n # n
      BY <1>2 DEF NoAccess
    <3> QED
      BY <2>1, <3>2, <3>3
  <2> QED
    BY <2>2, <2>3
<1>7. ASSUME NEW t \in Scope, hot'[t].token.n = n PROVE ~ Valid(hot'[t].token, now')
  <2>1. /\ hot'[t].token.n = hot[t].token.n
        /\ hot'[s].token.exp = 0
        /\ t # s => hot'[t] = hot[t]
    BY <1>1, HotExpires DEF TypeInv, DataOK
  <2>2. hot'[t].token.exp = 0
    BY <1>1, <1>7, <2>1 DEF ExpiringOK
  <2>3. now' \in Nat
    BY <1>1 DEF TypeInv, DataOK
  <2> QED
    BY <2>2, <2>3 DEF Valid
<1> QED
  BY <1>5, <1>6, <1>7 DEF IsGone, Serves


\* Every step keeps what was invalidated away.
LEMMA DroppedKept ==
  TypeInv /\ OneOrigin /\ ExpiringOK /\ InvalidatedStaysDropped /\ [Next]_vars
    => InvalidatedStaysDropped'
<1> SUFFICES ASSUME TypeInv, OneOrigin, ExpiringOK, InvalidatedStaysDropped, [Next]_vars, writable'
             PROVE  \A n \in dropped' : IsGone(n)'
  BY DEF InvalidatedStaysDropped, IsGone
<1>1. \A n \in dropped : n \in 1 .. minted
  BY DEF TypeInv, DataOK
<1>2. (\E c \in late : LateWrite(c)) \/ \E r \in Refresh \cup {None} : Flow(r)
  BY StepFlows
<1>3. now' \in Nat
  BY TypesKept DEF TypeInv, DataOK
<1>4. ASSUME writable' => writable, readable' => readable, now' >= now,
             NEW r \in Refresh \cup {None}, Flow(r)
      PROVE  \A n \in dropped : IsGone(n)'
  BY <1>1, <1>3, <1>4, GoneFlows DEF InvalidatedStaysDropped
<1>5. CASE Restart
  BY <1>5 DEF Restart
<1>6. CASE Expire
  <2>1. PICK s \in task.scopes :
          /\ hot[s].from = task.trying
          /\ hot' = [hot EXCEPT ![s].token.exp = 0]
          /\ ExpireNext(task.scopes \ {s})
          /\ dropped' = IF task.scopes = {s} THEN dropped \cup {Holder.token} ELSE dropped
    BY <1>6 DEF Expire
  <2>2. /\ writable' => writable
        /\ readable' => readable
        /\ now' >= now
    <3>1. task.trying \in Refresh /\ Deleted(task.trying) /\ UNCHANGED <<now, readable>>
      BY <1>6 DEF Expire, At, TypeInv, HolderOK
    <3> QED
      BY <3>1, DeletedFile DEF TypeInv, DataOK
  <2>a. PICK r \in Refresh \cup {None} : Flow(r)
    BY <1>6, HolderFlows DEF HolderStep
  <2>3. \A n \in dropped : IsGone(n)'
    BY <1>4, <2>2, <2>a
  <2>4. CASE task.scopes = {s}
    <3>1. ExpireNext({})
      <4>1. task.scopes \ {s} = {}
        BY <2>4
      <4> QED
        BY <2>1, <4>1
    <3>2. \A n : n = Holder.token => IsGone(n)'
      BY <1>6, <2>1, <2>4, <3>1, LastExpires
    <3> QED
      BY <2>1, <2>3, <2>4, <3>2
  <2> QED
    BY <2>1, <2>3, <2>4
<1>8. ASSUME NEW c \in late, LateWrite(c) PROVE \A n \in dropped' : IsGone(n)'
  <2>1. UNCHANGED <<now, Usability, memory, hot>>
    BY <1>8, LateWriteTyped
  <2>2. \/ file' = file /\ dropped' = dropped
        \/ /\ file' = c
           /\ dropped' = {n \in dropped : \A r \in Refresh : c[r].n # n}
    BY <1>8 DEF LateWrite
  <2>3. ASSUME NEW n \in dropped' PROVE IsGone(n)'
    <3>1. IsGone(n) /\ \A r \in Refresh : readable => file'[r].n # n
      BY <2>1, <2>2, <2>3 DEF InvalidatedStaysDropped, IsGone, Usability
    <3> QED
      BY <2>1, <3>1 DEF IsGone, Serves, Usability
  <2> QED
    BY <2>3
<1>7. CASE UNCHANGED dropped /\ (writable' => writable) /\ (readable' => readable) /\ now' >= now
  BY <1>2, <1>4, <1>7, <1>8
<1> QED
  BY <1>5, <1>6, <1>7, <1>8, HistoryKept

\* Every step of an invalidation keeps track of the scopes.
LEMMA ExpiringKept == TypeInv /\ ExpiringOK /\ [Next]_vars => ExpiringOK'
<1> SUFFICES ASSUME TypeInv, ExpiringOK, [Next]_vars, task'.at = "expiring"
             PROVE  /\ memory'[task'.trying] = NoAccess
                    /\ \A s \in Scope : hot'[s].token.n = Holder'.token
                                           => s \in task'.scopes \/ hot'[s].token.exp = 0
  BY DEF ExpiringOK
<1>0. HolderOK'
  BY TypesKept DEF TypeInv
<1>1. CASE EnterInvalidate
  <2> DEFINE scopes == {s \in Scope : hot[s].token.n = Holder.token}
  <2>1. queue # <<>> /\ ExpireNext(scopes) /\ UNCHANGED <<minted, hot>>
    BY <1>1 DEF EnterInvalidate, At
  <2> HIDE DEF scopes
  <2>2. /\ queue' = queue /\ task'.scopes = scopes
        /\ \E s \in scopes : task'.trying = hot[s].from /\ Forget(hot[s].from)
    <3>1. scopes \in SUBSET Scope
      BY DEF scopes
    <3> QED
      BY <2>1, <3>1, ExpireNextTyped, IdleTyped
  <2>3. task'.trying \in Refresh
    BY <1>0 DEF HolderOK
  <2>4. memory'[task'.trying] = NoAccess
    BY <2>2, <2>3, ForgetTyped DEF TypeInv
  <2> QED
    BY <2>1, <2>2, <2>4 DEF Holder, scopes
<1>2. CASE Expire
  <2>1. PICK s \in task.scopes :
          /\ hot' = [hot EXCEPT ![s].token.exp = 0]
          /\ ExpireNext(task.scopes \ {s})
    BY <1>2 DEF Expire
  <2>2. queue # <<>> /\ task.at = "expiring" /\ minted' = minted
        /\ task.scopes \in SUBSET Scope
    BY <1>2 DEF Expire, At, TypeInv, LockOK, Tasks
  <2>3. /\ queue' = queue /\ task'.scopes = task.scopes \ {s}
        /\ \E t \in task.scopes \ {s} : task'.trying = hot[t].from /\ Forget(hot[t].from)
    BY <2>1, <2>2, ExpireNextTyped, IdleTyped
  <2>4. task'.trying \in Refresh
    BY <1>0 DEF HolderOK
  <2>5. memory'[task'.trying] = NoAccess
    BY <2>3, <2>4, ForgetTyped DEF TypeInv
  <2>6. /\ \A t \in Scope : hot'[t].from = hot[t].from /\ hot'[t].token.n = hot[t].token.n
        /\ hot'[s].token.exp = 0
        /\ \A t \in Scope \ {s} : hot'[t] = hot[t]
    BY <2>1, <2>2, HotExpires DEF TypeInv, DataOK
  <2> QED
    BY <2>2, <2>3, <2>5, <2>6 DEF ExpiringOK, Holder
<1>3. CASE \/ \E s \in Scope : Get(s)
           \/ \E n \in 1 .. minted : Invalidate(n)
           \/ \E i \in DOMAIN queue : CancelWaiter(i)
  <2>1. queue # <<>>
    BY <1>3, QueueTyped, IdleTyped DEF TypeInv, LockOK
  <2> QED
    BY <1>3, <2>1, QueueTyped DEF ExpiringOK
<1>4. CASE \/ Tick \/ UNCHANGED vars
           \/ \E r \in Refresh : OtherStores(r) \/ OtherDeletes(r)
           \/ \E c \in late : LateWrite(c)
  BY <1>4 DEF Tick, vars, OtherStores, OtherDeletes, LateWrite, ExpiringOK, Holder
<1>5. CASE \/ ReadCache \/ Mint \/ Stored \/ Reject \/ Fail \/ Dropped \/ CancelHolder \/ Restart
  BY <1>5, IdleTyped
     DEF ReadCache, Adopt, Leave, Mint, Stored, Reject, Fail, Dropped, CancelHolder, Restart,
         TypeInv, LockOK, Tasks
<1>6. CASE EnterGet \/ Resolve \/ Reported
  BY <1>6, IdleTyped DEF EnterGet, Resolve, Reported, TryNext, Leave, Idle
<1> QED
  BY <1>1, <1>2, <1>3, <1>4, <1>5, <1>6 DEF Next, HolderStep


-----------------------------------------------------------------------------
\* Which refresh tokens are tried, and which access tokens serve.

\* From a candidate on the holder's question stays the same.
LEMMA SameCandidates ==
  ASSUME CandidatesOK, task.at \in Getting,
         UNCHANGED <<queue, hot, rejected>>,
         task'.left = task.left, task'.trying = task.trying, task'.asof = task.asof,
         task'.at \in {"reading", "exchanging", "storing"}
            => task.at \in {"reading", "exchanging", "storing"},
         task'.at \in {"dropping", "reporting"} => task.at \in {"dropping", "reporting"}
  PROVE  CandidatesOK'
BY DEF CandidatesOK, Getting, Holder, Granting, Expired, Better, Rank, Valid, Capabilities

\* A turn of the loop starts with the best of what is left.
LEMMA NextCandidates ==
  ASSUME TypeInv, queue # <<>>, NEW asof \in Nat, NEW left \in SUBSET Refresh,
         TryNext(asof, left), UNCHANGED <<minted, hot, rejected>>,
         left \cap rejected = {},
         \A q \in Granting(Holder.scope) : q \in left \/ q \in rejected \/ Expired(q, asof),
         ~ Valid(hot[Holder.scope].token, asof)
  PROVE  CandidatesOK'
<1>1. CASE task' = Idle
  BY <1>1, IdleTyped DEF CandidatesOK, Getting
<1>2. CASE /\ queue' = queue
           /\ task'.at = "reading" /\ task'.asof = asof /\ task'.left = left
           /\ \A q \in left : ~ Better(q, task'.trying)
  BY <1>2 DEF CandidatesOK, Holder, Granting, Expired, Better, Rank, Valid, Capabilities
<1> QED
  BY <1>1, <1>2, TryNextTyped

\* Every step keeps track of the candidates.
LEMMA CandidatesKept == TypeInv /\ CandidatesOK /\ [Next]_vars => CandidatesOK'
<1> SUFFICES ASSUME TypeInv, CandidatesOK, [Next]_vars, task'.at \in Getting \cup {"resolving"}
             PROVE  CandidatesOK'
  BY DEF CandidatesOK
<1>0. task' # Idle
  BY IdleTyped DEF Getting
<1>9. CASE EnterGet /\ task' = [Idle EXCEPT !.at = "resolving", !.asof = now]
  <2>1. ~ Valid(hot[Holder.scope].token, now) /\ UNCHANGED <<hot, queue>>
    BY <1>0, <1>9 DEF EnterGet, Leave, TryNext, Idle
  <2>2. task'.at = "resolving" /\ task'.asof = now
    BY <1>9 DEF Idle
  <2> QED
    BY <2>1, <2>2 DEF CandidatesOK, Getting, Holder, Valid
<1>10. CASE Resolve
  <2>1. /\ queue # <<>> /\ task.asof \in Nat
        /\ TryNext(task.asof, Usable(Holder.scope, task.asof))
        /\ ~ Valid(hot[Holder.scope].token, task.asof)
        /\ UNCHANGED <<minted, hot, rejected>>
    BY <1>0, <1>10 DEF Resolve, At, Leave, CandidatesOK, TypeInv, LockOK, Tasks
  <2>2. /\ Usable(Holder.scope, task.asof) \in SUBSET Refresh
        /\ Usable(Holder.scope, task.asof) \cap rejected = {}
        /\ \A q \in Granting(Holder.scope) :
               q \in Usable(Holder.scope, task.asof) \/ q \in rejected \/ Expired(q, task.asof)
    BY DEF Usable, Granting
  <2> QED
    BY <2>1, <2>2, NextCandidates
<1>1. CASE EnterGet /\ TryNext(now, Usable(Holder.scope, now))
  <2>1. /\ queue # <<>> /\ now \in Nat
        /\ TryNext(now, Usable(Holder.scope, now)) /\ ~ Valid(hot[Holder.scope].token, now)
        /\ UNCHANGED <<minted, hot, rejected>>
    BY <1>0, <1>1 DEF EnterGet, At, Leave, TypeInv, DataOK
  <2>2. /\ Usable(Holder.scope, now) \in SUBSET Refresh
        /\ Usable(Holder.scope, now) \cap rejected = {}
        /\ \A q \in Granting(Holder.scope) :
               q \in Usable(Holder.scope, now) \/ q \in rejected \/ Expired(q, now)
    BY DEF Usable, Granting
  <2> QED
    BY <2>1, <2>2, NextCandidates
<1>2. CASE Reported
  <2> DEFINE left == task.left \ {task.trying}
  <2>1. /\ queue # <<>> /\ task.at = "reporting" /\ task.asof \in Nat
        /\ left \in SUBSET Refresh
        /\ TryNext(task.asof, left)
        /\ UNCHANGED <<minted, hot, rejected>>
    BY <1>0, <1>2 DEF Reported, At, Leave, TypeInv, LockOK, Tasks
  <2>2. /\ left \cap rejected = {}
        /\ \A q \in Granting(Holder.scope) : q \in left \/ q \in rejected \/ Expired(q, task.asof)
        /\ ~ Valid(hot[Holder.scope].token, task.asof)
    BY <2>1 DEF CandidatesOK, Getting
  <2> HIDE DEF left
  <2> QED
    BY <2>1, <2>2, NextCandidates
<1>3. CASE Reject
  <2>1. /\ task.at = "exchanging"
        /\ task'.at = "dropping" /\ task'.left = task.left /\ task'.trying = task.trying
        /\ task'.asof = task.asof
        /\ rejected' = rejected \cup {task.trying}
        /\ UNCHANGED <<queue, hot>>
    BY <1>3 DEF Reject, At, TypeInv, LockOK, Tasks
  <2> QED
    BY <2>1 DEF CandidatesOK, Getting, Holder, Granting, Expired, Better, Rank, Valid, Capabilities
<1>4. CASE ReadCache \/ Mint \/ Dropped
  <2>1. /\ task.at \in Getting
        /\ UNCHANGED <<queue, hot, rejected>>
        /\ \/ task.at = "reading" /\ task' = [task EXCEPT !.at = "exchanging"]
           \/ task.at = "exchanging" /\ task' = [task EXCEPT !.at = "storing"]
           \/ task.at = "dropping" /\ task' = [task EXCEPT !.at = "reporting"]
    BY <1>0, <1>4 DEF ReadCache, Mint, Dropped, At, Getting, Adopt, Leave
  <2>2. task'.left = task.left /\ task'.trying = task.trying /\ task'.asof = task.asof
    BY <2>1 DEF TypeInv, LockOK, Tasks
  <2>3. \/ task.at = "reading" /\ task'.at = "exchanging"
        \/ task.at = "exchanging" /\ task'.at = "storing"
        \/ task.at = "dropping" /\ task'.at = "reporting"
    BY <2>1 DEF TypeInv, LockOK, Tasks
  <2> QED
    BY <2>1, <2>2, <2>3, SameCandidates
<1>5. CASE \/ \E s \in Scope : Get(s)
           \/ \E n \in 1 .. minted : Invalidate(n)
           \/ \E i \in DOMAIN queue : CancelWaiter(i)
  <2>1. Holder' = Holder /\ UNCHANGED <<hot, rejected, task>>
    BY <1>0, <1>5, QueueTyped DEF TypeInv, LockOK
  <2> QED
    BY <2>1 DEF CandidatesOK, Granting, Expired, Better, Rank, Valid, Capabilities
<1>6. CASE \/ Tick \/ UNCHANGED vars
           \/ \E r \in Refresh : OtherStores(r) \/ OtherDeletes(r)
           \/ \E c \in late : LateWrite(c)
  <2>1. UNCHANGED <<queue, hot, rejected, task>>
    BY <1>6 DEF Tick, vars, OtherStores, OtherDeletes, LateWrite
  <2> QED
    BY <2>1 DEF CandidatesOK, Getting, Holder, Granting, Expired, Better, Rank, Valid, Capabilities
<1>7. CASE EnterInvalidate \/ Expire
  <2>1. PICK scopes : ExpireNext(scopes)
    BY <1>7 DEF EnterInvalidate, Expire
  <2>2. task' = Idle \/ task'.at = "expiring"
    BY <2>1 DEF ExpireNext, Leave, Idle
  <2> QED
    BY <1>0, <2>2 DEF Getting
<1>8. CASE Stored \/ Fail \/ CancelHolder \/ Restart
  BY <1>0, <1>8 DEF Stored, Adopt, Leave, Fail, CancelHolder, Restart
<1> QED
  BY <1>0, <1>1, <1>2, <1>3, <1>4, <1>5, <1>6, <1>7, <1>8, <1>9, <1>10
     DEF Next, HolderStep, EnterGet, Leave

\* A refresh token that has expired stays expired.
LEMMA StaysExpired ==
  ASSUME NEW q \in Refresh, NEW t \in Nat, NEW u \in Nat, t <= u, Expired(q, t)
  PROVE  Expired(q, u)
BY DEF Expired

\* What serves a scope stays the least that can while it is the same token's,
\* nothing rejected is forgotten and time does not go back.
LEMMA SamePrivilege ==
  ASSUME LeastPrivilege, NEW s \in Scope,
         hot'[s].from \in {hot[s].from, None},
         rejected \subseteq rejected',
         now \in Nat, now' \in Nat, now <= now'
  PROVE  hot'[s].from # None =>
            \A q \in Granting(s) : Better(q, hot'[s].from) => q \in rejected' \/ Expired(q, now')
BY StaysExpired DEF LeastPrivilege, Granting

\* Steps that only go on in time and in what is rejected keep it.
LEMMA PrivilegeGoesOn ==
  ASSUME TypeInv, LeastPrivilege,
         \A s \in Scope : hot'[s].from \in {hot[s].from, None},
         rejected \subseteq rejected', now' \in Nat, now <= now'
  PROVE  LeastPrivilege'
<1>1. now \in Nat
  BY DEF TypeInv, DataOK
<1> QED
  BY <1>1, SamePrivilege DEF LeastPrivilege, Granting, Better, Rank, Expired, Capabilities

\* The token that a get adopts is of the best candidate that was left.
LEMMA AdoptedPrivilege ==
  ASSUME TypeInv, CandidatesOK, LeastPrivilege, queue # <<>>, task.at \in Getting,
         NEW a \in Access, Adopt(a), UNCHANGED <<now, minted, rejected>>
  PROVE  LeastPrivilege'
<1>1. /\ hot'[Holder.scope] = [from |-> task.trying, token |-> a]
      /\ \A s \in Scope \ {Holder.scope} : hot'[s] = hot[s]
  BY AdoptTyped
<1>2. now \in Nat /\ task.asof \in Nat /\ task.asof <= now
  BY DEF TypeInv, DataOK, LockOK, HolderOK, Tasks
<1>3. ASSUME NEW q \in Granting(Holder.scope), Better(q, task.trying)
      PROVE  q \in rejected \/ Expired(q, now)
  <2>1. q \in rejected \/ Expired(q, task.asof)
    BY <1>3 DEF CandidatesOK
  <2> QED
    BY <1>2, <2>1, StaysExpired DEF Granting
<1>4. ASSUME NEW s \in Scope, hot'[s].from # None,
             NEW q \in Granting(s), Better(q, hot'[s].from)
      PROVE  q \in rejected' \/ Expired(q, now')
  <2>1. CASE s = Holder.scope
    BY <1>1, <1>3, <1>4, <2>1
  <2>2. CASE s # Holder.scope
    BY <1>1, <1>4, <2>2 DEF LeastPrivilege
  <2> QED
    BY <2>1, <2>2
<1> QED
  BY <1>4 DEF LeastPrivilege, Granting, Better, Rank, Expired, Capabilities

\* Every step keeps it.
LEMMA PrivilegeKept ==
  TypeInv /\ CandidatesOK /\ LeastPrivilege /\ [Next]_vars => LeastPrivilege'
<1> SUFFICES ASSUME TypeInv, CandidatesOK, LeastPrivilege, [Next]_vars PROVE LeastPrivilege'
  OBVIOUS
<1>1. now \in Nat /\ now' \in Nat
  BY TypesKept DEF TypeInv, DataOK
<1>2. ASSUME NEW a \in Access, Adopt(a), At("reading") \/ At("storing"),
             UNCHANGED <<now, minted, rejected>>
      PROVE  LeastPrivilege'
  <2>1. queue # <<>> /\ task.at \in Getting
    BY <1>2 DEF At, Getting
  <2> QED
    BY <1>2, <2>1, AdoptedPrivilege
<1>3. CASE Stored
  <2>1. task.trying \in Refresh
    BY <1>3 DEF Stored, At, TypeInv, HolderOK, Getting, Granting
  <2>2. memory[task.trying] \in Access
    BY <2>1, CachedTyped DEF TypeInv
  <2> QED
    BY <1>2, <1>3, <2>2 DEF Stored
<1>4. CASE ReadCache
  <2> DEFINE a == IF memory[task.trying] # NoAccess THEN memory[task.trying]
                  ELSE IF readable' THEN file[task.trying] ELSE NoAccess
  <2>1. task.trying \in Refresh
    BY <1>4 DEF ReadCache, At, TypeInv, HolderOK, Getting, Granting
  <2>2. a \in Access
    BY <2>1, CachedTyped DEF TypeInv
  <2>3. /\ At("reading") /\ UNCHANGED <<now, minted, rejected>>
        /\ Adopt(a) \/ UNCHANGED hot
    BY <1>4 DEF ReadCache
  <2> HIDE DEF a
  <2> QED
    BY <1>1, <1>2, <2>2, <2>3, PrivilegeGoesOn
<1>5. CASE Expire
  <2>1. PICK s \in Scope : hot' = [hot EXCEPT ![s].token.exp = 0]
    BY <1>5 DEF Expire, TypeInv, LockOK, Tasks
  <2>2. \A t \in Scope : hot'[t].from = hot[t].from
    BY <2>1, HotExpires DEF TypeInv, DataOK
  <2> QED
    BY <1>1, <1>5, <2>2, PrivilegeGoesOn DEF Expire
<1>6. CASE Restart
  BY <1>6 DEF Restart, NotServing, LeastPrivilege
<1>7. CASE Tick \/ Reject
  BY <1>1, <1>7, PrivilegeGoesOn DEF Tick, Reject
<1>8. CASE \/ EnterGet \/ Resolve \/ Mint \/ Fail \/ Dropped \/ Reported \/ EnterInvalidate
           \/ CancelHolder \/ UNCHANGED vars
           \/ \E s \in Scope : Get(s)
           \/ \E n \in 1 .. minted : Invalidate(n)
           \/ \E i \in DOMAIN queue : CancelWaiter(i)
           \/ \E r \in Refresh : OtherStores(r) \/ OtherDeletes(r)
           \/ \E c \in late : LateWrite(c)
  <2>1. UNCHANGED <<now, hot, rejected>>
    BY <1>8 DEF EnterGet, Resolve, LateWrite, Mint, Fail, Dropped, Reported, EnterInvalidate, CancelHolder, vars,
                Get, Invalidate, CancelWaiter, OtherStores, OtherDeletes
  <2> QED
    BY <1>1, <2>1, PrivilegeGoesOn
<1> QED
  BY <1>3, <1>4, <1>5, <1>6, <1>7, <1>8 DEF Next, HolderStep

-----------------------------------------------------------------------------
\* What always holds.

LEMMA InitHolds == Init => IInv
<1> SUFFICES ASSUME Init PROVE IInv
  OBVIOUS
<1>1. OneOrigin
  BY DEF Init, OneOrigin, Kept, NoAccess, NotServing
<1>2. ExpiringOK /\ CandidatesOK
  BY IdleTyped DEF Init, ExpiringOK, CandidatesOK, Getting
<1>3. LeastPrivilege /\ InvalidatedStaysDropped
  BY DEF Init, LeastPrivilege, InvalidatedStaysDropped, NotServing
<1> QED
  BY <1>1, <1>2, <1>3, InitTyped DEF IInv

LEMMA InvHolds == Spec => []IInv
<1>1. IInv /\ [Next]_vars => IInv'
  BY TypesKept, OriginKept, ExpiringKept, CandidatesKept, PrivilegeKept, DroppedKept DEF IInv
<1> QED
  BY <1>1, InitHolds, PTL DEF Spec

\* "skipped for the rest of the process" (_rejected in get of the provider): a
\* refresh token the endpoint has rejected is never sent to it again.
THEOREM RejectedNotReused == Spec => []NoRejectedReuse
<1>1. IInv => NoRejectedReuse
  BY DEF IInv, TypeInv, HolderOK, CandidatesOK, NoRejectedReuse, At, Getting
<1> QED
  BY <1>1, InvHolds, PTL

\* "The provider picks the least-privileged, longest-lived refresh token": what
\* serves a scope is of a token that no better one, neither rejected nor
\* expired, could replace.
THEOREM LeastPrivileged == Spec => []LeastPrivilege
<1>1. IInv => LeastPrivilege
  BY DEF IInv
<1> QED
  BY <1>1, InvHolds, PTL

\* An access token that invalidate was called with serves no call again while
\* the process runs and writes the file: no memory, no file and no scope
\* gives it back, whatever the other processes write and whoever is cancelled,
\* but for the late write of a cancelled writer that had read it before.
THEOREM InvalidatedStay == Spec => []InvalidatedStaysDropped
<1>1. IInv => InvalidatedStaysDropped
  BY DEF IInv
<1> QED
  BY <1>1, InvHolds, PTL

\* "Concurrent callers wait for the exchange in progress": a get goes from the
\* cache to the endpoint only without a token that was valid when it got the
\* lock, in memory or serving its scope.
THEOREM NoNeedless == Spec => NoNeedlessExchange
<1> DEFINE Needed == At("reading") /\ task'.at = "exchanging" =>
                        /\ ~ Valid(hot[Holder.scope].token, task.asof)
                        /\ ~ Valid(memory[task.trying], task.asof)
<1>1. ASSUME IInv, [Next]_vars, At("reading"), task'.at = "exchanging"
      PROVE  /\ ~ Valid(hot[Holder.scope].token, task.asof)
             /\ ~ Valid(memory[task.trying], task.asof)
  <2>1. task.at = "reading" /\ task' # Idle /\ task' # task
    BY <1>1, IdleTyped DEF At
  <2>2. ReadCache
    <3>1. CASE EnterInvalidate \/ Expire
      BY <2>1, <3>1 DEF EnterInvalidate, Expire, At
    <3>2. CASE EnterGet \/ Resolve \/ Mint \/ Stored \/ Reject \/ Fail \/ Dropped \/ Reported
      BY <2>1, <3>2 DEF EnterGet, Resolve, Mint, Stored, Reject, Fail, Dropped, Reported, At
    <3>3. CASE \/ CancelHolder \/ Restart \/ Tick \/ UNCHANGED vars
               \/ \E s \in Scope : Get(s)
               \/ \E n \in 1 .. minted : Invalidate(n)
               \/ \E i \in DOMAIN queue : CancelWaiter(i)
               \/ \E r \in Refresh : OtherStores(r) \/ OtherDeletes(r)
               \/ \E c \in late : LateWrite(c)
      BY <2>1, <3>3 DEF LateWrite, CancelHolder, Leave, Restart, Tick, vars, Get, Invalidate, CancelWaiter,
                        OtherStores, OtherDeletes
    <3> QED
      BY <1>1, <3>1, <3>2, <3>3 DEF Next, HolderStep
  <2>3. ~ Valid(hot[Holder.scope].token, task.asof)
    BY <1>1, <2>1 DEF IInv, CandidatesOK, Getting
  <2>4. CASE memory[task.trying] = NoAccess
    <3>1. task.asof \in Nat
      BY <1>1 DEF IInv, TypeInv, LockOK, Tasks
    <3> QED
      BY <2>3, <2>4, <3>1 DEF Valid, NoAccess
  <2>5. CASE memory[task.trying] # NoAccess
    BY <2>1, <2>2, <2>3, <2>5 DEF ReadCache, Adopt, Leave
  <2> QED
    BY <2>4, <2>5
<1>2. IInv /\ [Next]_vars => [Needed]_task
  BY <1>1
<1> QED
  BY <1>2, InvHolds, PTL DEF Spec, NoNeedlessExchange

=============================================================================
