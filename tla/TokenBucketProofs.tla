-------------------------- MODULE TokenBucketProofs --------------------------
(***************************************************************************)
(* Proofs about TokenBucket, for every number of callers, cost, capacity,  *)
(* set of delays and bound.                                                *)
(*                                                                         *)
(* The burst bound is not inductive: it says nothing of the bucket.  What  *)
(* is inductive is that each admission so far, with all that followed it,  *)
(* and with what is in the bucket now, was paid for by one full bucket and *)
(* what was earned up to the last refill (Paid); and that at the deadline  *)
(* of a holder asleep for a token the bucket holds one (Earning), so that  *)
(* one that wakes early lacks no more than it was early.                   *)
(***************************************************************************)
EXTENDS TokenBucket, SequenceTheorems, TLAPS

\* The lock is held by the caller whose stage the model keeps.
HolderQueued == stage # "entering" => queue # <<>>

\* What a sleeping holder waits for.
Earning == stage = "earning" => tokens + (wake - updated) >= Cost

\* The admissions from the i-th on, and the units in the bucket, are paid for.
Paid ==
    \A i \in DOMAIN log :
        (Len(log) - i + 1) * Cost + tokens <= Capacity + (updated - log[i].at)

PacingInv ==
    /\ DebtBounded
    /\ updated <= now
    /\ HolderQueued
    /\ Earning
    /\ Paid
    /\ BurstBound

\* The block a holder found is the longest declared by then, and the holder
\* sleeps, or has slept, until it ended.
BlockInv ==
    /\ blockedUntil = longest
    /\ stage = "blocked" => wake >= seen
    /\ stage = "earning" => now + MaxEarly >= seen
    /\ KnownBlockServed

-----------------------------------------------------------------------------
\* Removing one element keeps a sequence a sequence over the same set.
LEMMA RemoveAtType ==
    ASSUME NEW S, NEW s \in Seq(S), NEW i \in 1 .. Len(s)
    PROVE  /\ RemoveAt(s, i) \in Seq(S)
           /\ Len(RemoveAt(s, i)) = Len(s) - 1
<1>1. SubSeq(s, 1, i - 1) \in Seq(S) /\ Len(SubSeq(s, 1, i - 1)) = i - 1
  BY SubSeqProperties
<1>2. SubSeq(s, i + 1, Len(s)) \in Seq(S) /\ Len(SubSeq(s, i + 1, Len(s))) = Len(s) - i
  BY SubSeqProperties
<1> DEFINE before == SubSeq(s, 1, i - 1)
           after  == SubSeq(s, i + 1, Len(s))
<1> HIDE DEF before, after
<1>3. before \o after \in Seq(S) /\ Len(before \o after) = Len(before) + Len(after)
  BY <1>1, <1>2, ConcatProperties DEF before, after
<1>4. Len(before) + Len(after) = Len(s) - 1
  <2>1. Len(before) = i - 1 /\ Len(after) = Len(s) - i /\ Len(s) \in Nat /\ i \in Nat
    BY <1>1, <1>2, LenProperties DEF before, after
  <2>2. QED
    BY <2>1
<1>5. QED
  BY <1>3, <1>4 DEF RemoveAt, before, after

\* The records of the log and their times.
LEMMA LogEntries ==
    ASSUME TypeOK, NEW i \in DOMAIN log
    PROVE  /\ i \in 1 .. Len(log)
           /\ Len(log) \in Nat
           /\ log[i].at \in Nat /\ log[i].seen \in Nat
<1>1. log[i] \in Admission
  BY ElementOfSeq DEF TypeOK
<1>2. QED
  BY <1>1 DEF TypeOK, Admission

\* One more operation costs one more Cost.
LEMMA OneMore ==
    ASSUME NEW n \in Int, NEW c \in Int
    PROVE  (n + 1) * c = n * c + c
OBVIOUS

\* How early a sleeper may wake is a number.
LEMMA EarlyType == MaxEarly \in Nat
BY BucketAssumption

\* What was paid for at the last refill is paid for after the next one.
LEMMA Earned ==
    ASSUME NEW spent \in Int, NEW held \in Int, NEW left \in Int, NEW full \in Int,
           NEW before \in Int, NEW after \in Int, NEW start \in Int,
           spent + left <= full + (before - start),
           held <= left + (after - before)
    PROVE  spent + held <= full + (after - start)
OBVIOUS

\* Refilling leaves the bucket between empty and full, and adds at most what
\* was earned since the last refill.
LEMMA RefilledBounds ==
    ASSUME TypeOK, DebtBounded, updated <= now
    PROVE  /\ Refilled \in Int
           /\ Refilled + MaxEarly >= 0 /\ Refilled <= Capacity
           /\ Refilled <= tokens + (now - updated)
           /\ tokens + (now - updated) + MaxEarly >= Cost => Refilled + MaxEarly >= Cost
BY SMTT(30), BucketAssumption DEF TypeOK, DebtBounded, Refilled, SmallerOf, LargerOf

-----------------------------------------------------------------------------
\* The middle of acquire keeps the types.
LEMMA TakeType ==
    ASSUME TypeOK, PacingInv, queue # <<>>, seen' \in Nat,
           now' = now, longest' = longest,
           RefillThenTake \/ Admit(Refilled)
    PROVE  /\ tokens' \in Int
           /\ updated' \in Nat
           /\ queue' \in Seq(Callers)
           /\ stage' \in {"entering", "blocked", "earning"}
           /\ wake' \in Nat
           /\ log' \in Seq(Admission)
<1> USE BucketAssumption
<1>1. Refilled \in Int
  BY RefilledBounds DEF PacingInv
<1>2. Tail(queue) \in Seq(Callers)
  BY HeadTailProperties DEF TypeOK
<1>3. CASE Admit(Refilled)
  <2>1. [at |-> now, seen |-> seen'] \in Admission
    BY DEF TypeOK, Admission
  <2>2. log' \in Seq(Admission)
    BY <1>3, <2>1, AppendProperties DEF Admit, TypeOK
  <2>3. QED
    BY <1>1, <1>2, <1>3, <2>2 DEF Admit, Release, TypeOK
<1>4. CASE /\ Refilled < Cost
           /\ tokens' = Refilled
           /\ updated' = now
           /\ stage' = "earning"
           /\ wake' = now + (Cost - Refilled)
           /\ UNCHANGED <<queue, log>>
  BY <1>1, <1>4 DEF TypeOK
<1>5. QED
  BY <1>3, <1>4 DEF RefillThenTake

-----------------------------------------------------------------------------
\* One lemma for the two ways `acquire` goes on after a refill: the accounting
\* survives the refill and, when a token is taken, the new admission.
LEMMA TakePacing ==
    ASSUME TypeOK, PacingInv, queue # <<>>, queue' \in Seq(Callers),
           now' = now,
           \/ RefillThenTake
           \/ Admit(Refilled) /\ Refilled + MaxEarly >= Cost
    PROVE  PacingInv'
<1> USE BucketAssumption
<1>0. now \in Int /\ tokens \in Int /\ updated \in Int /\ Capacity \in Int /\ MaxEarly \in Nat
  BY DEF TypeOK
<1>1. /\ Refilled \in Int
      /\ Refilled + MaxEarly >= 0 /\ Refilled <= Capacity
      /\ Refilled <= tokens + (now - updated)
  BY RefilledBounds DEF PacingInv
<1>2. \A i \in DOMAIN log :
         /\ i \in 1 .. Len(log)
         /\ log[i].at \in Nat
         /\ (Len(log) - i + 1) * Cost + Refilled <= Capacity + (now - log[i].at)
  <2> SUFFICES ASSUME NEW i \in DOMAIN log
               PROVE  /\ i \in 1 .. Len(log)
                      /\ log[i].at \in Nat
                      /\ (Len(log) - i + 1) * Cost + Refilled
                            <= Capacity + (now - log[i].at)
    OBVIOUS
  <2> DEFINE spent == (Len(log) - i + 1) * Cost
  <2>1. i \in 1 .. Len(log) /\ Len(log) \in Nat /\ log[i].at \in Nat
    BY LogEntries
  <2>2. spent + tokens <= Capacity + (updated - log[i].at)
    BY DEF PacingInv, Paid
  <2>3. spent \in Int
    BY <2>1
  <2>4. spent + Refilled <= Capacity + (now - log[i].at)
    <3> HIDE DEF spent
    <3>1. log[i].at \in Int /\ Refilled \in Int
      BY <2>1, <1>1
    <3>2. spent + tokens <= Capacity + (updated - log[i].at)
      BY <2>2
    <3>3. Refilled <= tokens + (now - updated)
      BY <1>1
    <3>4. spent \in Int
      BY <2>3
    <3> QED
      BY <1>0, <3>1, <3>2, <3>3, <3>4, Earned
  <2>5. QED
    BY <2>1, <2>4
<1>3. CASE Admit(Refilled) /\ Refilled + MaxEarly >= Cost
  <2> DEFINE new == [at |-> now, seen |-> seen']
  <2>1. /\ log' = Append(log, new)
        /\ Len(log') = Len(log) + 1
        /\ DOMAIN log' = 1 .. Len(log) + 1
        /\ \A i \in DOMAIN log : log'[i] = log[i]
        /\ log'[Len(log) + 1].at = now
    BY <1>3 DEF Admit, TypeOK
  <2>2. Paid'
    <3> SUFFICES ASSUME NEW i \in 1 .. Len(log) + 1
                 PROVE  (Len(log) + 1 - i + 1) * Cost + tokens'
                          <= Capacity + (updated' - log'[i].at)
      BY <2>1, SMTT(30) DEF Paid
    <3>1. CASE i = Len(log) + 1
      BY <1>1, <1>3, <2>1, <3>1 DEF Admit, TypeOK
    <3>2. CASE i \in DOMAIN log
      <4> DEFINE spent == (Len(log) - i + 1) * Cost
      <4>1. /\ spent + Refilled <= Capacity + (now - log[i].at)
            /\ log[i].at \in Nat
        BY <1>2, <3>2
      <4>2. /\ (Len(log) + 1 - i + 1) * Cost = spent + Cost
            /\ spent \in Int
        BY DEF TypeOK
      <4>3. log'[i].at = log[i].at /\ tokens' = Refilled - Cost /\ updated' = now
        BY <1>3, <2>1, <3>2 DEF Admit
      <4>4. spent + Cost + tokens' <= Capacity + (updated' - log'[i].at)
        <5> HIDE DEF spent
        <5>1. spent + Refilled <= Capacity + (updated' - log'[i].at) /\ spent \in Int
          BY <4>1, <4>2, <4>3
        <5>2. tokens' = Refilled - Cost /\ Refilled \in Int /\ Cost \in Int
          BY <1>1, <4>3
        <5>3. spent + Cost + tokens' = spent + Refilled
          BY ONLY <5>1, <5>2
        <5> QED
          BY <5>1, <5>3
      <4>5. QED
        BY <4>2, <4>4
    <3>3. QED
      BY <3>1, <3>2 DEF TypeOK
  <2>3. BurstBound'
    <3> SUFFICES ASSUME NEW i \in 1 .. Len(log) + 1, NEW j \in i .. Len(log) + 1
                 PROVE  (j - i + 1) * Cost <= Capacity + MaxEarly + (log'[j].at - log'[i].at)
      BY <2>1 DEF BurstBound
    <3>1. CASE j = Len(log) + 1 /\ i = Len(log) + 1
      BY <1>1, <1>3, <2>1, <3>1, SMTT(30) DEF TypeOK
    <3>2. CASE j = Len(log) + 1 /\ i \in DOMAIN log
      <4> DEFINE spent == (Len(log) - i + 1) * Cost
      <4>1. /\ spent + Refilled <= Capacity + (now - log[i].at)
            /\ log[i].at \in Nat
        BY <1>2, <3>2
      <4>2. /\ (j - i + 1) * Cost = spent + Cost
            /\ spent \in Int
        <5>1. Len(log) - i + 1 \in Int /\ Cost \in Int
          BY <3>2 DEF TypeOK
        <5>2. j - i + 1 = (Len(log) - i + 1) + 1
          BY <3>2, <5>1 DEF TypeOK
        <5>3. QED
          BY <5>1, <5>2, OneMore
      <4>3. log'[i].at = log[i].at /\ log'[j].at = now
        BY <2>1, <3>2
      <4>4. spent + Cost <= Capacity + MaxEarly + (log'[j].at - log'[i].at)
        <5> HIDE DEF spent
        <5>1. log'[i].at \in Int /\ log'[j].at = now /\ Refilled \in Int /\ Cost \in Int
          BY <1>1, <4>1, <4>3
        <5>2. spent + Refilled <= Capacity + (log'[j].at - log'[i].at) /\ spent \in Int
          BY <4>1, <4>2, <4>3
        <5>3. Cost <= Refilled + MaxEarly
          BY <1>1, <1>3
        <5> QED
          BY ONLY <1>0, <5>1, <5>2, <5>3
      <4>5. QED
        BY <4>2, <4>4
    <3>3. CASE j \in DOMAIN log
      <4>1. i \in DOMAIN log /\ j \in i .. Len(log)
        BY <3>3 DEF TypeOK
      <4>2. log'[i].at = log[i].at /\ log'[j].at = log[j].at
        BY <2>1, <3>3, <4>1
      <4>3. QED
        BY <4>1, <4>2 DEF PacingInv, BurstBound
    <3>4. QED
      BY <3>1, <3>2, <3>3, SMTT(30) DEF TypeOK
  <2>4. DebtBounded' /\ (updated <= now)' /\ HolderQueued' /\ Earning'
    BY <1>1, <1>3 DEF Admit, Release, DebtBounded, HolderQueued, Earning, TypeOK
  <2>5. QED
    BY <2>2, <2>3, <2>4 DEF PacingInv
<1>4. CASE /\ Refilled < Cost
           /\ tokens' = Refilled
           /\ updated' = now
           /\ stage' = "earning"
           /\ wake' = now + (Cost - Refilled)
           /\ UNCHANGED <<queue, log>>
  <2>1. Paid'
    BY <1>2, <1>4 DEF Paid
  <2>2. DebtBounded' /\ (updated <= now)' /\ HolderQueued' /\ Earning'
    BY <1>1, <1>4 DEF DebtBounded, HolderQueued, Earning, TypeOK
  <2>3. BurstBound'
    BY <1>4 DEF PacingInv, BurstBound
  <2>4. QED
    BY <2>1, <2>2, <2>3 DEF PacingInv
<1>5. Refilled >= Cost => Refilled + MaxEarly >= Cost
  BY <1>0, <1>1
<1>6. QED
  BY <1>3, <1>4, <1>5 DEF RefillThenTake

-----------------------------------------------------------------------------
\* The three steps of the holder, seen alike: an asleep holder finds a token,
\* and each of them refills, takes or only goes to sleep for a block.
LEMMA HolderCases ==
    ASSUME TypeOK, PacingInv, HolderStep
    PROVE  /\ queue # <<>>
           /\ UNCHANGED <<now, blockedUntil, longest>>
           /\ seen' \in Nat
           /\ \/ RefillThenTake
              \/ Admit(Refilled) /\ Refilled + MaxEarly >= Cost
              \/ /\ stage' = "blocked" /\ wake' = blockedUntil
                 /\ UNCHANGED <<Bucket, queue, log>>
<1>1. CASE Enter
  BY <1>1 DEF Enter, TypeOK
<1>2. CASE WakeFromBlock
  BY <1>2 DEF WakeFromBlock, TypeOK, PacingInv, HolderQueued
<1>3. CASE WakeWithToken
  <2>1. tokens + (now - updated) + MaxEarly >= Cost
    <3>1. /\ tokens + (wake - updated) >= Cost /\ now + MaxEarly >= wake
          /\ {tokens, wake, updated, now, MaxEarly, Cost} \subseteq Int
      BY <1>3, EarlyType, BucketAssumption DEF WakeWithToken, PacingInv, Earning, TypeOK
    <3>2. QED
      BY <3>1
  <2>2. Refilled + MaxEarly >= Cost
    BY <2>1, RefilledBounds DEF PacingInv
  <2>3. QED
    BY <1>3, <2>2 DEF WakeWithToken, TypeOK, PacingInv, HolderQueued
<1>4. QED
  BY <1>1, <1>2, <1>3 DEF HolderStep

\* Cancelling a caller keeps the queue a sequence of callers.
LEMMA CancelType ==
    ASSUME TypeOK, NEW i \in DOMAIN queue, Cancel(i)
    PROVE  /\ queue' \in Seq(Callers)
           /\ wake' \in Nat
           /\ stage' \in {"entering", "blocked", "earning"}
<1>1. i \in 1 .. Len(queue) /\ queue # <<>>
  BY DEF TypeOK
<1>2. Tail(queue) \in Seq(Callers)
  BY <1>1, HeadTailProperties DEF TypeOK
<1>3. RemoveAt(queue, i) \in Seq(Callers)
  BY <1>1, RemoveAtType DEF TypeOK
<1>4. CASE Release
  BY <1>2, <1>4 DEF Release, TypeOK
<1>5. CASE queue' = RemoveAt(queue, i) /\ UNCHANGED <<stage, wake>>
  BY <1>3, <1>5 DEF TypeOK
<1>6. QED
  BY <1>4, <1>5 DEF Cancel

\* Types and pacing, together because the holder's steps need both.
LEMMA TypeAndPacingStep ==
    ASSUME TypeOK, PacingInv, [Next]_vars
    PROVE  TypeOK' /\ PacingInv'
<1> USE BucketAssumption
<1>1. CASE HolderStep
  <2>1. /\ queue # <<>>
        /\ UNCHANGED <<now, blockedUntil, longest>>
        /\ seen' \in Nat
    BY <1>1, HolderCases
  <2>2. CASE RefillThenTake \/ (Admit(Refilled) /\ Refilled + MaxEarly >= Cost)
    <3>1. TypeOK'
      BY <2>1, <2>2, TakeType DEF TypeOK
    <3>2. PacingInv'
      BY <2>1, <2>2, <3>1, TakePacing DEF TypeOK
    <3>3. QED
      BY <3>1, <3>2
  <2>3. CASE /\ stage' = "blocked" /\ wake' = blockedUntil
             /\ UNCHANGED <<Bucket, queue, log>>
    <3>1. TypeOK'
      BY <2>1, <2>3 DEF TypeOK, Bucket
    <3>2. PacingInv'
      BY <2>1, <2>3 DEF PacingInv, DebtBounded, HolderQueued, Earning, Paid, BurstBound, Bucket
    <3>3. QED
      BY <3>1, <3>2
  <2>4. QED
    BY <1>1, <2>2, <2>3, HolderCases
<1>2. CASE Tick
  BY <1>2 DEF Tick, Bucket, History, TypeOK, PacingInv, DebtBounded, HolderQueued, Earning, Paid,
              BurstBound
<1>3. ASSUME NEW c \in Callers, Acquire(c)
      PROVE  TypeOK' /\ PacingInv'
  <2>1. queue' \in Seq(Callers) /\ queue' # <<>>
    BY <1>3, AppendProperties DEF Acquire, TypeOK
  <2>2. TypeOK'
    BY <1>3, <2>1 DEF Acquire, Bucket, History, TypeOK
  <2>3. Earning'
    BY <1>3 DEF Acquire, Bucket, History, PacingInv, HolderQueued, Earning
  <2>4. (DebtBounded /\ updated <= now /\ HolderQueued /\ Paid /\ BurstBound)'
    BY <1>3, <2>1 DEF Acquire, Bucket, History, PacingInv, DebtBounded, HolderQueued, Paid, BurstBound
  <2>5. QED
    BY <2>2, <2>3, <2>4 DEF PacingInv
<1>4. ASSUME NEW i \in DOMAIN queue, Cancel(i)
      PROVE  TypeOK' /\ PacingInv'
  <2>1. TypeOK'
    BY <1>4, CancelType DEF Cancel, Bucket, History, TypeOK
  <2>2. HolderQueued' /\ Earning'
    <3>1. CASE Release
      BY <3>1 DEF Release, HolderQueued, Earning
    <3>2. CASE i > 1 /\ queue' = RemoveAt(queue, i) /\ UNCHANGED <<stage, wake>>
      <4>1. Len(RemoveAt(queue, i)) = Len(queue) - 1 /\ Len(queue) > 1
        BY <3>2, RemoveAtType DEF TypeOK
      <4>2. queue' # <<>>
        BY <3>2, <4>1
      <4>3. QED
        BY <1>4, <3>2, <4>2 DEF Cancel, Bucket, PacingInv, HolderQueued, Earning
    <3>3. QED
      BY <1>4, <3>1, <3>2 DEF Cancel
  <2>3. (DebtBounded /\ updated <= now /\ Paid /\ BurstBound)'
    BY <1>4 DEF Cancel, Bucket, History, PacingInv, DebtBounded, Paid, BurstBound
  <2>4. QED
    BY <2>1, <2>2, <2>3 DEF PacingInv
<1>5. ASSUME NEW d \in Delays, Penalize(d)
      PROVE  TypeOK' /\ PacingInv'
  BY <1>5 DEF Penalize, Bucket, LargerOf, TypeOK, PacingInv, DebtBounded, HolderQueued, Earning, Paid,
              BurstBound
<1>6. CASE UNCHANGED vars
  BY <1>6 DEF vars, TypeOK, PacingInv, DebtBounded, HolderQueued, Earning, Paid, BurstBound
<1>7. QED
  BY <1>1, <1>2, <1>3, <1>4, <1>5, <1>6 DEF Next

-----------------------------------------------------------------------------
\* The types of the variables, in every reachable state.
THEOREM TypeCorrect == Spec => []TypeOK
<1>1. Init => TypeOK /\ PacingInv
  BY BucketAssumption
     DEF Init, TypeOK, PacingInv, DebtBounded, HolderQueued, Earning, Paid, BurstBound
<1>2. TypeOK /\ PacingInv /\ [Next]_vars => (TypeOK /\ PacingInv)'
  BY TypeAndPacingStep
<1>3. QED
  BY <1>1, <1>2, PTL DEF Spec

LEMMA PacingCorrect == Spec => []PacingInv
<1>1. Init => TypeOK /\ PacingInv
  BY BucketAssumption
     DEF Init, TypeOK, PacingInv, DebtBounded, HolderQueued, Earning, Paid, BurstBound
<1>2. TypeOK /\ PacingInv /\ [Next]_vars => (TypeOK /\ PacingInv)'
  BY TypeAndPacingStep
<1>3. QED
  BY <1>1, <1>2, PTL DEF Spec

\* However callers arrive, sleep, are penalised or cancelled, any run of
\* admissions fits the bucket's capacity and rate.
THEOREM BurstsBounded == Spec => []BurstBound
<1>1. PacingInv => BurstBound
  BY DEF PacingInv
<1>2. QED
  BY <1>1, PacingCorrect, PTL

\* The debts of callers that woke too early do not add up: the bucket is never
\* further below nothing than one early wake, and never above its capacity.
THEOREM DebtsDoNotAddUp == Spec => []DebtBounded
<1>1. PacingInv => DebtBounded
  BY DEF PacingInv
<1>2. QED
  BY <1>1, PacingCorrect, PTL

-----------------------------------------------------------------------------
\* The block invariant survives the holder's choice after a refill, provided
\* the block it knew of is over.
LEMMA TakeKeepsBlocks ==
    ASSUME TypeOK, PacingInv, BlockInv, seen' \in Nat, now + MaxEarly >= seen', now' = now,
           UNCHANGED <<blockedUntil, longest>>,
           RefillThenTake \/ Admit(Refilled)
    PROVE  BlockInv'
<1>1. CASE Admit(Refilled)
  <2> DEFINE entry == [at |-> now, seen |-> seen']
  <2>1. /\ DOMAIN log' = 1 .. Len(log) + 1
        /\ \A i \in 1 .. Len(log) : log'[i] = log[i]
        /\ log'[Len(log) + 1] = entry
    BY <1>1 DEF Admit, TypeOK
  <2>2. KnownBlockServed'
    <3> SUFFICES ASSUME NEW i \in 1 .. Len(log) + 1
                 PROVE  log'[i].at + MaxEarly >= log'[i].seen
      BY <2>1 DEF KnownBlockServed
    <3>1. CASE i \in 1 .. Len(log)
      BY <2>1, <3>1 DEF BlockInv, KnownBlockServed, TypeOK
    <3>2. CASE i = Len(log) + 1
      BY <2>1, <3>2
    <3>3. QED
      BY <3>1, <3>2 DEF TypeOK
  <2>3. QED
    BY <1>1, <2>2 DEF BlockInv, Admit, Release
<1>2. CASE stage' = "earning" /\ UNCHANGED <<queue, log>>
  BY <1>2 DEF BlockInv, KnownBlockServed
<1>3. QED
  BY <1>1, <1>2 DEF RefillThenTake

LEMMA BlockStep ==
    ASSUME TypeOK, PacingInv, BlockInv, [Next]_vars
    PROVE  BlockInv'
<1>1. CASE Enter
  <2>1. CASE now < blockedUntil
    BY <1>1, <2>1 DEF Enter, BlockInv, KnownBlockServed, TypeOK
  <2>2. CASE now >= blockedUntil /\ RefillThenTake
    BY <1>1, <2>2, EarlyType, TakeKeepsBlocks DEF Enter, BlockInv, TypeOK
  <2>3. QED
    BY <1>1, <2>1, <2>2 DEF Enter, TypeOK
<1>2. CASE WakeFromBlock
  BY <1>2, EarlyType, TakeKeepsBlocks DEF WakeFromBlock, BlockInv, TypeOK
<1>3. CASE WakeWithToken
  <2>1. /\ now + MaxEarly >= seen' /\ seen' \in Nat /\ now' = now
        /\ UNCHANGED <<blockedUntil, longest>> /\ Admit(Refilled)
    BY <1>3 DEF WakeWithToken, BlockInv, TypeOK
  <2>2. QED
    BY <2>1, TakeKeepsBlocks
<1>4. CASE Tick
  BY <1>4, EarlyType DEF Tick, History, BlockInv, KnownBlockServed, TypeOK
<1>5. ASSUME NEW c \in Callers, Acquire(c)
      PROVE  BlockInv'
  BY <1>5 DEF Acquire, History, BlockInv, KnownBlockServed, PacingInv, HolderQueued
<1>6. ASSUME NEW i \in DOMAIN queue, Cancel(i)
      PROVE  BlockInv'
  BY <1>6 DEF Cancel, Release, History, BlockInv, KnownBlockServed
<1>7. ASSUME NEW d \in Delays, Penalize(d)
      PROVE  BlockInv'
  BY <1>7 DEF Penalize, BlockInv, KnownBlockServed
<1>8. CASE UNCHANGED vars
  BY <1>8 DEF vars, BlockInv, KnownBlockServed
<1>9. QED
  BY <1>1, <1>2, <1>3, <1>4, <1>5, <1>6, <1>7, <1>8 DEF Next, HolderStep

\* A caller never proceeds before the end of a block that was declared before
\* it took the lock.
THEOREM BlocksServed == Spec => []KnownBlockServed
<1>1. Init => BlockInv
  BY DEF Init, BlockInv, KnownBlockServed
<1>2. TypeOK /\ PacingInv /\ BlockInv /\ [Next]_vars => BlockInv'
  BY BlockStep
<1>3. BlockInv => KnownBlockServed
  BY DEF BlockInv
<1>4. QED
  BY <1>1, <1>2, <1>3, TypeCorrect, PacingCorrect, PTL DEF Spec

-----------------------------------------------------------------------------
\* An admission appends the current time to the times of the admissions, and
\* the burst bound after it is what RateBudget asks of the new list.
LEMMA AdmissionMaps ==
    ASSUME TypeOK, TypeOK', BurstBound', Admit(Refilled), now' = now
    PROVE  Budget!Admit
<1> DEFINE entry == [at |-> now, seen |-> seen']
<1>1. /\ log' = Append(log, entry)
      /\ DOMAIN log = 1 .. Len(log) /\ Len(log) \in Nat
      /\ DOMAIN log' = 1 .. Len(log) + 1
      /\ Len(log') = Len(log) + 1
      /\ \A i \in 1 .. Len(log) : log'[i] = log[i]
      /\ log'[Len(log) + 1].at = now
  BY DEF Admit, TypeOK
<1>2. /\ Times \in Seq(Nat) /\ Len(Times) = Len(log)
      /\ Times' \in Seq(Nat) /\ Len(Times') = Len(log) + 1
  <2>1. \A i \in DOMAIN log : log[i].at \in Nat
    BY LogEntries
  <2>2. \A i \in DOMAIN log' : log'[i] \in Admission
    BY ElementOfSeq DEF TypeOK
  <2>3. \A i \in DOMAIN log' : log'[i].at \in Nat
    BY <2>2 DEF Admission
  <2>4. Times \in [1 .. Len(log) -> Nat] /\ Times' \in [1 .. Len(log) + 1 -> Nat]
    BY <1>1, <2>1, <2>3 DEF Times
  <2>5. QED
    BY <1>1, <2>4, IsASeq, LenProperties DEF Times
<1>3. Times' = Append(Times, now)
  <2>1. now \in Nat
    BY DEF TypeOK
  <2>2. /\ Append(Times, now) \in Seq(Nat)
        /\ Len(Append(Times, now)) = Len(log) + 1
        /\ \A i \in 1 .. Len(log) : Append(Times, now)[i] = Times[i]
        /\ Append(Times, now)[Len(log) + 1] = now
    BY <1>2, <2>1, AppendProperties
  <2>3. \A i \in 1 .. Len(log) + 1 : Times'[i] = Append(Times, now)[i]
    BY <1>1, <2>2 DEF Times
  <2>4. QED
    BY <1>2, <2>2, <2>3, SeqEqual
<1>4. Budget!Fits(Times')
  <2>1. Times' = [i \in DOMAIN log' |-> log'[i].at]
    BY DEF Times
  <2>2. SUFFICES ASSUME NEW i \in 1 .. Len(log) + 1, NEW j \in i .. Len(log) + 1
                 PROVE  (j - i + 1) * Cost <= Capacity + MaxEarly + (Times'[j] - Times'[i])
    BY <1>1, <1>2, <2>1, ZenonT(60) DEF Budget!Fits, Budget!RunFits
  <2>3. (j - i + 1) * Cost <= Capacity + MaxEarly + (log'[j].at - log'[i].at)
    BY <1>1 DEF BurstBound
  <2>4. QED
    BY <1>1, <2>1, <2>3
<1>5. QED
  BY <1>3, <1>4 DEF Budget!Admit

\* Every step of the bucket is a tick, an admission or invisible.
LEMMA StepMaps ==
    ASSUME TypeOK, TypeOK', BurstBound', PacingInv, [Next]_vars
    PROVE  [Budget!Next]_(Budget!vars)
<1>1. CASE HolderStep
  <2>1. CASE Admit(Refilled)
    BY <1>1, <2>1, HolderCases, AdmissionMaps DEF Budget!Next
  <2>2. CASE UNCHANGED log
    BY <1>1, <2>2, HolderCases DEF Budget!vars, Times
  <2>3. QED
    BY <1>1, <2>1, <2>2, HolderCases DEF RefillThenTake
<1>2. CASE Tick
  BY <1>2 DEF Tick, History, Times, Budget!Next, Budget!Tick
<1>3. ASSUME NEW c \in Callers, Acquire(c)
      PROVE  UNCHANGED Budget!vars
  BY <1>3 DEF Acquire, History, Times, Budget!vars
<1>4. ASSUME NEW i \in DOMAIN queue, Cancel(i)
      PROVE  UNCHANGED Budget!vars
  BY <1>4 DEF Cancel, History, Times, Budget!vars
<1>5. ASSUME NEW d \in Delays, Penalize(d)
      PROVE  UNCHANGED Budget!vars
  BY <1>5 DEF Penalize, Times, Budget!vars
<1>6. CASE UNCHANGED vars
  BY <1>6 DEF vars, Times, Budget!vars
<1>7. QED
  BY <1>1, <1>2, <1>3, <1>4, <1>5, <1>6 DEF Next

\* The token bucket implements the rate budget.
THEOREM Implements == Spec => ImplementsRateBudget
<1>1. Init => Budget!Init
  BY DEF Init, Times, Budget!Init
<1>2. TypeOK /\ TypeOK' /\ BurstBound' /\ PacingInv /\ [Next]_vars => [Budget!Next]_(Budget!vars)
  BY StepMaps
<1>3. QED
  BY <1>1, <1>2, TypeCorrect, PacingCorrect, BurstsBounded, PTL
     DEF Spec, ImplementsRateBudget, Budget!Spec
=============================================================================
