----------------------------- MODULE TokenBucket -----------------------------
(***************************************************************************)
(* bacsy.ratelimit.bucket.TokenBucket: the pacer every REST request and    *)
(* every WebSocket message goes through.                                   *)
(*                                                                         *)
(* Callers wait in the FIFO queue of one asyncio.Lock; the head holds it   *)
(* and runs the body of `acquire`, which sleeps at most twice: once for a  *)
(* block that `penalize` declared, once for a missing token.  `penalize`   *)
(* takes no lock, so it can land between any two steps of the holder, and  *)
(* any caller may be cancelled wherever it waits.                          *)
(*                                                                         *)
(* Time is integral: the bucket earns one unit per tick and an operation   *)
(* costs Cost units (see RateBudget).  A sleep returns up to MaxEarly      *)
(* ticks before its deadline (asyncio runs a timer that is due within the  *)
(* resolution of its clock, and the deadline is a rounded float) or up to  *)
(* MaxLate ticks after it.                                                 *)
(***************************************************************************)
EXTENDS Integers, Sequences, SequencesExt

CONSTANTS Callers,      \* the tasks that call acquire
          Cost,         \* units of one token: 1.0 in the code
          Capacity,     \* units of a full bucket: `capacity`
          Delays,       \* the arguments penalize is called with
          MaxEarly,     \* how early a sleeper may wake
          MaxLate,      \* bound: how late a sleeper may wake
          MaxOps,       \* bound: calls of acquire
          LastArrival,  \* bound: no call is made later
          MaxTime       \* bound: the clock stops

\* bucket.py:37 takes capacity = max(1.0, rate) unless told otherwise, so a
\* full bucket holds at least one token.
ASSUME BucketAssumption ==
    /\ Cost \in Nat \ {0}
    /\ Capacity \in Nat
    /\ Cost <= Capacity
    /\ Delays \subseteq Nat
    /\ {MaxEarly, MaxLate, MaxOps, LastArrival, MaxTime} \subseteq Nat

VARIABLES
    now,           \* clock()
    tokens,        \* self._tokens
    updated,       \* self._updated
    blockedUntil,  \* self._blocked_until
    queue,         \* self._lock: the holder, then the waiters
    stage,         \* where the holder is in acquire
    wake,          \* when the holder's sleep ends (or it became the holder)
    longest,       \* history: the end of the longest block declared so far
    seen,          \* history: `longest` when the holder entered acquire
    log            \* history: one record per admission

vars == <<now, tokens, updated, blockedUntil, queue, stage, wake,
          longest, seen, log>>

Bucket == <<tokens, updated>>
History == <<longest, log>>

LargerOf(a, b) == IF a >= b THEN a ELSE b
SmallerOf(a, b) == IF a <= b THEN a ELSE b

-----------------------------------------------------------------------------
Init ==
    /\ now = 0
    /\ tokens = Capacity
    /\ updated = 0
    /\ blockedUntil = 0
    /\ queue = <<>>
    /\ stage = "entering"
    /\ wake = 0
    /\ longest = 0
    /\ seen = 0
    /\ log = <<>>

\* What _refill leaves in the bucket at the current time.
Refilled == SmallerOf(Capacity, tokens + LargerOf(0, now - updated))

\* `async with self._lock`: queue up; alone, the caller holds the lock at once.
Acquire(c) ==
    /\ now <= LastArrival
    /\ Len(queue) + Len(log) < MaxOps
    /\ ~ Contains(queue, c)
    /\ queue' = Append(queue, c)
    /\ wake' = IF queue = <<>> THEN now ELSE wake
    /\ UNCHANGED <<now, Bucket, blockedUntil, stage, seen, History>>

\* The holder leaves acquire; the next waiter, if any, starts it.
Release ==
    /\ queue' = Tail(queue)
    /\ stage' = "entering"
    /\ wake' = now

\* Mutant of Admit: the refill is not dated, so it is earned again.
AdmitUndated(held) ==
    /\ tokens' = held - Cost
    /\ log' = Append(log, [at |-> now, seen |-> seen'])
    /\ Release
    /\ UNCHANGED updated

\* The end of acquire, with `held` units in the bucket: take one token.
Admit(held) ==
    /\ tokens' = held - Cost
    /\ updated' = now
    /\ log' = Append(log, [at |-> now, seen |-> seen'])
    /\ Release

\* The middle of acquire: refill, and sleep when less than a token is there.
RefillThenTake ==
    \/ /\ Refilled >= Cost
       /\ Admit(Refilled)
    \/ /\ Refilled < Cost
       /\ tokens' = Refilled
       /\ updated' = now
       /\ stage' = "earning"
       /\ wake' = now + (Cost - Refilled)
       /\ UNCHANGED <<queue, log>>

\* The holder starts: sleep out a block in force, or go on to the bucket.
Enter ==
    /\ queue # <<>>
    /\ stage = "entering"
    /\ seen' = longest
    /\ \/ /\ now < blockedUntil
          /\ stage' = "blocked"
          /\ wake' = blockedUntil
          /\ UNCHANGED <<Bucket, queue, log>>
       \/ /\ now >= blockedUntil
          /\ RefillThenTake
    /\ UNCHANGED <<now, blockedUntil, longest>>

\* The sleep for the block ends.  The block is not looked at again.
WakeFromBlock ==
    /\ stage = "blocked"
    /\ now + MaxEarly >= wake
    /\ UNCHANGED <<now, blockedUntil, seen, longest>>
    /\ RefillThenTake

\* The sleep for the missing units ends: refill and take the token, whatever
\* is in the bucket now.
WakeWithToken ==
    /\ stage = "earning"
    /\ now + MaxEarly >= wake
    /\ UNCHANGED <<now, blockedUntil, seen, longest>>
    /\ Admit(Refilled)

\* Mutant of Cancel: a cancelled holder does not release the lock.
CancelKeepsLock(i) ==
    /\ \/ /\ i = 1
          /\ stage' = "leaked"
          /\ UNCHANGED <<queue, wake>>
       \/ /\ i > 1
          /\ queue' = RemoveAt(queue, i)
          /\ UNCHANGED <<stage, wake>>
    /\ UNCHANGED <<now, Bucket, blockedUntil, seen, History>>

\* The caller at position i is cancelled: a waiter leaves the queue, the holder
\* leaves acquire with what it has changed so far.
Cancel(i) ==
    /\ \/ /\ i = 1
          /\ Release
       \/ /\ i > 1
          /\ queue' = RemoveAt(queue, i)
          /\ UNCHANGED <<stage, wake>>
    /\ UNCHANGED <<now, Bucket, blockedUntil, seen, History>>

\* Mutant of Penalize: a later, shorter block replaces a longer one.
PenalizeReplaces(delay) ==
    /\ now <= LastArrival
    /\ blockedUntil' = now + delay
    /\ longest' = LargerOf(longest, now + delay)
    /\ UNCHANGED <<now, Bucket, queue, stage, wake, seen, log>>

\* penalize(delay): extend the block, never shorten it.
Penalize(delay) ==
    /\ now <= LastArrival
    /\ blockedUntil' = LargerOf(blockedUntil, now + delay)
    /\ longest' = LargerOf(longest, now + delay)
    /\ UNCHANGED <<now, Bucket, queue, stage, wake, seen, log>>

\* Time passes; the event loop runs a due holder within MaxLate ticks.
Tick ==
    /\ now < MaxTime
    /\ queue # <<>> => now < wake + MaxLate
    /\ now' = now + 1
    /\ UNCHANGED <<Bucket, blockedUntil, queue, stage, wake, seen, History>>

HolderStep == Enter \/ WakeFromBlock \/ WakeWithToken

Next ==
    \/ HolderStep
    \/ Tick
    \/ \E c \in Callers : Acquire(c)
    \/ \E i \in DOMAIN queue : Cancel(i)
    \/ \E d \in Delays : Penalize(d)

Spec == Init /\ [][Next]_vars

\* asyncio runs every ready task and every due timer; callers and penalties
\* are the environment's and stay unfair.
FairSpec == Spec /\ WF_vars(HolderStep) /\ WF_vars(Tick)

-----------------------------------------------------------------------------
Admission == [at : Nat, seen : Nat]

\* The types of the variables; `queue` has no duplicates by Acquire's guard.
TypeOK ==
    /\ now \in Nat
    /\ tokens \in Int
    /\ updated \in Nat
    /\ blockedUntil \in Nat
    /\ queue \in Seq(Callers)
    /\ stage \in {"entering", "blocked", "earning"}
    /\ wake \in Nat
    /\ longest \in Nat
    /\ seen \in Nat
    /\ log \in Seq(Admission)

\* The refinement mapping to RateBudget keeps the clock and the times of the
\* admissions; one early wake, and no more, adds to the capacity.
Times == [i \in DOMAIN log |-> log[i].at]

Budget == INSTANCE RateBudget WITH admitted <- Times, Capacity <- Capacity + MaxEarly

\* The bucket implements the rate budget: every step is a tick, an admission
\* that fits every window it closes, or invisible.
ImplementsRateBudget == Budget!Spec

\* Any run of consecutive admissions fits one full bucket plus what is earned
\* while it lasts, but for one early wake, however callers queue, wake, are
\* penalised or are cancelled: the pacing the class promises ("Allow `rate`
\* operations per second with bursts of up to `capacity`").
BurstBound ==
    \A i \in DOMAIN log : \A j \in i .. Len(log) :
        (j - i + 1) * Cost <= Capacity + MaxEarly + (log[j].at - log[i].at)

\* A caller that wakes too early takes a token that is not all there, but the
\* debts of one after the other do not add up: the next one sleeps longer.
DebtBounded == tokens + MaxEarly >= 0 /\ tokens <= Capacity

\* A block declared before a caller took the lock is waited out, but for an
\* early wake, even when a later, shorter one was declared after it.
KnownBlockServed == \A i \in DOMAIN log : log[i].at + MaxEarly >= log[i].seen

\* Every caller that queues is admitted (or was cancelled): no cancellation or
\* penalty leaves the lock held with nobody to release it.
EveryCallerServed ==
    \A c \in Callers : Contains(queue, c) ~> ~ Contains(queue, c)
=============================================================================
