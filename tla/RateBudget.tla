----------------------------- MODULE RateBudget -----------------------------
(***************************************************************************)
(* What a paced component promises: operations are admitted one at a time, *)
(* and any run of consecutive admissions costs no more than one full       *)
(* bucket plus what the bucket earns while the run lasts.  Nothing is said *)
(* about how that is achieved; TokenBucket implements it.                  *)
(*                                                                         *)
(* Time is counted in ticks and the bucket earns one unit per tick; an     *)
(* operation costs Cost units.  A rate of r operations per second is thus  *)
(* Cost ticks per operation with a tick of 1/(r * Cost) second.            *)
(***************************************************************************)
EXTENDS Integers, Sequences

CONSTANTS Cost,      \* units one operation costs
          Capacity   \* units a full bucket holds

VARIABLES now,        \* the clock
          admitted    \* the times of the admissions, in order

vars == <<now, admitted>>

\* A run of n admissions that starts at `from` and ends at `to` fits the budget.
RunFits(n, from, to) == n * Cost <= Capacity + (to - from)

Fits(times) ==
    \A i \in DOMAIN times : \A j \in i .. Len(times) :
        RunFits(j - i + 1, times[i], times[j])

Init == /\ now = 0
        /\ admitted = <<>>

Tick == /\ now' = now + 1
        /\ UNCHANGED admitted

Admit == /\ admitted' = Append(admitted, now)
         /\ Fits(admitted')
         /\ UNCHANGED now

Next == Tick \/ Admit

Spec == Init /\ [][Next]_vars
=============================================================================
