------------------------------ MODULE MCApiHttp -------------------------------
(***************************************************************************)
(* ApiHttp for TLC: the policies the run tries.                            *)
(***************************************************************************)
EXTENDS ApiHttp, TLC

\* No retries at all; the defaults with one retry; a user's policy that leaves
\* writes alone and adds 400 to the statuses.
TriedPolicies ==
    {[maxAttempts |-> 0, statuses |-> {"429", "5xx"}, transport |-> TRUE, writes |-> TRUE],
     [maxAttempts |-> 2, statuses |-> {"429", "5xx"}, transport |-> TRUE, writes |-> TRUE],
     [maxAttempts |-> 2, statuses |-> {"429", "4xx"}, transport |-> FALSE, writes |-> FALSE]}

Symmetry == Permutations(Requests)
=============================================================================
