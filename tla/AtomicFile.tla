------------------------------ MODULE AtomicFile ------------------------------
(***************************************************************************)
(* What a private file promises to the token cache and the account store:  *)
(* an update takes effect at once and whole, on the file as it is, before  *)
(* its writer is told that it succeeded.  Nothing is said of locks, copies *)
(* and threads; PrivateFile implements it.                                 *)
(*                                                                         *)
(* The promise ends where a writer is cancelled in the middle of a write:  *)
(* what replaces the file from then on is somebody's update, but others    *)
(* may be missing from it.                                                 *)
(***************************************************************************)
CONSTANT Writers     \* tasks that update the file once each

VARIABLES
    file,       \* the updates in the file
    succeeded,  \* the writers that were told so
    torn        \* the writers cancelled in the middle of a write

vars == <<file, succeeded, torn>>

Init == file = {} /\ succeeded = {} /\ torn = {}

\* An update takes effect once.
Update(w) ==
    /\ w \notin file \cup succeeded
    /\ file' = file \cup {w}
    /\ UNCHANGED <<succeeded, torn>>

\* After a writer was torn from its write, updates may be lost, or come back.
Overwrite(w) ==
    /\ torn # {}
    /\ w \notin file \cup succeeded
    /\ \E kept \in SUBSET Writers : file' = kept \cup {w}
    /\ UNCHANGED <<succeeded, torn>>

Succeed(w) ==
    /\ w \notin succeeded \cup torn
    /\ torn = {} => w \in file
    /\ succeeded' = succeeded \cup {w}
    /\ UNCHANGED <<file, torn>>

Tear(w) ==
    /\ w \notin succeeded \cup torn
    /\ torn' = torn \cup {w}
    /\ UNCHANGED <<file, succeeded>>

Next == \E w \in Writers : Update(w) \/ Overwrite(w) \/ Succeed(w) \/ Tear(w)

Spec == Init /\ [][Next]_vars
=============================================================================
