---------------------------- MODULE MCPrivateFile -----------------------------
(***************************************************************************)
(* PrivateFile for TLC: two writers in one process and one in another.     *)
(***************************************************************************)
EXTENDS PrivateFile, TLC

CONSTANTS p1, p2, w1, w2, w3

TwoAndOne == w1 :> p1 @@ w2 :> p1 @@ w3 :> p2
=============================================================================
