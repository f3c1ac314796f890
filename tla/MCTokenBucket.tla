---------------------------- MODULE MCTokenBucket ----------------------------
(***************************************************************************)
(* TokenBucket for TLC; the configurations give the constants.             *)
(***************************************************************************)
EXTENDS TokenBucket
=============================================================================
