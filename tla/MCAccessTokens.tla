---------------------------- MODULE MCAccessTokens ----------------------------
(***************************************************************************)
(* AccessTokens for TLC: a read and a write refresh token.                 *)
(***************************************************************************)
EXTENDS AccessTokens, TLC

CONSTANTS ro, rw

\* The read token expires first.
Issued == ro :> "read" @@ rw :> "write"
Expiry == ro :> 2 @@ rw :> 9
=============================================================================
