------------------------------- MODULE MCClient -------------------------------
(***************************************************************************)
(* Client for TLC: two streams of market data, which has one connection,   *)
(* and one of orders; the ways to name an account or to give tokens.       *)
(***************************************************************************)
EXTENDS Client, TLC

CONSTANTS s1, s2, s3, marketData, operations

StreamServices == [s \in Streams |-> IF s = s3 THEN operations ELSE marketData]
OneOfMarketData == marketData :> 1

Text(n) == Json("string", n)
Number == Json("number", 9)
GoodJwt ==
  [text |-> 1, digest |-> 2, fault |-> "",
   claims |-> [typ |-> "Refresh", azp |-> "trade-api-read", sub |-> Text(1), sid |-> Text(1),
               jti |-> Absent, iat |-> Number, exp |-> Number]]
BadJwt == [GoodJwt EXCEPT !.fault = "segments"]

Call(from, given, env) == [from |-> from, given |-> given, env |-> env]

SomeCredentials ==
  {Call("access", Absent, Absent),
   Call("account", Absent, Text(1)), Call("account", Text(0), Absent),
   Call("refresh", Absent, Json("list", <<GoodJwt, GoodJwt>>)),
   Call("refresh", Json("list", << >>), Json("list", <<GoodJwt>>)),
   Call("refresh", Json("list", <<GoodJwt, BadJwt>>), Absent)}

\* The streams that are created in a behaviour.
Pairs == {{s1, s2}, {s1, s3}}

Created == {s \in Streams : owner[s] # "none"}

BoundedNext == ClientNext /\ \E pair \in Pairs : Created' \subseteq pair

BoundedSpec == ClientInit /\ [][BoundedNext]_clientVars /\ Progress
=============================================================================
