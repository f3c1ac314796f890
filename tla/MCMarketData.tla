----------------------------- MODULE MCMarketData -----------------------------
(***************************************************************************)
(* MarketData for TLC: quotes of two instruments and an order book.        *)
(***************************************************************************)
EXTENDS MarketData, TLC

CONSTANTS q1, q2, b1

ThreeKeys == "books" :> {b1} @@ "quotes" :> {q1, q2}

\* An empty stream, and one past the limit.
FactoryPresets == {{}, {q1, q2, b1}}
=============================================================================
