------------------------ MODULE MCWebSocketConnection ------------------------
(***************************************************************************)
(* WebSocketConnection for TLC: the sets of settings the runs try.         *)
(***************************************************************************)
EXTENDS WebSocketConnection

\* Orderly callers, with and without timeouts, and every policy of the stream.
OrderlySettings ==
    [queueSize : {2}, block : BOOLEAN, reconnect : {TRUE}, maxAttempts : {2, Unlimited},
     orderly : {TRUE}, timeouts : BOOLEAN]
    \cup
    [queueSize : {1}, block : BOOLEAN, reconnect : {FALSE}, maxAttempts : {1},
     orderly : {TRUE}, timeouts : BOOLEAN]

\* As well as streams that are closed while, or before, they start.
StreamSettings ==
    OrderlySettings \cup
    [queueSize : {2}, block : BOOLEAN, reconnect : {TRUE}, maxAttempts : {2},
     orderly : {FALSE}, timeouts : {FALSE}]

\* A stream that never waits for its consumer, and callers that only close it.
PlainSettings ==
    [queueSize : {1}, block : {FALSE}, reconnect : {TRUE}, maxAttempts : {2},
     orderly : {TRUE}, timeouts : {FALSE}]
=============================================================================
