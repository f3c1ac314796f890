------------------------------- MODULE ApiHttp --------------------------------
(***************************************************************************)
(* bacsy.http.ApiHttpClient: requests that present a token, are resent     *)
(* once with another token after a 401, and are retried as the policy and  *)
(* the operation allow.                                                    *)
(*                                                                         *)
(* Each request is a task; an action is the code from one await to the     *)
(* next.  The server's side is the effect of an operation: a success took  *)
(* effect, a server error or a lost answer may have, a rejection did not.  *)
(* The provider appears as what get and invalidate promise (protocols.py); *)
(* AccessTokens is the one that refreshes.  The limiter may take any time. *)
(***************************************************************************)
EXTENDS Naturals, FiniteSets

CONSTANTS
    Requests,     \* tasks, one request each
    Policies,     \* the retry policies tried
    MaxMint       \* bound: access tokens

Status == {"2xx", "401", "403", "404", "429", "4xx", "5xx"}

\* RetryPolicy.  In `statuses`, "404" stands for 404 and 409, "4xx" for 400,
\* 422 and the statuses the code does not name.
Policy == [maxAttempts : Nat, statuses : SUBSET Status, transport : BOOLEAN, writes : BOOLEAN]

ASSUME HttpAssumption == Policies \subseteq Policy /\ MaxMint \in Nat \ {0}

Scope == {"read", "write"}

\* What the request's path and Operation say: a service to pace, whether a retry
\* is safe, and the token's scope.  A request to an unknown service is never
\* idempotent and reads; one that needs a write token is never idempotent.
Operation ==
    {o \in [known : BOOLEAN, idempotent : BOOLEAN, scope : Scope] :
        (o.idempotent => o.known /\ o.scope = "read") /\ (o.scope = "write" => o.known)}

VARIABLES
    policy,    \* the retry policy
    fixed,     \* the provider has a fixed token
    serving,   \* the live token in the provider's cell of each scope, 0 if none
    minted,    \* tokens minted
    made,      \* history: the tokens minted for each scope
    op,        \* the operation of each request
    pc,        \* where the request is
    attempt,   \* the attempt it is in
    token,     \* the token it presents
    outcome,   \* how it ended: a result or the class of the error
    sends,     \* history: how often it was sent
    effects,   \* history: how often it took effect
    gone       \* history: tokens that were refused or expired

vars == <<policy, fixed, serving, minted, made, op, pc, attempt, token, outcome, sends, effects, gone>>

Setting  == <<policy, fixed>>
Provider == <<serving, minted, made>>

Over == {"returned", "raised", "cancelled"}

Init ==
    /\ policy \in Policies
    /\ fixed \in BOOLEAN
    /\ minted = IF fixed THEN 1 ELSE 0
    /\ serving = [s \in Scope |-> minted]
    /\ made = [s \in Scope |-> 1 .. minted]
    /\ op \in [Requests -> Operation]
    /\ pc = [r \in Requests |-> "idle"]
    /\ attempt = [r \in Requests |-> 0]
    /\ token = [r \in Requests |-> 0]
    /\ outcome = [r \in Requests |-> "none"]
    /\ sends = [r \in Requests |-> 0]
    /\ effects = [r \in Requests |-> 0]
    /\ gone = {}

-----------------------------------------------------------------------------
\* Errors and retries.

\* error_for_status: the status decides, except where a type in the body does.
Types == {"none", "limit", "auth", "server"}

ClassOf(status, type) ==
    CASE status = "5xx"            -> "ServerError"
      [] status \in {"401", "403"} -> "AuthError"
      [] status = "429"            -> "RateLimitError"
      [] status = "404"            -> "ApiError"
      [] status = "4xx"            -> CASE type = "limit"  -> "RateLimitError"
                                        [] type = "auth"   -> "AuthError"
                                        [] type = "server" -> "ServerError"
                                        [] type = "none"   -> "ApiError"

\* Mutants of Retries: a lost write, or a failed one, is sent again.
RetriesLostWrites(o, class, status, n) ==
    /\ n < policy.maxAttempts
    /\ \/ class = "RateLimitError" /\ status \in policy.statuses
          /\ (o.idempotent \/ policy.writes)
       \/ class \in {"ServerError", "ApiError"} /\ status \in policy.statuses /\ o.idempotent
       \/ class = "TransportError" /\ policy.transport

RetriesFailedWrites(o, class, status, n) ==
    /\ n < policy.maxAttempts
    /\ \/ class \in {"RateLimitError", "ServerError", "ApiError"} /\ status \in policy.statuses
          /\ (o.idempotent \/ policy.writes)
       \/ class = "TransportError" /\ policy.transport /\ o.idempotent

\* decide
Retries(o, class, status, n) ==
    /\ n < policy.maxAttempts
    /\ \/ class = "RateLimitError" /\ status \in policy.statuses
          /\ (o.idempotent \/ policy.writes)
       \/ class \in {"ServerError", "ApiError"} /\ status \in policy.statuses /\ o.idempotent
       \/ class = "TransportError" /\ policy.transport /\ o.idempotent

Go(r, place) == pc' = [pc EXCEPT ![r] = place]

\* A request that has ended forgets its token.
End(r, place, how) ==
    /\ Go(r, place)
    /\ outcome' = [outcome EXCEPT ![r] = how]
    /\ token' = [token EXCEPT ![r] = 0]

\* An error: sleep and try again, or raise it.  The penalty after a 429 makes
\* the limiter take longer, which is any time already (TokenBucket has it).
Judge(r, class, status) ==
    \/ /\ Retries(op[r], class, status, attempt[r])
       /\ Go(r, "sleeping")
       /\ token' = [token EXCEPT ![r] = 0]
       /\ UNCHANGED outcome
    \/ /\ ~ Retries(op[r], class, status, attempt[r])
       /\ End(r, "raised", class)

-----------------------------------------------------------------------------
\* The head of _send's loop.
NextAttempt(r) ==
    /\ attempt' = [attempt EXCEPT ![r] = @ + 1]
    /\ Go(r, IF op[r].known THEN "pacing" ELSE "authorizing")

\* request or call
Start(r) ==
    /\ pc[r] = "idle"
    /\ NextAttempt(r)
    /\ UNCHANGED <<Setting, Provider, op, token, outcome, sends, effects, gone>>

\* The limiter lets the request go.
Paced(r) ==
    /\ pc[r] = "pacing"
    /\ Go(r, "authorizing")
    /\ UNCHANGED <<Setting, Provider, op, attempt, token, outcome, sends, effects, gone>>

\* What provider.get promises: the scope's own live token; else one that is live
\* in the other cell, whose refresh token may serve both scopes; else a new one.
Get(s, t) ==
    \/ t = serving[s] /\ t # 0 /\ UNCHANGED Provider
    \/ /\ serving[s] = 0 /\ t # 0 /\ \E other \in Scope : t = serving[other]
       /\ serving' = [serving EXCEPT ![s] = t]
       /\ UNCHANGED <<minted, made>>
    \/ /\ serving[s] = 0 /\ minted < MaxMint /\ t = minted + 1
       /\ minted' = t
       /\ serving' = [serving EXCEPT ![s] = t]
       /\ made' = [made EXCEPT ![s] = @ \cup {t}]

\* provider.get; after a 401, the same token again makes the 401 the answer.
Authorize(r) ==
    /\ \E t \in 1 .. MaxMint :
        /\ Get(op[r].scope, t)
        /\ \/ /\ pc[r] = "authorizing"
              /\ Go(r, "sending")
              /\ token' = [token EXCEPT ![r] = t]
              /\ UNCHANGED outcome
           \/ /\ pc[r] = "renewing" /\ t # token[r]
              /\ Go(r, "resending")
              /\ token' = [token EXCEPT ![r] = t]
              /\ UNCHANGED outcome
           \/ /\ pc[r] = "renewing" /\ t = token[r]
              /\ Judge(r, "AuthError", "401")
    /\ UNCHANGED <<Setting, op, attempt, sends, effects, gone>>

\* The provider raises; nothing catches it.
NoToken(r) ==
    /\ pc[r] \in {"authorizing", "renewing"}
    /\ ~ fixed
    /\ End(r, "raised", "no token")
    /\ UNCHANGED <<Setting, Provider, op, attempt, sends, effects, gone>>

Sent(r, took) ==
    /\ pc[r] \in {"sending", "resending"}
    /\ sends' = [sends EXCEPT ![r] = @ + 1]
    /\ effects' = [effects EXCEPT ![r] = @ + took]

\* A 2xx: the body is decoded, or is not JSON.
Succeed(r) ==
    /\ Sent(r, 1)
    /\ End(r, "returned", "result") \/ End(r, "raised", "ProtocolError")
    /\ UNCHANGED <<Setting, Provider, op, attempt, gone>>

\* The first 401 of an attempt.
Refused(r) ==
    /\ pc[r] = "sending"
    /\ Sent(r, 0)
    /\ Go(r, "invalidating")
    /\ gone' = gone \cup {token[r]}
    /\ UNCHANGED <<Setting, Provider, op, attempt, token, outcome>>

\* Any other answer that is an error.
Answered(r) ==
    \E status \in Status \ {"2xx"}, type \in Types :
        LET class == ClassOf(status, type) IN
        /\ status = "401" => pc[r] = "resending"
        /\ \E took \in {0, 1} : (took = 1 => class = "ServerError") /\ Sent(r, took)
        /\ Judge(r, class, status)
        /\ gone' = IF status = "401" THEN gone \cup {token[r]} ELSE gone
        /\ UNCHANGED <<Setting, Provider, op, attempt>>

\* httpx raises: no connection, a timeout, a broken connection.
Lost(r) ==
    /\ \E took \in {0, 1} : Sent(r, took)
    /\ Judge(r, "TransportError", "none")
    /\ UNCHANGED <<Setting, Provider, op, attempt, gone>>

\* A token leaves every cell it is in.
Drop(t) == serving' = [s \in Scope |-> IF serving[s] = t THEN 0 ELSE serving[s]]

\* A mutant of Invalidate: the scope's token is dropped, whichever was refused.
InvalidateServing(r) ==
    /\ pc[r] = "invalidating"
    /\ IF fixed THEN UNCHANGED serving ELSE Drop(serving[op[r].scope])
    /\ Go(r, "renewing")
    /\ UNCHANGED <<Setting, minted, made, op, attempt, token, outcome, sends, effects, gone>>

\* provider.invalidate: only a token that is being served is dropped.
Invalidate(r) ==
    /\ pc[r] = "invalidating"
    /\ IF fixed THEN UNCHANGED serving ELSE Drop(token[r])
    /\ Go(r, "renewing")
    /\ UNCHANGED <<Setting, minted, made, op, attempt, token, outcome, sends, effects, gone>>

\* The sleep before the next attempt ends.
Retry(r) ==
    /\ pc[r] = "sleeping"
    /\ NextAttempt(r)
    /\ UNCHANGED <<Setting, Provider, op, token, outcome, sends, effects, gone>>

\* The caller gives up, and the request with it, sent or not.
Cancel(r) ==
    /\ pc[r] \notin Over \cup {"idle"}
    /\ \/ UNCHANGED <<sends, effects>>
       \/ \E took \in {0, 1} : Sent(r, took)
    /\ End(r, "cancelled", "cancelled")
    /\ UNCHANGED <<Setting, Provider, op, attempt, gone>>

\* A token being served expires.
Expire ==
    /\ ~ fixed
    /\ \E s \in Scope : serving[s] # 0 /\ Drop(serving[s]) /\ gone' = gone \cup {serving[s]}
    /\ UNCHANGED <<Setting, minted, made, op, pc, attempt, token, outcome, sends, effects>>

Step(r) ==
    \/ Paced(r) \/ Authorize(r) \/ NoToken(r) \/ Succeed(r) \/ Refused(r) \/ Answered(r)
    \/ Lost(r) \/ Invalidate(r) \/ Retry(r)

Next == Expire \/ \E r \in Requests : Start(r) \/ Step(r) \/ Cancel(r)

Spec == Init /\ [][Next]_vars

-----------------------------------------------------------------------------
Attempts == IF policy.maxAttempts = 0 THEN 1 ELSE policy.maxAttempts

HasToken == {"sending", "invalidating", "renewing", "resending"}
Place    == Over \cup HasToken \cup {"idle", "pacing", "authorizing", "sleeping"}
Error    == {"TransportError", "ServerError", "AuthError", "RateLimitError", "ApiError"}
Outcome  == Error \cup {"none", "result", "cancelled", "no token", "ProtocolError"}

\* The types of the variables, and a request has a token when, and only while,
\* it is being sent or sent again.
TypeOK ==
    /\ policy \in Policies /\ fixed \in BOOLEAN
    /\ minted \in 0 .. MaxMint /\ serving \in [Scope -> 0 .. minted]
    /\ made \in [Scope -> SUBSET (1 .. minted)]
    /\ op \in [Requests -> Operation]
    /\ pc \in [Requests -> Place]
    /\ attempt \in [Requests -> Nat]
    /\ token \in [Requests -> 0 .. minted]
    /\ \A r \in Requests : token[r] # 0 <=> pc[r] \in HasToken
    /\ outcome \in [Requests -> Outcome]
    /\ sends \in [Requests -> Nat] /\ effects \in [Requests -> Nat]
    /\ gone \subseteq 1 .. minted

\* _send must not place an order twice: an operation that is not idempotent
\* takes effect at most once, through every mix of 401s, 429s, server errors
\* and lost answers.
AtMostOnce == \A r \in Requests : ~ op[r].idempotent => effects[r] <= 1

\* The end of a request that is not idempotent tells what it did: a result or
\* an unreadable result means it took effect once, a rejection that it did not.
\* Only a lost answer, a server error or a cancellation leaves it open.
EndTellsEffect ==
    \A r \in Requests : ~ op[r].idempotent =>
        /\ outcome[r] \in {"result", "ProtocolError"} => effects[r] = 1
        /\ outcome[r] \in {"no token", "AuthError", "RateLimitError", "ApiError"} => effects[r] = 0

\* max_attempts bounds the attempts, and a 401 adds one send to each at most.
SendsBounded ==
    \A r \in Requests : attempt[r] <= Attempts /\ sends[r] <= 2 * attempt[r]

\* Requests of one scope that were refused the same token together replace it
\* once: a late invalidate does not cost the scope the token that replaced it.
\* A token that served both scopes may be replaced once for each.
ReplacedOnce == \A s \in Scope : Cardinality(made[s]) <= 1 + Cardinality(gone)
=============================================================================
