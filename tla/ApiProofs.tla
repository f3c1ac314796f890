------------------------------ MODULE ApiProofs -------------------------------
(***************************************************************************)
(* Proofs about the requests to the API: their transport (ApiHttp), for    *)
(* any requests, policies and bound on tokens, and the typed services      *)
(* above it (Services), for any calls, listings and page size.             *)
(*                                                                         *)
(* ApiHttp.  The invariant beyond TypeOK has three parts.  Open: a write   *)
(* that has not ended took no effect, which is why it may be sent again,   *)
(* and one that has ended took effect once at most, as its outcome tells.  *)
(* Counted: where a request is tells how often its attempt was sent.       *)
(* Spent: a token minted for a scope that does not serve it any more was   *)
(* refused or expired, and a request that replaces a token was refused it. *)
(*                                                                         *)
(* Services.  The invariant says where a call stands in its listing, of    *)
(* which the server may add or drop records between two pages.  PagedInv:  *)
(* the first records of what an iteration walks, as many as its pages so   *)
(* far hold, are those it has seen.  LookupInv: a ticker's records are     *)
(* seen completely, up to the current page, or not at all, as its chunk    *)
(* is past, current or to come.  ByTypeInv: what was yielded has the right  *)
(* class.                                                                  *)
(***************************************************************************)
EXTENDS ApiHttp, Services, FiniteSetTheorems, SequenceTheorems, TLAPS

Sure     == {"result", "ProtocolError"}
Rejected == {"no token", "AuthError", "RateLimitError", "ApiError"}

OpenAt(r) == ~ op[r].idempotent =>
    /\ effects[r] <= 1
    /\ pc[r] \notin Over => effects[r] = 0 /\ outcome[r] = "none"
    /\ outcome[r] \in Sure => effects[r] = 1
    /\ outcome[r] \in Rejected => effects[r] = 0

Open == \A r \in Requests : OpenAt(r)

CountedAt(r) ==
    /\ attempt[r] <= Attempts /\ sends[r] <= 2 * attempt[r]
    /\ pc[r] = "idle" => attempt[r] = 0 /\ sends[r] = 0
    /\ pc[r] = "sleeping" => attempt[r] < policy.maxAttempts
    /\ pc[r] \in {"pacing", "authorizing", "sending"} => sends[r] + 2 <= 2 * attempt[r]
    /\ pc[r] \in {"invalidating", "renewing", "resending"} => sends[r] + 1 <= 2 * attempt[r]

Counted == \A r \in Requests : CountedAt(r)

Spent ==
    /\ \A s \in Scope : made[s] \ {serving[s]} \subseteq gone
    /\ \A r \in Requests : pc[r] \in {"invalidating", "renewing"} => token[r] \in gone

-----------------------------------------------------------------------------
\* Every answer that is not a success has one of four classes of error.
LEMMA ClassType ==
    ASSUME NEW answer \in Status \ {"2xx"}, NEW type \in Types
    PROVE  ClassOf(answer, type) \in {"ServerError", "AuthError", "RateLimitError", "ApiError"}
BY DEF ClassOf, Status, Types

\* A write is sent again only after a 429, that is when it took no effect.
LEMMA WriteRetriesRejected ==
    ASSUME NEW o, ~ o.idempotent, NEW class, NEW answer, NEW n, Retries(o, class, answer, n)
    PROVE  class = "RateLimitError"
BY DEF Retries

\* Whatever is retried has an attempt left.
LEMMA RetriesLeft ==
    ASSUME NEW o, NEW class, NEW answer, NEW n, Retries(o, class, answer, n)
    PROVE  n < policy.maxAttempts
BY DEF Retries

-----------------------------------------------------------------------------
\* What the parts of an action change: the place of a request, how it ended and
\* its token, what was sent and took effect.
LEMMA GoIs ==
    ASSUME TypeOK, NEW r \in Requests, NEW place \in Place, Go(r, place)
    PROVE  pc' \in [Requests -> Place] /\ \A q \in Requests : pc'[q] = IF q = r THEN place ELSE pc[q]
BY DEF TypeOK, Go

LEMMA EndIs ==
    ASSUME TypeOK, NEW r \in Requests, NEW place \in Over, NEW how \in Outcome, End(r, place, how)
    PROVE  /\ pc' \in [Requests -> Place] /\ outcome' \in [Requests -> Outcome]
           /\ token' \in [Requests -> 0 .. minted]
           /\ \A q \in Requests :
                /\ pc'[q] = IF q = r THEN place ELSE pc[q]
                /\ outcome'[q] = IF q = r THEN how ELSE outcome[q]
                /\ token'[q] = IF q = r THEN 0 ELSE token[q]
<1>1. place \in Place /\ Go(r, place) /\ 0 \in 0 .. minted
  BY DEF TypeOK, End, Place
<1> QED
  BY <1>1, GoIs DEF TypeOK, End

LEMMA JudgeIs ==
    ASSUME TypeOK, NEW r \in Requests, NEW class \in Error, NEW answer, Judge(r, class, answer)
    PROVE  /\ pc' \in [Requests -> Place] /\ outcome' \in [Requests -> Outcome]
           /\ token' \in [Requests -> 0 .. minted]
           /\ \A q \in Requests \ {r} :
                pc'[q] = pc[q] /\ outcome'[q] = outcome[q] /\ token'[q] = token[q]
           /\ token'[r] = 0
           /\ \/ /\ Retries(op[r], class, answer, attempt[r])
                 /\ pc'[r] = "sleeping" /\ outcome'[r] = outcome[r]
              \/ /\ ~ Retries(op[r], class, answer, attempt[r])
                 /\ pc'[r] = "raised" /\ outcome'[r] = class
<1>1. CASE Retries(op[r], class, answer, attempt[r])
  <2>1. Go(r, "sleeping") /\ outcome' = outcome /\ token' = [token EXCEPT ![r] = 0]
    BY <1>1 DEF Judge
  <2>2. "sleeping" \in Place /\ 0 \in 0 .. minted
    BY DEF TypeOK, Place
  <2> QED
    BY <1>1, <2>1, <2>2, GoIs DEF TypeOK
<1>2. CASE ~ Retries(op[r], class, answer, attempt[r])
  <2>1. End(r, "raised", class)
    BY <1>2 DEF Judge
  <2>2. "raised" \in Over /\ class \in Outcome
    BY DEF Over, Outcome
  <2> QED
    BY <1>2, <2>1, <2>2, EndIs
<1> QED
  BY <1>1, <1>2

LEMMA SentIs ==
    ASSUME TypeOK, NEW r \in Requests, NEW took \in {0, 1}, Sent(r, took)
    PROVE  /\ pc[r] \in {"sending", "resending"}
           /\ sends' \in [Requests -> Nat] /\ effects' \in [Requests -> Nat]
           /\ \A q \in Requests :
                /\ sends'[q] = IF q = r THEN sends[q] + 1 ELSE sends[q]
                /\ effects'[q] = IF q = r THEN effects[q] + took ELSE effects[q]
BY DEF TypeOK, Sent

LEMMA NextAttemptIs ==
    ASSUME TypeOK, NEW r \in Requests, NextAttempt(r)
    PROVE  /\ pc' \in [Requests -> Place] /\ attempt' \in [Requests -> Nat]
           /\ \A q \in Requests \ {r} : pc'[q] = pc[q] /\ attempt'[q] = attempt[q]
           /\ pc'[r] \in {"pacing", "authorizing"} /\ attempt'[r] = attempt[r] + 1
<1>1. Go(r, IF op[r].known THEN "pacing" ELSE "authorizing") /\ attempt' = [attempt EXCEPT ![r] = @ + 1]
  BY DEF NextAttempt
<1>2. (IF op[r].known THEN "pacing" ELSE "authorizing") \in Place
  BY DEF Place
<1> QED
  BY <1>1, <1>2, GoIs DEF TypeOK

\* What an answer does: it was sent, it judges a class of error, and it took
\* effect only when the server failed.
LEMMA AnsweredIs ==
    ASSUME NEW r, Answered(r)
    PROVE  \E answer \in Status \cup {"none"}, class \in Error, took \in {0, 1} :
             /\ took = 1 => class = "ServerError"
             /\ Sent(r, took) /\ Judge(r, class, answer)
             /\ gone' = gone \/ gone' = gone \cup {token[r]}
             /\ UNCHANGED <<policy, fixed, serving, minted, made, op, attempt>>
<1>1. PICK answer \in Status \ {"2xx"}, type \in Types, took \in {0, 1} :
        /\ took = 1 => ClassOf(answer, type) = "ServerError"
        /\ Sent(r, took)
        /\ Judge(r, ClassOf(answer, type), answer)
        /\ gone' = IF answer = "401" THEN gone \cup {token[r]} ELSE gone
        /\ UNCHANGED <<Setting, Provider, op, attempt>>
  BY DEF Answered
<1>2. ClassOf(answer, type) \in Error
  BY ClassType DEF Error
<1> QED
  BY <1>1, <1>2 DEF Setting, Provider

-----------------------------------------------------------------------------
\* What a token that is dropped leaves in the cells, what get does to them, and
\* what the token it gives is used for.
LEMMA DropIs ==
    ASSUME TypeOK, NEW t, Drop(t)
    PROVE  /\ serving' \in [Scope -> 0 .. minted]
           /\ \A s \in Scope : serving'[s] = IF serving[s] = t THEN 0 ELSE serving[s]
<1>1. minted \in Nat
  BY HttpAssumption DEF TypeOK
<1> QED
  BY <1>1 DEF TypeOK, Drop

LEMMA GetIs ==
    ASSUME TypeOK, NEW s \in Scope, NEW t \in 1 .. MaxMint, Get(s, t)
    PROVE  /\ minted' \in minted .. MaxMint /\ t \in 1 .. minted'
           /\ serving' \in [Scope -> 0 .. minted'] /\ made' \in [Scope -> SUBSET (1 .. minted')]
           /\ \A x \in Scope \ {s} : serving'[x] = serving[x] /\ made'[x] = made[x]
           /\ serving[s] # 0 => serving'[s] = serving[s] /\ made'[s] = made[s]
           /\ serving[s] = 0 => serving'[s] = t /\ made'[s] \subseteq made[s] \cup {t}
<1>0. /\ MaxMint \in Nat /\ minted \in 0 .. MaxMint
      /\ serving \in [Scope -> 0 .. minted] /\ made \in [Scope -> SUBSET (1 .. minted)]
  BY HttpAssumption DEF TypeOK
<1>1. CASE t = serving[s] /\ t # 0 /\ UNCHANGED Provider
  BY <1>0, <1>1 DEF Provider
<1>2. CASE /\ serving[s] = 0 /\ t # 0 /\ \E other \in Scope : t = serving[other]
           /\ serving' = [serving EXCEPT ![s] = t]
           /\ UNCHANGED <<minted, made>>
  BY <1>0, <1>2
<1>3. CASE /\ serving[s] = 0 /\ minted < MaxMint /\ t = minted + 1
           /\ minted' = t
           /\ serving' = [serving EXCEPT ![s] = t]
           /\ made' = [made EXCEPT ![s] = @ \cup {t}]
  <2>1. 1 .. minted \subseteq 1 .. minted' /\ 0 .. minted \subseteq 0 .. minted' /\ t \in 1 .. minted'
    BY <1>0, <1>3
  <2>2. serving' \in [Scope -> 0 .. minted']
    BY <1>0, <1>3, <2>1
  <2>3. made' \in [Scope -> SUBSET (1 .. minted')]
    BY <1>0, <1>3, <2>1
  <2> QED
    BY <1>0, <1>3, <2>1, <2>2, <2>3
<1> QED
  BY <1>1, <1>2, <1>3 DEF Get

Authorized(r, t) ==
    \/ \E place \in {"sending", "resending"} :
        Go(r, place) /\ token' = [token EXCEPT ![r] = t] /\ outcome' = outcome
    \/ Judge(r, "AuthError", "401")

LEMMA AuthorizeIs ==
    ASSUME NEW r, Authorize(r)
    PROVE  \E t \in 1 .. MaxMint : Get(op[r].scope, t) /\ Authorized(r, t)
BY DEF Authorize, Authorized

\* The types hold always, and no request is sent without a token.
LEMMA TypeInit == Init => TypeOK
BY HttpAssumption DEF Init, TypeOK, Policy, Operation, HasToken, Place, Outcome

LEMMA TypeNext == TypeOK /\ [Next]_vars => TypeOK'
<1> SUFFICES ASSUME TypeOK, [Next]_vars PROVE TypeOK'
  OBVIOUS
<1>0. MaxMint \in Nat /\ minted \in Nat
  BY HttpAssumption DEF TypeOK
<1>1. CASE Expire
  <2>1. PICK s \in Scope : serving[s] # 0 /\ Drop(serving[s]) /\ gone' = gone \cup {serving[s]}
    BY <1>1 DEF Expire
  <2>2. serving[s] \in 1 .. minted
    BY <1>0, <2>1 DEF TypeOK
  <2>3. serving' \in [Scope -> 0 .. minted] /\ gone' \subseteq 1 .. minted
    BY <1>0, <2>1, <2>2, DropIs DEF TypeOK
  <2> QED
    BY <1>0, <1>1, <2>3 DEF Expire, TypeOK, Setting
<1>2. ASSUME NEW r \in Requests, Start(r) PROVE TypeOK'
  BY <1>2, NextAttemptIs DEF Start, TypeOK, Setting, Provider, HasToken
<1>3. ASSUME NEW r \in Requests, Paced(r) PROVE TypeOK'
  <2>1. Go(r, "authorizing") /\ "authorizing" \in Place
    BY <1>3 DEF Paced, Place
  <2> QED
    BY <1>3, <2>1, GoIs DEF Paced, TypeOK, Setting, Provider, HasToken
<1>4. ASSUME NEW r \in Requests, Authorize(r) PROVE TypeOK'
  <2>0. PICK t \in 1 .. MaxMint : Get(op[r].scope, t) /\ Authorized(r, t)
    BY <1>4, AuthorizeIs
  <2>1. /\ minted' \in minted .. MaxMint /\ t \in 1 .. minted'
        /\ serving' \in [Scope -> 0 .. minted'] /\ made' \in [Scope -> SUBSET (1 .. minted')]
        /\ UNCHANGED <<policy, fixed, op, attempt, sends, effects, gone>>
    <3>1. op[r].scope \in Scope
      BY DEF TypeOK, Operation
    <3>2. UNCHANGED <<policy, fixed, op, attempt, sends, effects, gone>>
      BY <1>4 DEF Authorize, Setting
    <3> QED
      BY <2>0, <3>1, <3>2, GetIs
  <2>2. \A q \in Requests : token[q] \in 0 .. minted'
    BY <1>0, <2>1 DEF TypeOK
  <2>3. CASE Judge(r, "AuthError", "401")
    <3>1. "AuthError" \in Error /\ 0 .. minted \subseteq 0 .. minted'
      BY <1>0, <2>1 DEF Error
    <3> QED
      BY <1>0, <2>1, <2>3, <3>1, JudgeIs DEF TypeOK, HasToken
  <2>4. ASSUME NEW place \in {"sending", "resending"}, Go(r, place),
               token' = [token EXCEPT ![r] = t], outcome' = outcome
        PROVE  TypeOK'
    <3>1. place \in Place
      BY DEF Place, HasToken
    <3>2. token' \in [Requests -> 0 .. minted']
      BY <1>0, <2>1, <2>2, <2>4 DEF TypeOK
    <3> QED
      BY <1>0, <2>1, <2>4, <3>1, <3>2, GoIs DEF TypeOK, HasToken
  <2> QED
    BY <2>0, <2>3, <2>4 DEF Authorized
<1>5. ASSUME NEW r \in Requests, NoToken(r) PROVE TypeOK'
  <2>1. "raised" \in Over /\ "no token" \in Outcome /\ End(r, "raised", "no token")
    BY <1>5 DEF NoToken, Over, Outcome
  <2>2. UNCHANGED <<policy, fixed, serving, minted, made, op, attempt, sends, effects, gone>>
    BY <1>5 DEF NoToken, Setting, Provider
  <2>3. "raised" \notin HasToken
    BY DEF HasToken
  <2>4. ASSUME NEW q \in Requests PROVE token'[q] # 0 <=> pc'[q] \in HasToken
    <3>1. IF q = r THEN pc'[q] = "raised" /\ token'[q] = 0 ELSE pc'[q] = pc[q] /\ token'[q] = token[q]
      BY <2>1, EndIs, ZenonT(60)
    <3>2. token[q] # 0 <=> pc[q] \in HasToken
      BY DEF TypeOK
    <3> QED
      BY <3>1, <3>2, <2>3
  <2>5. /\ pc' \in [Requests -> Place] /\ outcome' \in [Requests -> Outcome]
        /\ token' \in [Requests -> 0 .. minted]
    BY <2>1, EndIs
  <2> QED
    BY <2>2, <2>4, <2>5 DEF TypeOK
<1>6. ASSUME NEW r \in Requests, Succeed(r) PROVE TypeOK'
  <2>1. PICK place \in {"returned", "raised"}, how \in {"result", "ProtocolError"} : End(r, place, how)
    BY <1>6 DEF Succeed
  <2>2. place \in Over /\ how \in Outcome
    BY DEF Over, Outcome
  <2>3. Sent(r, 1)
    BY <1>6 DEF Succeed
  <2> QED
    BY <1>6, <2>1, <2>2, <2>3, EndIs, SentIs DEF Succeed, TypeOK, Setting, Provider, HasToken
<1>7. ASSUME NEW r \in Requests, Refused(r) PROVE TypeOK'
  <2>1. Sent(r, 0) /\ Go(r, "invalidating") /\ "invalidating" \in Place
    BY <1>7 DEF Refused, Place, HasToken
  <2>2. token[r] \in 1 .. minted
    BY <1>0, <1>7 DEF Refused, TypeOK, HasToken
  <2>3. gone' \subseteq 1 .. minted
    BY <1>7, <2>2 DEF Refused, TypeOK
  <2> QED
    BY <1>7, <2>1, <2>3, GoIs, SentIs DEF Refused, TypeOK, Setting, Provider, HasToken
<1>8. ASSUME NEW r \in Requests, Answered(r) PROVE TypeOK'
  <2>1. PICK answer \in Status \cup {"none"}, class \in Error, took \in {0, 1} :
             /\ Sent(r, took) /\ Judge(r, class, answer)
             /\ gone' = gone \/ gone' = gone \cup {token[r]}
             /\ UNCHANGED <<policy, fixed, serving, minted, made, op, attempt>>
    BY <1>8, AnsweredIs
  <2>2. token[r] \in 1 .. minted
    BY <1>0, <2>1, SentIs DEF TypeOK, HasToken
  <2>3. gone' \subseteq 1 .. minted
    BY <2>1, <2>2 DEF TypeOK
  <2> QED
    BY <2>1, <2>3, SentIs, JudgeIs DEF TypeOK, HasToken
<1>9. ASSUME NEW r \in Requests, Lost(r) PROVE TypeOK'
  <2>1. PICK took \in {0, 1} : Sent(r, took)
    BY <1>9 DEF Lost
  <2>2. "TransportError" \in Error /\ Judge(r, "TransportError", "none")
    BY <1>9 DEF Lost, Error
  <2> QED
    BY <1>9, <2>1, <2>2, SentIs, JudgeIs DEF Lost, TypeOK, Setting, Provider, HasToken
<1>10. ASSUME NEW r \in Requests, Invalidate(r) PROVE TypeOK'
  <2>1. Go(r, "renewing") /\ "renewing" \in Place
    BY <1>10 DEF Invalidate, Place, HasToken
  <2>2. serving' \in [Scope -> 0 .. minted]
    BY <1>0, <1>10, DropIs DEF Invalidate, TypeOK
  <2> QED
    BY <1>0, <1>10, <2>1, <2>2, GoIs DEF Invalidate, TypeOK, Setting, HasToken
<1>11. ASSUME NEW r \in Requests, Retry(r) PROVE TypeOK'
  BY <1>11, NextAttemptIs DEF Retry, TypeOK, Setting, Provider, HasToken
<1>12. ASSUME NEW r \in Requests, Cancel(r) PROVE TypeOK'
  <2>1. End(r, "cancelled", "cancelled") /\ "cancelled" \in Over /\ "cancelled" \in Outcome
    BY <1>12 DEF Cancel, Over, Outcome
  <2>2. sends' \in [Requests -> Nat] /\ effects' \in [Requests -> Nat]
    BY <1>12, SentIs DEF Cancel, TypeOK
  <2> QED
    BY <1>12, <2>1, <2>2, EndIs DEF Cancel, TypeOK, Setting, Provider, HasToken, Over
<1>13. CASE UNCHANGED vars
  BY <1>13 DEF vars, TypeOK
<1> QED
  BY <1>1, <1>2, <1>3, <1>4, <1>5, <1>6, <1>7, <1>8, <1>9, <1>10, <1>11, <1>12, <1>13 DEF Next, Step

\* TypeOK is an invariant: the types, and no request is sent without a token.
THEOREM TypeCorrect == Spec => []TypeOK
BY TypeInit, TypeNext, PTL DEF Spec

-----------------------------------------------------------------------------
\* A write is not sent again once it may have taken effect.
LEMMA OpenNext == TypeOK /\ Open /\ [Next]_vars => Open'
<1> SUFFICES ASSUME TypeOK, Open, [Next]_vars PROVE Open'
  OBVIOUS
<1>0. \A r \in Requests : effects[r] \in Nat
  BY DEF TypeOK
\* An action of one request leaves the others as they are.
<1>a. ASSUME NEW r \in Requests, OpenAt(r)', op' = op,
             \A q \in Requests \ {r} :
               effects'[q] = effects[q] /\ pc'[q] = pc[q] /\ outcome'[q] = outcome[q]
      PROVE  Open'
  BY <1>a DEF Open, OpenAt
<1>1. CASE Expire
  BY <1>1 DEF Expire, Open, OpenAt
<1>2. ASSUME NEW r \in Requests, Start(r) \/ Retry(r) PROVE Open'
  BY <1>2, NextAttemptIs DEF Start, Retry, Open, OpenAt, Over
<1>3. ASSUME NEW r \in Requests, Paced(r) PROVE Open'
  <2>1. Go(r, "authorizing") /\ "authorizing" \in Place
    BY <1>3 DEF Paced, Place
  <2> QED
    BY <1>3, <2>1, GoIs DEF Paced, Open, OpenAt, Over
<1>4. ASSUME NEW r \in Requests, Authorize(r) PROVE Open'
  <2>1. UNCHANGED <<op, effects>> /\ pc[r] \notin Over
    BY <1>4 DEF Authorize, Over
  <2>2. CASE Judge(r, "AuthError", "401")
    <3>1. "AuthError" \in Error
      BY DEF Error
    <3>2. OpenAt(r)'
      BY <1>0, <2>1, <2>2, <3>1, JudgeIs DEF Open, OpenAt, Over, Sure, Rejected
    <3> QED
      BY <1>a, <2>1, <2>2, <3>1, <3>2, JudgeIs
  <2>3. ASSUME NEW place \in {"sending", "resending"}, Go(r, place), outcome' = outcome
        PROVE  Open'
    <3>1. place \in Place
      BY DEF Place, HasToken
    <3> QED
      BY <2>1, <2>3, <3>1, GoIs DEF Open, OpenAt
  <2> QED
    BY <1>4, <2>2, <2>3 DEF Authorize
<1>5. ASSUME NEW r \in Requests, NoToken(r) PROVE Open'
  <2>1. "raised" \in Over /\ "no token" \in Outcome /\ End(r, "raised", "no token")
    BY <1>5 DEF NoToken, Over, Outcome
  <2>2. pc[r] \notin Over /\ op' = op /\ effects' = effects
    BY <1>5 DEF NoToken, Over
  <2>3. OpenAt(r)'
    BY <1>0, <2>1, <2>2, EndIs DEF Open, OpenAt, Over, Sure
  <2> QED
    BY <1>a, <2>1, <2>2, <2>3, EndIs
<1>6. ASSUME NEW r \in Requests, Succeed(r) PROVE Open'
  <2>1. PICK place \in {"returned", "raised"}, how \in {"result", "ProtocolError"} : End(r, place, how)
    BY <1>6 DEF Succeed
  <2>2. place \in Over /\ how \in Outcome
    BY DEF Over, Outcome
  <2>3. Sent(r, 1) /\ op' = op
    BY <1>6 DEF Succeed
  <2>4. pc[r] \notin Over /\ effects'[r] = effects[r] + 1
    BY <2>3, SentIs DEF Over
  <2>5. OpenAt(r)'
    <3>1. pc'[r] \in Over /\ outcome'[r] \in {"result", "ProtocolError"}
      BY <2>1, <2>2, EndIs
    <3>2. ~ op[r].idempotent => effects'[r] = 1
      BY <2>4 DEF Open, OpenAt
    <3>3. outcome'[r] \notin Rejected
      BY <3>1 DEF Rejected
    <3> QED
      BY <2>3, <3>1, <3>2, <3>3 DEF OpenAt
  <2> QED
    BY <1>a, <2>1, <2>2, <2>3, <2>5, EndIs, SentIs
<1>7. ASSUME NEW r \in Requests, Refused(r) PROVE Open'
  <2>1. Sent(r, 0) /\ Go(r, "invalidating") /\ "invalidating" \in Place
    BY <1>7 DEF Refused, Place, HasToken
  <2> QED
    BY <1>0, <1>7, <2>1, GoIs, SentIs DEF Refused, Open, OpenAt, Over
<1>8. ASSUME NEW r \in Requests, NEW answer, NEW class \in Error, NEW took \in {0, 1},
             took = 1 => class \in {"ServerError", "TransportError"},
             Sent(r, took), Judge(r, class, answer), op' = op
      PROVE  Open'
  <2>1. Retries(op[r], class, answer, attempt[r]) /\ ~ op[r].idempotent => took = 0
    BY <1>8, WriteRetriesRejected
  <2>2. pc[r] \notin Over /\ effects'[r] = effects[r] + took
    BY <1>8, SentIs DEF Over
  <2>3. ~ op[r].idempotent => effects[r] = 0 /\ outcome[r] = "none"
    BY <2>2 DEF Open, OpenAt
  <2>4. OpenAt(r)'
    <3> SUFFICES ASSUME ~ op[r].idempotent PROVE OpenAt(r)'
      BY <1>8 DEF OpenAt
    <3>1. effects'[r] = took
      BY <2>2, <2>3
    <3>2. CASE Retries(op[r], class, answer, attempt[r])
      <4>1. effects'[r] = 0 /\ outcome'[r] = "none"
        BY <1>8, <2>1, <2>3, <3>1, <3>2, JudgeIs
      <4> QED
        BY <4>1 DEF OpenAt, Sure, Rejected
    <3>3. CASE ~ Retries(op[r], class, answer, attempt[r])
      <4>1. pc'[r] = "raised" /\ outcome'[r] = class
        BY <1>8, <3>3, JudgeIs
      <4>2. class \notin Sure /\ (class \in Rejected => took = 0)
        BY <1>8 DEF Error, Sure, Rejected
      <4> QED
        BY <3>1, <4>1, <4>2 DEF OpenAt, Over
    <3> QED
      BY <3>2, <3>3
  <2> QED
    BY <1>a, <1>8, <2>4, SentIs, JudgeIs
<1>9. ASSUME NEW r \in Requests, Answered(r) PROVE Open'
  BY <1>8, <1>9, AnsweredIs
<1>10. ASSUME NEW r \in Requests, Lost(r) PROVE Open'
  BY <1>8, <1>10 DEF Lost, Error
<1>11. ASSUME NEW r \in Requests, Invalidate(r) PROVE Open'
  <2>1. Go(r, "renewing") /\ "renewing" \in Place
    BY <1>11 DEF Invalidate, Place, HasToken
  <2> QED
    BY <1>11, <2>1, GoIs DEF Invalidate, Open, OpenAt, Over
<1>12. ASSUME NEW r \in Requests, Cancel(r) PROVE Open'
  <2>1. End(r, "cancelled", "cancelled") /\ "cancelled" \in Over /\ "cancelled" \in Outcome
    BY <1>12 DEF Cancel, Over, Outcome
  <2>2. pc[r] \notin Over /\ op' = op
    BY <1>12 DEF Cancel
  <2>3. /\ effects'[r] \in {effects[r], effects[r] + 1}
        /\ \A q \in Requests \ {r} : effects'[q] = effects[q]
    BY <1>0, <1>12, SentIs DEF Cancel
  <2>4. OpenAt(r)'
    <3>1. pc'[r] \in Over /\ outcome'[r] = "cancelled"
      BY <2>1, EndIs
    <3>2. ~ op[r].idempotent => effects'[r] \in {0, 1}
      BY <2>2, <2>3 DEF Open, OpenAt
    <3> QED
      BY <2>2, <3>1, <3>2 DEF OpenAt, Sure, Rejected
  <2> QED
    BY <1>a, <2>1, <2>2, <2>3, <2>4, EndIs
<1>13. CASE UNCHANGED vars
  BY <1>13 DEF vars, Open, OpenAt
<1> QED
  BY <1>1, <1>2, <1>3, <1>4, <1>5, <1>6, <1>7, <1>9, <1>10, <1>11, <1>12, <1>13 DEF Next, Step

LEMMA OpenAlways == Spec => []Open
<1>1. Init => Open
  BY DEF Init, Open, OpenAt, Over, Sure, Rejected
<1> QED
  BY <1>1, OpenNext, TypeInit, TypeNext, PTL DEF Spec

\* An order is placed at most once, whatever the network and the server do.
THEOREM WritesTakeEffectOnce == Spec => []AtMostOnce
<1>1. Open => AtMostOnce
  BY DEF Open, OpenAt, AtMostOnce
<1> QED
  BY <1>1, OpenAlways, PTL

\* The end of a write tells what it did.
THEOREM OutcomesTell == Spec => []EndTellsEffect
<1>1. Open => EndTellsEffect
  BY DEF Open, OpenAt, EndTellsEffect, Sure, Rejected
<1> QED
  BY <1>1, OpenAlways, PTL
-----------------------------------------------------------------------------
\* The attempts are counted, up to one at least.
LEMMA AttemptsType == TypeOK => policy.maxAttempts \in Nat /\ Attempts \in Nat /\ Attempts >= 1
BY HttpAssumption DEF TypeOK, Attempts, Policy

LEMMA CountedNext == TypeOK /\ Counted /\ [Next]_vars => Counted'
<1> SUFFICES ASSUME TypeOK, Counted, [Next]_vars PROVE Counted'
  OBVIOUS
<1>0. /\ policy.maxAttempts \in Nat /\ Attempts \in Nat /\ Attempts >= 1
      /\ \A r \in Requests : attempt[r] \in Nat /\ sends[r] \in Nat
  BY AttemptsType DEF TypeOK
\* An action of one request leaves the others as they are.
<1>a. ASSUME NEW r \in Requests, CountedAt(r)', policy' = policy,
             \A q \in Requests \ {r} :
               attempt'[q] = attempt[q] /\ pc'[q] = pc[q] /\ sends'[q] = sends[q]
      PROVE  Counted'
  BY <1>a DEF Counted, CountedAt, Attempts
<1>1. CASE Expire
  BY <1>1 DEF Expire, Counted, CountedAt, Attempts, Setting
<1>2. ASSUME NEW r \in Requests, Start(r) \/ Retry(r) PROVE Counted'
  <2>1. attempt[r] + 1 <= Attempts /\ sends[r] <= 2 * attempt[r]
    BY <1>0, <1>2 DEF Start, Retry, Counted, CountedAt, Attempts
  <2>2. /\ policy' = policy /\ sends' = sends /\ attempt'[r] = attempt[r] + 1
        /\ pc'[r] \in {"pacing", "authorizing"}
        /\ \A q \in Requests \ {r} : attempt'[q] = attempt[q] /\ pc'[q] = pc[q]
    BY <1>2, NextAttemptIs DEF Start, Retry, Setting
  <2>3. CountedAt(r)'
    BY <1>0, <2>1, <2>2 DEF CountedAt, Attempts
  <2> QED
    BY <1>a, <2>2, <2>3
<1>3. ASSUME NEW r \in Requests, Paced(r) PROVE Counted'
  <2>1. Go(r, "authorizing") /\ "authorizing" \in Place
    BY <1>3 DEF Paced, Place
  <2> QED
    BY <1>3, <2>1, GoIs DEF Paced, Counted, CountedAt, Attempts, Setting
<1>4. ASSUME NEW r \in Requests, NEW class \in Error, NEW answer, Judge(r, class, answer),
             UNCHANGED <<policy, op, attempt>>, sends'[r] <= 2 * attempt[r],
             \A q \in Requests \ {r} : sends'[q] = sends[q]
      PROVE  Counted'
  <2>1. pc'[r] \in {"sleeping", "raised"} /\ (pc'[r] = "sleeping" => attempt[r] < policy.maxAttempts)
    BY <1>4, JudgeIs, RetriesLeft
  <2>2. CountedAt(r)'
    BY <1>0, <1>4, <2>1 DEF Counted, CountedAt, Attempts
  <2> QED
    BY <1>a, <1>4, <2>2, JudgeIs
<1>5. ASSUME NEW r \in Requests, Authorize(r) PROVE Counted'
  <2>1. UNCHANGED <<policy, op, attempt, sends>> /\ sends'[r] <= 2 * attempt[r]
    BY <1>5 DEF Authorize, Setting, Counted, CountedAt
  <2>2. CASE Judge(r, "AuthError", "401")
    BY <1>4, <2>1, <2>2 DEF Error
  <2>3. ASSUME \/ pc[r] = "authorizing" /\ Go(r, "sending")
               \/ pc[r] = "renewing" /\ Go(r, "resending")
        PROVE  Counted'
    <3>1. "sending" \in Place /\ "resending" \in Place
      BY DEF Place, HasToken
    <3>2. \/ pc[r] = "authorizing" /\ pc'[r] = "sending"
          \/ pc[r] = "renewing" /\ pc'[r] = "resending"
      BY <2>3, <3>1, GoIs
    <3>3. \A q \in Requests \ {r} : pc'[q] = pc[q]
      BY <2>3, <3>1, GoIs
    <3>4. CountedAt(r)'
      BY <2>1, <3>2 DEF Counted, CountedAt, Attempts
    <3> QED
      BY <1>a, <2>1, <3>3, <3>4
  <2>4. \/ Judge(r, "AuthError", "401")
        \/ pc[r] = "authorizing" /\ Go(r, "sending")
        \/ pc[r] = "renewing" /\ Go(r, "resending")
    BY <1>5 DEF Authorize
  <2> QED
    BY <2>2, <2>3, <2>4
<1>6. ASSUME NEW r \in Requests, NEW place \in Over, NEW how \in Outcome, End(r, place, how),
             UNCHANGED <<policy, attempt>>, sends'[r] <= 2 * attempt[r],
             \A q \in Requests \ {r} : sends'[q] = sends[q]
      PROVE  Counted'
  <2>1. pc'[r] \in Over
    BY <1>6, EndIs
  <2>2. CountedAt(r)'
    BY <1>6, <2>1 DEF Counted, CountedAt, Attempts, Over
  <2> QED
    BY <1>a, <1>6, <2>2, EndIs
\* Whatever is sent next, an attempt sends twice at most.
<1>7. ASSUME NEW r \in Requests, NEW took \in {0, 1}, Sent(r, took)
      PROVE  /\ sends'[r] = sends[r] + 1 /\ sends'[r] <= 2 * attempt[r]
             /\ pc[r] = "sending" => sends'[r] + 1 <= 2 * attempt[r]
             /\ \A q \in Requests \ {r} : sends'[q] = sends[q]
  <2>1. pc[r] \in {"sending", "resending"} /\ sends'[r] = sends[r] + 1
    BY <1>7, SentIs
  <2>2. sends[r] + 1 <= 2 * attempt[r] /\ (pc[r] = "sending" => sends[r] + 2 <= 2 * attempt[r])
    BY <1>0, <2>1 DEF Counted, CountedAt
  <2> QED
    BY <1>0, <1>7, <2>1, <2>2, SentIs
<1>8. ASSUME NEW r \in Requests, NoToken(r) PROVE Counted'
  <2>1. sends'[r] <= 2 * attempt[r] /\ sends' = sends /\ UNCHANGED <<policy, attempt>>
    BY <1>8 DEF NoToken, Counted, CountedAt, Setting
  <2> QED
    BY <1>6, <1>8, <2>1 DEF NoToken, Over, Outcome
<1>9. ASSUME NEW r \in Requests, Succeed(r) PROVE Counted'
  BY <1>6, <1>7, <1>9 DEF Succeed, Over, Outcome, Setting
<1>10. ASSUME NEW r \in Requests, Refused(r) PROVE Counted'
  <2>1. Sent(r, 0) /\ Go(r, "invalidating") /\ "invalidating" \in Place /\ UNCHANGED <<policy, attempt>>
    BY <1>10 DEF Refused, Place, HasToken, Setting
  <2>2. sends'[r] + 1 <= 2 * attempt[r] /\ pc'[r] = "invalidating"
    BY <1>7, <1>10, <2>1, GoIs DEF Refused
  <2>3. CountedAt(r)'
    BY <1>0, <1>7, <2>1, <2>2 DEF Counted, CountedAt, Attempts
  <2> QED
    BY <1>a, <1>7, <2>1, <2>3, GoIs
<1>11. ASSUME NEW r \in Requests, Answered(r) PROVE Counted'
  BY <1>4, <1>7, <1>11, AnsweredIs
<1>12. ASSUME NEW r \in Requests, Lost(r) PROVE Counted'
  BY <1>4, <1>7, <1>12 DEF Lost, Error, Setting
<1>13. ASSUME NEW r \in Requests, Invalidate(r) PROVE Counted'
  <2>1. Go(r, "renewing") /\ "renewing" \in Place
    BY <1>13 DEF Invalidate, Place, HasToken
  <2> QED
    BY <1>13, <2>1, GoIs DEF Invalidate, Counted, CountedAt, Attempts, Setting
<1>14. ASSUME NEW r \in Requests, Cancel(r) PROVE Counted'
  <2>1. /\ sends'[r] <= 2 * attempt[r] /\ UNCHANGED <<policy, attempt>>
        /\ \A q \in Requests \ {r} : sends'[q] = sends[q]
    BY <1>7, <1>14 DEF Cancel, Counted, CountedAt, Setting
  <2> QED
    BY <1>6, <1>14, <2>1 DEF Cancel, Over, Outcome
<1>15. CASE UNCHANGED vars
  BY <1>15 DEF vars, Counted, CountedAt, Attempts
<1> QED
  BY <1>1, <1>2, <1>3, <1>5, <1>8, <1>9, <1>10, <1>11, <1>12, <1>13, <1>14, <1>15 DEF Next, Step

\* max_attempts bounds the attempts, and each sends twice at most.
THEOREM SendsAreBounded == Spec => []SendsBounded
<1>1. Init => Counted
  BY AttemptsType, TypeInit DEF Init, Counted, CountedAt
<1>2. Counted => SendsBounded
  BY DEF Counted, CountedAt, SendsBounded
<1> QED
  BY <1>1, <1>2, CountedNext, TypeInit, TypeNext, PTL DEF Spec

-----------------------------------------------------------------------------
LEMMA SpentNext == TypeOK /\ Spent /\ [Next]_vars => Spent'
<1> SUFFICES ASSUME TypeOK, Spent, [Next]_vars PROVE Spent'
  OBVIOUS
<1>0. minted \in Nat /\ serving \in [Scope -> 0 .. minted] /\ made \in [Scope -> SUBSET (1 .. minted)]
  BY HttpAssumption DEF TypeOK
\* Most actions leave the provider alone and lead no request to a replacement.
<1>a. ASSUME UNCHANGED <<serving, made>>, gone \subseteq gone',
             \A r \in Requests : pc'[r] \in {"invalidating", "renewing"}
               => token'[r] \in gone'
      PROVE  Spent'
  BY <1>a DEF Spent
<1>1. CASE Expire
  <2>1. PICK x \in Scope : serving[x] # 0 /\ Drop(serving[x]) /\ gone' = gone \cup {serving[x]}
    BY <1>1 DEF Expire
  <2>2. ASSUME NEW s \in Scope PROVE made'[s] \ {serving'[s]} \subseteq gone'
    BY <1>1, <2>1, DropIs DEF Expire, Spent
  <2> QED
    BY <1>1, <2>1, <2>2 DEF Expire, Spent
<1>2. ASSUME NEW r \in Requests, Start(r) \/ Retry(r) PROVE Spent'
  BY <1>2, NextAttemptIs DEF Start, Retry, Spent, Provider
<1>3. ASSUME NEW r \in Requests, Paced(r) PROVE Spent'
  <2>1. Go(r, "authorizing") /\ "authorizing" \in Place
    BY <1>3 DEF Paced, Place
  <2> QED
    BY <1>3, <2>1, GoIs DEF Paced, Spent, Provider
<1>4. ASSUME NEW r \in Requests, Authorize(r) PROVE Spent'
  <2>0. PICK t \in 1 .. MaxMint : Get(op[r].scope, t) /\ Authorized(r, t)
    BY <1>4, AuthorizeIs
  <2>a. op[r].scope \in Scope
    BY DEF TypeOK, Operation
  <2>b. ASSUME NEW s \in Scope PROVE made'[s] \ {serving'[s]} \subseteq gone
    <3>1. made[s] \ {serving[s]} \subseteq gone /\ 0 \notin made[s]
      BY <1>0 DEF Spent
    <3> QED
      BY <2>0, <2>a, <3>1, GetIs
  <2>1. (\A s \in Scope : made'[s] \ {serving'[s]} \subseteq gone) /\ gone' = gone
    BY <1>4, <2>b DEF Authorize
  <2>2. CASE Judge(r, "AuthError", "401")
    <3>1. "AuthError" \in Error
      BY DEF Error
    <3> QED
      BY <2>1, <2>2, <3>1, JudgeIs DEF Spent
  <2>3. ASSUME NEW place \in {"sending", "resending"}, Go(r, place),
               token' = [token EXCEPT ![r] = t]
        PROVE  Spent'
    <3>1. place \in Place
      BY DEF Place, HasToken
    <3> QED
      BY <2>1, <2>3, <3>1, GoIs DEF Spent, TypeOK
  <2> QED
    BY <2>0, <2>2, <2>3 DEF Authorized
<1>5. ASSUME NEW r \in Requests, NoToken(r) PROVE Spent'
  <2>1. "raised" \in Over /\ "no token" \in Outcome /\ End(r, "raised", "no token")
    BY <1>5 DEF NoToken, Over, Outcome
  <2>2. UNCHANGED <<serving, made, gone>>
    BY <1>5 DEF NoToken, Provider
  <2>3. \A q \in Requests : pc'[q] \in {"invalidating", "renewing"} => pc'[q] = pc[q] /\ token'[q] = token[q]
    BY <2>1, EndIs
  <2> QED
    BY <2>2, <2>3 DEF Spent
<1>6. ASSUME NEW r \in Requests, Succeed(r) PROVE Spent'
  <2>1. PICK place \in {"returned", "raised"}, how \in {"result", "ProtocolError"} : End(r, place, how)
    BY <1>6 DEF Succeed
  <2>2. place \in Over /\ how \in Outcome
    BY DEF Over, Outcome
  <2> QED
    BY <1>6, <2>1, <2>2, EndIs DEF Succeed, Spent, Provider
<1>7. ASSUME NEW r \in Requests, Refused(r) PROVE Spent'
  <2>1. Go(r, "invalidating") /\ "invalidating" \in Place
    BY <1>7 DEF Refused, Place, HasToken
  <2> QED
    BY <1>7, <2>1, GoIs DEF Refused, Spent, Provider
<1>8. ASSUME NEW r \in Requests, Answered(r) PROVE Spent'
  <2>1. PICK answer \in Status \cup {"none"}, class \in Error :
             /\ Judge(r, class, answer)
             /\ gone' = gone \/ gone' = gone \cup {token[r]}
             /\ UNCHANGED <<policy, fixed, serving, minted, made, op, attempt>>
    BY <1>8, AnsweredIs
  <2> QED
    BY <1>a, <2>1, JudgeIs DEF Spent
<1>9. ASSUME NEW r \in Requests, Lost(r) PROVE Spent'
  <2>1. "TransportError" \in Error /\ Judge(r, "TransportError", "none")
    BY <1>9 DEF Lost, Error
  <2> QED
    BY <1>a, <1>9, <2>1, JudgeIs DEF Lost, Spent, Provider
<1>10. ASSUME NEW r \in Requests, Invalidate(r) PROVE Spent'
  <2>1. Go(r, "renewing") /\ "renewing" \in Place /\ pc[r] = "invalidating"
    BY <1>10 DEF Invalidate, Place, HasToken
  <2>2. token[r] \in gone /\ UNCHANGED <<made, token, gone>>
    BY <1>10, <2>1 DEF Invalidate, Spent
  <2>3. ASSUME NEW s \in Scope PROVE made'[s] \ {serving'[s]} \subseteq gone
    BY <1>10, <2>2, DropIs DEF Invalidate, Spent
  <2> QED
    BY <2>1, <2>2, <2>3, GoIs DEF Spent
<1>11. ASSUME NEW r \in Requests, Cancel(r) PROVE Spent'
  <2>1. End(r, "cancelled", "cancelled") /\ "cancelled" \in Over /\ "cancelled" \in Outcome
    BY <1>11 DEF Cancel, Over, Outcome
  <2> QED
    BY <1>11, <2>1, EndIs DEF Cancel, Spent, Provider
<1>12. CASE UNCHANGED vars
  BY <1>12 DEF vars, Spent
<1> QED
  BY <1>1, <1>2, <1>3, <1>4, <1>5, <1>6, <1>7, <1>8, <1>9, <1>10, <1>11, <1>12 DEF Next, Step

\* Whatever was minted for a scope and does not serve it any more was refused or
\* expired: requests of one scope that were refused the same token together
\* replace it once, and a token that served both is replaced once for each.
THEOREM RefusedReplacedOnce == Spec => []ReplacedOnce
<1>1. Init => Spent
  BY DEF Init, Spent
<1>2. TypeOK /\ Spent => ReplacedOnce
  <2> SUFFICES ASSUME TypeOK, Spent, NEW s \in Scope PROVE Cardinality(made[s]) <= 1 + Cardinality(gone)
    BY DEF ReplacedOnce
  <2>1. minted \in Nat
    BY HttpAssumption DEF TypeOK
  <2>2. IsFiniteSet(1 .. minted)
    BY <2>1, FS_Interval
  <2>3. IsFiniteSet(gone)
    BY <2>2, FS_Subset DEF TypeOK
  <2>a. Cardinality(gone) \in Nat
    BY <2>3, FS_CardinalityType
  <2>b. /\ IsFiniteSet(gone \cup {serving[s]})
        /\ Cardinality(gone \cup {serving[s]}) =
             IF serving[s] \in gone THEN Cardinality(gone) ELSE Cardinality(gone) + 1
    BY <2>3, FS_AddElement, Zenon
  <2>4. Cardinality(gone \cup {serving[s]}) <= Cardinality(gone) + 1
    BY <2>a, <2>b
  <2>5. made[s] \subseteq gone \cup {serving[s]}
    BY DEF Spent
  <2>6. IsFiniteSet(made[s]) /\ Cardinality(made[s]) <= Cardinality(gone \cup {serving[s]})
    BY <2>b, <2>5, FS_Subset, Zenon
  <2>7. Cardinality(made[s]) \in Nat /\ Cardinality(gone \cup {serving[s]}) \in Nat
    BY <2>b, <2>6, FS_CardinalityType
  <2> QED
    BY <2>a, <2>4, <2>6, <2>7
<1> QED
  BY <1>1, <1>2, SpentNext, TypeInit, TypeNext, PTL DEF Spec

----------------------------------------------------------------------------
(* The records among a sequence that are wanted.                           *)

\* The places in s of the records of W, and those of them up to i.
Hits(s, W) == {i \in DOMAIN s : s[i] \in W}
UpTo(s, W, i) == {j \in Hits(s, W) : j <= i}

\* e lists the places of the wanted records in order.
Picks(e, m, s, W) ==
  /\ m \in Nat /\ e \in [1 .. m -> DOMAIN s]
  /\ \A i, j \in 1 .. m : i < j => e[i] < e[j]
  /\ \A i \in 1 .. m : s[e[i]] \in W
  /\ \A i \in DOMAIN s : s[i] \in W => \E n \in 1 .. m : e[n] = i

\* Among, over the places of what is wanted.
LEMMA AmongDef ==
  ASSUME NEW s, NEW W
  PROVE  Among(s, W) = [n \in 1 .. Cardinality(Hits(s, W)) |->
                          s[CHOOSE i \in Hits(s, W) : Cardinality(UpTo(s, W, i)) = n]]
BY DEF Among, Hits, UpTo

\* The places are finitely many.
LEMMA HitsFinite ==
  ASSUME NEW S, NEW s \in Seq(S), NEW W
  PROVE  /\ IsFiniteSet(Hits(s, W)) /\ Hits(s, W) \subseteq Int
         /\ \A i : IsFiniteSet(UpTo(s, W, i)) /\ Cardinality(UpTo(s, W, i)) \in Nat
<1>0. DOMAIN s = 1 .. Len(s) /\ Len(s) \in Nat BY LenProperties
<1>1. IsFiniteSet(1 .. Len(s)) /\ Hits(s, W) \in SUBSET (1 .. Len(s)) /\ Len(s) \in Nat
  <2>1. IsFiniteSet(1 .. Len(s)) BY <1>0, FS_Interval
  <2> QED BY <2>1, <1>0 DEF Hits
<1>2. IsFiniteSet(Hits(s, W)) BY <1>1, FS_Subset
<1>3. ASSUME NEW i PROVE IsFiniteSet(UpTo(s, W, i)) /\ Cardinality(UpTo(s, W, i)) \in Nat
  <2>1. UpTo(s, W, i) \in SUBSET Hits(s, W) BY DEF UpTo
  <2> QED BY <2>1, <1>2, FS_Subset, FS_CardinalityType
<1> QED BY <1>1, <1>2, <1>3

\* Whatever lists the places of the wanted records in order gives the records.
LEMMA AmongPicked ==
  ASSUME NEW S, NEW s \in Seq(S), NEW W, NEW m, NEW e, Picks(e, m, s, W)
  PROVE  Among(s, W) = [n \in 1 .. m |-> s[e[n]]]
<1> DEFINE H == Hits(s, W)
           R(i) == Cardinality(UpTo(s, W, i))
<1>1. m \in Nat /\ e \in [1 .. m -> DOMAIN s] /\ Len(s) \in Nat /\ DOMAIN s = 1 .. Len(s)
  BY LenProperties DEF Picks
<1>2. \A i \in 1 .. m : e[i] \in H /\ e[i] \in Int
  BY <1>1 DEF Picks, Hits
<1>3. \A i, j \in 1 .. m : e[i] <= e[j] => i <= j
  <2> SUFFICES ASSUME NEW i \in 1 .. m, NEW j \in 1 .. m, e[i] <= e[j], ~(i <= j) PROVE FALSE
    OBVIOUS
  <2>1. e[j] < e[i] BY <1>1 DEF Picks
  <2> QED BY <2>1, <1>2
<1>4. ASSUME NEW n \in 1 .. m PROVE R(e[n]) = n
  <2> DEFINE f == [k \in 1 .. n |-> e[k]]
  <2>0. ASSUME NEW k \in 1 .. n PROVE k \in 1 .. m /\ e[k] <= e[n]
    <3>1. k \in 1 .. m /\ (k = n \/ k < n) BY <1>1
    <3> QED BY <3>1, <1>2 DEF Picks
  <2>1. \A k \in 1 .. n : k \in 1 .. m /\ e[k] \in UpTo(s, W, e[n])
    BY <2>0, <1>2 DEF UpTo
  <2>2. f \in [1 .. n -> UpTo(s, W, e[n])] BY <2>1
  <2>3. IsInjective(f)
    BY <2>1, <1>3, <1>2, <1>1 DEF IsInjective
  <2>4. \A t \in UpTo(s, W, e[n]) : \E k \in 1 .. n : f[k] = t
    <3> SUFFICES ASSUME NEW t \in UpTo(s, W, e[n]) PROVE \E k \in 1 .. n : f[k] = t OBVIOUS
    <3>1. PICK k \in 1 .. m : e[k] = t BY DEF UpTo, Hits, Picks
    <3>2. e[k] <= e[n] BY <3>1 DEF UpTo
    <3>3. k \in 1 .. n BY <3>2, <1>3, <1>1
    <3> QED BY <3>1, <3>3
  <2>5. f \in Bijection(1 .. n, UpTo(s, W, e[n]))
    BY <2>2, <2>3, <2>4 DEF Bijection, Injection, Surjection
  <2>6. ExistsBijection(1 .. n, UpTo(s, W, e[n])) BY <2>5 DEF ExistsBijection
  <2>7. n \in Nat BY <1>1
  <2> HIDE DEF f
  <2> QED BY <2>6, <2>7, FS_CountingElements
<1>5. \A i \in H : \E n \in 1 .. m : e[n] = i BY DEF Picks, Hits
<1>6. Cardinality(H) = m
  <2>1. e \in [1 .. m -> H] BY <1>1, <1>2
  <2>2. IsInjective(e) BY <1>1, <1>3, <1>2 DEF IsInjective
  <2>3. e \in Bijection(1 .. m, H)
    BY <2>1, <2>2, <1>5 DEF Bijection, Injection, Surjection
  <2>4. ExistsBijection(1 .. m, H) BY <2>3 DEF ExistsBijection
  <2> QED BY <2>4, <1>1, FS_CountingElements
<1>7. ASSUME NEW n \in 1 .. m PROVE (CHOOSE i \in H : R(i) = n) = e[n]
  <2>1. e[n] \in H /\ R(e[n]) = n BY <1>2, <1>4
  <2>2. \A i \in H : R(i) = n => i = e[n]
    <3> SUFFICES ASSUME NEW i \in H, R(i) = n PROVE i = e[n] OBVIOUS
    <3>1. PICK k \in 1 .. m : e[k] = i BY <1>5
    <3>2. R(i) = k BY <1>4, <3>1
    <3> QED BY <3>1, <3>2
  <2> HIDE DEF R, H
  <2> QED BY <2>1, <2>2
<1>8. Among(s, W) = [n \in 1 .. Cardinality(H) |-> s[CHOOSE i \in H : R(i) = n]] BY AmongDef
<1> HIDE DEF R, H
<1> QED BY <1>6, <1>7, <1>8

\* There is such an enumeration.
LEMMA PicksExist ==
  ASSUME NEW S, NEW s \in Seq(S), NEW W
  PROVE  \E m \in Nat : \E e : Picks(e, m, s, W)
<1> DEFINE H == Hits(s, W)
           R(i) == Cardinality(UpTo(s, W, i))
           m == Cardinality(H)
           r == [i \in H |-> R(i)]
<1>1. IsFiniteSet(H) /\ H \subseteq Int /\ m \in Nat BY HitsFinite, FS_CardinalityType
<1>2. ASSUME NEW i \in H PROVE R(i) \in 1 .. m
  <2>1. IsFiniteSet(UpTo(s, W, i)) /\ R(i) \in Nat BY HitsFinite
  <2>2. UpTo(s, W, i) \in SUBSET H BY DEF UpTo
  <2>3. R(i) <= m BY <2>2, <1>1, FS_Subset
  <2>4. i \in UpTo(s, W, i) BY <1>1 DEF UpTo
  <2>5. R(i) # 0 BY <2>4, <2>1, FS_EmptySet
  <2> HIDE DEF R, m
  <2> QED BY <2>1, <2>3, <2>5, <1>1
<1>3. ASSUME NEW i \in H, NEW j \in H, i < j PROVE R(i) < R(j)
  <2>1. IsFiniteSet(UpTo(s, W, j)) /\ R(j) \in Nat /\ R(i) \in Nat BY HitsFinite
  <2>2. UpTo(s, W, i) \in SUBSET UpTo(s, W, j) BY <1>1, <1>3 DEF UpTo
  <2>3. j \in UpTo(s, W, j) /\ j \notin UpTo(s, W, i) BY <1>1, <1>3 DEF UpTo
  <2>4. R(i) <= R(j) /\ (R(j) = R(i) => UpTo(s, W, j) = UpTo(s, W, i))
    BY <2>1, <2>2, FS_Subset
  <2> HIDE DEF R
  <2> QED BY <2>1, <2>3, <2>4
<1>4. r \in Injection(H, 1 .. m)
  <2>1. r \in [H -> 1 .. m] BY <1>2
  <2>2. \A i, j \in H : R(i) = R(j) => i = j
    <3> SUFFICES ASSUME NEW i \in H, NEW j \in H, R(i) = R(j), i # j PROVE FALSE OBVIOUS
    <3>1. i < j \/ j < i BY <1>1
    <3>2. R(i) < R(j) \/ R(j) < R(i) BY <3>1, <1>3
    <3>3. R(i) \in Int /\ R(j) \in Int BY <1>2
    <3> HIDE DEF R
    <3> QED BY <3>2, <3>3
  <2>3. IsInjective(r) BY <2>2 DEF IsInjective
  <2> QED BY <2>1, <2>3 DEF Injection
<1>5. \A n \in 1 .. m : \E i \in H : R(i) = n
  <2>1. IsFiniteSet(1 .. m) /\ Cardinality(1 .. m) = m BY <1>1, FS_Interval
  <2>2. r \in Surjection(H, 1 .. m)
    <3> HIDE DEF r, H
    <3> QED BY <1>4, <2>1, FS_Injection
  <2> QED BY <2>2 DEF Surjection
<1> DEFINE e == [n \in 1 .. m |-> CHOOSE i \in H : R(i) = n]
<1>6. \A n \in 1 .. m : e[n] \in H /\ R(e[n]) = n
  <2> HIDE DEF H, R
  <2> QED BY <1>5
<1>7. \A a, b \in 1 .. m : a < b => e[a] < e[b]
  <2> SUFFICES ASSUME NEW a \in 1 .. m, NEW b \in 1 .. m, a < b, ~(e[a] < e[b]) PROVE FALSE
    OBVIOUS
  <2>1. e[a] \in H /\ e[b] \in H /\ R(e[a]) = a /\ R(e[b]) = b BY <1>6
  <2> HIDE DEF e, R
  <2>2. e[b] = e[a] \/ e[b] < e[a]
    <3>1. e[a] \in Int /\ e[b] \in Int BY <2>1, <1>1
    <3> QED BY <3>1
  <2>3. CASE e[b] = e[a] BY <2>1, <2>3, <1>1
  <2>4. CASE e[b] < e[a]
    <3>1. R(e[b]) < R(e[a]) BY <2>1, <2>4, <1>3
    <3> QED BY <3>1, <2>1, <1>1
  <2> QED BY <2>2, <2>3, <2>4
<1>8. e \in [1 .. m -> DOMAIN s] /\ \A n \in 1 .. m : s[e[n]] \in W
  BY <1>6 DEF Hits
<1>9. ASSUME NEW i \in DOMAIN s, s[i] \in W PROVE \E n \in 1 .. m : e[n] = i
  <2>1. i \in H BY <1>9 DEF Hits
  <2>2. R(i) \in 1 .. m BY <2>1, <1>2
  <2>3. e[R(i)] \in H /\ R(e[R(i)]) = R(i) BY <2>2, <1>6
  <2>4. e[R(i)] = i
    <3> SUFFICES ASSUME e[R(i)] # i PROVE FALSE OBVIOUS
    <3> DEFINE k == e[R(i)]
    <3>1. k \in Int /\ i \in Int /\ k # i /\ k \in H BY <2>1, <2>3, <1>1
    <3>2. R(k) = R(i) /\ R(i) \in Int BY <2>2, <2>3
    <3> HIDE DEF k, e, R
    <3>3. k < i \/ i < k BY <3>1
    <3>4. R(k) < R(i) \/ R(i) < R(k) BY <3>1, <3>3, <2>1, <1>3
    <3> QED BY <3>4, <3>2
  <2> QED BY <2>2, <2>4
<1> HIDE DEF e, m, R
<1>10. Picks(e, m, s, W) BY <1>1, <1>7, <1>8, <1>9 DEF Picks
<1> QED BY <1>1, <1>10

\* So Among lists the places of the wanted records in order.
LEMMA PicksAmong ==
  ASSUME NEW S, NEW s \in Seq(S), NEW W
  PROVE  \E m \in Nat : \E e : Picks(e, m, s, W) /\ Among(s, W) = [n \in 1 .. m |-> s[e[n]]]
<1>1a. PICK m \in Nat : \E e : Picks(e, m, s, W) BY PicksExist
<1>1. PICK e : Picks(e, m, s, W) BY <1>1a
<1>2. Among(s, W) = [n \in 1 .. m |-> s[e[n]]] BY <1>1, AmongPicked
<1> QED BY <1>1, <1>2

\* The result is a sequence of exactly the records that are wanted.
LEMMA AmongType ==
  ASSUME NEW S, NEW s \in Seq(S), NEW W
  PROVE  /\ Among(s, W) \in Seq(S)
         /\ Len(Among(s, W)) \in Nat
         /\ DOMAIN Among(s, W) = 1 .. Len(Among(s, W))
         /\ \A n \in 1 .. Len(Among(s, W)) : Among(s, W)[n] \in W
         /\ ToSet(Among(s, W)) = ToSet(s) \cap W
<1>1a. PICK m \in Nat : \E e : Picks(e, m, s, W) /\ Among(s, W) = [n \in 1 .. m |-> s[e[n]]]
  BY PicksAmong
<1>1. PICK e : Picks(e, m, s, W) /\ Among(s, W) = [n \in 1 .. m |-> s[e[n]]]
  BY <1>1a
<1>2. \A n \in 1 .. m : e[n] \in DOMAIN s /\ s[e[n]] \in W BY <1>1 DEF Picks
<1>3. \A i \in DOMAIN s : s[i] \in S BY LenProperties, ElementOfSeq
<1>4. Among(s, W) \in [1 .. m -> S] BY <1>1, <1>2, <1>3
<1>5. Among(s, W) \in Seq(S) BY <1>4
<1>6. Len(Among(s, W)) \in Nat /\ DOMAIN Among(s, W) = 1 .. Len(Among(s, W))
  BY <1>5, LenProperties
<1>7. Len(Among(s, W)) = m /\ DOMAIN Among(s, W) = 1 .. m BY <1>1, <1>5, LenProperties
<1>8. ToSet(Among(s, W)) \subseteq ToSet(s) \cap W BY <1>1, <1>2, <1>7 DEF ToSet
<1>9. ToSet(s) \cap W \subseteq ToSet(Among(s, W))
  BY <1>1, <1>2, <1>7 DEF ToSet, Picks
<1> QED BY <1>1, <1>2, <1>5, <1>6, <1>7, <1>8, <1>9

\* It repeats a record only if the sequence does.
LEMMA AmongInjective ==
  ASSUME NEW S, NEW s \in Seq(S), NEW W, IsInjective(s)
  PROVE  IsInjective(Among(s, W))
<1>1a. PICK m \in Nat : \E e : Picks(e, m, s, W) /\ Among(s, W) = [n \in 1 .. m |-> s[e[n]]]
  BY PicksAmong
<1>1. PICK e : Picks(e, m, s, W) /\ Among(s, W) = [n \in 1 .. m |-> s[e[n]]]
  BY <1>1a
<1>2. \A n \in 1 .. m : e[n] \in DOMAIN s BY <1>1 DEF Picks
<1>3. \A n \in 1 .. m : e[n] \in Int BY <1>2, LenProperties
<1>4. ASSUME NEW a \in 1 .. m, NEW b \in 1 .. m, s[e[a]] = s[e[b]] PROVE a = b
  <2>1. e[a] = e[b] BY <1>2, <1>4 DEF IsInjective
  <2>2. ~(a < b) /\ ~(b < a) BY <2>1, <1>1, <1>3 DEF Picks
  <2> QED BY <2>2
<1> QED BY <1>1, <1>4 DEF IsInjective

\* Only what is wanted of the sequence matters.
LEMMA AmongSame ==
  ASSUME NEW S, NEW s \in Seq(S), NEW W, NEW U, \A r \in ToSet(s) : r \in W <=> r \in U
  PROVE  Among(s, W) = Among(s, U)
<1>1a. PICK m \in Nat : \E e : Picks(e, m, s, W) /\ Among(s, W) = [n \in 1 .. m |-> s[e[n]]]
  BY PicksAmong
<1>1. PICK e : Picks(e, m, s, W) /\ Among(s, W) = [n \in 1 .. m |-> s[e[n]]]
  BY <1>1a
<1>2. \A i \in DOMAIN s : s[i] \in W <=> s[i] \in U BY DEF ToSet
<1>3. Picks(e, m, s, U) BY <1>1, <1>2 DEF Picks
<1>4. Among(s, U) = [n \in 1 .. m |-> s[e[n]]] BY <1>3, AmongPicked
<1> QED BY <1>1, <1>4

\* When all is wanted, it is the sequence.
LEMMA AmongAll ==
  ASSUME NEW S, NEW s \in Seq(S), NEW W, ToSet(s) \subseteq W
  PROVE  Among(s, W) = s
<1> DEFINE m == Len(s)
           e == [n \in 1 .. m |-> n]
<1>1. m \in Nat /\ DOMAIN s = 1 .. m /\ s = [n \in 1 .. m |-> s[n]] BY LenProperties
<1>2. \A i \in DOMAIN s : s[i] \in W BY DEF ToSet
<1>3. Picks(e, m, s, W)
  <2>1. e \in [1 .. m -> DOMAIN s] BY <1>1
  <2> QED BY <1>1, <1>2, <2>1 DEF Picks
<1>4. Among(s, W) = [n \in 1 .. m |-> s[e[n]]]
  <2> HIDE DEF e, m
  <2> QED BY <1>3, AmongPicked
<1> QED BY <1>1, <1>4

\* When nothing of the sequence is wanted, it is empty.
LEMMA AmongNone ==
  ASSUME NEW S, NEW s \in Seq(S), NEW W, ToSet(s) \cap W = {}
  PROVE  Among(s, W) = << >>
<1>1. ToSet(Among(s, W)) = {} BY AmongType
<1>2. Among(s, W) \in Seq(S) /\ Len(Among(s, W)) \in Nat /\ DOMAIN Among(s, W) = 1 .. Len(Among(s, W))
  BY AmongType
<1>3. Among(s, W) # << >> => Len(Among(s, W)) \in Nat \ {0} BY <1>2, EmptySeq
<1>4. Among(s, W) # << >> => 1 \in DOMAIN Among(s, W) BY <1>2, <1>3
<1>5. 1 \in DOMAIN Among(s, W) => Among(s, W)[1] \in ToSet(Among(s, W)) BY DEF ToSet
<1> QED BY <1>1, <1>4, <1>5

\* What is wanted of two sequences, one after the other.
LEMMA AmongConcat ==
  ASSUME NEW S, NEW s \in Seq(S), NEW t \in Seq(S), NEW W
  PROVE  Among(s \o t, W) = Among(s, W) \o Among(t, W)
<1>1a. PICK m \in Nat : \E e : Picks(e, m, s, W) /\ Among(s, W) = [n \in 1 .. m |-> s[e[n]]]
  BY PicksAmong
<1>1. PICK e : Picks(e, m, s, W) /\ Among(s, W) = [n \in 1 .. m |-> s[e[n]]]
  BY <1>1a
<1>2a. PICK k \in Nat : \E f : Picks(f, k, t, W) /\ Among(t, W) = [n \in 1 .. k |-> t[f[n]]]
  BY PicksAmong
<1>2. PICK f : Picks(f, k, t, W) /\ Among(t, W) = [n \in 1 .. k |-> t[f[n]]]
  BY <1>2a
<1> DEFINE u == s \o t
           g == [n \in 1 .. m + k |-> IF n <= m THEN e[n] ELSE Len(s) + f[n - m]]
<1>3. /\ Len(s) \in Nat /\ Len(t) \in Nat /\ DOMAIN s = 1 .. Len(s) /\ DOMAIN t = 1 .. Len(t)
      /\ u \in Seq(S) /\ Len(u) = Len(s) + Len(t) /\ DOMAIN u = 1 .. Len(s) + Len(t)
      /\ \A i \in 1 .. Len(s) : u[i] = s[i]
      /\ \A i \in 1 .. Len(t) : u[Len(s) + i] = t[i]
  <2>1. Len(s) \in Nat /\ Len(t) \in Nat /\ DOMAIN s = 1 .. Len(s) /\ DOMAIN t = 1 .. Len(t)
    BY LenProperties
  <2>2. /\ u \in Seq(S) /\ Len(u) = Len(s) + Len(t)
        /\ \A i \in 1 .. Len(s) + Len(t) : u[i] = IF i <= Len(s) THEN s[i] ELSE t[i - Len(s)]
    BY ConcatProperties
  <2>3. DOMAIN u = 1 .. Len(u) BY <2>2, LenProperties
  <2> HIDE DEF u
  <2>4. ASSUME NEW i \in 1 .. Len(s) PROVE u[i] = s[i]
    <3>1. i \in 1 .. Len(s) + Len(t) /\ i <= Len(s) BY <2>1
    <3> QED BY <3>1, <2>2
  <2>5. ASSUME NEW i \in 1 .. Len(t) PROVE u[Len(s) + i] = t[i]
    <3>1. /\ Len(s) + i \in 1 .. Len(s) + Len(t) /\ ~(Len(s) + i <= Len(s))
          /\ (Len(s) + i) - Len(s) = i
      BY <2>1
    <3> QED BY <3>1, <2>2
  <2> QED BY <2>1, <2>2, <2>3, <2>4, <2>5
<1> HIDE DEF u
<1>4. /\ \A n \in 1 .. m : e[n] \in 1 .. Len(s) /\ s[e[n]] \in W
      /\ \A n \in 1 .. k : f[n] \in 1 .. Len(t) /\ t[f[n]] \in W
  BY <1>1, <1>2, <1>3 DEF Picks
<1>5. \A n \in 1 .. m + k : \/ n \in 1 .. m /\ g[n] = e[n]
                            \/ n - m \in 1 .. k /\ n > m /\ g[n] = Len(s) + f[n - m]
  OBVIOUS
<1>6. \A n \in 1 .. m : n \in 1 .. m + k /\ g[n] = e[n] OBVIOUS
<1>7. \A n \in 1 .. k : m + n \in 1 .. m + k /\ g[m + n] = Len(s) + f[n]
  <2> SUFFICES ASSUME NEW n \in 1 .. k PROVE m + n \in 1 .. m + k /\ g[m + n] = Len(s) + f[n] OBVIOUS
  <2>1. m + n \in 1 .. m + k /\ ~(m + n <= m) /\ (m + n) - m = n OBVIOUS
  <2> QED BY <2>1
<1>8. g \in [1 .. m + k -> DOMAIN u]
  <2>1. \A n \in 1 .. m + k : g[n] \in DOMAIN u BY <1>3, <1>4, <1>5
  <2> QED BY <2>1
<1>9. Picks(g, m + k, u, W)
  <2>1. m + k \in Nat OBVIOUS
  <2>2. ASSUME NEW i \in 1 .. m + k, NEW j \in 1 .. m + k, i < j PROVE g[i] < g[j]
    <3> HIDE DEF g
    <3>1. CASE j \in 1 .. m /\ g[j] = e[j]
      <4>1. i \in 1 .. m BY <3>1, <2>2
      <4>2. g[i] = e[i] BY <4>1, <1>6
      <4> QED BY <4>1, <4>2, <3>1, <2>2, <1>1 DEF Picks
    <3>2. CASE j - m \in 1 .. k /\ j > m /\ g[j] = Len(s) + f[j - m]
      <4>1. CASE i \in 1 .. m /\ g[i] = e[i]
        <5>1. e[i] <= Len(s) /\ e[i] \in Int /\ f[j - m] \in 1 .. Len(t) BY <4>1, <3>2, <1>4, <1>3
        <5> QED BY <5>1, <4>1, <3>2, <1>3
      <4>2. CASE i - m \in 1 .. k /\ i > m /\ g[i] = Len(s) + f[i - m]
        <5>1. i - m < j - m BY <2>2
        <5>2. f[i - m] < f[j - m] BY <5>1, <4>2, <3>2, <1>2 DEF Picks
        <5>3. f[i - m] \in Int /\ f[j - m] \in Int BY <4>2, <3>2, <1>4
        <5>4. Len(s) + f[i - m] < Len(s) + f[j - m] BY <5>2, <5>3, <1>3
        <5> QED BY <5>4, <4>2, <3>2
      <4> QED BY <4>1, <4>2, <1>5
    <3> QED BY <3>1, <3>2, <1>5
  <2>3. \A i \in 1 .. m + k : u[g[i]] \in W
    <3> SUFFICES ASSUME NEW i \in 1 .. m + k PROVE u[g[i]] \in W OBVIOUS
    <3> HIDE DEF g
    <3>1. CASE i \in 1 .. m /\ g[i] = e[i] BY <3>1, <1>3, <1>4
    <3>2. CASE i - m \in 1 .. k /\ g[i] = Len(s) + f[i - m]
      <4>1. u[Len(s) + f[i - m]] = t[f[i - m]] BY <3>2, <1>3, <1>4
      <4> QED BY <4>1, <3>2, <1>4
    <3> QED BY <3>1, <3>2, <1>5
  <2>4. ASSUME NEW i \in DOMAIN u, u[i] \in W PROVE \E n \in 1 .. m + k : g[n] = i
    <3> HIDE DEF g
    <3>1. CASE i <= Len(s)
      <4>1. i \in DOMAIN s /\ s[i] \in W BY <3>1, <2>4, <1>3
      <4>2. PICK n \in 1 .. m : e[n] = i BY <4>1, <1>1 DEF Picks
      <4> QED BY <4>2, <1>6
    <3>2. CASE ~(i <= Len(s))
      <4>1. i - Len(s) \in 1 .. Len(t) /\ Len(s) + (i - Len(s)) = i BY <3>2, <1>3
      <4>2. t[i - Len(s)] \in W BY <4>1, <2>4, <1>3
      <4>3. PICK n \in 1 .. k : f[n] = i - Len(s) BY <4>1, <4>2, <1>2, <1>3 DEF Picks
      <4>4. g[m + n] = i BY <4>1, <4>3, <1>7
      <4> QED BY <4>4, <1>7
    <3> QED BY <3>1, <3>2
  <2> HIDE DEF g
  <2> QED BY <2>1, <2>2, <2>3, <2>4, <1>8 DEF Picks
<1> DEFINE a == Among(s, W)
           b == Among(t, W)
<1>10. /\ a \in Seq(S) /\ b \in Seq(S) /\ Len(a) = m /\ Len(b) = k
  <2>1. a \in Seq(S) /\ b \in Seq(S) BY AmongType
  <2>2. DOMAIN a = 1 .. m /\ DOMAIN b = 1 .. k BY <1>1, <1>2
  <2> HIDE DEF a, b
  <2>3. DOMAIN a = 1 .. Len(a) /\ DOMAIN b = 1 .. Len(b) /\ Len(a) \in Nat /\ Len(b) \in Nat
    BY <2>1, LenProperties
  <2> QED BY <2>1, <2>2, <2>3
<1>11. Among(u, W) = [n \in 1 .. m + k |-> u[g[n]]]
  <2>1. u \in Seq(S) BY <1>3
  <2> DEFINE l == m + k
  <2>2. Picks(g, l, u, W) BY <1>9
  <2> HIDE DEF g, l
  <2>3. Among(u, W) = [n \in 1 .. l |-> u[g[n]]] BY <2>1, <2>2, AmongPicked
  <2> QED BY <2>3 DEF l
<1>12. Among(u, W) \in Seq(S) /\ Len(Among(u, W)) = m + k
  <2>1. Among(u, W) \in Seq(S) /\ Len(Among(u, W)) \in Nat
        /\ DOMAIN Among(u, W) = 1 .. Len(Among(u, W)) BY <1>3, AmongType
  <2>2. DOMAIN Among(u, W) = 1 .. m + k BY <1>11
  <2> DEFINE x == Len(Among(u, W))
  <2>3. x \in Nat BY <2>1
  <2>4. 1 .. x = 1 .. m + k BY <2>1, <2>2
  <2> HIDE DEF x
  <2>5. m + k \in Nat OBVIOUS
  <2>6. x = m + k BY <2>3, <2>4, <2>5
  <2> QED BY <2>1, <2>6 DEF x
<1>13. \A n \in 1 .. m : Among(u, W)[n] = a[n]
  <2> SUFFICES ASSUME NEW n \in 1 .. m PROVE Among(u, W)[n] = a[n] OBVIOUS
  <2>1. Among(u, W)[n] = u[e[n]] BY <1>6, <1>11
  <2> QED BY <2>1, <1>1, <1>3, <1>4
<1>14. \A n \in 1 .. k : Among(u, W)[m + n] = b[n]
  <2> SUFFICES ASSUME NEW n \in 1 .. k PROVE Among(u, W)[m + n] = b[n] OBVIOUS
  <2>1. Among(u, W)[m + n] = u[Len(s) + f[n]] BY <1>7, <1>11
  <2> QED BY <2>1, <1>2, <1>3, <1>4
<1> DEFINE c == Among(u, W)
<1>15. \A n \in 1 .. Len(a) + Len(b) : (a \o b)[n] = c[n]
  <2>1. \A n \in 1 .. Len(a) + Len(b) : (a \o b)[n] = IF n <= Len(a) THEN a[n] ELSE b[n - Len(a)]
    <3> HIDE DEF a, b
    <3> QED BY <1>10, ConcatProperties
  <2> SUFFICES ASSUME NEW n \in 1 .. m + k PROVE (a \o b)[n] = c[n] BY <1>10
  <2>2. CASE n <= m BY <2>1, <2>2, <1>10, <1>13
  <2>3. CASE ~(n <= m)
    <3>1. n - m \in 1 .. k /\ m + (n - m) = n BY <2>3
    <3>2. c[m + (n - m)] = b[n - m] BY <3>1, <1>14
    <3> QED BY <3>1, <3>2, <2>1, <2>3, <1>10
  <2> QED BY <2>2, <2>3
<1>16. a \o b \in Seq(S) /\ Len(a \o b) = m + k
  <2> HIDE DEF a, b
  <2> QED BY <1>10, ConcatProperties
<1>17. c = a \o b
  <2> HIDE DEF a, b, c
  <2>1. c \in Seq(S) /\ Len(c) = m + k BY <1>12 DEF c
  <2> QED BY <2>1, <1>10, <1>15, <1>16, SeqEqual
<1> QED BY <1>17 DEF u

\* Wanting less of what was wanted already.
LEMMA AmongAmong ==
  ASSUME NEW S, NEW s \in Seq(S), NEW W, NEW U, U \subseteq W
  PROVE  Among(Among(s, W), U) = Among(s, U)
<1>1a. PICK m \in Nat : \E e : Picks(e, m, s, W) /\ Among(s, W) = [n \in 1 .. m |-> s[e[n]]]
  BY PicksAmong
<1>1. PICK e : Picks(e, m, s, W) /\ Among(s, W) = [n \in 1 .. m |-> s[e[n]]]
  BY <1>1a
<1> DEFINE a == Among(s, W)
<1>2. a \in Seq(S) /\ DOMAIN a = 1 .. m BY <1>1, AmongType
<1>3a. PICK k \in Nat : \E f : Picks(f, k, a, U) /\ Among(a, U) = [n \in 1 .. k |-> a[f[n]]]
  <2> HIDE DEF a
  <2> QED BY <1>2, PicksAmong
<1>3. PICK f : Picks(f, k, a, U) /\ Among(a, U) = [n \in 1 .. k |-> a[f[n]]]
  BY <1>3a
<1> DEFINE g == [n \in 1 .. k |-> e[f[n]]]
<1>4. \A n \in 1 .. k : f[n] \in 1 .. m /\ a[f[n]] \in U BY <1>2, <1>3 DEF Picks
<1>5. \A n \in 1 .. m : e[n] \in DOMAIN s /\ a[n] = s[e[n]] BY <1>1 DEF Picks
<1>6. Picks(g, k, s, U)
  <2>1. k \in Nat /\ g \in [1 .. k -> DOMAIN s] BY <1>4, <1>5
  <2>2. \A i, j \in 1 .. k : i < j => g[i] < g[j] BY <1>4, <1>1, <1>3 DEF Picks
  <2>3. \A i \in 1 .. k : s[g[i]] \in U BY <1>4, <1>5
  <2>4. ASSUME NEW i \in DOMAIN s, s[i] \in U PROVE \E n \in 1 .. k : g[n] = i
    <3>1. PICK l \in 1 .. m : e[l] = i BY <2>4, <1>1 DEF Picks
    <3>2. l \in DOMAIN a /\ a[l] \in U BY <3>1, <2>4, <1>2, <1>5
    <3>3. PICK n \in 1 .. k : f[n] = l BY <3>2, <1>3 DEF Picks
    <3> QED BY <3>1, <3>3
  <2> HIDE DEF g
  <2> QED BY <2>1, <2>2, <2>3, <2>4 DEF Picks
<1>7. Among(s, U) = [n \in 1 .. k |-> s[g[n]]]
  <2> HIDE DEF g
  <2> QED BY <1>6, AmongPicked
<1>8. \A n \in 1 .. k : s[g[n]] = a[f[n]] BY <1>4, <1>5
<1> QED BY <1>3, <1>7, <1>8

----------------------------------------------------------------------------
(* The listing of a paged call.                                            *)

\* Every record there ever is.
Known == ToSet(NewRecords) \cup (UNION {ToSet(records) : records \in Listings})

\* The records of the filter; all when it is empty.
Fits(tickers) == {r \in Known : tickers = {} \/ r.ticker \in tickers}

\* The order the call asked for.
Ordered(records, newest_first) == IF newest_first THEN Reverse(records) ELSE records

\* What a paged call walks, of a listing.
PagedView(records, tickers, newest_first) ==
  Ordered(Among(records, Fits(tickers)), newest_first)

\* The listings, and what is added to them, are records, none twice.
LEMMA ListingsKnown ==
  /\ NewRecords \in Seq(Known) /\ IsInjective(NewRecords)
  /\ \A l \in Listings : l \in Seq(Known) /\ IsInjective(l) /\ ToSet(l) \subseteq Known
<1>0. NewRecords \in Seq(ToSet(NewRecords)) /\ IsInjective(NewRecords) BY ListingsAssumption
<1>1. ToSet(NewRecords) \subseteq Known BY DEF Known
<1>2. NewRecords \in Seq(Known) /\ IsInjective(NewRecords)
  BY <1>0, <1>1, SeqMonotonic
<1>3. ASSUME NEW l \in Listings PROVE l \in Seq(Known) /\ IsInjective(l) /\ ToSet(l) \subseteq Known
  <2>1. ToSet(l) \subseteq Known /\ l \in Seq(ToSet(l)) /\ IsInjective(l)
    BY ListingsAssumption DEF Known
  <2> QED BY <2>1, SeqMonotonic
<1> QED BY <1>2, <1>3

\* The records of a sequence.
LEMMA ToSetOf ==
  ASSUME NEW S, NEW s \in Seq(S)
  PROVE  ToSet(s) = {s[i] : i \in 1 .. Len(s)} /\ ToSet(s) \subseteq S
BY LenProperties, ElementOfSeq DEF ToSet

\* The filter of the code picks the records that fit it.
LEMMA MatchingFits ==
  ASSUME NEW l \in Seq(Known), NEW tickers
  PROVE  Matching(l, tickers) = Among(l, Fits(tickers))
<1>1. ToSet(l) \subseteq Known BY ToSetOf
<1>2. CASE tickers = {}
  <2>1. ToSet(l) \subseteq Fits(tickers) BY <1>1, <1>2 DEF Fits
  <2> QED BY <1>2, <2>1, AmongAll DEF Matching
<1>3. CASE tickers # {}
  <2>1. \A r \in ToSet(l) : r \in Wanted(l, tickers) <=> r \in Fits(tickers)
    BY <1>1, <1>3 DEF Fits, Wanted
  <2> QED BY <1>3, <2>1, AmongSame DEF Matching
<1> QED BY <1>2, <1>3

\* Reversing a sequence keeps its records.
LEMMA ReverseOf ==
  ASSUME NEW S, NEW s \in Seq(S)
  PROVE  /\ Reverse(s) \in Seq(S) /\ Len(Reverse(s)) = Len(s)
         /\ \A i \in 1 .. Len(s) : Reverse(s)[i] = s[Len(s) - i + 1]
         /\ ToSet(Reverse(s)) = ToSet(s)
         /\ IsInjective(s) => IsInjective(Reverse(s))
<1>1. Len(s) \in Nat /\ DOMAIN s = 1 .. Len(s) /\ \A i \in 1 .. Len(s) : s[i] \in S
  BY LenProperties, ElementOfSeq
<1>2. Reverse(s) = [i \in 1 .. Len(s) |-> s[Len(s) - i + 1]] BY DEF Reverse
<1>3. \A i \in 1 .. Len(s) : Len(s) - i + 1 \in 1 .. Len(s) BY <1>1
<1>4. Reverse(s) \in [1 .. Len(s) -> S] BY <1>1, <1>2, <1>3
<1>5. Reverse(s) \in Seq(S) BY <1>1, <1>4
<1>6. Len(Reverse(s)) = Len(s)
  <2>1. DOMAIN Reverse(s) = 1 .. Len(s) BY <1>4
  <2>2. DOMAIN Reverse(s) = 1 .. Len(Reverse(s)) /\ Len(Reverse(s)) \in Nat BY <1>5, LenProperties
  <2> QED BY <1>1, <2>1, <2>2
<1>7. \A i \in 1 .. Len(s) : Reverse(s)[i] = s[Len(s) - i + 1] BY <1>2
<1>8. ToSet(Reverse(s)) = ToSet(s)
  <2>1. ToSet(Reverse(s)) \subseteq ToSet(s) BY <1>1, <1>2, <1>3 DEF ToSet
  <2>2. ASSUME NEW i \in 1 .. Len(s) PROVE \E j \in 1 .. Len(s) : Reverse(s)[j] = s[i]
    <3>1. Len(s) - i + 1 \in 1 .. Len(s) /\ Len(s) - (Len(s) - i + 1) + 1 = i BY <1>1
    <3> QED BY <3>1, <1>7
  <2>3. DOMAIN Reverse(s) = 1 .. Len(s) BY <1>4
  <2> QED BY <2>1, <2>2, <2>3, <1>1 DEF ToSet
<1>9. ASSUME IsInjective(s) PROVE IsInjective(Reverse(s))
  <2>1. ASSUME NEW i \in 1 .. Len(s), NEW j \in 1 .. Len(s), Reverse(s)[i] = Reverse(s)[j] PROVE i = j
    <3>1. s[Len(s) - i + 1] = s[Len(s) - j + 1] BY <2>1, <1>7
    <3>2. Len(s) - i + 1 = Len(s) - j + 1 BY <3>1, <1>1, <1>3, <1>9 DEF IsInjective
    <3> QED BY <3>2, <1>1
  <2>2. DOMAIN Reverse(s) = 1 .. Len(s) BY <1>4
  <2> QED BY <2>1, <2>2 DEF IsInjective
<1> QED BY <1>5, <1>6, <1>7, <1>8, <1>9

\* The view has the records of the listing that fit, none twice.
LEMMA PagedViewType ==
  ASSUME NEW l \in Seq(Known), NEW tickers, NEW newest \in BOOLEAN
  PROVE  LET V == PagedView(l, tickers, newest)
         IN /\ V \in Seq(Known) /\ Len(V) \in Nat /\ DOMAIN V = 1 .. Len(V)
            /\ ToSet(V) = ToSet(l) \cap Fits(tickers)
            /\ IsInjective(l) => IsInjective(V)
<1> DEFINE a == Among(l, Fits(tickers))
           V == PagedView(l, tickers, newest)
<1>1. /\ a \in Seq(Known) /\ ToSet(a) = ToSet(l) \cap Fits(tickers)
      /\ IsInjective(l) => IsInjective(a)
  BY AmongType, AmongInjective
<1>2. V \in {a, Reverse(a)} BY DEF PagedView, Ordered
<1> HIDE DEF a, V
<1>3. /\ V \in Seq(Known) /\ ToSet(V) = ToSet(l) \cap Fits(tickers)
      /\ IsInjective(l) => IsInjective(V)
  BY <1>1, <1>2, ReverseOf
<1>4. Len(V) \in Nat /\ DOMAIN V = 1 .. Len(V) BY <1>3, LenProperties
<1> QED BY <1>3, <1>4 DEF V

\* b is a without one record, or the whole of it.
OneOut(a, b) ==
  \/ b = a
  \/ Len(a) = Len(b) + 1 /\ \A i \in 1 .. Len(b) : b[i] \in {a[i], a[i + 1]}

\* b is a with x at its end, or at its start.
OneIn(a, b, x, at_start) ==
  \/ b = a
  \/ /\ Len(b) = Len(a) + 1
     /\ b[IF at_start THEN 1 ELSE Len(b)] = x
     /\ \A i \in 1 .. Len(a) : b[IF at_start THEN i + 1 ELSE i] = a[i]

\* Taking a record out commutes with reversing.
LEMMA OneOutReverse ==
  ASSUME NEW S, NEW a \in Seq(S), NEW b \in Seq(S), OneOut(a, b)
  PROVE  OneOut(Reverse(a), Reverse(b))
<1>1. CASE b = a BY <1>1 DEF OneOut
<1>2. CASE Len(a) = Len(b) + 1 /\ \A i \in 1 .. Len(b) : b[i] \in {a[i], a[i + 1]}
  <2> DEFINE c == Reverse(a)
             d == Reverse(b)
  <2>1. /\ Len(a) \in Nat /\ Len(b) \in Nat /\ Len(c) = Len(a) /\ Len(d) = Len(b)
        /\ \A i \in 1 .. Len(a) : c[i] = a[Len(a) - i + 1]
        /\ \A i \in 1 .. Len(b) : d[i] = b[Len(b) - i + 1]
    BY ReverseOf, LenProperties
  <2> HIDE DEF c, d
  <2>2. ASSUME NEW i \in 1 .. Len(b) PROVE d[i] \in {c[i], c[i + 1]}
    <3> DEFINE j == Len(b) - i + 1
    <3>1. j \in 1 .. Len(b) /\ d[i] = b[j] /\ i \in 1 .. Len(a) /\ i + 1 \in 1 .. Len(a) BY <1>2, <2>1
    <3>2. c[i] = a[j + 1]
      <4>1. Len(a) - i + 1 = j + 1 BY <1>2, <2>1
      <4> QED BY <4>1, <3>1, <2>1
    <3>3. c[i + 1] = a[j]
      <4>1. Len(a) - (i + 1) + 1 = j BY <1>2, <2>1
      <4> QED BY <4>1, <3>1, <2>1
    <3> HIDE DEF j
    <3> QED BY <3>1, <3>2, <3>3, <1>2
  <2>3. Len(c) = Len(d) + 1 BY <2>1, <1>2
  <2>4. Len(d) = Len(b) BY <2>1
  <2>5. OneOut(c, d) BY <2>2, <2>3, <2>4 DEF OneOut
  <2> QED BY <2>5 DEF c, d
<1> QED BY <1>1, <1>2 DEF OneOut

\* RemoveAt leaves one record out and shifts those behind it.
LEMMA RemoveAtOf ==
  ASSUME NEW S, NEW s \in Seq(S), NEW r \in 1 .. Len(s)
  PROVE  LET u == RemoveAt(s, r)
         IN /\ u \in Seq(S) /\ ToSet(u) \subseteq ToSet(s)
            /\ IsInjective(s) => IsInjective(u)
            /\ \E a, x, b \in Seq(S) : s = (a \o x) \o b /\ u = a \o b /\ Len(x) = 1
<1> DEFINE u == RemoveAt(s, r)
           a == SubSeq(s, 1, r - 1)
           b == SubSeq(s, r + 1, Len(s))
           x == SubSeq(s, r, r)
<1>1. Len(s) \in Nat /\ DOMAIN s = 1 .. Len(s) /\ \A i \in 1 .. Len(s) : s[i] \in S
  BY LenProperties, ElementOfSeq
<1>2. u = a \o b BY DEF RemoveAt
<1>3. /\ a \in Seq(S) /\ Len(a) = r - 1 /\ \A i \in 1 .. r - 1 : a[i] = s[i]
  <2>1. \A i \in 1 .. r - 1 : s[i] \in S BY <1>1
  <2>2. r - 1 \in Int /\ 1 \in Int /\ (r - 1) - 1 + 1 = r - 1 /\ \A i \in 1 .. r - 1 : 1 + i - 1 = i BY <1>1
  <2>3. /\ a \in Seq(S) /\ Len(a) = IF 1 <= r - 1 THEN (r - 1) - 1 + 1 ELSE 0
        /\ \A i \in 1 .. (r - 1) - 1 + 1 : a[i] = s[1 + i - 1]
    BY <2>1, <2>2, SubSeqProperties
  <2> HIDE DEF a
  <2> QED BY <2>2, <2>3, <1>1
<1>4. /\ b \in Seq(S) /\ Len(b) = Len(s) - r /\ \A i \in 1 .. Len(s) - r : b[i] = s[r + i]
  <2>1. \A i \in r + 1 .. Len(s) : s[i] \in S BY <1>1
  <2>2. /\ r + 1 \in Int /\ Len(s) \in Int /\ Len(s) - (r + 1) + 1 = Len(s) - r
        /\ \A i \in 1 .. Len(s) - r : r + 1 + i - 1 = r + i BY <1>1
  <2>3. /\ b \in Seq(S) /\ Len(b) = IF r + 1 <= Len(s) THEN Len(s) - (r + 1) + 1 ELSE 0
        /\ \A i \in 1 .. Len(s) - (r + 1) + 1 : b[i] = s[r + 1 + i - 1]
    BY <2>1, <2>2, SubSeqProperties
  <2> HIDE DEF b
  <2>4. b \in Seq(S) /\ Len(b) = Len(s) - r
    <3>1. Len(s) \in Nat /\ r \in 1 .. Len(s) BY <1>1
    <3>2. Len(b) = IF r + 1 <= Len(s) THEN Len(s) - (r + 1) + 1 ELSE 0 BY <2>3
    <3>3. CASE r + 1 <= Len(s) BY <2>3, <3>1, <3>2, <3>3
    <3>4. CASE ~(r + 1 <= Len(s)) BY <2>3, <3>1, <3>2, <3>4
    <3> QED BY <3>3, <3>4
  <2>5. \A i \in 1 .. Len(s) - r : b[i] = s[r + i]
    <3> DEFINE l == Len(s) - r
    <3>1. \A i \in 1 .. l : b[i] = s[r + 1 + i - 1] /\ r + 1 + i - 1 = r + i BY <2>2, <2>3
    <3> HIDE DEF l
    <3>2. \A i \in 1 .. l : b[i] = s[r + i] BY <3>1
    <3> QED BY <3>2 DEF l
  <2> QED BY <2>4, <2>5
<1>5. x \in Seq(S) /\ Len(x) = 1
  <2>1. \A i \in r .. r : s[i] \in S BY <1>1
  <2>2. r \in Int /\ r - r + 1 = 1 BY <1>1
  <2>3. x \in Seq(S) /\ Len(x) = IF r <= r THEN r - r + 1 ELSE 0
    BY <2>1, <2>2, SubSeqProperties
  <2> HIDE DEF x
  <2> QED BY <2>2, <2>3
<1>6. s = (a \o x) \o b
  <2>1. r \in 1 .. Len(s) + 1 /\ r - 1 \in 0 .. Len(s) /\ r \in (r - 1) .. Len(s)
        /\ Len(s) \in r .. Len(s) /\ 1 \in 1 .. Len(s) + 1 /\ (r - 1) + 1 = r /\ 1 - 1 = 0 BY <1>1
  <2>2. SubSeq(s, 1, r - 1) \o SubSeq(s, (r - 1) + 1, r) = SubSeq(s, 1, r)
    BY <2>1, ConcatAdjacentSubSeq
  <2>3. SubSeq(s, 1, r) \o SubSeq(s, r + 1, Len(s)) = SubSeq(s, 1, Len(s))
    <3>1. r \in (1 - 1) .. Len(s) BY <1>1
    <3> QED BY <3>1, <2>1, ConcatAdjacentSubSeq
  <2>4. SubSeq(s, 1, Len(s)) = s BY SubSeqFull
  <2> QED BY <2>1, <2>2, <2>3, <2>4
<1> HIDE DEF a, b, x, u
<1>7. /\ u \in Seq(S) /\ Len(u) = Len(s) - 1
      /\ \A i \in 1 .. Len(s) - 1 : u[i] = s[IF i < r THEN i ELSE i + 1]
  <2>1. /\ a \o b \in Seq(S) /\ Len(a \o b) = Len(a) + Len(b)
        /\ \A i \in 1 .. Len(a) + Len(b) : (a \o b)[i] = IF i <= Len(a) THEN a[i] ELSE b[i - Len(a)]
    BY <1>3, <1>4, ConcatProperties
  <2>2. Len(a) + Len(b) = Len(s) - 1 BY <1>1, <1>3, <1>4
  <2>3. ASSUME NEW i \in 1 .. Len(s) - 1 PROVE u[i] = s[IF i < r THEN i ELSE i + 1]
    <3>1. CASE i < r
      <4>1. i <= Len(a) /\ i \in 1 .. r - 1 BY <3>1, <1>1, <1>3
      <4> QED BY <4>1, <3>1, <2>1, <2>2, <1>2, <1>3
    <3>2. CASE ~(i < r)
      <4>1. ~(i <= Len(a)) /\ i - Len(a) \in 1 .. Len(s) - r /\ r + (i - Len(a)) = i + 1
        BY <3>2, <1>1, <1>3
      <4>2. u[i] = b[i - Len(a)] BY <4>1, <2>1, <2>2, <1>2
      <4>3. b[i - Len(a)] = s[r + (i - Len(a))] BY <4>1, <1>4
      <4> QED BY <4>1, <4>2, <4>3, <3>2
    <3> QED BY <3>1, <3>2
  <2> QED BY <2>1, <2>2, <2>3, <1>2
<1>8. DOMAIN u = 1 .. Len(s) - 1 BY <1>7, LenProperties
<1> DEFINE k(i) == IF i < r THEN i ELSE i + 1
<1>9. \A i \in 1 .. Len(s) - 1 : k(i) \in 1 .. Len(s) /\ u[i] = s[k(i)] BY <1>1, <1>7
<1>10. ToSet(u) \subseteq ToSet(s)
  <2> HIDE DEF k
  <2> QED BY <1>8, <1>9, <1>1 DEF ToSet
<1>11. ASSUME IsInjective(s) PROVE IsInjective(u)
  <2>1. ASSUME NEW i \in 1 .. Len(s) - 1, NEW j \in 1 .. Len(s) - 1, u[i] = u[j] PROVE i = j
    <3>1. k(i) = k(j)
      <4> HIDE DEF k
      <4> QED BY <2>1, <1>9, <1>1, <1>11 DEF IsInjective
    <3> QED BY <3>1, <1>1
  <2> QED BY <2>1, <1>8 DEF IsInjective
<1>12. \E a1, x1, b1 \in Seq(S) : s = (a1 \o x1) \o b1 /\ u = a1 \o b1 /\ Len(x1) = 1
  BY <1>2, <1>3, <1>4, <1>5, <1>6
<1>13. RemoveAt(s, r) = u BY DEF u
<1> QED BY <1>7, <1>10, <1>11, <1>12, <1>13

\* Taking a record out of a sequence takes at most one out of those wanted.
LEMMA AmongOneOut ==
  ASSUME NEW S, NEW a \in Seq(S), NEW x \in Seq(S), NEW b \in Seq(S), NEW W, Len(x) = 1
  PROVE  OneOut(Among((a \o x) \o b, W), Among(a \o b, W))
<1> DEFINE A == Among(a, W)
           X == Among(x, W)
           B == Among(b, W)
<1>2. Among((a \o x) \o b, W) = (A \o X) \o B /\ Among(a \o b, W) = A \o B
  <2>1. Among(a \o b, W) = Among(a, W) \o Among(b, W) BY AmongConcat
  <2>2. a \o x \in Seq(S) BY ConcatProperties
  <2>3. Among(a \o x, W) = Among(a, W) \o Among(x, W) BY AmongConcat
  <2>4. ASSUME NEW y \in Seq(S) PROVE Among(y \o b, W) = Among(y, W) \o Among(b, W) BY AmongConcat, SMTT(30)
  <2>5. Among((a \o x) \o b, W) = Among(a \o x, W) \o Among(b, W) BY <2>2, <2>4
  <2> QED BY <2>1, <2>3, <2>5
<1>3. A \in Seq(S) /\ X \in Seq(S) /\ B \in Seq(S) BY AmongType
<1>4. X = << >> \/ Len(X) = 1
  <2>1. CASE ToSet(x) \cap W = {} BY <2>1, AmongNone
  <2>2. CASE ToSet(x) \cap W # {}
    <3>1. DOMAIN x = 1 .. 1 BY LenProperties
    <3>2. ToSet(x) = {x[1]} BY <3>1 DEF ToSet
    <3>3. X = x BY <2>2, <3>2, AmongAll
    <3> QED BY <3>3
  <2> QED BY <2>1, <2>2
<1> HIDE DEF A, B, X
<1> DEFINE y == A \o X
           c == y \o B
           d == A \o B
<1>5. CASE X = << >>
  <2>1. A \o X = A BY <1>3, <1>5, ConcatEmptySeq
  <2> QED BY <2>1, <1>2 DEF OneOut
<1>6. CASE Len(X) = 1
  <2>0. Len(A) \in Nat /\ Len(B) \in Nat BY <1>3, LenProperties
  <2>1. /\ y \in Seq(S) /\ Len(y) = Len(A) + 1
        /\ \A i \in 1 .. Len(A) : y[i] = A[i]
    <3>1. /\ y \in Seq(S) /\ Len(y) = Len(A) + Len(X)
          /\ \A i \in 1 .. Len(A) + Len(X) : y[i] = IF i <= Len(A) THEN A[i] ELSE X[i - Len(A)]
      BY <1>3, ConcatProperties
    <3> HIDE DEF y
    <3> QED BY <3>1, <2>0, <1>6
  <2> HIDE DEF y
  <2>2. /\ Len(c) = Len(y) + Len(B)
        /\ \A i \in 1 .. Len(y) + Len(B) : c[i] = IF i <= Len(y) THEN y[i] ELSE B[i - Len(y)]
    BY <2>1, <1>3, ConcatProperties
  <2>3. /\ Len(d) = Len(A) + Len(B)
        /\ \A i \in 1 .. Len(A) + Len(B) : d[i] = IF i <= Len(A) THEN A[i] ELSE B[i - Len(A)]
    BY <1>3, ConcatProperties
  <2> HIDE DEF c, d
  <2>4. Len(c) = Len(d) + 1 BY <2>0, <2>1, <2>2, <2>3
  <2>5. ASSUME NEW i \in 1 .. Len(d) PROVE d[i] \in {c[i], c[i + 1]}
    <3>1. CASE i <= Len(A)
      <4>1. i \in 1 .. Len(A) /\ i \in 1 .. Len(y) + Len(B) /\ i <= Len(y) /\ i \in 1 .. Len(A) + Len(B)
        BY <3>1, <2>0, <2>1, <2>3
      <4>2. d[i] = A[i] BY <4>1, <3>1, <2>3
      <4>3. c[i] = y[i] BY <4>1, <2>2
      <4>4. y[i] = A[i] BY <4>1, <2>1
      <4> QED BY <4>2, <4>3, <4>4
    <3>2. CASE ~(i <= Len(A))
      <4>1. i + 1 \in 1 .. Len(y) + Len(B) /\ ~(i + 1 <= Len(y)) /\ i \in 1 .. Len(A) + Len(B)
            /\ (i + 1) - Len(y) = i - Len(A)
        BY <3>2, <2>0, <2>1, <2>3
      <4>2. d[i] = B[i - Len(A)] BY <4>1, <3>2, <2>3
      <4>3. c[i + 1] = B[(i + 1) - Len(y)] BY <4>1, <2>2
      <4> QED BY <4>1, <4>2, <4>3
    <3> QED BY <3>1, <3>2
  <2>6. OneOut(c, d) BY <2>4, <2>5 DEF OneOut
  <2> QED BY <2>6, <1>2 DEF c, d, y
<1> QED BY <1>4, <1>5, <1>6

\* The same, of a listing.
LEMMA DropAmong ==
  ASSUME NEW S, NEW s \in Seq(S), NEW W, NEW r \in 1 .. Len(s)
  PROVE  OneOut(Among(s, W), Among(RemoveAt(s, r), W))
<1>0. \E a, x, b \in Seq(S) : s = (a \o x) \o b /\ RemoveAt(s, r) = a \o b /\ Len(x) = 1
  BY RemoveAtOf, ZenonT(60)
<1>1. PICK a \in Seq(S), x \in Seq(S), b \in Seq(S) :
         s = (a \o x) \o b /\ RemoveAt(s, r) = a \o b /\ Len(x) = 1
  BY <1>0
<1>2. OneOut(Among((a \o x) \o b, W), Among(a \o b, W)) BY <1>1, AmongOneOut
<1> QED BY <1>1, <1>2

\* A record that is dropped leaves the view, whatever its order.
LEMMA DropView ==
  ASSUME NEW l \in Seq(Known), NEW tickers, NEW newest \in BOOLEAN, NEW r \in 1 .. Len(l)
  PROVE  OneOut(PagedView(l, tickers, newest), PagedView(RemoveAt(l, r), tickers, newest))
<1> DEFINE a == Among(l, Fits(tickers))
           u == RemoveAt(l, r)
           b == Among(u, Fits(tickers))
<1>1. u \in Seq(Known) BY RemoveAtOf
<1>2. OneOut(a, b) BY DropAmong
<1>3. a \in Seq(Known) BY AmongType
<1>4. b \in Seq(Known)
  <2> HIDE DEF u
  <2> QED BY <1>1, AmongType
<1>5. /\ PagedView(l, tickers, newest) = Ordered(a, newest)
      /\ PagedView(u, tickers, newest) = Ordered(b, newest)
  BY DEF PagedView
<1> HIDE DEF a, b, u
<1>6. OneOut(Reverse(a), Reverse(b)) BY <1>2, <1>3, <1>4, OneOutReverse
<1>7. OneOut(Ordered(a, newest), Ordered(b, newest)) BY <1>2, <1>6 DEF Ordered
<1> QED BY <1>5, <1>7 DEF u

\* A record that is added ends the view, or begins it newest first.
LEMMA AddView ==
  ASSUME NEW l \in Seq(Known), NEW tickers, NEW newest \in BOOLEAN, NEW x \in Known
  PROVE  OneIn(PagedView(l, tickers, newest), PagedView(Append(l, x), tickers, newest), x, newest)
<1> DEFINE W == Fits(tickers)
           a == Among(l, W)
           b == Among(Append(l, x), W)
<1>1. a \in Seq(Known) /\ Len(a) \in Nat BY AmongType
<1>2. Append(l, x) = l \o <<x>> BY AppendIsConcat
<1>3. <<x>> \in Seq(Known) OBVIOUS
<1>4. b = a \o Among(<<x>>, W)
  <2> DEFINE y == <<x>>
  <2> HIDE DEF W, y
  <2>1. y \in Seq(Known) BY <1>3 DEF y
  <2>2. Among(l \o y, W) = a \o Among(y, W) BY <2>1, AmongConcat
  <2> QED BY <1>2, <2>2 DEF y
<1>5. ToSet(<<x>>) = {x} BY DEF ToSet
<1>6. b = a \/ b = Append(a, x)
  <2>1. CASE x \in W
    <3>1. Among(<<x>>, W) = <<x>> BY <2>1, <1>3, <1>5, AmongAll
    <3>2. Append(a, x) = a \o <<x>> BY <1>1, AppendIsConcat
    <3> QED BY <3>1, <3>2, <1>4
  <2>2. CASE x \notin W
    <3>1. Among(<<x>>, W) = << >> BY <2>2, <1>3, <1>5, AmongNone
    <3>2. a \o << >> = a BY <1>1, ConcatEmptySeq
    <3> QED BY <3>1, <3>2, <1>4
  <2> QED BY <2>1, <2>2
<1>7. /\ PagedView(l, tickers, newest) = Ordered(a, newest)
      /\ PagedView(Append(l, x), tickers, newest) = Ordered(b, newest)
  BY DEF PagedView
<1> HIDE DEF a, b
<1>8. CASE b = a BY <1>7, <1>8 DEF OneIn
<1>9. CASE b = Append(a, x)
  <2>1. /\ b \in Seq(Known) /\ Len(b) = Len(a) + 1
        /\ \A i \in 1 .. Len(a) : b[i] = a[i]
        /\ b[Len(a) + 1] = x
    BY <1>1, <1>9, AppendProperties
  <2>2. CASE newest = FALSE
    <3>1. OneIn(a, b, x, newest) BY <2>1, <2>2 DEF OneIn
    <3> QED BY <3>1, <2>2, <1>7 DEF Ordered
  <2>3. CASE newest = TRUE
    <3> DEFINE c == Reverse(a)
               d == Reverse(b)
    <3>1. /\ Len(c) = Len(a) /\ Len(d) = Len(b)
          /\ \A i \in 1 .. Len(a) : c[i] = a[Len(a) - i + 1]
          /\ \A i \in 1 .. Len(b) : d[i] = b[Len(b) - i + 1]
      BY <1>1, <2>1, ReverseOf
    <3> HIDE DEF c, d
    <3>2. d[1] = x
      <4>1. 1 \in 1 .. Len(b) /\ Len(b) - 1 + 1 = Len(a) + 1 BY <2>1, <1>1
      <4> QED BY <4>1, <3>1, <2>1
    <3>3. ASSUME NEW i \in 1 .. Len(a) PROVE d[i + 1] = c[i]
      <4>1. /\ i + 1 \in 1 .. Len(b) /\ Len(b) - (i + 1) + 1 = Len(a) - i + 1
            /\ Len(a) - i + 1 \in 1 .. Len(a)
        BY <2>1, <1>1
      <4>2. d[i + 1] = b[Len(a) - i + 1] BY <4>1, <3>1
      <4>3. b[Len(a) - i + 1] = a[Len(a) - i + 1] BY <4>1, <2>1
      <4> QED BY <4>2, <4>3, <3>1
    <3>4. OneIn(c, d, x, newest) BY <3>1, <3>2, <3>3, <2>1, <2>3 DEF OneIn
    <3> QED BY <3>4, <2>3, <1>7 DEF Ordered, c, d
  <2> QED BY <2>2, <2>3
<1> QED BY <1>6, <1>8, <1>9

----------------------------------------------------------------------------
(* What an iteration has seen of the view V when it is past its n first     *)
(* records.                                                                 *)

\* Nothing that was seen is still to come: what was seen has no record twice, and its
\* records that are in the view V are among the first n.
NoneTwice(V, n, seen) ==
  /\ IsInjective(seen)
  /\ \A i \in DOMAIN V : V[i] \in ToSet(seen) => i <= n

\* Nothing was passed over: the first n of the view V, those of the start, were seen.
NoneMissed(V, n, seen, start) ==
  \A i \in DOMAIN V : i <= n => V[i] \in ToSet(seen) \/ V[i] \notin start

\* What the view has from its place n to its place m.
Taken(V, n, m) == SubSeq(V, n + 1, Least(m, Len(V)))

\* Its length and its records.
LEMMA TakenOf ==
  ASSUME NEW S, NEW V \in Seq(S), NEW n \in Nat, NEW m \in Nat, n < m
  PROVE  /\ Taken(V, n, m) \in Seq(S)
         /\ Len(Taken(V, n, m)) = IF Len(V) <= n THEN 0 ELSE Least(m, Len(V)) - n
         /\ \A i \in 1 .. Len(Taken(V, n, m)) :
              Taken(V, n, m)[i] = V[n + i] /\ n + i \in DOMAIN V /\ n + i <= m
         /\ \A i \in DOMAIN V : n < i /\ i <= m => V[i] \in ToSet(Taken(V, n, m))
<1> DEFINE t == Taken(V, n, m)
<1>1. Len(V) \in Nat /\ DOMAIN V = 1 .. Len(V) /\ \A i \in 1 .. Len(V) : V[i] \in S
  BY LenProperties, ElementOfSeq
<1>8. Len(V) \in Nat BY <1>1
<1>0. PICK k \in Nat : k = Least(m, Len(V)) BY <1>8 DEF Least
<1>2. k <= m /\ k <= Len(V) /\ (k = m \/ k = Len(V)) BY <1>0, <1>8 DEF Least
<1>3. t = SubSeq(V, n + 1, k) BY <1>0 DEF Taken
<1> HIDE DEF t
<1>4. /\ t \in Seq(S) /\ Len(t) = IF n + 1 <= k THEN k - (n + 1) + 1 ELSE 0
      /\ \A i \in 1 .. k - (n + 1) + 1 : t[i] = V[n + 1 + i - 1]
  <2>1. n + 1 \in Int /\ k \in Int BY <1>2
  <2>0. \A i \in n + 1 .. k : i \in 1 .. Len(V) BY <1>2, <1>8
  <2>2. \A i \in n + 1 .. k : V[i] \in S BY <2>0, <1>1
  <2> DEFINE a == n + 1
  <2> HIDE DEF a
  <2>3. a \in Int /\ \A i \in a .. k : V[i] \in S BY <2>1, <2>2 DEF a
  <2>4. /\ SubSeq(V, a, k) \in Seq(S) /\ Len(SubSeq(V, a, k)) = IF a <= k THEN k - a + 1 ELSE 0
        /\ \A i \in 1 .. k - a + 1 : SubSeq(V, a, k)[i] = V[a + i - 1]
    BY <2>1, <2>3, SubSeqProperties
  <2> QED BY <2>4, <1>3 DEF a
<1>5. Len(t) = IF Len(V) <= n THEN 0 ELSE k - n
  <2>1. Len(t) = IF n + 1 <= k THEN k - (n + 1) + 1 ELSE 0 BY <1>4
  <2>2. CASE Len(V) <= n BY <2>1, <2>2, <1>8, <1>2
  <2>3. CASE ~(Len(V) <= n) BY <2>1, <2>3, <1>8, <1>2
  <2> QED BY <2>2, <2>3
<1>6. ASSUME NEW i \in 1 .. Len(t) PROVE t[i] = V[n + i] /\ n + i \in DOMAIN V /\ n + i <= m
  <2>1. i \in 1 .. k - (n + 1) + 1 /\ n + 1 + i - 1 = n + i /\ n + i \in 1 .. k
    BY <1>8, <1>2, <1>5
  <2>2. t[i] = V[n + 1 + i - 1] BY <2>1, <1>4
  <2>3. n + i \in 1 .. Len(V) /\ n + i <= m BY <2>1, <1>8, <1>2
  <2> QED BY <2>1, <2>2, <2>3, <1>1
<1>7. ASSUME NEW i \in DOMAIN V, n < i, i <= m PROVE V[i] \in ToSet(t)
  <2>0. i \in 1 .. Len(V) BY <1>1
  <2>1. i - n \in 1 .. Len(t) /\ n + (i - n) = i BY <2>0, <1>8, <1>2, <1>5, <1>7
  <2>2. t[i - n] = V[n + (i - n)] BY <2>1, <1>6
  <2>3. DOMAIN t = 1 .. Len(t) BY <1>4, LenProperties
  <2> QED BY <2>1, <2>2, <2>3 DEF ToSet
<1> QED BY <1>0, <1>4, <1>5, <1>6, <1>7 DEF t

\* The records of two sequences.
LEMMA ToSetConcat ==
  ASSUME NEW S, NEW s \in Seq(S), NEW t \in Seq(S)
  PROVE  ToSet(s \o t) = ToSet(s) \cup ToSet(t)
<1> DEFINE u == s \o t
<1>1. /\ Len(s) \in Nat /\ Len(t) \in Nat /\ DOMAIN s = 1 .. Len(s) /\ DOMAIN t = 1 .. Len(t)
  BY LenProperties
<1>2. /\ u \in Seq(S) /\ Len(u) = Len(s) + Len(t)
      /\ \A i \in 1 .. Len(s) + Len(t) : u[i] = IF i <= Len(s) THEN s[i] ELSE t[i - Len(s)]
  BY ConcatProperties
<1> HIDE DEF u
<1>3. DOMAIN u = 1 .. Len(s) + Len(t) BY <1>2, LenProperties
<1>4. ASSUME NEW i \in DOMAIN u PROVE u[i] \in ToSet(s) \cup ToSet(t)
  <2>1. CASE i <= Len(s) BY <2>1, <1>1, <1>2, <1>3 DEF ToSet
  <2>2. CASE ~(i <= Len(s))
    <3>1. i - Len(s) \in DOMAIN t /\ u[i] = t[i - Len(s)] BY <2>2, <1>1, <1>2, <1>3
    <3> QED BY <3>1 DEF ToSet
  <2> QED BY <2>1, <2>2
<1>5. ASSUME NEW i \in DOMAIN s PROVE s[i] \in ToSet(u)
  <2>1. i \in DOMAIN u /\ u[i] = s[i] BY <1>1, <1>2, <1>3
  <2> QED BY <2>1 DEF ToSet
<1>6. ASSUME NEW i \in DOMAIN t PROVE t[i] \in ToSet(u)
  <2>1. Len(s) + i \in DOMAIN u /\ ~(Len(s) + i <= Len(s)) /\ (Len(s) + i) - Len(s) = i
    BY <1>1, <1>3
  <2>2. u[Len(s) + i] = t[i] BY <2>1, <1>2, <1>3
  <2> QED BY <2>1, <2>2 DEF ToSet
<1>7. ToSet(u) = ToSet(s) \cup ToSet(t) BY <1>4, <1>5, <1>6 DEF ToSet
<1> QED BY <1>7 DEF u

\* Two sequences that share nothing repeat nothing together.
LEMMA ConcatInjective ==
  ASSUME NEW S, NEW s \in Seq(S), NEW t \in Seq(S), IsInjective(s), IsInjective(t),
         ToSet(s) \cap ToSet(t) = {}
  PROVE  IsInjective(s \o t)
<1> DEFINE u == s \o t
<1>1. /\ Len(s) \in Nat /\ Len(t) \in Nat /\ DOMAIN s = 1 .. Len(s) /\ DOMAIN t = 1 .. Len(t)
  BY LenProperties
<1>2. /\ u \in Seq(S) /\ Len(u) = Len(s) + Len(t)
      /\ \A i \in 1 .. Len(s) + Len(t) : u[i] = IF i <= Len(s) THEN s[i] ELSE t[i - Len(s)]
  BY ConcatProperties
<1> HIDE DEF u
<1>3. DOMAIN u = 1 .. Len(s) + Len(t) BY <1>2, LenProperties
<1>4. \A i \in DOMAIN u : \/ i \in DOMAIN s /\ u[i] = s[i]
                          \/ i - Len(s) \in DOMAIN t /\ ~(i <= Len(s)) /\ u[i] = t[i - Len(s)]
  <2> SUFFICES ASSUME NEW i \in DOMAIN u
               PROVE \/ i \in DOMAIN s /\ u[i] = s[i]
                     \/ i - Len(s) \in DOMAIN t /\ ~(i <= Len(s)) /\ u[i] = t[i - Len(s)]
    OBVIOUS
  <2>1. CASE i <= Len(s) BY <2>1, <1>1, <1>2, <1>3
  <2>2. CASE ~(i <= Len(s)) BY <2>2, <1>1, <1>2, <1>3
  <2> QED BY <2>1, <2>2
<1>5. ASSUME NEW i \in DOMAIN u, NEW j \in DOMAIN u, u[i] = u[j] PROVE i = j
  <2>1. CASE i \in DOMAIN s /\ u[i] = s[i]
    <3>1. CASE j \in DOMAIN s /\ u[j] = s[j] BY <2>1, <3>1, <1>5 DEF IsInjective
    <3>2. CASE j - Len(s) \in DOMAIN t /\ u[j] = t[j - Len(s)]
      BY <2>1, <3>2, <1>5 DEF ToSet
    <3> QED BY <3>1, <3>2, <1>4
  <2>2. CASE i - Len(s) \in DOMAIN t /\ ~(i <= Len(s)) /\ u[i] = t[i - Len(s)]
    <3>1. CASE j \in DOMAIN s /\ u[j] = s[j]
      BY <2>2, <3>1, <1>5 DEF ToSet
    <3>2. CASE j - Len(s) \in DOMAIN t /\ u[j] = t[j - Len(s)]
      <4>1. i - Len(s) = j - Len(s) BY <2>2, <3>2, <1>5 DEF IsInjective
      <4>2. i \in Int /\ j \in Int BY <1>1, <1>3
      <4> QED BY <4>1, <4>2, <1>1
    <3> QED BY <3>1, <3>2, <1>4
  <2> QED BY <2>1, <2>2, <1>4
<1>6. IsInjective(u) BY <1>5 DEF IsInjective
<1> QED BY <1>6 DEF u

\* Taking the next page keeps both.
LEMMA TakeKeeps ==
  ASSUME NEW S, NEW V \in Seq(S), NEW seen \in Seq(S), NEW n \in Nat, NEW m \in Nat, n < m,
         IsInjective(V), NEW start
  PROVE  LET now == seen \o Taken(V, n, m)
         IN /\ now \in Seq(S)
            /\ ToSet(now) \subseteq ToSet(seen) \cup ToSet(V)
            /\ NoneTwice(V, n, seen) => NoneTwice(V, m, now)
            /\ NoneMissed(V, n, seen, start) => NoneMissed(V, m, now, start)
<1> DEFINE t == Taken(V, n, m)
           now == seen \o t
<1>1. /\ t \in Seq(S)
      /\ \A i \in 1 .. Len(t) : t[i] = V[n + i] /\ n + i \in DOMAIN V /\ n + i <= m
      /\ \A i \in DOMAIN V : n < i /\ i <= m => V[i] \in ToSet(t)
  BY TakenOf
<1> HIDE DEF t
<1>2. Len(t) \in Nat /\ DOMAIN t = 1 .. Len(t) /\ DOMAIN V = 1 .. Len(V) /\ Len(V) \in Nat
  BY <1>1, LenProperties
<1>3. now \in Seq(S) /\ ToSet(now) = ToSet(seen) \cup ToSet(t)
  BY <1>1, ConcatProperties, ToSetConcat
<1>4. \A x \in ToSet(t) : \E i \in 1 .. Len(t) : x = V[n + i] /\ n + i \in DOMAIN V /\ n + i <= m
  BY <1>1, <1>2 DEF ToSet
<1>5. ToSet(t) \subseteq ToSet(V) BY <1>4 DEF ToSet
<1>6. ASSUME NoneTwice(V, n, seen) PROVE NoneTwice(V, m, now)
  <2>1. IsInjective(t)
    <3>1. ASSUME NEW i \in 1 .. Len(t), NEW j \in 1 .. Len(t), t[i] = t[j] PROVE i = j
      <4>1. n + i = n + j BY <3>1, <1>1 DEF IsInjective
      <4> QED BY <4>1, <1>2
    <3> QED BY <3>1, <1>2 DEF IsInjective
  <2>2. ToSet(seen) \cap ToSet(t) = {}
    <3> SUFFICES ASSUME NEW x \in ToSet(t), x \in ToSet(seen) PROVE FALSE OBVIOUS
    <3>1. PICK i \in 1 .. Len(t) : x = V[n + i] /\ n + i \in DOMAIN V BY <1>4
    <3>2. n + i <= n BY <3>1, <1>6 DEF NoneTwice
    <3> QED BY <3>2, <1>2
  <2>3. IsInjective(now) BY <2>1, <2>2, <1>1, <1>6, ConcatInjective DEF NoneTwice
  <2>4. ASSUME NEW i \in DOMAIN V, V[i] \in ToSet(now) PROVE i <= m
    <3>1. CASE V[i] \in ToSet(seen)
      <4>1. i <= n BY <3>1, <1>6 DEF NoneTwice
      <4> QED BY <4>1, <1>2
    <3>2. CASE V[i] \in ToSet(t)
      <4>1. PICK j \in 1 .. Len(t) : V[i] = V[n + j] /\ n + j \in DOMAIN V /\ n + j <= m
        BY <3>2, <1>4
      <4>2. i = n + j BY <4>1 DEF IsInjective
      <4> QED BY <4>1, <4>2
    <3> QED BY <3>1, <3>2, <2>4, <1>3
  <2> HIDE DEF now
  <2> QED BY <2>3, <2>4 DEF NoneTwice
<1>7. ASSUME NoneMissed(V, n, seen, start) PROVE NoneMissed(V, m, now, start)
  <2>1. ASSUME NEW i \in DOMAIN V, i <= m PROVE V[i] \in ToSet(now) \/ V[i] \notin start
    <3>1. CASE i <= n BY <3>1, <1>3, <1>7 DEF NoneMissed
    <3>2. CASE n < i BY <3>2, <2>1, <1>1, <1>3
    <3>3. i \in Int BY <1>2
    <3> QED BY <3>1, <3>2, <3>3
  <2> HIDE DEF now
  <2> QED BY <2>1 DEF NoneMissed
<1> QED BY <1>3, <1>5, <1>6, <1>7 DEF t

\* So does a record that no iteration has seen, oldest first; newest first it may shift
\* a record that was seen past the place the iteration is at.
LEMMA AddKeeps ==
  ASSUME NEW S, NEW V \in Seq(S), NEW W \in Seq(S), NEW x, NEW newest \in BOOLEAN,
         NEW seen, NEW n \in Int, NEW start,
         OneIn(V, W, x, newest), x \notin ToSet(seen), x \notin start
  PROVE  /\ ~newest /\ NoneTwice(V, n, seen) => NoneTwice(W, n, seen)
         /\ NoneMissed(V, n, seen, start) => NoneMissed(W, n, seen, start)
<1>1. Len(V) \in Nat /\ Len(W) \in Nat /\ DOMAIN V = 1 .. Len(V) /\ DOMAIN W = 1 .. Len(W)
  BY LenProperties
<1>2. CASE W = V BY <1>2
<1>3. CASE /\ Len(W) = Len(V) + 1
           /\ W[IF newest THEN 1 ELSE Len(W)] = x
           /\ \A i \in 1 .. Len(V) : W[IF newest THEN i + 1 ELSE i] = V[i]
  <2>1. ASSUME NEW i \in DOMAIN W
        PROVE  \/ W[i] = x
               \/ ~newest /\ i \in DOMAIN V /\ W[i] = V[i]
               \/ newest /\ i - 1 \in DOMAIN V /\ W[i] = V[i - 1]
    <3>1. CASE newest = FALSE
      <4>1. i = Len(W) \/ i \in 1 .. Len(V) BY <1>1, <1>3
      <4> QED BY <4>1, <3>1, <1>1, <1>3
    <3>2. CASE newest = TRUE
      <4>1. i = 1 \/ (i - 1 \in 1 .. Len(V) /\ (i - 1) + 1 = i) BY <1>1, <1>3
      <4>2. CASE i = 1 BY <4>2, <3>2, <1>3
      <4>3. CASE i - 1 \in 1 .. Len(V) /\ (i - 1) + 1 = i
        <5>1. W[(i - 1) + 1] = V[i - 1] BY <4>3, <3>2, <1>3
        <5> QED BY <5>1, <4>3, <3>2, <1>1
      <4> QED BY <4>1, <4>2, <4>3
    <3> QED BY <3>1, <3>2
  <2>2. ASSUME ~newest, NoneTwice(V, n, seen) PROVE NoneTwice(W, n, seen)
    BY <2>1, <2>2 DEF NoneTwice
  <2>3. ASSUME NoneMissed(V, n, seen, start) PROVE NoneMissed(W, n, seen, start)
    <3>1. ASSUME NEW i \in DOMAIN W, i <= n PROVE W[i] \in ToSet(seen) \/ W[i] \notin start
      <4>1. CASE W[i] = x BY <4>1
      <4>2. CASE ~newest /\ i \in DOMAIN V /\ W[i] = V[i] BY <4>2, <3>1, <2>3 DEF NoneMissed
      <4>3. CASE newest /\ i - 1 \in DOMAIN V /\ W[i] = V[i - 1]
        <5>1. i - 1 <= n BY <3>1, <1>1
        <5> QED BY <5>1, <4>3, <2>3 DEF NoneMissed
      <4> QED BY <4>1, <4>2, <4>3, <2>1
    <3> QED BY <3>1 DEF NoneMissed
  <2> QED BY <2>2, <2>3
<1> QED BY <1>2, <1>3 DEF OneIn

\* A record that is dropped keeps the first, for what is behind it comes nearer; the second
\* it may break.
LEMMA DropKeeps ==
  ASSUME NEW S, NEW V \in Seq(S), NEW W \in Seq(S), NEW seen, NEW n \in Int, OneOut(V, W)
  PROVE  NoneTwice(V, n, seen) => NoneTwice(W, n, seen)
<1>1. Len(V) \in Nat /\ Len(W) \in Nat /\ DOMAIN V = 1 .. Len(V) /\ DOMAIN W = 1 .. Len(W)
  BY LenProperties
<1>2. CASE W = V BY <1>2
<1>3. CASE Len(V) = Len(W) + 1 /\ \A i \in 1 .. Len(W) : W[i] \in {V[i], V[i + 1]}
  <2> SUFFICES ASSUME NoneTwice(V, n, seen), NEW i \in DOMAIN W, W[i] \in ToSet(seen) PROVE i <= n
    BY DEF NoneTwice
  <2>1. i \in DOMAIN V /\ i + 1 \in DOMAIN V /\ i \in Int BY <1>1, <1>3
  <2>2. W[i] = V[i] \/ W[i] = V[i + 1] BY <1>1, <1>3
  <2>3. i <= n \/ i + 1 <= n BY <2>1, <2>2 DEF NoneTwice
  <2> QED BY <2>1, <2>3
<1> QED BY <1>2, <1>3 DEF OneOut

----------------------------------------------------------------------------
(* The inductive invariant.                                                 *)

\* What was listed at some time since the call was made.
EverListed == ToSet(first) \cup {NewRecords[k] : k \in 1 .. added}

\* The listing and what was seen: of records that were listed at some time, all those of
\* the start among them until one is dropped.
ListingInv ==
  /\ first \in Listings
  /\ listing \in Seq(Known) /\ IsInjective(listing)
  /\ out \in Seq(Known)
  /\ added \in 0 .. Len(NewRecords) /\ dropped \in Nat /\ added + dropped <= MaxChanges
  /\ ToSet(listing) \subseteq EverListed
  /\ ToSet(out) \subseteq EverListed
  /\ dropped = 0 => ToSet(first) \subseteq ToSet(listing)
  /\ added + dropped = 0 => listing = first

\* The call and its progress: no page is fetched with a size that is not allowed.
CallerInv ==
  /\ call \in Calls
  /\ status \in {"running", "done", "ValueError", "ProtocolError", "ValidationError", "ApiError"}
  /\ page \in Nat
  /\ attempts \in 0 .. MaxAttempts
  /\ page > 0 /\ call.kind \in {"history", "operations", "by_type"} => CheckPage(call.size)

\* An iteration stands at the place n of its view: it never comes upon a record twice unless
\* one is added at the front, it misses none of the start unless one is dropped, and when
\* it is done it stands behind the last.
PagedInv ==
  Paged =>
    LET V == PagedView(listing, call.tickers, call.newest_first)
        n == page * call.size
    IN /\ ~call.newest_first \/ added = 0 => NoneTwice(V, n, out)
       /\ dropped = 0 => NoneMissed(V, n, out, ToSet(first))
       /\ status = "done" => Len(V) <= n

\* The records of one type have the class of the overload, and what is refused is of another
\* type.
ByTypeInv ==
  call.kind = "by_type" =>
    /\ \A r \in ToSet(out) : RecordClass(r) \in PromisedClass(call.type)
    /\ status = "ProtocolError" => \E r \in EverListed : r.type # call.type

\* What every action keeps by itself.
Shape == ListingInv /\ CallerInv

\* What was listed are records there are.
LEMMA EverListedKnown ==
  ASSUME ListingInv
  PROVE  EverListed \subseteq Known
<1>1. ToSet(first) \subseteq Known BY ListingsKnown DEF ListingInv
<1>2. NewRecords \in Seq(Known) BY ListingsKnown
<1>3. added \in 0 .. Len(NewRecords) BY DEF ListingInv
<1>4. Len(NewRecords) \in Nat BY <1>2, LenProperties
<1>5. \A k \in 1 .. added : k \in 1 .. Len(NewRecords) BY <1>3, <1>4
<1>6. \A k \in 1 .. Len(NewRecords) : NewRecords[k] \in Known BY <1>2, ElementOfSeq
<1> QED BY <1>1, <1>5, <1>6 DEF EverListed

\* They come from the start or from what the server adds.
LEMMA EverListedOf ==
  ASSUME ListingInv
  PROVE  EverListed \subseteq ToSet(first) \cup ToSet(NewRecords)
<1>1. Len(NewRecords) \in Nat /\ DOMAIN NewRecords = 1 .. Len(NewRecords) BY ListingsKnown, LenProperties
<1>2. Len(NewRecords) \in Nat BY <1>1
<1>3. added \in 0 .. Len(NewRecords) BY DEF ListingInv
<1>4. \A k \in 1 .. added : k \in 1 .. Len(NewRecords) BY <1>2, <1>3
<1> QED BY <1>1, <1>4 DEF EverListed, ToSet

\* The record the server adds next was never listed.
LEMMA NextRecordFresh ==
  ASSUME ListingInv, added < Len(NewRecords)
  PROVE  NewRecords[added + 1] \in Known \ EverListed
<1>1. NewRecords \in Seq(Known) /\ IsInjective(NewRecords) /\ first \in Listings
  BY ListingsKnown DEF ListingInv
<1>2. Len(NewRecords) \in Nat /\ DOMAIN NewRecords = 1 .. Len(NewRecords) BY <1>1, LenProperties
<1>3. added \in 0 .. Len(NewRecords) BY DEF ListingInv
<1>4. Len(NewRecords) \in Nat BY <1>2
<1>5. /\ added + 1 \in 1 .. Len(NewRecords)
      /\ \A k \in 1 .. added : k \in 1 .. Len(NewRecords) /\ k # added + 1
  BY <1>3, <1>4
<1>6. NewRecords[added + 1] \in Known /\ NewRecords[added + 1] \in ToSet(NewRecords)
  BY <1>1, <1>2, <1>5, ElementOfSeq DEF ToSet
<1>7. NewRecords[added + 1] \notin ToSet(first) BY <1>1, <1>6, ListingsAssumption
<1>8. ASSUME NEW k \in 1 .. added PROVE NewRecords[added + 1] # NewRecords[k]
  BY <1>1, <1>2, <1>5 DEF IsInjective
<1> QED BY <1>6, <1>7, <1>8 DEF EverListed

\* What the code pages through, of each kind of call.
LEMMA ViewType ==
  ASSUME Shape
  PROVE  /\ View(listing) \in Seq(Known) /\ IsInjective(View(listing))
         /\ ToSet(View(listing)) \subseteq ToSet(listing)
         /\ Paged => View(listing) = PagedView(listing, call.tickers, call.newest_first)
<1>1. listing \in Seq(Known) /\ IsInjective(listing) BY DEF Shape, ListingInv
<1>2. CASE Paged
  <2>1. call.newest_first \in BOOLEAN BY <1>2, CallsAssumption DEF Paged, Shape, CallerInv
  <2>2. Matching(listing, call.tickers) = Among(listing, Fits(call.tickers)) BY <1>1, MatchingFits
  <2>3. View(listing) = PagedView(listing, call.tickers, call.newest_first)
    BY <1>2, <2>2 DEF Paged, View, PagedView, Ordered
  <2> QED BY <2>1, <2>3, <1>1, PagedViewType
<1>3. CASE ~Paged
  <2>1. CASE call.kind = "by_type"
    <3>1. View(listing) = listing BY <2>1 DEF View
    <3> QED BY <3>1, <1>1, <1>3
  <2>2. CASE call.kind = "lookup" /\ chunks # << >>
    <3>1. View(listing) = Among(listing, Wanted(listing, ToSet(Head(chunks))))
      BY <2>2 DEF View
    <3> QED BY <3>1, <1>1, <1>3, AmongType, AmongInjective
  <2>3. CASE call.kind # "by_type" /\ ~(call.kind = "lookup" /\ chunks # << >>)
    <3>1. View(listing) = << >> BY <2>3, <1>3 DEF View, Paged
    <3>2. << >> \in Seq(Known) BY EmptySeq
    <3>3. ToSet(<< >>) = {} /\ IsInjective(<< >>) BY DEF ToSet, IsInjective
    <3> QED BY <3>1, <3>2, <3>3, <1>3
  <2> QED BY <2>1, <2>2, <2>3
<1> QED BY <1>2, <1>3

\* A page is what the view has from the page's first place to the next one's.
LEMMA PageTaken ==
  ASSUME Shape, NEW V, NEW size \in Int, 1 <= size, size <= MaxPageSize
  PROVE  /\ page * size \in Nat /\ (page + 1) * size \in Nat
         /\ (page + 1) * size = page * size + size
         /\ page * size < (page + 1) * size
         /\ Page(V, size) = Taken(V, page * size, (page + 1) * size)
<1>1. page \in Nat /\ MaxPageSize \in Nat BY BoundsAssumption DEF Shape, CallerInv
<1>2. page * size \in Nat BY <1>1
<1>3. (page + 1) * size = page * size + size BY <1>1
<1>4. Least(size, MaxPageSize) = size BY <1>1 DEF Least
<1>5. Page(V, size) = Taken(V, page * size, (page + 1) * size) BY <1>4 DEF Page, Taken
<1>6. (page + 1) * size \in Nat /\ page * size < (page + 1) * size BY <1>2, <1>3
<1> QED BY <1>2, <1>3, <1>5, <1>6

----------------------------------------------------------------------------
(* The steps.                                                               *)

\* What a fetch may change of what was seen.
LEMMA FetchStep ==
  ASSUME Shape, Fetch
  PROVE  /\ call' = call /\ listing' = listing /\ first' = first
         /\ added' = added /\ dropped' = dropped
         /\ \/ out' = out
            \/ \E size \in Int : /\ 1 <= size /\ size <= MaxPageSize
                                 /\ out' = out \o Page(View(listing), size)
<1>1. MaxPageSize \in Int /\ 1 <= MaxPageSize BY BoundsAssumption
<1>2. call.kind \in {"history", "operations", "by_type"} => call.size \in Int
  BY CallsAssumption DEF Shape, CallerInv
<1>3. CASE RefusePage BY <1>3 DEF RefusePage, EndCall, server
<1>4. CASE NextPage
  <2>1. call.size \in Int /\ 1 <= call.size /\ call.size <= MaxPageSize
    BY <1>4, <1>2 DEF NextPage, CheckPage
  <2>2. out' = out \o Page(View(listing), call.size) BY <1>4 DEF NextPage
  <2> QED BY <1>4, <2>1, <2>2 DEF NextPage, server
<1>5. CASE NextOperations
  <2>1. call.size \in Int /\ 1 <= call.size /\ call.size <= MaxPageSize
    BY <1>5, <1>2 DEF NextOperations, CheckPage
  <2>2. out' = out \o Page(View(listing), call.size) BY <1>5 DEF NextOperations, NextUntilShort
  <2> QED BY <1>5, <2>1, <2>2 DEF NextOperations, NextUntilShort, server
<1>6. CASE NextByType
  <2>1. call.size \in Int /\ 1 <= call.size /\ call.size <= MaxPageSize
    BY <1>6, <1>2 DEF NextByType, CheckPage
  <2>2. \/ EndCall("ProtocolError")
        \/ NextUntilShort(Page(View(listing), call.size))
    BY <1>6 DEF NextByType
  <2>3. CASE EndCall("ProtocolError") BY <2>3 DEF EndCall, server
  <2>4. CASE NextUntilShort(Page(View(listing), call.size))
    BY <2>1, <2>4 DEF NextUntilShort, server
  <2> QED BY <2>2, <2>3, <2>4
<1>7. CASE LookupPage
  <2>1. out' = out \o Page(View(listing), MaxPageSize) BY <1>7 DEF LookupPage
  <2>2. UNCHANGED <<call, listing, first, added, dropped>> BY <1>7 DEF LookupPage, server
  <2>3. \E size \in {MaxPageSize} : out' = out \o Page(View(listing), size) BY <2>1
  <2> QED BY <1>1, <2>2, <2>3
<1>8. CASE LookupReturns BY <1>8 DEF LookupReturns, server
<1>9. CASE RefuseOrder BY <1>9 DEF RefuseOrder, EndCall, server
<1>10. CASE Submit BY <1>10 DEF Submit
<1>11. CASE GiveUp BY <1>11 DEF GiveUp, EndCall, server
<1> QED BY <1>3, <1>4, <1>5, <1>6, <1>7, <1>8, <1>9, <1>10, <1>11 DEF Fetch

\* Every action keeps the listing's part.
LEMMA ListingStep ==
  ASSUME Shape, ServicesNext
  PROVE  ListingInv'
<1>1. ListingInv /\ CallerInv BY DEF Shape
<1>2. CASE Fetch
  <2>1. /\ listing' = listing /\ first' = first /\ added' = added /\ dropped' = dropped
        /\ \/ out' = out
           \/ \E size \in Int : /\ 1 <= size /\ size <= MaxPageSize
                                /\ out' = out \o Page(View(listing), size)
    BY <1>2, FetchStep
  <2>2. out' \in Seq(Known) /\ ToSet(out') \subseteq EverListed
    <3>1. CASE out' = out BY <3>1, <1>1 DEF ListingInv
    <3>2. ASSUME NEW size \in Int, 1 <= size, size <= MaxPageSize,
                 out' = out \o Page(View(listing), size)
          PROVE  out' \in Seq(Known) /\ ToSet(out') \subseteq EverListed
      <4> DEFINE V == View(listing)
                 n == page * size
                 m == (page + 1) * size
      <4>1. n \in Nat /\ m \in Nat /\ n < m /\ Page(V, size) = Taken(V, n, m)
        BY <3>2, PageTaken
      <4>2. V \in Seq(Known) /\ IsInjective(V) /\ ToSet(V) \subseteq ToSet(listing) BY ViewType
      <4>3. out \in Seq(Known) /\ ToSet(out) \subseteq EverListed /\ ToSet(listing) \subseteq EverListed
        BY <1>1 DEF ListingInv
      <4>4. out' = out \o Taken(V, n, m) BY <4>1, <3>2
      <4> HIDE DEF V, n, m
      <4>5. /\ out \o Taken(V, n, m) \in Seq(Known)
            /\ ToSet(out \o Taken(V, n, m)) \subseteq ToSet(out) \cup ToSet(V)
        BY <4>1, <4>2, <4>3, TakeKeeps
      <4> QED BY <4>2, <4>3, <4>4, <4>5
    <3> QED BY <2>1, <3>1, <3>2
  <2>3. EverListed' = EverListed BY <2>1 DEF EverListed
  <2> QED BY <2>1, <2>2, <2>3, <1>1 DEF ListingInv
<1>3. CASE ServerAdds
  <2> DEFINE x == NewRecords[added + 1]
  <2>1. /\ listing' = Append(listing, x) /\ added' = added + 1 /\ added < Len(NewRecords)
        /\ added + dropped < MaxChanges /\ out' = out /\ first' = first /\ dropped' = dropped
    BY <1>3 DEF ServerAdds, caller
  <2>2. x \in Known /\ x \notin EverListed BY <2>1, <1>1, NextRecordFresh
  <2>3. EverListed' = EverListed \cup {x}
    <3>1. added \in Nat BY <1>1, ListingsKnown, LenProperties DEF ListingInv
    <3>2. 1 .. added + 1 = (1 .. added) \cup {added + 1} BY <3>1
    <3> QED BY <3>2, <2>1 DEF EverListed
  <2>4. /\ listing \in Seq(Known) /\ IsInjective(listing) /\ ToSet(listing) \subseteq EverListed
        /\ out \in Seq(Known) /\ ToSet(out) \subseteq EverListed /\ first \in Listings
        /\ dropped \in Nat
    BY <1>1 DEF ListingInv
  <2>5. dropped = 0 => ToSet(first) \subseteq ToSet(listing) BY <1>1 DEF ListingInv
  <2>6. /\ listing' \in Seq(Known) /\ IsInjective(listing')
        /\ ToSet(listing') = ToSet(listing) \cup {x}
    <3> HIDE DEF x
    <3>1. Append(listing, x) = listing \o <<x>> BY <2>2, <2>4, AppendIsConcat
    <3>2. <<x>> \in Seq(Known) /\ ToSet(<<x>>) = {x} /\ IsInjective(<<x>>)
      BY <2>2 DEF ToSet, IsInjective
    <3> DEFINE y == <<x>>
    <3>3. y \in Seq(Known) /\ ToSet(y) = {x} /\ IsInjective(y) /\ listing' = listing \o y
      BY <2>1, <3>1, <3>2
    <3> HIDE DEF y
    <3>4. listing \o y \in Seq(Known) BY <3>3, <2>4, ConcatProperties
    <3>5. ToSet(listing \o y) = ToSet(listing) \cup ToSet(y) BY <3>3, <2>4, ToSetConcat
    <3>6. ToSet(listing) \cap ToSet(y) = {} BY <3>3, <2>2, <2>4
    <3>7. IsInjective(listing \o y) BY <3>3, <3>6, <2>4, ConcatInjective
    <3> QED BY <3>3, <3>4, <3>5, <3>7
  <2>7. added' \in 0 .. Len(NewRecords) /\ added' + dropped' <= MaxChanges /\ added' + dropped' # 0
    <3>1. Len(NewRecords) \in Nat BY ListingsKnown, LenProperties
    <3>2. added \in 0 .. Len(NewRecords) /\ dropped \in Nat /\ MaxChanges \in Nat
      BY <1>1, BoundsAssumption DEF ListingInv
    <3> HIDE DEF x
    <3> QED BY <3>1, <3>2, <2>1
  <2> HIDE DEF x
  <2>8. ToSet(listing') \subseteq EverListed' BY <2>3, <2>4, <2>6
  <2>9. ToSet(out') \subseteq EverListed' BY <2>1, <2>3, <2>4
  <2>10. dropped' = 0 => ToSet(first') \subseteq ToSet(listing') BY <2>1, <2>5, <2>6
  <2>11. first' \in Listings /\ out' \in Seq(Known) /\ dropped' \in Nat BY <2>1, <2>4
  <2> QED BY <2>6, <2>7, <2>8, <2>9, <2>10, <2>11 DEF ListingInv
<1>4. CASE ServerDrops
  <2>1. /\ added + dropped < MaxChanges /\ dropped' = dropped + 1 /\ out' = out
        /\ first' = first /\ added' = added
        /\ \E i \in 1 .. Len(listing) : listing' = RemoveAt(listing, i)
    BY <1>4 DEF ServerDrops, caller
  <2>2. PICK i \in 1 .. Len(listing) : listing' = RemoveAt(listing, i) BY <2>1
  <2>3. listing \in Seq(Known) /\ IsInjective(listing) /\ ToSet(listing) \subseteq EverListed
    BY <1>1 DEF ListingInv
  <2>4. listing' \in Seq(Known) /\ IsInjective(listing') /\ ToSet(listing') \subseteq ToSet(listing)
    BY <2>2, <2>3, RemoveAtOf
  <2>5. EverListed' = EverListed BY <2>1 DEF EverListed
  <2>6. dropped' \in Nat /\ added' + dropped' <= MaxChanges /\ dropped' # 0 /\ added' + dropped' # 0
    <3>1. added \in 0 .. Len(NewRecords) /\ dropped \in Nat /\ MaxChanges \in Nat
      BY <1>1, BoundsAssumption DEF ListingInv
    <3>2. Len(NewRecords) \in Nat BY ListingsKnown, LenProperties
    <3>3. added \in Nat BY <3>1, <3>2
    <3> QED BY <3>1, <3>3, <2>1
  <2>7. first' \in Listings /\ out' \in Seq(Known) /\ ToSet(out') \subseteq EverListed'
        /\ added' \in 0 .. Len(NewRecords)
    BY <2>1, <2>5, <1>1 DEF ListingInv
  <2> QED BY <2>3, <2>4, <2>5, <2>6, <2>7 DEF ListingInv
<1> QED BY <1>2, <1>3, <1>4 DEF ServicesNext

\* Every action keeps the caller's part.
LEMMA CallerStep ==
  ASSUME Shape, ServicesNext
  PROVE  CallerInv'
<1>1. CallerInv BY DEF Shape
<1>2. call \in Calls /\ page \in Nat /\ attempts \in 0 .. MaxAttempts /\ MaxAttempts \in Nat
  BY <1>1, BoundsAssumption DEF CallerInv
<1>3. ASSUME NEW how \in {"ValueError", "ProtocolError", "ValidationError", "ApiError"}, EndCall(how)
      PROVE  CallerInv'
  BY <1>1, <1>3 DEF EndCall, CallerInv, CheckPage
<1>4. ASSUME /\ call' = call /\ attempts' = attempts /\ page' \in Nat
             /\ status' \in {"running", "done"}
             /\ call.kind \in {"history", "operations", "by_type"} => CheckPage(call.size)
      PROVE  CallerInv'
  <2>1. page' > 0 /\ call'.kind \in {"history", "operations", "by_type"} => CheckPage(call.size)'
    BY <1>2, <1>4 DEF CheckPage
  <2> QED BY <1>2, <1>4, <2>1 DEF CallerInv
<1>5. CASE RefusePage BY <1>3, <1>5 DEF RefusePage
<1>6. CASE NextPage BY <1>2, <1>4, <1>6 DEF NextPage
<1>7. CASE NextOperations BY <1>2, <1>4, <1>7 DEF NextOperations, NextUntilShort
<1>8. CASE NextByType
  <2>1. EndCall("ProtocolError") \/ NextUntilShort(Page(View(listing), call.size)) BY <1>8 DEF NextByType
  <2>2. CASE EndCall("ProtocolError") BY <1>3, <2>2
  <2>3. CASE NextUntilShort(Page(View(listing), call.size))
    BY <1>2, <1>4, <1>8, <2>3 DEF NextByType, NextUntilShort
  <2> QED BY <2>1, <2>2, <2>3
<1>9. CASE LookupPage
  <2>1. page' \in Nat BY <1>2, <1>9 DEF LookupPage
  <2> QED BY <2>1, <1>4, <1>9 DEF LookupPage
<1>10. CASE LookupReturns BY <1>2, <1>4, <1>10 DEF LookupReturns
<1>11. CASE RefuseOrder BY <1>3, <1>11 DEF RefuseOrder
<1>12. CASE Submit
  <2>1. attempts' \in 0 .. MaxAttempts BY <1>2, <1>12 DEF Submit
  <2>2. status' \in {"running", "done"} BY <1>12 DEF Submit
  <2>3. call' = call /\ page' = page /\ call.kind = "order" BY <1>12 DEF Submit
  <2> QED BY <1>2, <2>1, <2>2, <2>3 DEF CallerInv
<1>13. CASE GiveUp BY <1>3, <1>13 DEF GiveUp
<1>14. CASE ServerAdds \/ ServerDrops
  <2>1. UNCHANGED caller BY <1>14 DEF ServerAdds, ServerDrops
  <2> QED BY <1>1, <2>1 DEF CallerInv, caller, CheckPage
<1> QED BY <1>5, <1>6, <1>7, <1>8, <1>9, <1>10, <1>11, <1>12, <1>13, <1>14 DEF ServicesNext, Fetch

\* As many pages as the reply counts hold every record.
LEMMA Counting ==
  ASSUME NEW l \in Nat, NEW n \in Nat \ {0}, NEW k \in Nat, k >= (l + n - 1) \div n
  PROVE  l <= k * n
<1> DEFINE a == l + n - 1
           q == a \div n
<1>1. a \in Nat OBVIOUS
<1>2. q \in Nat /\ n * q <= a /\ a < n * q + n
  <2> HIDE DEF a
  <2> QED BY <1>1
<1>3. l <= n * q
  <2> HIDE DEF q
  <2>1. n * q \in Nat BY <1>2
  <2> QED BY <1>2, <2>1
<1>4. n * q <= n * k
  <2> HIDE DEF q
  <2>1. q <= k BY DEF q
  <2> QED BY <2>1, <1>2
<1>5. n * k = k * n OBVIOUS
<1> HIDE DEF q
<1>6. n * q \in Nat /\ n * k \in Nat BY <1>2
<1> QED BY <1>3, <1>4, <1>5, <1>6

\* A page that does not fill up, or reaches the end of the view, is the last.
LEMMA PagedFetch ==
  ASSUME Shape, Paged, NextPage \/ NextOperations
  PROVE  /\ call.size \in Int /\ 1 <= call.size /\ call.size <= MaxPageSize
         /\ call' = call /\ listing' = listing /\ first' = first
         /\ added' = added /\ dropped' = dropped
         /\ page' = page + 1
         /\ out' = out \o Page(View(listing), call.size)
         /\ status' = "done" => Len(View(listing)) <= (page + 1) * call.size
<1> DEFINE V == View(listing)
           size == call.size
           t == Page(V, size)
<1>1. size \in Int /\ 1 <= size /\ size <= MaxPageSize
  BY CallsAssumption DEF Paged, Shape, CallerInv, NextPage, NextOperations, CheckPage
<1>2. /\ call' = call /\ listing' = listing /\ first' = first
      /\ added' = added /\ dropped' = dropped
      /\ page' = page + 1 /\ out' = out \o t
  BY DEF NextPage, NextOperations, NextUntilShort, server
<1>3. V \in Seq(Known) /\ Len(V) \in Nat BY ViewType, LenProperties
<1>4. page \in Nat /\ size \in Nat \ {0} BY <1>1 DEF Shape, CallerInv
<1>5. /\ page * size \in Nat /\ (page + 1) * size \in Nat
      /\ (page + 1) * size = page * size + size
      /\ Len(t) = IF Len(V) <= page * size THEN 0
                  ELSE Least((page + 1) * size, Len(V)) - page * size
  <2> DEFINE n == page * size
             m == (page + 1) * size
  <2>1. n \in Nat /\ m \in Nat /\ n < m /\ m = n + size /\ t = Taken(V, n, m) BY <1>1, PageTaken
  <2> HIDE DEF n, m, V
  <2>2. Len(Taken(V, n, m)) = IF Len(V) <= n THEN 0 ELSE Least(m, Len(V)) - n
    BY <2>1, <1>3, TakenOf
  <2> QED BY <2>1, <2>2 DEF n, m
<1>6. Len(t) < size => Len(V) <= (page + 1) * size
  <2> DEFINE n == page * size
             m == (page + 1) * size
             l == Len(V)
             k == Len(t)
  <2>1. n \in Nat /\ m \in Nat /\ m = n + size /\ l \in Nat
        /\ k = IF l <= n THEN 0 ELSE Least(m, l) - n
    BY <1>3, <1>5
  <2> HIDE DEF n, m, l, k
  <2>2. k < size => l <= m BY <2>1, <1>4 DEF Least
  <2> QED BY <2>2 DEF m, l, k
<1>7. t = << >> => Len(t) < size
  <2> HIDE DEF t
  <2> QED BY <1>4
<1>8. page + 1 >= TotalPages(V, size) => Len(V) <= (page + 1) * size
  <2> DEFINE l == Len(V)
             k == page + 1
  <2>1. l \in Nat /\ k \in Nat /\ size \in Nat \ {0} BY <1>3, <1>4
  <2>2. TotalPages(V, size) = (l + size - 1) \div size BY DEF TotalPages
  <2> HIDE DEF V, size, l, k
  <2>3. k >= (l + size - 1) \div size => l <= k * size BY <2>1, Counting
  <2> QED BY <2>2, <2>3 DEF l, k
<1>9. status' = "done" => t = << >> \/ page + 1 >= TotalPages(V, size) \/ Len(t) < size
  BY DEF NextPage, NextOperations, NextUntilShort
<1> QED BY <1>1, <1>2, <1>6, <1>7, <1>8, <1>9

\* Every action keeps the place of an iteration: a page moves it on, and a record that is
\* added or dropped shifts what it has seen and what is to come.
LEMMA PagedStep ==
  ASSUME Shape, PagedInv, ServicesNext, call' = call, ListingInv'
  PROVE  PagedInv'
<1> SUFFICES ASSUME Paged PROVE PagedInv' BY DEF PagedInv, Paged
<1> DEFINE V == PagedView(listing, call.tickers, call.newest_first)
           W == PagedView(listing', call.tickers, call.newest_first)
           n == page * call.size
           size == call.size
<1>1. /\ call.newest_first \in BOOLEAN /\ call.size \in Int
      /\ call.kind \in {"history", "operations"}
  BY CallsAssumption DEF Paged, Shape, CallerInv
<1>2. /\ ~call.newest_first \/ added = 0 => NoneTwice(V, n, out)
      /\ dropped = 0 => NoneMissed(V, n, out, ToSet(first))
      /\ status = "done" => Len(V) <= n
  BY DEF PagedInv
<1>3. /\ page \in Nat /\ listing \in Seq(Known) /\ listing' \in Seq(Known) /\ IsInjective(listing)
      /\ out \in Seq(Known) /\ ToSet(out) \subseteq EverListed /\ first \in Listings
      /\ added \in Nat /\ dropped \in Nat
  BY ListingsKnown, LenProperties DEF Shape, CallerInv, ListingInv
<1>4. n \in Int BY <1>1, <1>3
<1>5. V \in Seq(Known) /\ IsInjective(V) /\ W \in Seq(Known) /\ Len(V) \in Nat
  BY <1>1, <1>3, PagedViewType
<1> DEFINE Goal(k) == /\ ~call.newest_first \/ added' = 0 => NoneTwice(W, k, out')
                      /\ dropped' = 0 => NoneMissed(W, k, out', ToSet(first'))
                      /\ status' = "done" => Len(W) <= k
<1>6. Goal(page' * call.size) => PagedInv' BY DEF PagedInv
<1>7. CASE NextPage \/ NextOperations
  <2> DEFINE m == (page + 1) * call.size
  <2>1. /\ call.size \in Int /\ 1 <= call.size /\ call.size <= MaxPageSize
        /\ listing' = listing /\ first' = first
        /\ added' = added /\ dropped' = dropped /\ page' = page + 1
        /\ out' = out \o Page(View(listing), call.size)
        /\ status' = "done" => Len(View(listing)) <= m
    BY <1>7, PagedFetch
  <2>2. View(listing) = V BY ViewType
  <2>3. /\ n \in Nat /\ m \in Nat /\ n < m
        /\ Page(V, call.size) = Taken(V, n, m)
    BY <2>1, PageTaken
  <2>4. W = V /\ out' = out \o Taken(V, n, m) BY <2>1, <2>2, <2>3
  <2>5. page' * call.size = m BY <2>1
  <2>6. status' = "done" => Len(V) <= m BY <2>1, <2>2
  <2> HIDE DEF V, W, n, m
  <2>7. /\ NoneTwice(V, n, out) => NoneTwice(V, m, out \o Taken(V, n, m))
        /\ \A start : NoneMissed(V, n, out, start) => NoneMissed(V, m, out \o Taken(V, n, m), start)
    BY <2>3, <1>3, <1>5, TakeKeeps
  <2>8. ~call.newest_first \/ added' = 0 => NoneTwice(W, m, out') BY <2>1, <2>4, <2>7, <1>2
  <2>9. dropped' = 0 => NoneMissed(W, m, out', ToSet(first')) BY <2>1, <2>4, <2>7, <1>2
  <2>10. status' = "done" => Len(W) <= m BY <2>4, <2>6
  <2> QED BY <2>5, <2>8, <2>9, <2>10, <1>6
<1>8. CASE RefusePage
  <2>1. /\ listing' = listing /\ first' = first /\ added' = added /\ dropped' = dropped
        /\ page' = page /\ out' = out /\ status' = "ValueError"
    BY <1>8 DEF RefusePage, EndCall, server
  <2> HIDE DEF n
  <2>2. page' * call.size = n BY <2>1 DEF n
  <2> QED BY <2>1, <2>2, <1>2, <1>6
<1>9. CASE ServerAdds
  <2> DEFINE x == NewRecords[added + 1]
  <2>1. /\ listing' = Append(listing, x) /\ added < Len(NewRecords) /\ added' = added + 1
        /\ first' = first /\ dropped' = dropped /\ page' = page /\ out' = out
        /\ status' = "running"
    BY <1>9 DEF ServerAdds, caller
  <2>2. x \in Known /\ x \notin EverListed BY <2>1, NextRecordFresh DEF Shape
  <2>3. x \notin ToSet(out) /\ x \notin ToSet(first) BY <2>2, <1>3 DEF EverListed
  <2>4. OneIn(V, W, x, call.newest_first)
    <3> HIDE DEF x
    <3> QED BY <2>1, <2>2, <1>1, <1>3, AddView
  <2>5. page' * call.size = n BY <2>1
  <2> HIDE DEF V, W, n, x
  <2>6. /\ ~call.newest_first /\ NoneTwice(V, n, out) => NoneTwice(W, n, out)
        /\ \A start : x \notin start /\ NoneMissed(V, n, out, start) => NoneMissed(W, n, out, start)
    BY <2>3, <2>4, <1>1, <1>4, <1>5, AddKeeps
  <2>7. added' # 0 BY <2>1, <1>3
  <2>8. ~call.newest_first \/ added' = 0 => NoneTwice(W, n, out') BY <2>1, <2>6, <2>7, <1>2
  <2>9. dropped' = 0 => NoneMissed(W, n, out', ToSet(first')) BY <2>1, <2>3, <2>6, <1>2
  <2>10. status' # "done" BY <2>1
  <2> QED BY <2>5, <2>8, <2>9, <2>10, <1>6
<1>10. CASE ServerDrops
  <2>1. /\ added' = added /\ dropped' = dropped + 1 /\ page' = page /\ out' = out
        /\ status' = "running"
        /\ \E i \in 1 .. Len(listing) : listing' = RemoveAt(listing, i)
    BY <1>10 DEF ServerDrops, caller
  <2>2. OneOut(V, W) BY <2>1, <1>1, <1>3, DropView
  <2>3. page' * call.size = n BY <2>1
  <2> HIDE DEF V, W, n
  <2>4. NoneTwice(V, n, out) => NoneTwice(W, n, out) BY <2>2, <1>4, <1>5, DropKeeps
  <2>5. dropped' # 0 BY <2>1, <1>3
  <2>6. ~call.newest_first \/ added' = 0 => NoneTwice(W, n, out') BY <2>1, <2>4, <1>2
  <2>7. status' # "done" BY <2>1
  <2> QED BY <2>3, <2>5, <2>6, <2>7, <1>6
<1> QED
  BY <1>1, <1>7, <1>8, <1>9, <1>10
  DEF ServicesNext, Fetch, NextByType, LookupPage, LookupReturns, RefuseOrder, Submit, GiveUp

----------------------------------------------------------------------------
(* The classes of instruments: three tables that must agree.               *)

\* The class of a record, as the union's tags tell it.
LEMMA RecordClassIs ==
  ASSUME NEW r
  PROVE  RecordClass(r) = IF r.type \in Wire!InstrumentType THEN Wire!TagByType[r.type] ELSE "unknown"
<1> DEFINE p == {[at |-> <<"instrumentType">>, is |-> r.type]}
           keys == {"instrumentType", "instrument_type"}
<1>1. Wire!Value(p, keys) = {r.type}
  <2>1. \A e \in p : e.at = <<"instrumentType">> /\ e.is = r.type OBVIOUS
  <2>2. \A e \in p : Len(e.at) = 1 /\ e.at[1] \in keys
    <3>1. Len(<<"instrumentType">>) = 1 /\ <<"instrumentType">>[1] = "instrumentType" OBVIOUS
    <3> QED BY <2>1, <3>1
  <2>3. {e \in p : Len(e.at) = 1 /\ e.at[1] \in keys} = p BY <2>2
  <2>4. {e.is : e \in p} = {r.type} OBVIOUS
  <2> HIDE DEF p, keys
  <2> QED BY <2>3, <2>4 DEF Wire!Value
<1>2. RecordClass(r) = Wire!InstrumentTag(p) BY DEF RecordClass
<1> DEFINE kind == Wire!Value(p, keys) \cap Wire!InstrumentType
<1>3. Wire!InstrumentTag(p) = IF kind = {} THEN "unknown" ELSE Wire!TagByType[CHOOSE k \in kind : TRUE]
  BY DEF Wire!InstrumentTag
<1>4. kind = IF r.type \in Wire!InstrumentType THEN {r.type} ELSE {} BY <1>1
<1>5. r.type \in Wire!InstrumentType => (CHOOSE k \in kind : TRUE) = r.type
  <2> HIDE DEF kind
  <2> QED BY <1>4
<1> HIDE DEF kind, p
<1> QED BY <1>2, <1>3, <1>4, <1>5

\* The service's table, the overloads' and the union's tags are one mapping.
LEMMA TablesAgree ==
  /\ DOMAIN ModelByType = Wire!InstrumentType
  /\ \A type \in Wire!InstrumentType :
       Wire!TagByType[type] = ModelByType[type] /\ ModelByType[type] \in PromisedClass(type)
  /\ \A type : type \notin Wire!InstrumentType => PromisedClass(type) = Wire!Instruments
  /\ \A type \in Wire!InstrumentType : Wire!TagByType[type] \in Wire!Instruments
  /\ "unknown" \in Wire!Instruments
<1>1. DOMAIN ModelByType = Wire!InstrumentType BY DEF ModelByType
<1>2. ASSUME NEW type \in Wire!InstrumentType
      PROVE  /\ Wire!TagByType[type] = ModelByType[type] /\ ModelByType[type] \in PromisedClass(type)
             /\ Wire!TagByType[type] \in Wire!Instruments
  BY DEF ModelByType, Wire!TagByType, Wire!InstrumentType, PromisedClass, EquityType, BondType,
         Wire!Instruments
<1>3. ASSUME NEW type, type \notin Wire!InstrumentType PROVE PromisedClass(type) = Wire!Instruments
  BY <1>3 DEF PromisedClass, Wire!InstrumentType, EquityType, BondType
<1>4. "unknown" \in Wire!Instruments BY DEF Wire!Instruments
<1> QED BY <1>1, <1>2, <1>3, <1>4

\* A page has only records that were listed.
LEMMA PageType ==
  ASSUME Shape, NEW size \in Int, 1 <= size, size <= MaxPageSize
  PROVE  /\ Page(View(listing), size) \in Seq(Known)
         /\ ToSet(Page(View(listing), size)) \subseteq ToSet(View(listing))
         /\ ToSet(Page(View(listing), size)) \subseteq EverListed
<1> DEFINE V == View(listing)
           n == page * size
           m == (page + 1) * size
           t == Page(V, size)
<1>1. n \in Nat /\ m \in Nat /\ n < m /\ t = Taken(V, n, m) BY PageTaken
<1>2. V \in Seq(Known) /\ ToSet(V) \subseteq ToSet(listing) BY ViewType
<1>3. ToSet(listing) \subseteq EverListed BY DEF Shape, ListingInv
<1> HIDE DEF V, n, m, t
<1>4. t \in Seq(Known) /\ \A i \in 1 .. Len(t) : t[i] = V[n + i] /\ n + i \in DOMAIN V
  BY <1>1, <1>2, TakenOf
<1>5. DOMAIN t = 1 .. Len(t) BY <1>4, LenProperties
<1>6. ToSet(t) \subseteq ToSet(V) BY <1>4, <1>5 DEF ToSet
<1> QED BY <1>2, <1>3, <1>4, <1>6 DEF t, V

\* Every action keeps the classes: a page of another class is refused.
LEMMA ByTypeStep ==
  ASSUME Shape, ByTypeInv, ServicesNext, call' = call
  PROVE  ByTypeInv'
<1> SUFFICES ASSUME call.kind = "by_type" PROVE ByTypeInv' BY DEF ByTypeInv
<1>1. /\ \A r \in ToSet(out) : RecordClass(r) \in PromisedClass(call.type)
      /\ status = "ProtocolError" => \E r \in EverListed : r.type # call.type
      /\ out \in Seq(Known)
  BY DEF ByTypeInv, Shape, ListingInv
<1>2. CASE RefusePage
  <2>1. out' = out /\ status' = "ValueError" BY <1>2 DEF RefusePage, EndCall
  <2> QED BY <2>1, <1>1 DEF ByTypeInv
<1>3. CASE ServerAdds \/ ServerDrops
  <2>1. out' = out /\ status' = "running" BY <1>3 DEF ServerAdds, ServerDrops, caller
  <2> QED BY <2>1, <1>1 DEF ByTypeInv
<1>4. CASE NextByType
  <2> DEFINE t == Page(View(listing), call.size)
  <2>1. call.size \in Int /\ 1 <= call.size /\ call.size <= MaxPageSize
    BY <1>4, CallsAssumption DEF Shape, CallerInv, NextByType, CheckPage
  <2>2. t \in Seq(Known) /\ ToSet(t) \subseteq EverListed BY <2>1, PageType
  <2>3. CASE Misfiled(t)
    <3>1. EndCall("ProtocolError") BY <1>4, <2>3 DEF NextByType
    <3>2. out' = out /\ first' = first /\ added' = added BY <3>1 DEF EndCall, server
    <3>3. EverListed' = EverListed BY <3>2 DEF EverListed
    <3>4. PICK r \in ToSet(t) : RecordClass(r) # ModelByType[call.type]
      BY <2>3 DEF Misfiled
    <3>5. call.type \in Wire!InstrumentType BY <2>3, TablesAgree DEF Misfiled
    <3>6. r.type = call.type => RecordClass(r) = ModelByType[call.type]
      BY <3>5, RecordClassIs, TablesAgree
    <3>7. r \in EverListed /\ r.type # call.type BY <2>2, <3>4, <3>6
    <3> HIDE DEF t
    <3> QED BY <3>2, <3>3, <3>7, <1>1 DEF ByTypeInv
  <2>4. CASE ~Misfiled(t)
    <3>1. NextUntilShort(t) BY <1>4, <2>4 DEF NextByType
    <3>2. out' = out \o t /\ status' \in {"running", "done"} BY <3>1 DEF NextUntilShort
    <3> HIDE DEF t
    <3>3. ToSet(out') = ToSet(out) \cup ToSet(t) BY <1>1, <2>2, <3>2, ToSetConcat
    <3>4. ASSUME NEW r \in ToSet(t) PROVE RecordClass(r) \in PromisedClass(call.type)
      <4>1. CASE call.type \in Wire!InstrumentType
        <5>1. RecordClass(r) = ModelByType[call.type] BY <2>4, <4>1, TablesAgree DEF Misfiled
        <5> QED BY <4>1, <5>1, TablesAgree
      <4>2. CASE call.type \notin Wire!InstrumentType
        <5>1. RecordClass(r) \in Wire!Instruments BY RecordClassIs, TablesAgree
        <5> QED BY <4>2, <5>1, TablesAgree
      <4> QED BY <4>1, <4>2
    <3> QED BY <3>2, <3>3, <3>4, <1>1 DEF ByTypeInv
  <2> QED BY <2>3, <2>4
<1> QED
  BY <1>2, <1>3, <1>4
  DEF ServicesNext, Fetch, NextPage, NextOperations, LookupPage, LookupReturns, RefuseOrder, Submit,
      GiveUp

----------------------------------------------------------------------------
(* lookup: the records of each ticker, over the chunks and pages.          *)

\* The records of some tickers, those of one ticker in a sequence, and the records that list
\* a key.
OfTickers(tickers) == {r \in Known : r.ticker \in tickers}
OfT(t, s) == Among(s, OfTickers({t}))
ListsKey(key) == {r \in Known : key \in KeysOf(r)}

\* The code's choice of a ticker's records.
LEMMA OfTickerIs ==
  ASSUME NEW s \in Seq(Known), NEW key
  PROVE  OfTicker(key, s) = OfT(key[1], s)
<1>1. ToSet(s) \subseteq Known BY ToSetOf
<1>2. \A r \in ToSet(s) : r \in Wanted(s, {key[1]}) <=> r \in OfTickers({key[1]})
  BY <1>1 DEF Wanted, OfTickers
<1> QED BY <1>2, AmongSame DEF OfTicker, OfT

\* A record lists only keys of its ticker.
LEMMA KeyNamesTicker ==
  ASSUME NEW key, NEW r, key \in KeysOf(r)
  PROVE  r.ticker = key[1]
<1>1. PICK code : key = <<r.ticker, code>> BY DEF KeysOf
<1> QED BY <1>1

\* What lists a key is among the records of its ticker.
LEMMA FirstListingIs ==
  ASSUME NEW s \in Seq(Known), NEW key
  PROVE  FirstListing(key, s) = Among(OfT(key[1], s), ListsKey(key))
<1>1. ToSet(s) \subseteq Known BY ToSetOf
<1> DEFINE W == {r \in ToSet(s) : key \in KeysOf(r)}
<1>2. \A r \in ToSet(s) : r \in W <=> r \in ListsKey(key)
  BY <1>1 DEF ListsKey
<1>3. FirstListing(key, s) = Among(s, W) BY DEF FirstListing
<1> HIDE DEF W
<1>4. Among(s, W) = Among(s, ListsKey(key)) BY <1>2, AmongSame
<1>5. ListsKey(key) \subseteq OfTickers({key[1]}) BY KeyNamesTicker DEF ListsKey, OfTickers
<1>6. Among(Among(s, OfTickers({key[1]})), ListsKey(key)) = Among(s, ListsKey(key))
  BY <1>5, AmongAmong
<1> QED BY <1>3, <1>4, <1>6 DEF OfT

\* What a key resolves to depends only on the records of its ticker.
LEMMA ResolvedSame ==
  ASSUME NEW s \in Seq(Known), NEW u \in Seq(Known), NEW keys,
         \A key \in keys : OfT(key[1], s) = OfT(key[1], u)
  PROVE  Resolved(keys, s) = Resolved(keys, u)
<1>1. \A key \in keys : /\ FirstListing(key, s) = FirstListing(key, u)
                        /\ OfTicker(key, s) = OfTicker(key, u)
  BY FirstListingIs, OfTickerIs
<1> DEFINE D(x) == {k \in keys : FirstListing(k, x) # << >> \/ Len(OfTicker(k, x)) = 1}
           E(k, x) == IF FirstListing(k, x) # << >> THEN Head(FirstListing(k, x))
                      ELSE Head(OfTicker(k, x))
<1>2. Resolved(keys, s) = [k \in D(s) |-> E(k, s)] /\ Resolved(keys, u) = [k \in D(u) |-> E(k, u)]
  BY DEF Resolved
<1>3. D(s) = D(u) BY <1>1
<1>4. \A k \in D(s) : E(k, s) = E(k, u) BY <1>1
<1> HIDE DEF D, E
<1> QED BY <1>2, <1>3, <1>4

\* The first of the wanted records is wanted.
LEMMA HeadWanted ==
  ASSUME NEW S, NEW s \in Seq(S), NEW W, Among(s, W) # << >>
  PROVE  Head(Among(s, W)) \in W
<1>1. Among(s, W) \in Seq(S) BY AmongType
<1>2. Len(Among(s, W)) \in Nat \ {0} BY <1>1, EmptySeq
<1>3. Head(Among(s, W)) = Among(s, W)[1] BY <1>1
<1>4. 1 \in 1 .. Len(Among(s, W)) BY <1>2
<1> QED BY <1>3, <1>4, AmongType

\* A key resolves to a record of its ticker.
LEMMA ResolvedNames ==
  ASSUME NEW s \in Seq(Known), NEW keys, NEW key \in DOMAIN Resolved(keys, s)
  PROVE  Resolved(keys, s)[key].ticker = key[1]
<1>1. /\ FirstListing(key, s) # << >> \/ Len(OfTicker(key, s)) = 1
      /\ Resolved(keys, s)[key] = IF FirstListing(key, s) # << >>
                                  THEN Head(FirstListing(key, s)) ELSE Head(OfTicker(key, s))
  BY DEF Resolved
<1>2. CASE FirstListing(key, s) # << >>
  <2>1. Head(FirstListing(key, s)) \in {r \in ToSet(s) : key \in KeysOf(r)}
    BY <1>2, HeadWanted DEF FirstListing
  <2> QED BY <2>1, <1>1, <1>2, KeyNamesTicker
<1>3. CASE FirstListing(key, s) = << >>
  <2>1. OfTicker(key, s) # << >> BY <1>1, <1>3, EmptySeq
  <2>2. Head(OfTicker(key, s)) \in Wanted(s, {key[1]}) BY <2>1, HeadWanted DEF OfTicker
  <2> QED BY <2>2, <1>1, <1>3 DEF Wanted
<1> QED BY <1>2, <1>3

\* What a chunk of tickers walks, and its first m records.
ChunkView(s, chunk) == Among(s, OfTickers(ToSet(chunk)))
Prefix(V, m) == SubSeq(V, 1, Least(m, Len(V)))

\* No record, some, or all.
LEMMA PrefixOf ==
  ASSUME NEW S, NEW V \in Seq(S)
  PROVE  /\ Prefix(V, 0) = << >>
         /\ \A m \in Nat : Prefix(V, m) \in Seq(S)
         /\ \A m \in Nat : Len(V) <= m => Prefix(V, m) = V
<1>1. Len(V) \in Nat /\ \A i \in 1 .. Len(V) : V[i] \in S BY LenProperties, ElementOfSeq
<1>2. Len(V) \in Nat BY <1>1
<1>3. Least(0, Len(V)) = 0 BY <1>2 DEF Least
<1>4. Prefix(V, 0) = << >>
  <2>1. SubSeq(V, 1, 0) = << >> BY SubSeqEmpty
  <2> QED BY <2>1, <1>3 DEF Prefix
<1>5. ASSUME NEW m \in Nat PROVE Prefix(V, m) \in Seq(S)
  <2>1. PICK k \in Nat : k = Least(m, Len(V)) /\ k <= Len(V) BY <1>2 DEF Least
  <2>2. \A i \in 1 .. k : i \in 1 .. Len(V) BY <2>1, <1>2
  <2>3. \A i \in 1 .. k : V[i] \in S BY <2>2, <1>1
  <2>4. SubSeq(V, 1, k) \in Seq(S) BY <2>3, SubSeqProperties
  <2> QED BY <2>1, <2>4 DEF Prefix
<1>6. ASSUME NEW m \in Nat, Len(V) <= m PROVE Prefix(V, m) = V
  <2>1. Least(m, Len(V)) = Len(V) BY <1>2, <1>6 DEF Least
  <2> QED BY <2>1, SubSeqFull DEF Prefix
<1> QED BY <1>4, <1>5, <1>6

\* A page goes on where the pages before it ended.
LEMMA PrefixTaken ==
  ASSUME NEW S, NEW V \in Seq(S), NEW n \in Nat, NEW m \in Nat, n < m
  PROVE  Prefix(V, n) \o Taken(V, n, m) = Prefix(V, m)
<1>1. Len(V) \in Nat BY LenProperties
<1>2. CASE n <= Len(V)
  <2>1. PICK k \in Nat : k = Least(m, Len(V)) /\ k <= Len(V) /\ n <= k BY <1>1, <1>2 DEF Least
  <2>2. Least(n, Len(V)) = n BY <1>1, <1>2 DEF Least
  <2>3. 1 \in 1 .. Len(V) + 1 /\ n \in (1 - 1) .. Len(V) /\ k \in n .. Len(V) BY <1>1, <1>2, <2>1
  <2>4. SubSeq(V, 1, n) \o SubSeq(V, n + 1, k) = SubSeq(V, 1, k) BY <2>3, ConcatAdjacentSubSeq
  <2> QED BY <2>1, <2>2, <2>4 DEF Prefix, Taken
<1>3. CASE ~(n <= Len(V))
  <2>1. Len(V) <= n /\ Len(V) <= m BY <1>1, <1>3
  <2>2. Prefix(V, n) = V /\ Prefix(V, m) = V BY <2>1, PrefixOf
  <2>3. Taken(V, n, m) \in Seq(S) /\ Len(Taken(V, n, m)) = 0 BY <2>1, TakenOf
  <2>4. Taken(V, n, m) = << >> BY <2>3, EmptySeq
  <2> QED BY <2>2, <2>4, ConcatEmptySeq
<1> QED BY <1>2, <1>3

\* The records of one ticker in what a page adds.
LEMMA OfTConcat ==
  ASSUME NEW s \in Seq(Known), NEW u \in Seq(Known), NEW t
  PROVE  OfT(t, s \o u) = OfT(t, s) \o OfT(t, u)
BY AmongConcat DEF OfT

\* Of another ticker there is none.
LEMMA OfTNone ==
  ASSUME NEW s \in Seq(Known), NEW t, \A r \in ToSet(s) : r.ticker # t
  PROVE  OfT(t, s) = << >>
<1>1. ToSet(s) \cap OfTickers({t}) = {} BY DEF OfTickers
<1> QED BY <1>1, AmongNone DEF OfT

\* The records of a ticker are records.
LEMMA OfTType ==
  ASSUME NEW s \in Seq(Known), NEW t
  PROVE  OfT(t, s) \in Seq(Known)
BY AmongType DEF OfT

\* The view of a chunk has all the records of its tickers and no others.
LEMMA ChunkViewOf ==
  ASSUME NEW s \in Seq(Known), NEW chunk
  PROVE  /\ ChunkView(s, chunk) \in Seq(Known)
         /\ \A r \in ToSet(ChunkView(s, chunk)) : r.ticker \in ToSet(chunk)
         /\ \A t \in ToSet(chunk) : OfT(t, ChunkView(s, chunk)) = OfT(t, s)
<1>1. /\ ChunkView(s, chunk) \in Seq(Known)
      /\ ToSet(ChunkView(s, chunk)) = ToSet(s) \cap OfTickers(ToSet(chunk))
  BY AmongType DEF ChunkView
<1>2. \A r \in ToSet(ChunkView(s, chunk)) : r.ticker \in ToSet(chunk) BY <1>1 DEF OfTickers
<1>3. ASSUME NEW t \in ToSet(chunk) PROVE OfT(t, ChunkView(s, chunk)) = OfT(t, s)
  <2>1. OfTickers({t}) \subseteq OfTickers(ToSet(chunk)) BY DEF OfTickers
  <2> QED BY <2>1, AmongAmong DEF OfT, ChunkView
<1> QED BY <1>1, <1>2, <1>3

\* More pages hold no fewer records.
LEMMA TimesMonotone ==
  ASSUME NEW a \in Nat, NEW b \in Nat, NEW n \in Nat, a <= b
  PROVE  a * n <= b * n /\ a * n \in Nat /\ b * n \in Nat
<1>1. PICK d \in Nat : b = a + d
  <2>1. b - a \in Nat /\ b = a + (b - a) OBVIOUS
  <2> QED BY <2>1
<1>2. b * n = a * n + d * n BY <1>1
<1>3. a * n \in Nat /\ d * n \in Nat /\ b * n \in Nat OBVIOUS
<1> QED BY <1>2, <1>3

\* The tickers that are looked up.
TickersOf(keys) == {key[1] : key \in keys}

\* A finite set as a sequence: every element, none twice.
LEMMA SetToSeqOf ==
  ASSUME NEW T, IsFiniteSet(T)
  PROVE  /\ SetToSeq(T) \in Seq(T) /\ Len(SetToSeq(T)) \in Nat
         /\ DOMAIN SetToSeq(T) = 1 .. Len(SetToSeq(T))
         /\ IsInjective(SetToSeq(T)) /\ ToSet(SetToSeq(T)) = T
<1> DEFINE n == Cardinality(T)
           f == SetToSeq(T)
<1>1. n \in Nat /\ ExistsBijection(1 .. n, T) BY FS_CardinalityType
<1>2. \E g \in [1 .. n -> T] : IsInjective(g)
  BY <1>1 DEF ExistsBijection, Bijection, Injection
<1>3. f \in [1 .. n -> T] /\ IsInjective(f) BY <1>2 DEF SetToSeq
<1> HIDE DEF f, n
<1>4. f \in Seq(T) BY <1>1, <1>3
<1>5. Len(f) \in Nat /\ DOMAIN f = 1 .. Len(f) BY <1>4, LenProperties
<1>6. f \in Injection(1 .. n, T) BY <1>3 DEF Injection
<1>7. IsFiniteSet(1 .. n) /\ Cardinality(1 .. n) = n BY <1>1, FS_Interval
<1>8. f \in Surjection(1 .. n, T)
  <2>1. Cardinality(1 .. n) = Cardinality(T) BY <1>7 DEF n
  <2> QED BY <2>1, <1>6, FS_Injection
<1>9. ToSet(f) = T BY <1>3, <1>8 DEF Surjection, ToSet
<1> QED BY <1>3, <1>4, <1>5, <1>9 DEF f

\* The chunks part the tickers of the keys.
LEMMA ChunksOf ==
  ASSUME NEW keys, IsFiniteSet(keys)
  PROVE  /\ Chunks(keys) \in Seq(Seq(TickersOf(keys)))
         /\ \A i, j \in DOMAIN Chunks(keys) :
              i # j => ToSet(Chunks(keys)[i]) \cap ToSet(Chunks(keys)[j]) = {}
         /\ \A t \in TickersOf(keys) : \E i \in DOMAIN Chunks(keys) : t \in ToSet(Chunks(keys)[i])
<1> DEFINE T == TickersOf(keys)
           s == SetToSeq(T)
           M == MaxPageSize
           n == (Len(s) + M - 1) \div M
           c == Chunks(keys)
<1>1. M \in Nat \ {0} BY BoundsAssumption
<1>2. IsFiniteSet(T)
  <2> DEFINE f == [key \in keys |-> key[1]]
  <2>1. f \in Surjection(keys, T) BY DEF Surjection, TickersOf
  <2> HIDE DEF f, T
  <2> QED BY <2>1, FS_Surjection
<1>3. /\ s \in Seq(T) /\ Len(s) \in Nat /\ DOMAIN s = 1 .. Len(s) /\ IsInjective(s) /\ ToSet(s) = T
  <2> HIDE DEF T
  <2> QED BY <1>2, SetToSeqOf
<1>4. Len(s) \in Nat BY <1>3
<1>5. n \in Nat /\ Len(s) <= n * M
  <2> DEFINE l == Len(s)
  <2>1. l \in Nat BY <1>4
  <2> HIDE DEF l, M
  <2>2. (l + M - 1) \div M \in Nat
    <3>1. l + M - 1 \in Nat BY <2>1, <1>1
    <3> DEFINE a == l + M - 1
    <3> HIDE DEF a
    <3>2. a \in Nat BY <3>1 DEF a
    <3>3. a \div M \in Nat BY <3>2, <1>1
    <3> QED BY <3>3 DEF a
  <2>3. l <= ((l + M - 1) \div M) * M BY <2>1, <2>2, <1>1, Counting
  <2> QED BY <2>2, <2>3 DEF l
<1>6. c = [i \in 1 .. n |-> Taken(s, (i - 1) * M, i * M)]
  <2>1. {key[1] : key \in keys} = T BY DEF TickersOf
  <2> QED BY <2>1 DEF Chunks, Taken
<1> HIDE DEF T, s, M, n, c
<1>7. ASSUME NEW i \in 1 .. n
      PROVE  (i - 1) * M \in Nat /\ i * M \in Nat /\ (i - 1) * M < i * M
  <2>1. i - 1 \in Nat /\ i \in Nat BY <1>5
  <2>2. (i - 1) * M \in Nat /\ i * M \in Nat BY <2>1, <1>1
  <2>3. i * M = (i - 1) * M + M BY <2>1, <1>1
  <2> QED BY <2>2, <2>3, <1>1
<1>8. ASSUME NEW i \in 1 .. n
      PROVE  /\ c[i] \in Seq(T)
             /\ \A t \in ToSet(c[i]) : \E p \in DOMAIN s : s[p] = t /\ (i - 1) * M < p /\ p <= i * M
             /\ \A p \in DOMAIN s : (i - 1) * M < p /\ p <= i * M => s[p] \in ToSet(c[i])
  <2> DEFINE a == (i - 1) * M
             b == i * M
  <2>1. a \in Nat /\ b \in Nat /\ a < b BY <1>7
  <2>2. c[i] = Taken(s, a, b) BY <1>6
  <2> HIDE DEF a, b
  <2>3. /\ c[i] \in Seq(T)
        /\ \A j \in 1 .. Len(c[i]) : c[i][j] = s[a + j] /\ a + j \in DOMAIN s /\ a + j <= b
        /\ \A p \in DOMAIN s : a < p /\ p <= b => s[p] \in ToSet(c[i])
    BY <2>1, <2>2, <1>3, TakenOf
  <2>4. DOMAIN c[i] = 1 .. Len(c[i]) BY <2>3, LenProperties
  <2>5. ASSUME NEW t \in ToSet(c[i]) PROVE \E p \in DOMAIN s : s[p] = t /\ a < p /\ p <= b
    <3>1. PICK j \in 1 .. Len(c[i]) : c[i][j] = t BY <2>4 DEF ToSet
    <3>2. a + j \in DOMAIN s /\ s[a + j] = t /\ a + j <= b BY <3>1, <2>3
    <3>3. a < a + j BY <2>1
    <3> QED BY <3>2, <3>3
  <2> QED BY <2>3, <2>5 DEF a, b
<1>9. c \in Seq(Seq(T)) /\ DOMAIN c = 1 .. n
  <2>1. c \in [1 .. n -> Seq(T)] BY <1>6, <1>8
  <2> QED BY <2>1, <1>5
<1>10. ASSUME NEW i \in 1 .. n, NEW j \in 1 .. n, i < j
       PROVE  ToSet(c[i]) \cap ToSet(c[j]) = {}
  <2> SUFFICES ASSUME NEW t \in ToSet(c[i]), t \in ToSet(c[j]) PROVE FALSE OBVIOUS
  <2>1. PICK p \in DOMAIN s : s[p] = t /\ p <= i * M BY <1>8
  <2>2. PICK q \in DOMAIN s : s[q] = t /\ (j - 1) * M < q BY <1>8
  <2>3. p = q BY <2>1, <2>2, <1>3 DEF IsInjective
  <2>4. i * M <= (j - 1) * M /\ i * M \in Nat /\ (j - 1) * M \in Nat
    <3>1. i \in Nat /\ j - 1 \in Nat /\ i <= j - 1 BY <1>10, <1>5
    <3>2. M \in Nat BY <1>1
    <3> QED BY <3>1, <3>2, TimesMonotone
  <2>5. p \in Nat BY <1>3
  <2> QED BY <2>1, <2>2, <2>3, <2>4, <2>5
<1>11. \A i, j \in 1 .. n : i # j => ToSet(c[i]) \cap ToSet(c[j]) = {}
  <2> SUFFICES ASSUME NEW i \in 1 .. n, NEW j \in 1 .. n, i # j
               PROVE  ToSet(c[i]) \cap ToSet(c[j]) = {}
    OBVIOUS
  <2>1. i < j \/ j < i BY <1>5
  <2> QED BY <2>1, <1>10
<1>12. ASSUME NEW t \in T PROVE \E i \in 1 .. n : t \in ToSet(c[i])
  <2>1. PICK p \in DOMAIN s : s[p] = t BY <1>3 DEF ToSet
  <2>2. p \in 1 .. Len(s) BY <1>3
  <2>3. p \in Nat /\ 1 <= p /\ p <= Len(s) BY <2>2, <1>4
  <2> DEFINE k == (p - 1) \div M
  <2>4. k \in Nat /\ k * M <= p - 1 /\ p - 1 < k * M + M
    <3> DEFINE a == p - 1
    <3>1. a \in Nat BY <2>3
    <3> HIDE DEF a
    <3>2. a \div M \in Nat /\ M * (a \div M) <= a /\ a < M * (a \div M) + M BY <3>1, <1>1
    <3>3. M * (a \div M) = (a \div M) * M BY <3>2, <1>1
    <3> QED BY <3>2, <3>3 DEF a
  <2> HIDE DEF k
  <2>5. k < n
    <3> SUFFICES ASSUME n <= k PROVE FALSE BY <2>4, <1>5
    <3>1. M \in Nat BY <1>1
    <3>2. n * M <= k * M /\ n * M \in Nat /\ k * M \in Nat BY <3>1, <2>4, <1>5, TimesMonotone
    <3> QED BY <3>2, <2>3, <2>4, <1>4, <1>5
  <2>6. k + 1 \in 1 .. n /\ (k + 1) - 1 = k /\ (k + 1) * M = k * M + M BY <2>4, <2>5, <1>1, <1>5
  <2>7. ((k + 1) - 1) * M < p /\ p <= (k + 1) * M
    <3>1. k * M \in Nat /\ M \in Nat BY <2>4, <1>1
    <3>2. k * M < p /\ p <= k * M + M BY <3>1, <2>3, <2>4
    <3> QED BY <3>2, <2>6
  <2>8. s[p] \in ToSet(c[k + 1]) BY <2>1, <2>6, <2>7, <1>8
  <2> QED BY <2>1, <2>6, <2>8
<1> QED BY <1>9, <1>11, <1>12 DEF c, T

\* A ticker whose chunk is done has all its records in what was seen, one whose chunk is
\* to come none, and one of the current chunk those before the current page.
LookupInv ==
  call.kind = "lookup" =>
    /\ chunks \in Seq(Seq(TickersOf(call.keys)))
    /\ \A i, j \in DOMAIN chunks : i # j => ToSet(chunks[i]) \cap ToSet(chunks[j]) = {}
    /\ added + dropped = 0 =>
         \A t \in TickersOf(call.keys) :
           /\ (\A i \in DOMAIN chunks : t \notin ToSet(chunks[i])) => OfT(t, out) = OfT(t, first)
           /\ \A i \in DOMAIN chunks :
                t \in ToSet(chunks[i]) =>
                  OfT(t, out) = IF i = 1
                                THEN OfT(t, Prefix(ChunkView(first, chunks[1]), page * MaxPageSize))
                                ELSE << >>
    /\ status = "done" => LookupResolves

\* A page of a listing that did not change moves the tickers of its chunk on, and the last
\* one completes them.
LEMMA LookupPageStep ==
  ASSUME Shape, LookupInv, LookupPage, added + dropped = 0, NEW t \in TickersOf(call.keys)
  PROVE  /\ (\A i \in DOMAIN chunks' : t \notin ToSet(chunks'[i])) => OfT(t, out') = OfT(t, first)
         /\ \A i \in DOMAIN chunks' :
              t \in ToSet(chunks'[i]) =>
                OfT(t, out') = IF i = 1
                               THEN OfT(t, Prefix(ChunkView(first, chunks'[1]), page' * MaxPageSize))
                               ELSE << >>
<1> DEFINE C == Seq(TickersOf(call.keys))
           chunk == chunks[1]
           V == ChunkView(first, chunk)
           n == page * MaxPageSize
           m == (page + 1) * MaxPageSize
           new == Page(View(listing), MaxPageSize)
<1>1. /\ chunks \in Seq(C) /\ chunks # << >> /\ call.kind = "lookup"
      /\ \A i, j \in DOMAIN chunks : i # j => ToSet(chunks[i]) \cap ToSet(chunks[j]) = {}
  BY DEF LookupInv, LookupPage
<1>2. /\ (\A i \in DOMAIN chunks : t \notin ToSet(chunks[i])) => OfT(t, out) = OfT(t, first)
      /\ \A i \in DOMAIN chunks :
           t \in ToSet(chunks[i]) =>
             OfT(t, out) = IF i = 1 THEN OfT(t, Prefix(V, n)) ELSE << >>
  BY <1>1 DEF LookupInv
<1>3. /\ first \in Seq(Known) /\ out \in Seq(Known) /\ listing = first
  BY ListingsKnown DEF Shape, ListingInv
<1>4. MaxPageSize \in Nat \ {0} /\ MaxPageSize \in Int /\ 1 <= MaxPageSize /\ page \in Nat
  BY BoundsAssumption DEF Shape, CallerInv
<1>5. Len(chunks) \in Nat \ {0} /\ DOMAIN chunks = 1 .. Len(chunks) /\ Head(chunks) = chunk
  <2> HIDE DEF C
  <2> QED BY <1>1, LenProperties, EmptySeq
<1>6. 1 \in DOMAIN chunks BY <1>5
<1>7. View(listing) = V
  <2>1. View(listing) = Among(listing, Wanted(listing, ToSet(Head(chunks))))
    BY <1>1 DEF View
  <2>2. ToSet(listing) \subseteq Known BY <1>3, ToSetOf
  <2>3. \A r \in ToSet(listing) : r \in Wanted(listing, ToSet(chunk)) <=> r \in OfTickers(ToSet(chunk))
    BY <2>2 DEF Wanted, OfTickers
  <2> HIDE DEF chunk
  <2>4. Among(listing, Wanted(listing, ToSet(chunk))) = Among(listing, OfTickers(ToSet(chunk)))
    BY <2>3, <1>3, AmongSame
  <2> QED BY <2>1, <2>4, <1>3, <1>5 DEF ChunkView
<1>8. /\ V \in Seq(Known)
      /\ \A r \in ToSet(V) : r.ticker \in ToSet(chunk)
      /\ t \in ToSet(chunk) => OfT(t, V) = OfT(t, first)
  <2> HIDE DEF chunk
  <2> QED BY <1>3, ChunkViewOf
<1>9. /\ n \in Nat /\ m \in Nat /\ m = n + MaxPageSize /\ n < m
      /\ new = Taken(V, n, m) /\ new \in Seq(Known)
      /\ ToSet(new) \subseteq ToSet(V)
  <2> HIDE DEF V
  <2> QED BY <1>4, <1>7, PageTaken, PageType
<1> DEFINE last == Len(new) < MaxPageSize
<1>10. /\ out' = out \o new /\ page' = IF last THEN 0 ELSE page + 1
       /\ chunks' = IF last THEN Tail(chunks) ELSE chunks
  BY DEF LookupPage
<1>11. OfT(t, out') = OfT(t, out) \o OfT(t, new)
  <2> HIDE DEF new, last
  <2>1. OfT(t, out \o new) = OfT(t, out) \o OfT(t, new) BY <1>3, <1>9, OfTConcat, ZenonT(60)
  <2> QED BY <2>1, <1>10
<1>12. t \notin ToSet(chunk) => OfT(t, out') = OfT(t, out)
  <2> SUFFICES ASSUME t \notin ToSet(chunk) PROVE OfT(t, out') = OfT(t, out) OBVIOUS
  <2> HIDE DEF new, V, chunk, last
  <2>1. \A r \in ToSet(new) : r.ticker # t BY <1>8, <1>9
  <2>2. OfT(t, new) = << >> BY <2>1, <1>9, OfTNone
  <2>3. OfT(t, out) \in Seq(Known) BY <1>3, OfTType
  <2> QED BY <2>2, <2>3, <1>11, ConcatEmptySeq
<1>13. t \in ToSet(chunk) => OfT(t, out') = OfT(t, Prefix(V, m))
  <2> SUFFICES ASSUME t \in ToSet(chunk) PROVE OfT(t, out') = OfT(t, Prefix(V, m)) OBVIOUS
  <2>1. OfT(t, out) = OfT(t, Prefix(V, n)) BY <1>2, <1>6
  <2> HIDE DEF new, V, chunk, n, m, last
  <2>2. Prefix(V, n) \in Seq(Known) BY <1>8, <1>9, PrefixOf
  <2>3. OfT(t, Prefix(V, n) \o new) = OfT(t, Prefix(V, n)) \o OfT(t, new) BY <2>2, <1>9, OfTConcat
  <2>4. Prefix(V, n) \o new = Prefix(V, m) BY <1>8, <1>9, PrefixTaken
  <2> QED BY <2>1, <2>3, <2>4, <1>11
<1>14. last => Len(V) <= m
  <2> HIDE DEF V, n, m
  <2>1. Len(V) \in Nat BY <1>8, LenProperties
  <2>2. Len(Taken(V, n, m)) = IF Len(V) <= n THEN 0 ELSE Least(m, Len(V)) - n
    BY <1>8, <1>9, TakenOf
  <2> DEFINE l == Len(V)
             k == Len(new)
  <2>3. l \in Nat /\ k = IF l <= n THEN 0 ELSE Least(m, l) - n BY <2>1, <2>2, <1>9
  <2>4. n \in Nat /\ m \in Nat /\ m = n + MaxPageSize BY <1>9
  <2> HIDE DEF l, k, new
  <2>5. k < MaxPageSize => l <= m BY <2>3, <2>4, <1>4 DEF Least
  <2> QED BY <2>5 DEF l, k
<1>15. CASE ~last
  <2>1. chunks' = chunks /\ page' = page + 1 BY <1>10, <1>15
  <2>2. page' * MaxPageSize = m BY <2>1
  <2> HIDE DEF V, m, n, new, last
  <2>3. (\A i \in DOMAIN chunks : t \notin ToSet(chunks[i])) => OfT(t, out') = OfT(t, first)
    BY <1>2, <1>6, <1>12
  <2>4. ASSUME NEW i \in DOMAIN chunks, t \in ToSet(chunks[i])
        PROVE  OfT(t, out') = IF i = 1 THEN OfT(t, Prefix(V, m)) ELSE << >>
    <3>1. CASE i = 1 BY <3>1, <2>4, <1>13
    <3>2. CASE i # 1
      <4>1. t \notin ToSet(chunk) BY <3>2, <2>4, <1>1, <1>6
      <4> QED BY <4>1, <3>2, <2>4, <1>2, <1>12
    <3> QED BY <3>1, <3>2
  <2> QED BY <2>1, <2>2, <2>3, <2>4 DEF V
<1>16. CASE last
  <2>1. chunks' = Tail(chunks) /\ page' = 0 BY <1>10, <1>16
  <2>2. /\ DOMAIN chunks' = 1 .. Len(chunks) - 1
        /\ \A i \in 1 .. Len(chunks) - 1 : chunks'[i] = chunks[i + 1]
    <3> HIDE DEF C
    <3>1. /\ Tail(chunks) \in Seq(C) /\ Len(Tail(chunks)) = Len(chunks) - 1
          /\ \A i \in 1 .. Len(Tail(chunks)) : Tail(chunks)[i] = chunks[i + 1]
      BY <1>1, HeadTailProperties
    <3>2. DOMAIN Tail(chunks) = 1 .. Len(Tail(chunks)) BY <3>1, LenProperties
    <3> QED BY <3>1, <3>2, <2>1
  <2>3. t \in ToSet(chunk) => OfT(t, out') = OfT(t, first)
    <3>1. Len(V) <= m BY <1>14, <1>16
    <3> HIDE DEF V, m, chunk, last
    <3>2. Prefix(V, m) = V BY <3>1, <1>8, <1>9, PrefixOf
    <3> QED BY <3>2, <1>8, <1>13
  <2> HIDE DEF V, m, n, new, last
  <2>4. ASSUME NEW i \in DOMAIN chunks'
        PROVE  i + 1 \in DOMAIN chunks /\ i + 1 # 1 /\ chunks'[i] = chunks[i + 1]
    <3>1. i \in 1 .. Len(chunks) - 1 BY <2>2
    <3>2. Len(chunks) \in Nat BY <1>5
    <3>3. i + 1 \in 1 .. Len(chunks) /\ i + 1 # 1 BY <3>1, <3>2
    <3> QED BY <3>1, <3>3, <2>2, <1>5
  <2>5. ASSUME \A i \in DOMAIN chunks' : t \notin ToSet(chunks'[i]) PROVE OfT(t, out') = OfT(t, first)
    <3>1. CASE t \in ToSet(chunk) BY <3>1, <2>3
    <3>2. CASE t \notin ToSet(chunk)
      <4>1. ASSUME NEW i \in DOMAIN chunks PROVE t \notin ToSet(chunks[i])
        <5>1. CASE i = 1 BY <5>1, <3>2
        <5>2. CASE i # 1
          <6>1. i \in 1 .. Len(chunks) /\ Len(chunks) \in Nat BY <1>5
          <6> DEFINE l == Len(chunks)
          <6>2. i \in 1 .. l /\ l \in Nat BY <6>1
          <6> HIDE DEF l
          <6>3. i - 1 \in 1 .. l - 1 /\ (i - 1) + 1 = i BY <6>2, <5>2
          <6>4. i - 1 \in DOMAIN chunks' /\ chunks'[i - 1] = chunks[i] BY <6>3, <2>2 DEF l
          <6> QED BY <6>4, <2>5
        <5> QED BY <5>1, <5>2
      <4> QED BY <4>1, <3>2, <1>2, <1>12
    <3> QED BY <3>1, <3>2
  <2>6. ASSUME NEW i \in DOMAIN chunks', t \in ToSet(chunks'[i])
        PROVE  OfT(t, out') = IF i = 1
                              THEN OfT(t, Prefix(ChunkView(first, chunks'[1]), page' * MaxPageSize))
                              ELSE << >>
    <3>1. i + 1 \in DOMAIN chunks /\ i + 1 # 1 /\ t \in ToSet(chunks[i + 1]) BY <2>4, <2>6
    <3>2. t \notin ToSet(chunk) BY <3>1, <1>1, <1>6
    <3>3. OfT(t, out') = << >> BY <3>1, <3>2, <1>2, <1>12
    <3>4. OfT(t, Prefix(ChunkView(first, chunks'[1]), page' * MaxPageSize)) = << >>
      <4> DEFINE X == ChunkView(first, chunks'[1])
      <4>1. X \in Seq(Known) BY <1>3, ChunkViewOf
      <4>2. page' * MaxPageSize = 0 BY <2>1, <1>4
      <4> HIDE DEF X
      <4>3. Prefix(X, 0) = << >> BY <4>1, PrefixOf
      <4>4. << >> \in Seq(Known) /\ ToSet(<< >>) = {} BY EmptySeq DEF ToSet
      <4>5. OfT(t, << >>) = << >> BY <4>4, OfTNone
      <4> QED BY <4>2, <4>3, <4>5 DEF X
    <3> QED BY <3>3, <3>4
  <2> QED BY <2>5, <2>6
<1> QED BY <1>15, <1>16

\* When no chunk is left, every ticker is complete, and so is what was found.
LEMMA LookupReturned ==
  ASSUME Shape, LookupInv, LookupReturns
  PROVE  LookupResolves'
<1> SUFFICES /\ \A key \in DOMAIN found' : found'[key].ticker = key[1]
             /\ added + dropped = 0 => found' = Resolved(call.keys, first)
  BY DEF LookupReturns, LookupResolves, server
<1>1. /\ call.kind = "lookup" /\ chunks = << >> /\ found' = Resolved(call.keys, out)
      /\ out \in Seq(Known) /\ first \in Seq(Known)
  BY ListingsKnown DEF LookupReturns, Shape, ListingInv
<1>2. \A key \in DOMAIN found' : found'[key].ticker = key[1] BY <1>1, ResolvedNames
<1>3. ASSUME added + dropped = 0 PROVE found' = Resolved(call.keys, first)
  <2>1. DOMAIN chunks = {} BY <1>1
  <2>2. \A t \in TickersOf(call.keys) : OfT(t, out) = OfT(t, first)
    BY <1>1, <1>3, <2>1 DEF LookupInv
  <2>3. \A key \in call.keys : OfT(key[1], out) = OfT(key[1], first) BY <2>2 DEF TickersOf
  <2>4. Resolved(call.keys, out) = Resolved(call.keys, first) BY <2>3, <1>1, ResolvedSame
  <2> QED BY <2>4, <1>1
<1> QED BY <1>2, <1>3

\* What is left after a chunk is still parted.
LEMMA TailParts ==
  ASSUME NEW C, NEW c \in Seq(C), c # << >>,
         \A i, j \in DOMAIN c : i # j => ToSet(c[i]) \cap ToSet(c[j]) = {}
  PROVE  /\ Tail(c) \in Seq(C)
         /\ \A i, j \in DOMAIN Tail(c) : i # j => ToSet(Tail(c)[i]) \cap ToSet(Tail(c)[j]) = {}
<1>1. /\ Tail(c) \in Seq(C) /\ Len(Tail(c)) = Len(c) - 1
      /\ \A i \in 1 .. Len(Tail(c)) : Tail(c)[i] = c[i + 1]
  BY HeadTailProperties
<1>2. DOMAIN Tail(c) = 1 .. Len(c) - 1 /\ DOMAIN c = 1 .. Len(c) BY <1>1, LenProperties
<1>3. Len(c) \in Nat BY LenProperties
<1>4. \A i \in 1 .. Len(c) - 1 : i \in Int /\ i + 1 \in 1 .. Len(c) BY <1>3
<1>5. ASSUME NEW i \in DOMAIN Tail(c), NEW j \in DOMAIN Tail(c), i # j
      PROVE  ToSet(Tail(c)[i]) \cap ToSet(Tail(c)[j]) = {}
  <2>1. /\ i \in Int /\ j \in Int /\ i + 1 \in DOMAIN c /\ j + 1 \in DOMAIN c
        /\ Tail(c)[i] = c[i + 1] /\ Tail(c)[j] = c[j + 1]
    BY <1>1, <1>2, <1>4
  <2>2. i + 1 # j + 1 BY <2>1, <1>5
  <2> QED BY <2>1, <2>2
<1> QED BY <1>1, <1>5

\* Every action keeps the progress of a lookup.
LEMMA LookupStep ==
  ASSUME Shape, LookupInv, ServicesNext, call' = call
  PROVE  LookupInv'
<1> SUFFICES ASSUME call.kind = "lookup" PROVE LookupInv' BY DEF LookupInv
<1>1. /\ chunks \in Seq(Seq(TickersOf(call.keys)))
      /\ \A i, j \in DOMAIN chunks : i # j => ToSet(chunks[i]) \cap ToSet(chunks[j]) = {}
  BY DEF LookupInv
<1>2. added \in Nat /\ dropped \in Nat BY ListingsKnown, LenProperties DEF Shape, ListingInv
<1>3. CASE ServerAdds \/ ServerDrops
  <2>1. /\ chunks' = chunks /\ status' = "running"
        /\ \/ added' = added + 1 /\ dropped' = dropped
           \/ added' = added /\ dropped' = dropped + 1
    BY <1>3 DEF ServerAdds, ServerDrops, caller
  <2>2. added' + dropped' # 0 BY <2>1, <1>2
  <2> QED BY <2>1, <2>2, <1>1 DEF LookupInv
<1>4. CASE LookupPage
  <2>1. /\ chunks' \in {chunks, Tail(chunks)} /\ chunks # << >> /\ status' = "running"
        /\ added' = added /\ dropped' = dropped /\ first' = first
    BY <1>4 DEF LookupPage, server
  <2>2. /\ chunks' \in Seq(Seq(TickersOf(call.keys)))
        /\ \A i, j \in DOMAIN chunks' : i # j => ToSet(chunks'[i]) \cap ToSet(chunks'[j]) = {}
    <3> DEFINE C == Seq(TickersOf(call.keys))
    <3>1. chunks \in Seq(C) BY <1>1
    <3> HIDE DEF C
    <3>2. /\ Tail(chunks) \in Seq(C)
          /\ \A i, j \in DOMAIN Tail(chunks) :
               i # j => ToSet(Tail(chunks)[i]) \cap ToSet(Tail(chunks)[j]) = {}
      BY <3>1, <2>1, <1>1, TailParts
    <3>3. CASE chunks' = chunks BY <3>1, <3>3, <1>1 DEF C
    <3>4. CASE chunks' = Tail(chunks) BY <3>2, <3>4 DEF C
    <3> QED BY <3>3, <3>4, <2>1
  <2>3. ASSUME added' + dropped' = 0, NEW t \in TickersOf(call.keys)
        PROVE  /\ (\A i \in DOMAIN chunks' : t \notin ToSet(chunks'[i])) => OfT(t, out') = OfT(t, first')
               /\ \A i \in DOMAIN chunks' :
                    t \in ToSet(chunks'[i]) =>
                      OfT(t, out') = IF i = 1
                                     THEN OfT(t, Prefix(ChunkView(first', chunks'[1]), page' * MaxPageSize))
                                     ELSE << >>
    <3>1. added + dropped = 0 BY <2>1, <2>3
    <3> QED BY <3>1, <2>1, <1>4, LookupPageStep
  <2> QED BY <2>1, <2>2, <2>3 DEF LookupInv
<1>5. CASE LookupReturns
  <2>1. UNCHANGED <<chunks, out, page, added, dropped, first>> BY <1>5 DEF LookupReturns, server
  <2>2. LookupResolves' BY <1>5, LookupReturned
  <2> QED BY <2>1, <2>2 DEF LookupInv
<1> QED
  BY <1>3, <1>4, <1>5
  DEF ServicesNext, Fetch, RefusePage, NextPage, NextOperations, NextByType, RefuseOrder, Submit, GiveUp


----------------------------------------------------------------------------
(* The invariant holds at the start, and is kept.                          *)

\* The inductive invariant of the services.
IInv == Shape /\ PagedInv /\ ByTypeInv /\ LookupInv

\* The call has seen nothing yet.
LEMMA InitShape ==
  ASSUME ServicesInit
  PROVE  Shape
<1>1. /\ call \in Calls /\ listing \in Listings /\ first = listing /\ status = "running"
      /\ page = 0 /\ out = << >> /\ added = 0 /\ dropped = 0 /\ attempts = 0
  BY DEF ServicesInit
<1>2. /\ listing \in Seq(Known) /\ IsInjective(listing) /\ Len(NewRecords) \in Nat
  BY <1>1, ListingsKnown, LenProperties
<1>3. out \in Seq(Known) /\ ToSet(out) = {} BY <1>1, EmptySeq DEF ToSet
<1>4. added \in 0 .. Len(NewRecords) /\ dropped \in Nat /\ added + dropped <= MaxChanges
  BY <1>1, <1>2, BoundsAssumption
<1>5. ListingInv BY <1>1, <1>2, <1>3, <1>4 DEF ListingInv, EverListed
<1>6. CallerInv BY <1>1, BoundsAssumption DEF CallerInv
<1> QED BY <1>5, <1>6 DEF Shape

\* An iteration begins before its first record.
LEMMA InitPaged ==
  ASSUME ServicesInit, Shape
  PROVE  PagedInv
<1> SUFFICES ASSUME Paged PROVE PagedInv BY DEF PagedInv
<1> DEFINE V == PagedView(listing, call.tickers, call.newest_first)
<1>1. page = 0 /\ out = << >> /\ status = "running" BY DEF ServicesInit
<1>2. call.size \in Int /\ call.newest_first \in BOOLEAN
  BY CallsAssumption DEF Paged, Shape, CallerInv
<1>3. page * call.size = 0 BY <1>1, <1>2
<1>4. listing \in Seq(Known) BY DEF Shape, ListingInv
<1>5. \A i \in DOMAIN V : i \in Int /\ 1 <= i
  <2>1. DOMAIN V = 1 .. Len(V) /\ Len(V) \in Nat BY <1>2, <1>4, PagedViewType
  <2> QED BY <2>1
<1>6. ToSet(out) = {} /\ IsInjective(out) BY <1>1 DEF ToSet, IsInjective
<1> HIDE DEF V
<1>7. NoneTwice(V, 0, out) /\ NoneMissed(V, 0, out, ToSet(first))
  BY <1>5, <1>6 DEF NoneTwice, NoneMissed
<1> QED BY <1>1, <1>3, <1>7 DEF PagedInv, V

\* Every ticker is in a chunk to come.
LEMMA InitLookup ==
  ASSUME ServicesInit, Shape
  PROVE  LookupInv
<1> SUFFICES ASSUME call.kind = "lookup" PROVE LookupInv BY DEF LookupInv
<1>1. page = 0 /\ out = << >> /\ status = "running" /\ chunks = Chunks(call.keys) BY DEF ServicesInit
<1>2. IsFiniteSet(call.keys) BY CallsAssumption DEF Shape, CallerInv
<1>3. /\ chunks \in Seq(Seq(TickersOf(call.keys)))
      /\ \A i, j \in DOMAIN chunks : i # j => ToSet(chunks[i]) \cap ToSet(chunks[j]) = {}
      /\ \A t \in TickersOf(call.keys) : \E i \in DOMAIN chunks : t \in ToSet(chunks[i])
  BY <1>1, <1>2, ChunksOf
<1>4. \A t : OfT(t, << >>) = << >>
  <2>1. << >> \in Seq(Known) /\ ToSet(<< >>) = {} BY EmptySeq DEF ToSet
  <2> QED BY <2>1, OfTNone
<1>5. ASSUME NEW c PROVE Prefix(ChunkView(first, c), page * MaxPageSize) = << >>
  <2>1. first \in Seq(Known) BY ListingsKnown DEF Shape, ListingInv
  <2> DEFINE X == ChunkView(first, c)
  <2>2. X \in Seq(Known) BY <2>1, ChunkViewOf
  <2>3. page * MaxPageSize = 0 BY <1>1, BoundsAssumption
  <2> HIDE DEF X
  <2>4. Prefix(X, 0) = << >> BY <2>2, PrefixOf
  <2> QED BY <2>3, <2>4 DEF X
<1> QED BY <1>1, <1>3, <1>4, <1>5 DEF LookupInv

\* The invariant holds at the start.
LEMMA InitHolds ==
  ASSUME ServicesInit
  PROVE  IInv
<1>1. Shape BY InitShape
<1>2. ByTypeInv BY DEF ServicesInit, ByTypeInv, ToSet
<1> QED BY <1>1, <1>2, InitPaged, InitLookup DEF IInv

\* Every step keeps it.
LEMMA StepKeeps ==
  ASSUME IInv, [ServicesNext]_servicesVars
  PROVE  IInv'
<1>1. CASE ServicesNext
  <2>1. Shape BY DEF IInv
  <2>2. call' = call
    <3>1. CASE Fetch BY <2>1, <3>1, FetchStep
    <3>2. CASE ServerAdds \/ ServerDrops BY <3>2 DEF ServerAdds, ServerDrops, caller
    <3> QED BY <1>1, <3>1, <3>2 DEF ServicesNext
  <2>3. ListingInv' /\ CallerInv' BY <1>1, <2>1, ListingStep, CallerStep
  <2>4. PagedInv' BY <1>1, <2>1, <2>2, <2>3, PagedStep DEF IInv
  <2>5. ByTypeInv' BY <1>1, <2>1, <2>2, ByTypeStep DEF IInv
  <2>6. LookupInv' BY <1>1, <2>1, <2>2, LookupStep DEF IInv
  <2> QED BY <2>3, <2>4, <2>5, <2>6 DEF IInv, Shape
<1>2. CASE UNCHANGED servicesVars
  <2>1. UNCHANGED <<call, status, page, chunks, out, found, attempts,
                    listing, first, added, dropped>>
    BY <1>2 DEF servicesVars, caller, server
  <2>2. Shape'
    BY <2>1 DEF IInv, Shape, ListingInv, CallerInv, EverListed, CheckPage
  <2>3. PagedInv' BY <2>1 DEF IInv, PagedInv, Paged
  <2>4. ByTypeInv' BY <2>1 DEF IInv, ByTypeInv, EverListed
  <2>5. LookupInv' BY <2>1 DEF IInv, LookupInv, LookupResolves
  <2> QED BY <2>2, <2>3, <2>4, <2>5 DEF IInv
<1> QED BY <1>1, <1>2

\* What holds of every call in every state: its place in the listing, and the classes and
\* the tickers of what it saw.
THEOREM Invariance == ServicesSpec => []IInv
<1>1. ServicesInit => IInv BY InitHolds
<1>2. IInv /\ [ServicesNext]_servicesVars => IInv' BY StepKeeps
<1> QED BY <1>1, <1>2, PTL DEF ServicesSpec

----------------------------------------------------------------------------
(* What follows from it.                                                   *)

\* A sequence without repetition has as many records as it is long.
LEMMA CountedOnce ==
  ASSUME NEW S, NEW s \in Seq(S), IsInjective(s)
  PROVE  Cardinality(ToSet(s)) = Len(s)
<1>1. Len(s) \in Nat /\ DOMAIN s = 1 .. Len(s) BY LenProperties
<1> DEFINE n == Len(s)
<1>2. n \in Nat /\ DOMAIN s = 1 .. n BY <1>1
<1>3. s \in Surjection(1 .. n, ToSet(s)) /\ s \in Injection(1 .. n, ToSet(s))
  <2>1. s \in [1 .. n -> ToSet(s)] BY <1>2 DEF ToSet
  <2> QED BY <2>1, <1>2 DEF Surjection, Injection, ToSet
<1> HIDE DEF n
<1>4. ExistsBijection(1 .. n, ToSet(s)) BY <1>3 DEF ExistsBijection, Bijection
<1>5. IsFiniteSet(ToSet(s)) /\ Cardinality(ToSet(s)) = n BY <1>2, <1>4, FS_CountingElements, FS_NatBijection
<1> QED BY <1>5 DEF n

\* The types.
LEMMA TypesFollow ==
  ASSUME IInv
  PROVE  ServicesTypeOK
<1>1. ListingInv /\ CallerInv BY DEF IInv, Shape
<1>2. added \in Nat /\ dropped \in Nat BY <1>1, ListingsKnown, LenProperties DEF ListingInv
<1>3. added + dropped \in 0 .. MaxChanges BY <1>1, <1>2, BoundsAssumption DEF ListingInv
<1>4. EverListed \subseteq ToSet(first) \cup ToSet(NewRecords) BY <1>1, EverListedOf
<1> QED BY <1>1, <1>3, <1>4 DEF ServicesTypeOK, ListingInv, CallerInv

\* Behind the last place nothing of the start is left unseen.
LEMMA EachOnceFollows ==
  ASSUME IInv
  PROVE  EachOnce
<1> SUFFICES ASSUME Paged PROVE EachOnce BY DEF EachOnce
<1> DEFINE V == PagedView(listing, call.tickers, call.newest_first)
           n == page * call.size
<1>1. /\ ~call.newest_first \/ added = 0 => NoneTwice(V, n, out)
      /\ dropped = 0 => NoneMissed(V, n, out, ToSet(first))
      /\ status = "done" => Len(V) <= n
  BY DEF IInv, PagedInv
<1>2. /\ first \in Seq(Known) /\ listing \in Seq(Known) /\ out \in Seq(Known) /\ page \in Nat
      /\ dropped = 0 => ToSet(first) \subseteq ToSet(listing)
  BY ListingsKnown DEF IInv, Shape, ListingInv, CallerInv
<1>3. call.size \in Int /\ call.newest_first \in BOOLEAN
  BY CallsAssumption DEF Paged, IInv, Shape, CallerInv
<1>4. n \in Int BY <1>2, <1>3
<1>5. Len(V) \in Nat /\ DOMAIN V = 1 .. Len(V) /\ ToSet(V) = ToSet(listing) \cap Fits(call.tickers)
  BY <1>2, <1>3, PagedViewType
<1>6. ASSUME status = "done", dropped = 0
      PROVE  ToSet(Matching(first, call.tickers)) \subseteq ToSet(out)
  <2>1. Matching(first, call.tickers) = Among(first, Fits(call.tickers)) BY <1>2, MatchingFits
  <2>2. ToSet(Matching(first, call.tickers)) = ToSet(first) \cap Fits(call.tickers)
    BY <2>1, <1>2, AmongType
  <2> SUFFICES ASSUME NEW r \in ToSet(first), r \in Fits(call.tickers) PROVE r \in ToSet(out)
    BY <2>2
  <2>3. r \in ToSet(V) BY <1>2, <1>5, <1>6
  <2> DEFINE l == Len(V)
  <2>4. l \in Nat /\ l <= n /\ DOMAIN V = 1 .. l BY <1>1, <1>5, <1>6
  <2>5. NoneMissed(V, n, out, ToSet(first)) BY <1>1, <1>6
  <2> HIDE DEF V, n, l
  <2>6. PICK i \in DOMAIN V : r = V[i] BY <2>3 DEF ToSet
  <2>7. i \in 1 .. l BY <2>4, <2>6
  <2>8. i <= n BY <2>4, <2>7, <1>4
  <2> QED BY <2>5, <2>6, <2>8 DEF NoneMissed
<1>7. ASSUME ~call.newest_first \/ added = 0
      PROVE  Cardinality(ToSet(out)) = Len(out)
  <2>1. IsInjective(out) BY <1>1, <1>7 DEF NoneTwice
  <2> QED BY <2>1, <1>2, CountedOnce
<1> QED BY <1>6, <1>7 DEF EachOnce

\* The classes, with the records of the start and those added.
LEMMA TypedFollows ==
  ASSUME IInv
  PROVE  TypedAsPromised
<1>1. EverListed \subseteq ToSet(first) \cup ToSet(NewRecords) BY EverListedOf DEF IInv, Shape
<1> QED BY <1>1 DEF IInv, ByTypeInv, TypedAsPromised

\* ServicesTypeOK is an invariant: what a call yields was listed at some time.
THEOREM ServicesTypeCorrect == ServicesSpec => []ServicesTypeOK
<1>1. IInv => ServicesTypeOK BY TypesFollow
<1> QED BY <1>1, Invariance, PTL

\* An iteration that ends has yielded every record of its start once, for every listing, page
\* size and number of changes.
THEOREM EachOnceHolds == ServicesSpec => []EachOnce
<1>1. IInv => EachOnce BY EachOnceFollows
<1> QED BY <1>1, Invariance, PTL

\* get_by_type and iter_by_type yield what their overloads promise, and refuse no listing of
\* the right type.
THEOREM TypedAsPromisedHolds == ServicesSpec => []TypedAsPromised
<1>1. IInv => TypedAsPromised BY TypedFollows
<1> QED BY <1>1, Invariance, PTL

\* lookup finds what the whole listing says, over any number of chunks and pages.
THEOREM LookupResolvesHolds == ServicesSpec => []LookupResolves
<1>1. IInv => LookupResolves BY DEF IInv, LookupInv, LookupResolves
<1> QED BY <1>1, Invariance, PTL
=============================================================================
