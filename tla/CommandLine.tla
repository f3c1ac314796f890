----------------------------- MODULE CommandLine -----------------------------
(***************************************************************************)
(* cli/_views.py, cli/_advice.py: what the commands show of the accounts,  *)
(* and what they advise.  Names are numbers in the order of account_key,   *)
(* and so are the ids of tokens; formatting is left out.                   *)
(***************************************************************************)
EXTENDS AccountsFile
LOCAL INSTANCE TLC

CONSTANT ExpiringWithin  \* EXPIRING_WITHIN_SECONDS: a week

ASSUME ExpiringAssumption == ExpiringWithin \in Nat

ExitCode == [OK |-> 0, FAILURE |-> 1, USAGE |-> 2, DEAD_TOKENS |-> 3, INTERRUPTED |-> 130]

----------------------------------------------------------------------------
(* Statuses.                                                               *)

OfReason(reason) ==
  [expired |-> "expired", revoked |-> "revoked", scope_mismatch |-> "scope-mismatch",
   invalid |-> "invalid", unknown |-> "error"][reason]

DeadStatuses == {"expired", "revoked", "scope-mismatch", "invalid"}

\* Offline, by the mark and the expiry.
OfRecord(record, now) ==
  CASE ~ Live(record) -> OfReason(record.dead.reason)
    [] Live(record) /\ Expired(record.token, now) -> "expired"
    [] OTHER -> IF ExpiresIn(record.token, now) < ExpiringWithin THEN "expiring" ELSE "ok"

\* A result of verify is [account, token, reason, error].
OfResult(result) ==
  CASE result.error -> "error"
    [] ~ result.error /\ result.reason = "" -> "ok"
    [] OTHER -> OfReason(result.reason)

----------------------------------------------------------------------------
(* Views: accounts by name, their tokens read before write and by expiry.  *)

\* token_key of a, before that of b.
TokenBefore(a, b) ==
  LET ca == Cardinality(Capabilities(a.scope))
      cb == Cardinality(Capabilities(b.scope))
  IN \/ ca < cb
     \/ ca = cb /\ a.expires_at < b.expires_at
     \/ ca = cb /\ a.expires_at = b.expires_at /\ a.token_id < b.token_id

TokenView(account, record, now) ==
  [account |-> account.name, token |-> record.token, added_at |-> record.added_at,
   status |-> OfRecord(record, now)]

AccountView(account, now) ==
  LET ordered == SortSeq(account.tokens, LAMBDA a, b : TokenBefore(a.token, b.token))
  IN [name |-> account.name, label |-> account.label,
      tokens |-> [i \in DOMAIN ordered |-> TokenView(account, ordered[i], now)]]

AccountViews(accounts, now) ==
  LET ordered == SortSeq(accounts, LAMBDA a, b : a.name < b.name)
  IN [i \in DOMAIN ordered |-> AccountView(ordered[i], now)]

----------------------------------------------------------------------------
(* Advice.                                                                 *)

\* Most pressing first.
AdviceKinds == <<"setup", "add-fresh", "add-soon", "prune", "add-first">>

NoAdvice == [kind |-> "", account |-> 0, dead_tokens |-> 0]

\* What an account with tokens of these statuses needs.
KindOf(statuses) ==
  LET usable == {i \in DOMAIN statuses : statuses[i] \notin DeadStatuses}
  IN CASE statuses = << >> -> "add-first"
       [] statuses # << >> /\ usable = {} -> "add-fresh"
       [] usable # {} /\ \A i \in usable : statuses[i] = "expiring" -> "add-soon"
       [] OTHER -> IF usable # DOMAIN statuses THEN "prune" ELSE ""

DeadIn(statuses) == {i \in DOMAIN statuses : statuses[i] \in DeadStatuses}

\* The most pressing need of any account, and the first that has it; an item
\* is [name, statuses].
Advise(items) ==
  LET needs == {KindOf(items[i].statuses) : i \in DOMAIN items}
      dead == Cardinality(UNION {{i} \X DeadIn(items[i].statuses) : i \in DOMAIN items})
      pressing == SelectSeq(AdviceKinds, LAMBDA kind : kind \in needs)
      first == SelectSeq(items, LAMBDA item : KindOf(item.statuses) = pressing[1])
  IN CASE items = << >> -> [NoAdvice EXCEPT !.kind = "setup"]
       [] items # << >> /\ pressing = << >> -> NoAdvice
       [] OTHER -> [kind |-> pressing[1], account |-> first[1].name, dead_tokens |-> dead]

AdviseStored(accounts, now) ==
  Advise([i \in DOMAIN accounts |->
    [name |-> accounts[i].name,
     statuses |-> [j \in DOMAIN accounts[i].tokens |-> OfRecord(accounts[i].tokens[j], now)]]])

\* A verified token is [view, live].  A good answer leaves the stored status.
Effective(item) == IF item.live = "ok" THEN item.view.status ELSE item.live

AdviseVerified(verified) ==
  LET account(i) == verified[i].view.account
      first == SelectSeq([i \in DOMAIN verified |-> i], LAMBDA i : \A j \in 1 .. i - 1 : account(j) # account(i))
      group(i) == SelectSeq(verified, LAMBDA item : item.view.account = account(i))
  IN Advise([k \in DOMAIN first |->
       [name |-> account(first[k]),
        statuses |-> [j \in DOMAIN group(first[k]) |-> Effective(group(first[k])[j])]]])
=============================================================================
