------------------------------- MODULE Commands -------------------------------
(***************************************************************************)
(* The bacsy command: one command after the other over the accounts, what  *)
(* each reports and the code it exits with.  The interleavings of several  *)
(* processes are those of Accounts; here a command runs by itself, on the  *)
(* document, and may be interrupted or fail to save.                       *)
(***************************************************************************)
EXTENDS CommandLine

CONSTANTS
    Names,        \* account names
    Labels,       \* labels given to an account
    Pasted,       \* what a person pastes: sequences of candidates for a token
    Replies,      \* replies of the token endpoint
    FirstFiles,   \* documents there at first
    Damages,      \* documents there at first that somebody edited and nobody can load
    MaxNow,       \* bound: the clock
    MaxCommands   \* bound: commands run

VARIABLES
    file,      \* the document, Absent when there is no file
    now,       \* the clock
    commands,  \* commands run
    report,    \* what the last command told
    meant      \* history: the accounts the file is meant to hold

vars == <<file, now, commands, report, meant>>

Silent == [command |-> "", exit |-> 0, accounts |-> << >>, tokens |-> << >>, advice |-> NoAdvice, told |-> << >>]
Failed(command, exit) == [Silent EXCEPT !.command = command, !.exit = exit]

Init ==
  /\ \/ file \in FirstFiles /\ meant = Load(file)
     \/ file \in Damages /\ meant = Unreadable
  /\ now = 0 /\ commands = 0
  /\ report = Silent

----------------------------------------------------------------------------
(* The manager's operations on loaded accounts.                            *)

Named(accounts, name) == SelectSeq(accounts, LAMBDA account : account.name = name)
Has(accounts, name) == Named(accounts, name) # << >>
Get(accounts, name) == Head(Named(accounts, name))

Mapped(accounts, Change(_)) == [i \in DOMAIN accounts |-> Change(accounts[i])]
Replaced(accounts, name, account) ==
  Mapped(accounts, LAMBDA other : IF other.name = name THEN account ELSE other)
Kept(account, Wanted(_)) == [account EXCEPT !.tokens = SelectSeq(@, Wanted)]

HasToken(account, id) == \E i \in DOMAIN account.tokens : account.tokens[i].token.token_id = id

\* Mutant of Gone: prune looks at the expiry only.
GoneExpired(record) == Expired(record.token, now)

Gone(record) == Expired(record.token, now) \/ ~ Live(record)

SetStatus(accounts, sid, status) ==
  Mapped(accounts, LAMBDA account : [account EXCEPT !.tokens =
    [i \in DOMAIN @ |-> IF @[i].token.sid = sid THEN [@[i] EXCEPT !.dead = status] ELSE @[i]]])

----------------------------------------------------------------------------
(* A command loads the accounts; its outcome is a report and, when it      *)
(* saves, what it saves.                                                   *)

Tells(accounts, told) == [saves |-> FALSE, accounts |-> accounts, report |-> told]
Saves(accounts, told) == [saves |-> TRUE, accounts |-> accounts, report |-> told]
Refuses(accounts, command) == Tells(accounts, Failed(command, ExitCode.FAILURE))

Shows(command, accounts) ==
  [Silent EXCEPT !.command = command, !.accounts = AccountViews(accounts, now)]

Loaded == IF Load(file).ok THEN {Load(file).accounts} ELSE {}

\* Commands that look at the accounts again once they have saved.
LooksAgain == {"add", "rename", "prune"}

\* run_command: a BacsyError or an OSError is a failure: of the load or of the
\* save, before anything is changed, or of the second look, with the save done.
Run(command, outcome) ==
  /\ commands < MaxCommands /\ commands' = commands + 1
  /\ UNCHANGED now
  /\ \/ /\ \A accounts \in Loaded : outcome[accounts].saves
        /\ report' = Failed(command, ExitCode.FAILURE)
        /\ UNCHANGED <<file, meant>>
     \/ \E done \in {outcome[accounts] : accounts \in Loaded} :
          /\ \/ report' = done.report
             \/ command \in LooksAgain /\ report' = Failed(command, ExitCode.FAILURE)
          /\ IF done.saves
             THEN file' = Dump(done.accounts) /\ meant' = Holding(done.accounts)
             ELSE UNCHANGED <<file, meant>>

ListAccounts ==
  Run("list", [accounts \in Loaded |->
    Tells(accounts, [Shows("list", accounts) EXCEPT !.advice = AdviseStored(accounts, now)])])

AddAccount(name, label) ==
  LET account == Account(name, label, << >>)
  IN Run("create", [accounts \in Loaded |->
       IF Has(accounts, name) THEN Refuses(accounts, "create")
       ELSE Saves(Append(accounts, account), Shows("create", <<account>>))])

\* The row of one token of an account.
Row(account, id) ==
  SelectSeq(AccountView(account, now).tokens, LAMBDA view : view.token.token_id = id)

\* The token is refused before add_token would: expired, or of another agreement.
AddToken(name, pasted) ==
  LET token == ExtractToken(pasted).token
      usable(account) ==
        /\ ExtractToken(pasted).ok
        /\ ~ Expired(token, now)
        /\ \A i \in DOMAIN account.tokens : account.tokens[i].token.agreement_id = token.agreement_id
      added(account) ==
        IF HasToken(account, token.token_id) THEN account
        ELSE [account EXCEPT !.tokens = Append(@, TokenRecord(token, now))]
  IN Run("add", [accounts \in Loaded |->
       IF Has(accounts, name) /\ usable(Get(accounts, name))
       THEN Saves(Replaced(accounts, name, added(Get(accounts, name))),
                  [Silent EXCEPT !.command = "add",
                                 !.tokens = Row(added(Get(accounts, name)), token.token_id)])
       ELSE Refuses(accounts, "add")])

RemoveToken(name, id) ==
  LET others(record) == record.token.token_id # id
  IN Run("remove", [accounts \in Loaded |->
       IF Has(accounts, name) /\ HasToken(Get(accounts, name), id)
       THEN Saves(Replaced(accounts, name, Kept(Get(accounts, name), others)),
                  [Silent EXCEPT !.command = "remove", !.tokens = Row(Get(accounts, name), id)])
       ELSE Refuses(accounts, "remove")])

RemoveAccount(name, confirmed) ==
  Run("delete", [accounts \in Loaded |->
    IF Has(accounts, name) /\ confirmed
    THEN Saves(SelectSeq(accounts, LAMBDA account : account.name # name),
               Shows("delete", <<Get(accounts, name)>>))
    ELSE Refuses(accounts, "delete")])

RenameAccount(old, new) ==
  Run("rename", [accounts \in Loaded |->
    IF Has(accounts, old) /\ ~ Has(accounts, new)
    THEN LET renamed == [Get(accounts, old) EXCEPT !.name = new]
         IN Saves(Replaced(accounts, old, renamed), Shows("rename", <<renamed>>))
    ELSE Refuses(accounts, "rename")])

\* The rows of the tokens that go, by account and token_key.
GoneViews(accounts) ==
  FlattenSeq(Mapped(AccountViews(Mapped(accounts, LAMBDA account : Kept(account, Gone)), now),
                    LAMBDA view : view.tokens))

PruneTokens(dry_run) ==
  LET command == IF dry_run THEN "dry" ELSE "prune"
      left(accounts) ==
        IF dry_run THEN accounts
        ELSE Mapped(accounts, LAMBDA account : Kept(account, LAMBDA record : ~ Gone(record)))
      pruned(accounts) ==
        [Shows(command, left(accounts)) EXCEPT !.tokens = GoneViews(accounts)]
  IN Run(command, [accounts \in Loaded |->
       IF left(accounts) = accounts THEN Tells(accounts, pruned(accounts))
       ELSE Saves(left(accounts), pruned(accounts))])

----------------------------------------------------------------------------
(* verify.                                                                 *)

PersistedReasons == {"expired", "revoked"}

\* The tokens to check, each under its account, in stored order.
Checks(accounts) ==
  FlattenSeq(Mapped(accounts, LAMBDA account :
    [i \in DOMAIN account.tokens |-> [account |-> account, token |-> account.tokens[i].token]]))

\* _verify_one: what it tells, given the reply it would have.
VerifyResult(check, reply) ==
  LET error == IF Expired(check.token, now) THEN Error("TokenRefreshError", 0, "expired")
               ELSE Exchange(reply)
  IN [account |-> check.account, token |-> check.token, reason |-> error.reason,
      error |-> error.class \notin {"", "TokenRefreshError"}]

\* Mutant of Marked: any refusal is recorded.
MarkedAlways(accounts, result) ==
  IF Expired(result.token, now) \/ result.error THEN accounts
  ELSE SetStatus(accounts, result.token.sid,
                 IF result.reason = "" THEN NotDead ELSE TokenStatus(result.reason, now))

\* _verify_one: what it records.
Marked(accounts, result) ==
  CASE Expired(result.token, now) -> accounts
    [] ~ Expired(result.token, now) /\ ~ result.error /\ result.reason = "" ->
         SetStatus(accounts, result.token.sid, NotDead)
    [] OTHER -> IF result.reason \in PersistedReasons
                THEN SetStatus(accounts, result.token.sid, TokenStatus(result.reason, now))
                ELSE accounts

\* _verified_tokens: the record of the session that comes last in the file.
Verified(accounts, results) ==
  LET records == FlattenSeq(Mapped(accounts, LAMBDA account : account.tokens))
      record(sid) == Last(SelectSeq(records, LAMBDA r : r.token.sid = sid))
      ordered == SortSeq(results, LAMBDA a, b :
        \/ a.account.name < b.account.name
        \/ a.account.name = b.account.name /\ TokenBefore(a.token, b.token))
  IN Mapped(ordered, LAMBDA result :
       [view |-> TokenView(result.account, record(result.token.sid), now),
        live |-> OfResult(result)])

\* Mutant of VerifyExit: a dead token outranks a check that failed.
VerifyExitDead(lives) ==
  CASE lives \cap DeadStatuses # {} -> ExitCode.DEAD_TOKENS
    [] lives \cap DeadStatuses = {} /\ "error" \in lives -> ExitCode.FAILURE
    [] OTHER -> ExitCode.OK

VerifyExit(lives) ==
  CASE "error" \in lives -> ExitCode.FAILURE
    [] "error" \notin lives /\ lives \cap DeadStatuses # {} -> ExitCode.DEAD_TOKENS
    [] OTHER -> ExitCode.OK

\* Given the accounts named, all but for one; what was told is kept for the
\* properties.
VerifyReport(accounts, checked, results) ==
  LET verified == Verified(accounts, results)
  IN [Silent EXCEPT
       !.command = "verify",
       !.exit = VerifyExit({verified[i].live : i \in DOMAIN verified}),
       !.tokens = verified,
       !.advice = IF verified = << >> THEN AdviseStored(checked, now) ELSE AdviseVerified(verified),
       !.told = results]

\* All replies come, or the command is interrupted or fails after some.
VerifyTokens(accounts, checked, replies, done) ==
  \E results \in {[i \in 1 .. done |-> VerifyResult(Checks(checked)[i], replies[i])]} :
    LET after[i \in 0 .. done] == IF i = 0 THEN accounts ELSE Marked(after[i - 1], results[i])
    IN \E left \in {after[done]} :
         /\ IF left = accounts THEN UNCHANGED <<file, meant>>
            ELSE file' = Dump(left) /\ meant' = Holding(left)
         /\ \/ /\ done = Len(Checks(checked))
               /\ report' = VerifyReport(left, checked, results)
            \/ /\ done < Len(Checks(checked))
               /\ \E exit \in {ExitCode.FAILURE, ExitCode.INTERRUPTED} : report' = Failed("interrupted", exit)

VerifySome(names) ==
  /\ commands < MaxCommands /\ commands' = commands + 1
  /\ UNCHANGED now
  /\ \/ /\ Loaded = {}
        /\ report' = Failed("verify", ExitCode.FAILURE)
        /\ UNCHANGED <<file, meant>>
     \/ \E accounts \in Loaded :
        \E checked \in {SelectSeq(accounts, LAMBDA account : account.name \in names)} :
        \E done \in 0 .. Len(Checks(checked)) : \E replies \in [1 .. done -> Replies] :
          VerifyTokens(accounts, checked, replies, done)

VerifyAll == VerifySome(Names)

\* require_account first.
VerifyAccount(name) ==
  \/ /\ \A accounts \in Loaded : Has(accounts, name)
     /\ VerifySome({name})
  \/ /\ \E accounts \in Loaded : ~ Has(accounts, name)
     /\ Run("verify", [accounts \in Loaded |-> Refuses(accounts, "verify")])

----------------------------------------------------------------------------
(* The clock.                                                              *)

Tick ==
  /\ now < MaxNow /\ now' = now + 1
  /\ report' = Silent
  /\ UNCHANGED <<file, commands, meant>>

Next ==
  \/ ListAccounts
  \/ \E name \in Names :
       \/ \E label \in Labels : AddAccount(name, label)
       \/ \E pasted \in Pasted : AddToken(name, pasted)
       \/ \E pasted \in Pasted : ExtractToken(pasted).ok /\ RemoveToken(name, ExtractToken(pasted).token.token_id)
       \/ \E confirmed \in BOOLEAN : RemoveAccount(name, confirmed)
       \/ \E new \in Names : RenameAccount(name, new)
       \/ VerifyAccount(name)
  \/ \E dry_run \in BOOLEAN : PruneTokens(dry_run)
  \/ VerifyAll
  \/ Tick

Spec == Init /\ [][Next]_vars

----------------------------------------------------------------------------
\* "Loading the file never decodes a JWT": what a command meant to save is what
\* the next one reads, marks and order included, whatever was saved before; and
\* a file somebody damaged is never taken for an empty one or for another.
StoreReadsBack == Load(file) = meant

\* What a check told of its token.
Good(result) == ~ result.error /\ result.reason = ""
Refused(result) == ~ result.error /\ result.reason \in {r \in Reasons : Permanent(r)}

\* A script may go by the exit code of verify: 0, every token was exchanged;
\* 3, every check told something of its token, and one token is dead.
VerifyExitTells ==
  report.command = "verify" =>
    /\ report.exit = ExitCode.OK => \A i \in DOMAIN report.told : Good(report.told[i])
    /\ report.exit = ExitCode.DEAD_TOKENS =>
         /\ \A i \in DOMAIN report.told : Good(report.told[i]) \/ Refused(report.told[i])
         /\ \E i \in DOMAIN report.told : Refused(report.told[i])

\* The rows of a list that show a dead token.
DeadShown ==
  SelectSeq(FlattenSeq(Mapped(report.accounts, LAMBDA view : view.tokens)),
            LAMBDA row : row.status \in DeadStatuses)

\* A prune removes what the list or the dry run before it said, as many as the
\* list advised to prune and none when it had no advice, and the list it ends with
\* shows no dead token.
PruneForetold ==
  [][report'.command = "prune" /\ report'.exit = 0 =>
       /\ report.command = "list" /\ report.exit = 0 =>
            /\ report'.tokens = DeadShown
            /\ report.advice.kind = "prune" => Len(report'.tokens) = report.advice.dead_tokens
            /\ report.advice.kind = "" => report'.tokens = << >>
       /\ report.command = "dry" /\ report.exit = 0 => report'.tokens = report.tokens
       /\ DeadShown' = << >>]_vars

\* "Expired and revoked rejections are recorded as dead marks; a token the
\* endpoint accepts has any existing mark cleared": the last such answer of the
\* endpoint about a session is on every record of it, in every account, and
\* where there was none the marks are what they were.
MarksOf(accounts, sid) ==
  {record.dead.reason : record \in
     {r \in UNION {Range(accounts[i].tokens) : i \in DOMAIN accounts} : r.token.sid = sid}}

VerifyRecords ==
  [][report'.command = "verify" /\ report'.told # << >> =>
       \A sid \in {report'.told[i].token.sid : i \in DOMAIN report'.told} :
         LET telling == {i \in DOMAIN report'.told :
               /\ report'.told[i].token.sid = sid
               /\ ~ Expired(report'.told[i].token, now) /\ ~ report'.told[i].error
               /\ report'.told[i].reason \in {"", "expired", "revoked"}}
         IN MarksOf(meant'.accounts, sid) =
              IF telling = {} THEN MarksOf(meant.accounts, sid) ELSE {report'.told[Max(telling)].reason}]_vars
=============================================================================
