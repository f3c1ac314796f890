------------------------------- MODULE Accounts -------------------------------
(***************************************************************************)
(* bacsy.accounts.AccountManager and the commands over it: processes that  *)
(* read the accounts file, ask a person or the token endpoint, and then    *)
(* change the file, each after what the others did meanwhile.              *)
(*                                                                         *)
(* An operation of the manager holds the lock of the file around its load  *)
(* and save, which PrivateFile details; here it is one step.  A failed     *)
(* load or save changes nothing and ends the command.  Names are in the    *)
(* form validate_account_name returns; labels and times are left out.      *)
(***************************************************************************)
EXTENDS Naturals, FiniteSets

CONSTANTS
    Procs,        \* processes: commands and programs with a provider
    Names,        \* account names
    Tokens,       \* refresh tokens
    IdOf,         \* token_id
    SessionOf,    \* sid, with which a token expires and is revoked
    AgreementOf,  \* agreement_id
    Files,        \* the tokens of each account in the file at first
    MaxCommands   \* bound: commands started

Sessions == {SessionOf[t] : t \in Tokens}

ASSUME AccountsAssumption ==
    /\ DOMAIN IdOf = Tokens /\ DOMAIN SessionOf = Tokens /\ DOMAIN AgreementOf = Tokens
    /\ MaxCommands \in Nat
    /\ \A file \in Files :
        /\ file \subseteq Names \X Tokens
        /\ \A x, y \in file : x[1] = y[1] =>
            /\ IdOf[x[2]] = IdOf[y[2]] => x = y
            /\ AgreementOf[x[2]] = AgreementOf[y[2]]

VARIABLES
    names,     \* the accounts in the file
    records,   \* their token records
    expired,   \* sessions that have expired
    revoked,   \* sessions deleted in the web terminal
    task,      \* what each process is about
    commands,  \* commands started
    saved,     \* history: the tokens somebody saved and nobody asked to drop
    reported   \* history: sessions whose refusal has been recorded

vars == <<names, records, expired, revoked, task, commands, saved, reported>>

File == <<names, records, saved, reported>>
Endpoint == <<expired, revoked>>

Marks  == {"no", "expired", "revoked"}
Record == [name : Names, token : Tokens, dead : Marks]

Idle == [at |-> "idle"]

Init ==
    /\ \E file \in Files :
        /\ names = {x[1] : x \in file}
        /\ records = {[name |-> x[1], token |-> x[2], dead |-> "no"] : x \in file}
        /\ saved = file
    /\ expired = {} /\ revoked = {}
    /\ task = [p \in Procs |-> Idle]
    /\ commands = 0
    /\ reported = {}

Goes(p, to) == task' = [task EXCEPT ![p] = to]

\* A command starts with what it has read, once the arguments are checked.
Command(p, to) ==
    /\ task[p] = Idle
    /\ commands < MaxCommands /\ commands' = commands + 1
    /\ Goes(p, to)
    /\ UNCHANGED <<File, Endpoint>>

-----------------------------------------------------------------------------
\* The operations of AccountManager on the file.

In(n) == {r \in records : r.name = n}

\* create.
CreateAccount(n) ==
    IF n \in names THEN UNCHANGED File
    ELSE names' = names \cup {n} /\ UNCHANGED <<records, saved, reported>>

\* update: the entry as it is given, with what it had when it was read.
UpdateAccount(n, copy) ==
    IF n \notin names THEN UNCHANGED File
    ELSE /\ records' = (records \ In(n)) \cup copy
         /\ saved' = {x \in saved : x[1] # n} \cup {<<n, r.token>> : r \in copy}
         /\ reported' = reported \ {SessionOf[r.token] : r \in {q \in copy : q.dead = "no"}}
         /\ UNCHANGED names

\* delete.
DeleteAccount(n) ==
    /\ names' = names \ {n}
    /\ records' = records \ In(n)
    /\ saved' = {x \in saved : x[1] # n}
    /\ UNCHANGED reported

\* A record for a token, unless the account has one of the same id.
Added(n, t) ==
    /\ names' = names \cup {n}
    /\ IF \E r \in In(n) : IdOf[r.token] = IdOf[t] THEN UNCHANGED <<records, saved, reported>>
       ELSE /\ records' = records \cup {[name |-> n, token |-> t, dead |-> "no"]}
            /\ saved' = saved \cup {<<n, t>>}
            /\ reported' = reported \ {SessionOf[t]}

\* Mutant of AddRecord: the agreement was checked when the token was read.
AddRecordUnchecked(n, t) == Added(n, t)

\* add_token: the account is created if need be; Account refuses to hold tokens
\* of two agreements.
AddRecord(n, t) ==
    IF \A r \in In(n) : IdOf[r.token] = IdOf[t] \/ AgreementOf[r.token] = AgreementOf[t]
    THEN Added(n, t)
    ELSE UNCHANGED File

\* remove_token.
RemoveRecord(n, id) ==
    /\ records' = {r \in records : ~ (r.name = n /\ IdOf[r.token] = id)}
    /\ saved' = {x \in saved : ~ (x[1] = n /\ IdOf[x[2]] = id)}
    /\ UNCHANGED <<names, reported>>

\* Mutant of RenameAccount: an account that has the new name is replaced.
RenameAccountOver(old, new) ==
    IF old \notin names THEN UNCHANGED File
    ELSE /\ names' = (names \ {old}) \cup {new}
         /\ records' = {[r EXCEPT !.name = new] : r \in In(old)}
                       \cup {r \in records : r.name \notin {old, new}}
         /\ saved' = {<<IF x[1] = old THEN new ELSE x[1], x[2]>> : x \in saved}
         /\ UNCHANGED reported

\* rename.
RenameAccount(old, new) ==
    IF old \notin names \/ new \in names THEN UNCHANGED File
    ELSE /\ names' = (names \ {old}) \cup {new}
         /\ records' = {[r EXCEPT !.name = IF @ = old THEN new ELSE @] : r \in records}
         /\ saved' = {<<IF x[1] = old THEN new ELSE x[1], x[2]>> : x \in saved}
         /\ UNCHANGED reported

Dead(r, now) == SessionOf[r.token] \in now \/ r.dead # "no"

\* prune, with the sessions that had expired by its now.
PruneRecords(now) ==
    /\ records' = {r \in records : ~ Dead(r, now)}
    /\ saved' = {x \in saved : SessionOf[x[2]] \notin expired \cup revoked}
    /\ UNCHANGED <<names, reported>>

\* Mutant of SetStatus: the mark is written where the token was found.
SetStatusThere(session, mark, found) ==
    /\ records' = {[r EXCEPT !.dead =
           IF SessionOf[r.token] = session /\ r.name \in found THEN mark ELSE @] : r \in records}
    /\ reported' = IF mark = "no" THEN reported \ {session} ELSE reported \cup {session}
    /\ UNCHANGED <<names, saved>>

\* _set_status: every record of the session, in any account.  The third
\* argument, the accounts the token was found in, is not looked at.
SetStatus(session, mark, found) ==
    /\ records' = {[r EXCEPT !.dead = IF SessionOf[r.token] = session THEN mark ELSE @] :
                      r \in records}
    /\ reported' = IF mark = "no" THEN reported \ {session} ELSE reported \cup {session}
    /\ UNCHANGED <<names, saved>>

-----------------------------------------------------------------------------
\* The commands.

Create(p, n) ==
    /\ task[p] = Idle
    /\ commands < MaxCommands /\ commands' = commands + 1
    /\ CreateAccount(n)
    /\ UNCHANGED <<Endpoint, task>>

Rename(p, old, new) ==
    /\ task[p] = Idle
    /\ commands < MaxCommands /\ commands' = commands + 1
    /\ RenameAccount(old, new)
    /\ UNCHANGED <<Endpoint, task>>

\* A program calls add_token.
SaveToken(p, n, t) ==
    /\ task[p] = Idle
    /\ commands < MaxCommands /\ commands' = commands + 1
    /\ AddRecord(n, t)
    /\ UNCHANGED <<Endpoint, task>>

\* AddToken asks for the token of an account that exists and checks it.
AskToken(p, n, t) ==
    /\ n \in names
    /\ SessionOf[t] \notin expired
    /\ \A r \in In(n) : AgreementOf[r.token] = AgreementOf[t]
    /\ Command(p, [at |-> "add", name |-> n, token |-> t])

AddToken(p) ==
    /\ task[p].at = "add"
    /\ AddRecord(task[p].name, task[p].token)
    /\ Goes(p, Idle)
    /\ UNCHANGED <<Endpoint, commands>>

\* RemoveToken finds the token first.
FindToken(p, n, t) ==
    /\ \E r \in In(n) : r.token = t
    /\ Command(p, [at |-> "remove", name |-> n, token |-> t])

RemoveToken(p) ==
    /\ task[p].at = "remove"
    /\ RemoveRecord(task[p].name, IdOf[task[p].token])
    /\ Goes(p, Idle)
    /\ UNCHANGED <<Endpoint, commands>>

\* RemoveAccount has its question confirmed.
Confirm(p, n) ==
    /\ n \in names
    /\ Command(p, [at |-> "delete", name |-> n])

Delete(p) ==
    /\ task[p].at = "delete"
    /\ DeleteAccount(task[p].name)
    /\ Goes(p, Idle)
    /\ UNCHANGED <<Endpoint, commands>>

\* A program gets an account, and updates it later.
Get(p, n) ==
    /\ n \in names
    /\ Command(p, [at |-> "update", name |-> n, copy |-> In(n)])

Update(p) ==
    /\ task[p].at = "update"
    /\ UpdateAccount(task[p].name, task[p].copy)
    /\ Goes(p, Idle)
    /\ UNCHANGED <<Endpoint, commands>>

\* PruneTokens lists the accounts, prunes, and reports each record under the
\* account of its list: a name that is not in it raises KeyError.
List(p) == Command(p, [at |-> "prune", names |-> names, now |-> expired])

Prune(p) ==
    /\ task[p].at = "prune"
    /\ PruneRecords(task[p].now)
    /\ Goes(p, IF {r.name : r \in {q \in records : Dead(q, task[p].now)}} \subseteq task[p].names
               THEN Idle ELSE [at |-> "failed"])
    /\ UNCHANGED <<Endpoint, commands>>

\* Checking what is left of the tokens that were read.
Checking(kind, found, rest) ==
    IF rest = {} THEN Idle ELSE [at |-> "check", kind |-> kind, found |-> found, rest |-> rest]

\* verify reads the accounts and skips what has expired; a provider reads the
\* live tokens of an account.
Verify(p, found) ==
    Command(p, Checking("verify", found,
        {r.token : r \in {q \in records : q.name \in found /\ SessionOf[q.token] \notin expired}}))

Use(p, n) ==
    /\ n \in names
    /\ Command(p, Checking("provider", {n}, {r.token : r \in {q \in In(n) : q.dead = "no"}}))

\* The endpoint looks at the expiry first.
Answer(session) ==
    CASE session \in expired -> "expired"
      [] session \notin expired /\ session \in revoked -> "revoked"
      [] OTHER -> "accepted"

\* Mutant of Exchange: a failure that tells nothing of the token is a refusal.
ExchangeFailureRefuses(p) ==
    /\ task[p].at = "check"
    /\ \E t \in task[p].rest, mark \in {"expired", "revoked"} :
        Goes(p, [at |-> "told", kind |-> task[p].kind, found |-> task[p].found,
                 rest |-> task[p].rest \ {t}, session |-> SessionOf[t], mark |-> mark])
    /\ UNCHANGED <<File, Endpoint, commands>>

\* exchange_refresh_token answers; whatever else it raises tells nothing.
Exchange(p) ==
    /\ task[p].at = "check"
    /\ \E t \in task[p].rest :
        LET answer == Answer(SessionOf[t])
            rest == task[p].rest \ {t}
        IN
        \/ /\ answer # "accepted" \/ task[p].kind = "verify"
           /\ Goes(p, [at |-> "told", kind |-> task[p].kind, found |-> task[p].found, rest |-> rest,
                       session |-> SessionOf[t],
                       mark |-> IF answer = "accepted" THEN "no" ELSE answer])
        \/ Goes(p, Checking(task[p].kind, task[p].found, rest))
    /\ UNCHANGED <<File, Endpoint, commands>>

\* mark_dead and clear_dead.
SetMark(p) ==
    /\ task[p].at = "told"
    /\ SetStatus(task[p].session, task[p].mark, task[p].found)
    /\ Goes(p, Checking(task[p].kind, task[p].found, task[p].rest))
    /\ UNCHANGED <<Endpoint, commands>>

\* The process ends, or its operation fails.
Stop(p) ==
    /\ task[p] # Idle
    /\ Goes(p, Idle)
    /\ UNCHANGED <<File, Endpoint, commands>>

-----------------------------------------------------------------------------
\* The endpoint.

Expire(s) ==
    /\ s \notin expired
    /\ expired' = expired \cup {s}
    /\ UNCHANGED <<File, revoked, task, commands>>

Revoke(s) ==
    /\ s \notin revoked
    /\ revoked' = revoked \cup {s}
    /\ UNCHANGED <<File, expired, task, commands>>

Start(p) ==
    \/ List(p)
    \/ \E found \in SUBSET names : (found = names \/ Cardinality(found) = 1) /\ Verify(p, found)
    \/ \E n \in Names :
        \/ Create(p, n) \/ Confirm(p, n) \/ Get(p, n) \/ Use(p, n)
        \/ \E m \in Names : Rename(p, n, m)
        \/ \E t \in Tokens : SaveToken(p, n, t) \/ AskToken(p, n, t) \/ FindToken(p, n, t)

Go(p) ==
    \/ AddToken(p) \/ RemoveToken(p) \/ Delete(p) \/ Update(p) \/ Prune(p)
    \/ Exchange(p) \/ SetMark(p) \/ Stop(p)

Next ==
    \/ \E p \in Procs : Start(p) \/ Go(p)
    \/ \E s \in Sessions : Expire(s) \/ Revoke(s)

Spec == Init /\ [][Next]_vars

-----------------------------------------------------------------------------
Kinds == {"verify", "provider"}
Checks == [at : {"check"}, kind : Kinds, found : SUBSET Names, rest : SUBSET Tokens]
Told == [at : {"told"}, kind : Kinds, found : SUBSET Names, rest : SUBSET Tokens,
         session : Sessions, mark : Marks]
Tasks ==
    {Idle, [at |-> "failed"]} \cup Checks \cup Told
    \cup [at : {"add", "remove"}, name : Names, token : Tokens]
    \cup [at : {"delete"}, name : Names]
    \cup [at : {"update"}, name : Names, copy : SUBSET Record]
    \cup [at : {"prune"}, names : SUBSET Names, now : SUBSET Sessions]

\* What Account checks: ids are unique and the agreement is one.
Valid(rs) ==
    \A q, r \in rs : q.name = r.name =>
        /\ IdOf[q.token] = IdOf[r.token] => q = r
        /\ AgreementOf[q.token] = AgreementOf[r.token]

\* The types, with what load asks of the file: whatever the processes did to
\* it in whatever order, it can be loaded.
TypeOK ==
    /\ names \subseteq Names
    /\ records \subseteq Record /\ \A r \in records : r.name \in names
    /\ Valid(records)
    /\ expired \subseteq Sessions /\ revoked \subseteq Sessions
    /\ task \in [Procs -> Tasks]
    /\ commands \in 0 .. MaxCommands
    /\ saved \subseteq Names \X Tokens
    /\ reported \subseteq Sessions

\* The endpoint refuses what is marked dead, in every account and copy of it:
\* no token is given up because of a failure that told nothing about it.
MarksTrue ==
    \A r \in records :
        /\ r.dead = "expired" => SessionOf[r.token] \in expired
        /\ r.dead = "revoked" => SessionOf[r.token] \in revoked

\* "The mark is written onto every stored record with the same session id, in
\* any account": a refusal that was recorded marks every record of the session,
\* however it was renamed meanwhile, until an acceptance clears it, another
\* token of the session is added or an entry is overwritten.
RefusalReaches == \A r \in records : SessionOf[r.token] \in reported => r.dead # "no"

\* A token that was saved stays until somebody drops it, its account or the
\* whole entry, or prune finds it where the endpoint would refuse it.
TokensKept == saved \subseteq {<<r.name, r.token>> : r \in records}
=============================================================================
