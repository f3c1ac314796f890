---------------------------- MODULE AccountsProofs ----------------------------
(***************************************************************************)
(* Proofs about Accounts, for any accounts, tokens and processes and any   *)
(* number of commands.                                                     *)
(***************************************************************************)
EXTENDS Accounts, TLAPS

USE AccountsAssumption

-----------------------------------------------------------------------------
\* What holds of the file, and of the tokens the history wants there.
FileOK ==
    /\ names \subseteq Names
    /\ records \subseteq Record /\ \A r \in records : r.name \in names
    /\ Valid(records)
    /\ saved \subseteq Names \X Tokens
    /\ reported \subseteq Sessions
    /\ RefusalReaches
    /\ TokensKept

EndpointOK == expired \subseteq Sessions /\ revoked \subseteq Sessions

\* A mark is one the endpoint would give.
True(mark, session) ==
    /\ mark \in Marks
    /\ mark = "expired" => session \in expired
    /\ mark = "revoked" => session \in revoked

\* What a process remembers is true: the answer it was told, the entry it read
\* and the sessions it found expired.
Remembers(p) ==
    /\ task[p].at = "told" => True(task[p].mark, task[p].session)
    /\ task[p].at = "update" =>
        /\ Valid(task[p].copy)
        /\ \A r \in task[p].copy : r.name = task[p].name /\ True(r.dead, SessionOf[r.token])
    /\ task[p].at = "prune" => task[p].now \subseteq expired

TasksOK == task \in [Procs -> Tasks] /\ \A p \in Procs : Remembers(p)

IInv == FileOK /\ EndpointOK /\ MarksTrue /\ TasksOK /\ commands \in 0 .. MaxCommands

-----------------------------------------------------------------------------
\* The operations on the file, one by one.

\* An unchanged file is as good as it was.
LEMMA FileStays ==
  ASSUME FileOK, MarksTrue, expired \subseteq expired', revoked \subseteq revoked', UNCHANGED File
  PROVE  FileOK' /\ MarksTrue'
BY DEF FileOK, MarksTrue, File, Valid, RefusalReaches, TokensKept

\* A new account is empty.
LEMMA CreateKeeps ==
  ASSUME FileOK, MarksTrue, UNCHANGED Endpoint, NEW n \in Names, CreateAccount(n)
  PROVE  FileOK' /\ MarksTrue'
<1>1. CASE UNCHANGED File
  BY <1>1, FileStays DEF Endpoint
<1>2. CASE names' = names \cup {n} /\ UNCHANGED <<records, saved, reported>>
  BY <1>2 DEF FileOK, MarksTrue, Endpoint, Valid, RefusalReaches, TokensKept
<1> QED
  BY <1>1, <1>2 DEF CreateAccount

\* An entry replaces the one of its name.
LEMMA UpdateKeeps ==
  ASSUME FileOK, MarksTrue, UNCHANGED Endpoint, NEW n \in Names, NEW copy \in SUBSET Record,
         Valid(copy), \A r \in copy : r.name = n /\ True(r.dead, SessionOf[r.token]),
         UpdateAccount(n, copy)
  PROVE  FileOK' /\ MarksTrue'
<1>1. CASE n \notin names
  BY <1>1, FileStays DEF UpdateAccount, Endpoint
<1>2. CASE n \in names
  <2>1. /\ records' = (records \ In(n)) \cup copy
        /\ saved' = {x \in saved : x[1] # n} \cup {<<n, r.token>> : r \in copy}
        /\ reported' = reported \ {SessionOf[r.token] : r \in {q \in copy : q.dead = "no"}}
        /\ names' = names
    BY <1>2 DEF UpdateAccount
  <2>2. \A q, r \in records' : q.name = r.name =>
            (q \in copy /\ r \in copy) \/ (q \in records /\ r \in records)
    BY <2>1 DEF In
  <2>3. Valid(records')
    BY <2>2 DEF Valid, FileOK
  <2>4. RefusalReaches'
    BY <2>1 DEF RefusalReaches, FileOK
  <2>5. TokensKept'
    <3>1. \A x \in saved : x[1] # n => x \in {<<r.name, r.token>> : r \in records \ In(n)}
      BY DEF FileOK, TokensKept, In
    <3> QED
      BY <2>1, <3>1 DEF TokensKept, FileOK
  <2>6. records' \subseteq Record /\ (\A r \in records' : r.name \in names') /\ MarksTrue'
    BY <1>2, <2>1 DEF FileOK, MarksTrue, Endpoint, True
  <2>7. saved' \subseteq Names \X Tokens
    BY <2>1 DEF FileOK, Record
  <2>8. Valid(records)'
    BY <2>3 DEF Valid
  <2> QED
    BY <2>1, <2>4, <2>5, <2>6, <2>7, <2>8 DEF FileOK
<1> QED
  BY <1>1, <1>2

\* An account goes with its tokens.
LEMMA DeleteKeeps ==
  ASSUME FileOK, MarksTrue, UNCHANGED Endpoint, NEW n \in Names, DeleteAccount(n)
  PROVE  FileOK' /\ MarksTrue'
<1>1. records' \subseteq records /\ \A r \in records : r.name # n => r \in records'
  BY DEF DeleteAccount, In
<1>2. TokensKept'
  <2>1. \A x \in saved : x[1] # n => x \in {<<r.name, r.token>> : r \in records'}
    BY <1>1 DEF FileOK, TokensKept
  <2> QED
    BY <2>1 DEF DeleteAccount, TokensKept, FileOK
<1> QED
  BY <1>1, <1>2 DEF DeleteAccount, In, FileOK, MarksTrue, Endpoint, Valid, RefusalReaches

\* A token is added to an account of its agreement that has none of its id.
LEMMA AddKeeps ==
  ASSUME FileOK, MarksTrue, UNCHANGED Endpoint, NEW n \in Names, NEW t \in Tokens, AddRecord(n, t)
  PROVE  FileOK' /\ MarksTrue'
<1>1. CASE UNCHANGED File
  BY <1>1, FileStays DEF Endpoint
<1>2. CASE names' = names \cup {n} /\ UNCHANGED <<records, saved, reported>>
  BY <1>2 DEF FileOK, MarksTrue, Endpoint, Valid, RefusalReaches, TokensKept
<1>3. ASSUME \A r \in In(n) : AgreementOf[r.token] = AgreementOf[t] /\ IdOf[r.token] # IdOf[t],
             names' = names \cup {n},
             records' = records \cup {[name |-> n, token |-> t, dead |-> "no"]},
             saved' = saved \cup {<<n, t>>},
             reported' = reported \ {SessionOf[t]}
      PROVE  FileOK' /\ MarksTrue'
  <2> DEFINE new == [name |-> n, token |-> t, dead |-> "no"]
  <2>1. new \in Record /\ new.name = n /\ new.token = t /\ new.dead = "no"
    BY DEF Record, Marks
  <2>2. \A r \in records : r.name = n =>
            AgreementOf[r.token] = AgreementOf[t] /\ IdOf[r.token] # IdOf[t]
    BY <1>3 DEF In
  <2>3. Valid(records)'
    BY <1>3, <2>1, <2>2 DEF Valid, FileOK
  <2>4. RefusalReaches'
    BY <1>3, <2>1 DEF RefusalReaches, FileOK
  <2>5. TokensKept'
    BY <1>3, <2>1 DEF TokensKept, FileOK
  <2>6. MarksTrue'
    BY <1>3, <2>1 DEF MarksTrue, Endpoint
  <2> QED
    BY <1>3, <2>1, <2>3, <2>4, <2>5, <2>6 DEF FileOK
<1> QED
  BY <1>1, <1>2, <1>3 DEF AddRecord, Added

\* The tokens of an id go from an account.
LEMMA RemoveKeeps ==
  ASSUME FileOK, MarksTrue, UNCHANGED Endpoint, NEW n \in Names, NEW id, RemoveRecord(n, id)
  PROVE  FileOK' /\ MarksTrue'
<1>1. TokensKept'
  <2>1. \A x \in saved : ~ (x[1] = n /\ IdOf[x[2]] = id)
            => x \in {<<r.name, r.token>> : r \in records'}
    BY DEF FileOK, TokensKept, RemoveRecord
  <2> QED
    BY <2>1 DEF RemoveRecord, TokensKept, FileOK
<1> QED
  BY <1>1 DEF RemoveRecord, FileOK, MarksTrue, Endpoint, Valid, RefusalReaches

\* An account takes a name that is free.
LEMMA RenameKeeps ==
  ASSUME FileOK, MarksTrue, UNCHANGED Endpoint, NEW old \in Names, NEW new \in Names,
         RenameAccount(old, new)
  PROVE  FileOK' /\ MarksTrue'
<1>1. CASE UNCHANGED File
  BY <1>1, FileStays DEF Endpoint
<1>2. CASE ~ (old \notin names \/ new \in names)
  <2> DEFINE named(r) == [r EXCEPT !.name = IF @ = old THEN new ELSE @]
  <2>1. /\ names' = (names \ {old}) \cup {new}
        /\ records' = {named(r) : r \in records}
        /\ saved' = {<<IF x[1] = old THEN new ELSE x[1], x[2]>> : x \in saved}
        /\ reported' = reported
    BY <1>2 DEF RenameAccount
  <2>2. ASSUME NEW r \in records
        PROVE  /\ named(r) \in Record
               /\ named(r).name = (IF r.name = old THEN new ELSE r.name)
               /\ named(r).token = r.token /\ named(r).dead = r.dead
               /\ r.name \in names /\ r.name # new
    BY <1>2 DEF FileOK, Record
  <2> HIDE DEF named
  <2>3. \A q, r \in records : named(q).name = named(r).name => q.name = r.name
    BY <2>2
  <2>4. Valid(records)'
    BY <2>1, <2>2, <2>3 DEF Valid, FileOK
  <2>5. RefusalReaches' /\ MarksTrue'
    BY <2>1, <2>2 DEF RefusalReaches, MarksTrue, FileOK, Endpoint
  <2>6. TokensKept'
    <3>1. ASSUME NEW x \in saved
          PROVE  <<IF x[1] = old THEN new ELSE x[1], x[2]>>
                     \in {<<r.name, r.token>> : r \in records'}
      <4>1. PICK r \in records : x = <<r.name, r.token>>
        BY DEF FileOK, TokensKept
      <4>2. named(r) \in records'
        BY <2>1
      <4> QED
        BY <2>2, <4>1, <4>2
    <3> QED
      BY <2>1, <3>1 DEF TokensKept, FileOK
  <2>7. records' \subseteq Record /\ \A r \in records' : r.name \in names'
    BY <2>1, <2>2
  <2>8. saved' \subseteq Names \X Tokens
    BY <2>1 DEF FileOK
  <2> QED
    BY <2>1, <2>4, <2>5, <2>6, <2>7, <2>8 DEF FileOK
<1> QED
  BY <1>1, <1>2 DEF RenameAccount

\* What is pruned the endpoint would refuse.
LEMMA PruneKeeps ==
  ASSUME FileOK, MarksTrue, UNCHANGED Endpoint, NEW now \in SUBSET expired, PruneRecords(now)
  PROVE  FileOK' /\ MarksTrue'
<1>1. \A r \in records : Dead(r, now) => SessionOf[r.token] \in expired \cup revoked
  BY DEF Dead, MarksTrue, FileOK, Record, Marks
<1>2. TokensKept'
  <2>1. \A x \in saved : SessionOf[x[2]] \notin expired \cup revoked
            => x \in {<<r.name, r.token>> : r \in records'}
    BY <1>1 DEF FileOK, TokensKept, PruneRecords
  <2> QED
    BY <2>1 DEF PruneRecords, TokensKept, FileOK
<1> QED
  BY <1>2 DEF PruneRecords, FileOK, MarksTrue, Endpoint, Valid, RefusalReaches

\* A true mark is set on every record of a session.
LEMMA StatusKeeps ==
  ASSUME FileOK, MarksTrue, UNCHANGED Endpoint, NEW session \in Sessions, NEW mark,
         True(mark, session), NEW found, SetStatus(session, mark, found)
  PROVE  FileOK' /\ MarksTrue'
<1> DEFINE marked(r) == [r EXCEPT !.dead = IF SessionOf[r.token] = session THEN mark ELSE @]
<1>1. /\ names' = names /\ saved' = saved
      /\ records' = {marked(r) : r \in records}
      /\ reported' = IF mark = "no" THEN reported \ {session} ELSE reported \cup {session}
  BY DEF SetStatus
<1>2. ASSUME NEW r \in records
      PROVE  /\ marked(r) \in Record
             /\ marked(r).name = r.name /\ marked(r).token = r.token
             /\ marked(r).dead = (IF SessionOf[r.token] = session THEN mark ELSE r.dead)
  BY DEF FileOK, Record, True
<1> HIDE DEF marked
<1>3. Valid(records)'
  <2>1. \A q, r \in records : q = r => marked(q) = marked(r)
    OBVIOUS
  <2> QED
    BY <1>1, <1>2, <2>1 DEF Valid, FileOK
<1>4. RefusalReaches' /\ MarksTrue'
  BY <1>1, <1>2 DEF RefusalReaches, MarksTrue, FileOK, Endpoint, True
<1>5. TokensKept'
  <2>1. ASSUME NEW x \in saved PROVE x \in {<<r.name, r.token>> : r \in records'}
    <3>1. PICK r \in records : x = <<r.name, r.token>>
      BY DEF FileOK, TokensKept
    <3>2. marked(r) \in records'
      BY <1>1
    <3> QED
      BY <1>2, <3>1, <3>2
  <2> QED
    BY <1>1, <2>1 DEF TokensKept
<1>6. records' \subseteq Record /\ \A r \in records' : r.name \in names'
  BY <1>1, <1>2 DEF FileOK
<1> QED
  BY <1>1, <1>3, <1>4, <1>5, <1>6 DEF FileOK

-----------------------------------------------------------------------------
\* What processes remember.

\* A process that goes to a true memory leaves the others theirs.
LEMMA GoesTruly ==
  ASSUME TasksOK, expired \subseteq expired', revoked \subseteq revoked',
         NEW p \in Procs, NEW to \in Tasks, Goes(p, to),
         to.at = "told" => True(to.mark, to.session),
         to.at = "update" => /\ Valid(to.copy)
                             /\ \A r \in to.copy : r.name = to.name /\ True(r.dead, SessionOf[r.token]),
         to.at = "prune" => to.now \subseteq expired
  PROVE  TasksOK'
<1>1. task' \in [Procs -> Tasks]
  BY DEF Goes, TasksOK
<1>2. ASSUME NEW q \in Procs PROVE Remembers(q)'
  <2>1. CASE q = p
    BY <2>1 DEF Goes, TasksOK, Remembers, True, Valid
  <2>2. CASE q # p
    BY <2>2 DEF Goes, TasksOK, Remembers, True, Valid
  <2> QED
    BY <2>1, <2>2
<1> QED
  BY <1>1, <1>2 DEF TasksOK

\* Where there is nothing to remember it is simpler.
LEMMA GoesPlainly ==
  ASSUME TasksOK, expired \subseteq expired', revoked \subseteq revoked',
         NEW p \in Procs, NEW to \in Tasks, Goes(p, to), to.at \notin {"told", "update", "prune"}
  PROVE  TasksOK'
BY GoesTruly

\* Nobody goes anywhere.
LEMMA TasksStay ==
  ASSUME TasksOK, expired \subseteq expired', revoked \subseteq revoked', UNCHANGED task
  PROVE  TasksOK'
BY DEF TasksOK, Remembers, True, Valid

\* Checking what is left is a task, with nothing to remember.
LEMMA CheckingPlain ==
  ASSUME NEW kind \in Kinds, NEW found \in SUBSET Names, NEW rest \in SUBSET Tokens
  PROVE  /\ Checking(kind, found, rest) \in Tasks
         /\ Checking(kind, found, rest).at \notin {"told", "update", "prune"}
BY DEF Checking, Tasks, Checks, Idle

LEMMA IdlePlain == Idle \in Tasks /\ Idle.at \notin {"told", "update", "prune"}
BY DEF Idle, Tasks

\* A task in one of its places has the fields of the place.
LEMMA Places ==
  ASSUME TasksOK, NEW p \in Procs
  PROVE  /\ task[p].at = "check" => task[p] \in Checks
         /\ task[p].at = "told" => task[p] \in Told
         /\ task[p].at \in {"add", "remove"} => task[p].name \in Names /\ task[p].token \in Tokens
         /\ task[p].at = "delete" => task[p].name \in Names
         /\ task[p].at = "update" => task[p].name \in Names /\ task[p].copy \in SUBSET Record
         /\ task[p].at = "prune" => task[p].now \in SUBSET Sessions
<1>1. task[p] \in Tasks
  BY DEF TasksOK
<1> QED
  BY <1>1 DEF Tasks, Checks, Told, Idle

-----------------------------------------------------------------------------
\* The steps.

\* A command that starts keeps the invariant if it remembers what is true.
LEMMA CommandKeeps ==
  ASSUME IInv, NEW p \in Procs, NEW to \in Tasks, Command(p, to),
         to.at # "told",
         to.at = "update" => /\ Valid(to.copy)
                             /\ \A r \in to.copy : r.name = to.name /\ True(r.dead, SessionOf[r.token]),
         to.at = "prune" => to.now \subseteq expired
  PROVE  IInv'
<1>1. FileOK' /\ MarksTrue'
  BY FileStays DEF IInv, Command, Endpoint
<1>2. TasksOK'
  BY GoesTruly DEF IInv, Command, Endpoint
<1>3. EndpointOK' /\ commands' \in 0 .. MaxCommands
  BY DEF IInv, Command, Endpoint, EndpointOK
<1> QED
  BY <1>1, <1>2, <1>3 DEF IInv

\* The start of every command.
LEMMA StartKeeps ==
  ASSUME IInv, NEW p \in Procs, Start(p)
  PROVE  IInv'
<1>1. CASE List(p)
  <2>1. [at |-> "prune", names |-> names, now |-> expired] \in Tasks
    BY DEF Tasks, IInv, FileOK, EndpointOK
  <2> QED
    BY <1>1, <2>1, CommandKeeps DEF List
<1>2. ASSUME NEW found \in SUBSET names, Verify(p, found) PROVE IInv'
  <2> DEFINE rest == {r.token : r \in {q \in records : q.name \in found
                                                        /\ SessionOf[q.token] \notin expired}}
  <2>1. rest \in SUBSET Tokens /\ found \in SUBSET Names /\ "verify" \in Kinds
    BY DEF IInv, FileOK, Record, Kinds
  <2> QED
    BY <1>2, <2>1, CheckingPlain, CommandKeeps DEF Verify
<1>3. ASSUME NEW n \in Names, Use(p, n) PROVE IInv'
  <2> DEFINE rest == {r.token : r \in {q \in In(n) : q.dead = "no"}}
  <2>1. rest \in SUBSET Tokens /\ {n} \in SUBSET Names /\ "provider" \in Kinds
    BY DEF IInv, FileOK, Record, Kinds, In
  <2> QED
    BY <1>3, <2>1, CheckingPlain, CommandKeeps DEF Use
<1>4. ASSUME NEW n \in Names, Confirm(p, n) PROVE IInv'
  <2>1. [at |-> "delete", name |-> n] \in Tasks
    BY DEF Tasks
  <2> QED
    BY <1>4, <2>1, CommandKeeps DEF Confirm
<1>5. ASSUME NEW n \in Names, Get(p, n) PROVE IInv'
  <2>1. In(n) \in SUBSET Record /\ Valid(In(n))
    BY DEF IInv, FileOK, In, Valid
  <2>2. \A r \in In(n) : r.name = n /\ True(r.dead, SessionOf[r.token])
    BY DEF IInv, FileOK, In, MarksTrue, True, Record
  <2>3. [at |-> "update", name |-> n, copy |-> In(n)] \in Tasks
    BY <2>1 DEF Tasks
  <2> QED
    BY <1>5, <2>1, <2>2, <2>3, CommandKeeps DEF Get
<1>6. ASSUME NEW n \in Names, NEW t \in Tokens, AskToken(p, n, t) PROVE IInv'
  <2>1. [at |-> "add", name |-> n, token |-> t] \in Tasks
    BY DEF Tasks
  <2> QED
    BY <1>6, <2>1, CommandKeeps DEF AskToken
<1>7. ASSUME NEW n \in Names, NEW t \in Tokens, FindToken(p, n, t) PROVE IInv'
  <2>1. [at |-> "remove", name |-> n, token |-> t] \in Tasks
    BY DEF Tasks
  <2> QED
    BY <1>7, <2>1, CommandKeeps DEF FindToken
<1>8. ASSUME UNCHANGED <<Endpoint, task>>, FileOK', MarksTrue',
             commands < MaxCommands, commands' = commands + 1
      PROVE  IInv'
  BY <1>8, TasksStay DEF IInv, Endpoint, EndpointOK
<1>9. ASSUME NEW n \in Names, Create(p, n) PROVE IInv'
  BY <1>8, <1>9, CreateKeeps DEF Create, IInv
<1>10. ASSUME NEW n \in Names, NEW m \in Names, Rename(p, n, m) PROVE IInv'
  BY <1>8, <1>10, RenameKeeps DEF Rename, IInv
<1>11. ASSUME NEW n \in Names, NEW t \in Tokens, SaveToken(p, n, t) PROVE IInv'
  BY <1>8, <1>11, AddKeeps DEF SaveToken, IInv
<1> QED
  BY <1>1, <1>2, <1>3, <1>4, <1>5, <1>6, <1>7, <1>9, <1>10, <1>11 DEF Start

\* The rest of every command.
LEMMA GoKeeps ==
  ASSUME IInv, NEW p \in Procs, Go(p)
  PROVE  IInv'
<1>1. ASSUME FileOK', MarksTrue', NEW to \in Tasks, Goes(p, to),
             to.at \notin {"told", "update", "prune"}, UNCHANGED <<Endpoint, commands>>
      PROVE  IInv'
  BY <1>1, GoesPlainly DEF IInv, Endpoint, EndpointOK
<1>2. CASE AddToken(p)
  BY <1>1, <1>2, AddKeeps, IdlePlain, Places DEF AddToken, IInv
<1>3. CASE RemoveToken(p)
  BY <1>1, <1>3, RemoveKeeps, IdlePlain, Places DEF RemoveToken, IInv
<1>4. CASE Delete(p)
  BY <1>1, <1>4, DeleteKeeps, IdlePlain, Places DEF Delete, IInv
<1>5. CASE Update(p)
  <2>1. /\ Valid(task[p].copy)
        /\ \A r \in task[p].copy : r.name = task[p].name /\ True(r.dead, SessionOf[r.token])
    BY <1>5 DEF Update, IInv, TasksOK, Remembers
  <2> QED
    BY <1>1, <1>5, <2>1, UpdateKeeps, IdlePlain, Places DEF Update, IInv
<1>6. CASE Prune(p)
  <2>1. FileOK' /\ MarksTrue'
    BY <1>6, PruneKeeps DEF Prune, IInv, TasksOK, Remembers
  <2>2. [at |-> "failed"] \in Tasks
    BY DEF Tasks
  <2>3. PICK to \in {Idle, [at |-> "failed"]} : Goes(p, to)
    BY <1>6 DEF Prune
  <2> QED
    BY <1>1, <1>6, <2>1, <2>2, <2>3, IdlePlain DEF Prune
<1>7. CASE Exchange(p)
  <2>1. PICK t \in task[p].rest :
            LET answer == Answer(SessionOf[t])
                rest == task[p].rest \ {t}
            IN
            \/ Goes(p, [at |-> "told", kind |-> task[p].kind, found |-> task[p].found, rest |-> rest,
                        session |-> SessionOf[t],
                        mark |-> IF answer = "accepted" THEN "no" ELSE answer])
            \/ Goes(p, Checking(task[p].kind, task[p].found, rest))
    BY <1>7 DEF Exchange
  <2> DEFINE rest == task[p].rest \ {t}
             mark == IF Answer(SessionOf[t]) = "accepted" THEN "no" ELSE Answer(SessionOf[t])
             to == [at |-> "told", kind |-> task[p].kind, found |-> task[p].found, rest |-> rest,
                    session |-> SessionOf[t], mark |-> mark]
  <2>2. task[p] \in Checks
    BY <1>7, Places DEF Exchange, IInv
  <2>3. /\ task[p].kind \in Kinds /\ task[p].found \in SUBSET Names
        /\ rest \in SUBSET Tokens /\ t \in Tokens
    BY <2>2 DEF Checks
  <2>4. True(mark, SessionOf[t])
    BY DEF Answer, True, Marks
  <2>5. FileOK' /\ MarksTrue'
    BY <1>7, FileStays DEF Exchange, IInv, Endpoint
  <2>6. CASE Goes(p, Checking(task[p].kind, task[p].found, rest))
    BY <1>1, <1>7, <2>3, <2>5, <2>6, CheckingPlain DEF Exchange
  <2>7. CASE Goes(p, to)
    <3>1. to \in Told
      BY <2>3, <2>4 DEF Told, True, Sessions
    <3>2. to \in Tasks /\ to.at = "told" /\ to.mark = mark /\ to.session = SessionOf[t]
      BY <3>1 DEF Tasks
    <3>3. TasksOK'
      BY <1>7, <2>4, <2>7, <3>2, GoesTruly DEF Exchange, IInv, Endpoint
    <3> QED
      BY <1>7, <2>5, <3>3 DEF Exchange, IInv, Endpoint, EndpointOK
  <2> QED
    BY <2>1, <2>6, <2>7
<1>8. CASE SetMark(p)
  <2>1. task[p] \in Told /\ True(task[p].mark, task[p].session)
    BY <1>8, Places DEF SetMark, IInv, TasksOK, Remembers
  <2>2. FileOK' /\ MarksTrue'
    BY <1>8, <2>1, StatusKeeps DEF SetMark, IInv, Told
  <2> QED
    BY <1>1, <1>8, <2>1, <2>2, CheckingPlain DEF SetMark, Told
<1>9. CASE Stop(p)
  <2>1. FileOK' /\ MarksTrue'
    BY <1>9, FileStays DEF Stop, IInv, Endpoint
  <2> QED
    BY <1>1, <1>9, <2>1, IdlePlain DEF Stop
<1> QED
  BY <1>2, <1>3, <1>4, <1>5, <1>6, <1>7, <1>8, <1>9 DEF Go

\* The endpoint refuses for good.
LEMMA EndpointKeeps ==
  ASSUME IInv, NEW s \in Sessions, Expire(s) \/ Revoke(s)
  PROVE  IInv'
<1>1. expired \subseteq expired' /\ revoked \subseteq revoked' /\ UNCHANGED <<File, task, commands>>
  BY DEF Expire, Revoke
<1>2. FileOK' /\ MarksTrue' /\ TasksOK'
  BY <1>1, FileStays, TasksStay DEF IInv
<1>3. EndpointOK'
  BY DEF Expire, Revoke, IInv, EndpointOK
<1> QED
  BY <1>1, <1>2, <1>3 DEF IInv

\* The invariant holds at first: the file has no marks.
LEMMA Begins == Init => IInv
<1> SUFFICES ASSUME Init PROVE IInv
  OBVIOUS
<1>1. PICK file \in Files :
        /\ names = {x[1] : x \in file}
        /\ records = {[name |-> x[1], token |-> x[2], dead |-> "no"] : x \in file}
        /\ saved = file
  BY DEF Init
<1>2. file \subseteq Names \X Tokens
  OBVIOUS
<1>3. \A r \in records : \E x \in file :
          x[1] = r.name /\ x[2] = r.token /\ r.dead = "no" /\ x = <<r.name, r.token>>
          /\ r \in Record
  BY <1>1, <1>2 DEF Record, Marks
<1>4. Valid(records)
  <2> SUFFICES ASSUME NEW q \in records, NEW r \in records, q.name = r.name
               PROVE  /\ IdOf[q.token] = IdOf[r.token] => q = r
                      /\ AgreementOf[q.token] = AgreementOf[r.token]
    BY DEF Valid
  <2>1. PICK x \in file : q = [name |-> x[1], token |-> x[2], dead |-> "no"]
    BY <1>1
  <2>2. PICK y \in file : r = [name |-> y[1], token |-> y[2], dead |-> "no"]
    BY <1>1
  <2>3. /\ IdOf[x[2]] = IdOf[y[2]] => x = y
        /\ AgreementOf[x[2]] = AgreementOf[y[2]]
    BY <2>1, <2>2
  <2> QED
    BY <2>1, <2>2, <2>3
<1>5. TokensKept
  <2> SUFFICES ASSUME NEW x \in file PROVE x \in {<<r.name, r.token>> : r \in records}
    BY <1>1 DEF TokensKept
  <2> DEFINE r == [name |-> x[1], token |-> x[2], dead |-> "no"]
  <2>1. r \in records /\ r.name = x[1] /\ r.token = x[2]
    BY <1>1
  <2>2. x = <<x[1], x[2]>>
    BY <1>2
  <2> HIDE DEF r
  <2> QED
    BY <2>1, <2>2
<1>6. FileOK /\ MarksTrue
  BY <1>1, <1>2, <1>3, <1>4, <1>5 DEF Init, FileOK, MarksTrue, RefusalReaches
<1> QED
  BY <1>6, IdlePlain DEF Init, IInv, EndpointOK, TasksOK, Remembers, Idle

\* Every step keeps the invariant.
LEMMA Invariant == Spec => []IInv
<1>1. ASSUME IInv, [Next]_vars PROVE IInv'
  <2>1. CASE UNCHANGED vars
    <3>1. FileOK' /\ MarksTrue' /\ TasksOK'
      BY <1>1, <2>1, FileStays, TasksStay DEF vars, File, IInv
    <3> QED
      BY <1>1, <2>1, <3>1 DEF vars, IInv, EndpointOK
  <2> QED
    BY <1>1, <2>1, StartKeeps, GoKeeps, EndpointKeeps DEF Next
<1> QED
  BY <1>1, Begins, PTL DEF Spec

-----------------------------------------------------------------------------
\* Whatever the processes do to the file in whatever order, it can be loaded.
THEOREM TypeCorrect == Spec => []TypeOK
<1>1. IInv => TypeOK
  BY DEF IInv, FileOK, EndpointOK, TasksOK, TypeOK
<1> QED
  BY <1>1, Invariant, PTL

\* No token is marked dead that the endpoint would accept.
THEOREM MarksAreTrue == Spec => []MarksTrue
<1>1. IInv => MarksTrue
  BY DEF IInv
<1> QED
  BY <1>1, Invariant, PTL

\* A refusal that was recorded marks every record of its session, however the
\* accounts were renamed since.
THEOREM RefusalsReach == Spec => []RefusalReaches
<1>1. IInv => RefusalReaches
  BY DEF IInv, FileOK
<1> QED
  BY <1>1, Invariant, PTL

\* A saved token goes only when somebody drops it or the endpoint refuses it.
THEOREM SavedTokensKept == Spec => []TokensKept
<1>1. IInv => TokensKept
  BY DEF IInv, FileOK
<1> QED
  BY <1>1, Invariant, PTL
=============================================================================
