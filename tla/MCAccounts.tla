------------------------------ MODULE MCAccounts ------------------------------
(***************************************************************************)
(* Accounts for TLC: two tokens of one session and one of another          *)
(* agreement, for two account names.                                       *)
(***************************************************************************)
EXTENDS Accounts, TLC

CONSTANTS m, n, a1, a2, b

TokenIds == [t \in {a1, a2, b} |-> t]
TokenSessions == a1 :> "sa" @@ a2 :> "sa" @@ b :> "sb"
TokenAgreements == a1 :> "A" @@ a2 :> "A" @@ b :> "B"

\* No file yet, and one with a token in two accounts.
FirstFiles == {{}, {<<m, a1>>, <<n, a1>>}}

Symmetric == Permutations(Procs) \cup Permutations(Names)
=============================================================================
