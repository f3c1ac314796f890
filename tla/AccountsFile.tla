----------------------------- MODULE AccountsFile -----------------------------
(***************************************************************************)
(* accounts/store.py and accounts/models.py: accounts, and the document    *)
(* that the accounts file holds of them.                                   *)
(*                                                                         *)
(* Accounts are a sequence in the order of the file, one for each name.    *)
(* A document is a JSON value as in RefreshTokens; an object is a record   *)
(* of the keys that are read, and that of the accounts a sequence of       *)
(* <<name, fields>>.  The display label of a token is left out.            *)
(***************************************************************************)
EXTENDS Errors, RefreshTokens

Null == Json("null", 0)
Missing(value) == value[1] \in {"absent", "null"}

NotDead == [reason |-> "", at |-> 0]
TokenStatus(reason, at) == [reason |-> reason, at |-> at]
TokenRecord(token, added_at) == [token |-> token, added_at |-> added_at, dead |-> NotDead]
Live(record) == record.dead = NotDead

\* A label is a string or null.
Account(name, label, tokens) == [name |-> name, label |-> label, tokens |-> tokens]

\* Account.__post_init__: one agreement, and no id twice.
SoundTokens(tokens) ==
  \A i, j \in DOMAIN tokens :
    /\ tokens[i].token.agreement_id = tokens[j].token.agreement_id
    /\ tokens[i].token.token_id = tokens[j].token.token_id => i = j

ScopeValues == [READ |-> "trade-api-read", WRITE |-> "trade-api-write"]

----------------------------------------------------------------------------
(* Writing.                                                                *)

\* Mutant of StatusToDict: a mark is not written.
StatusToDictLost(dead) == Null

StatusToDict(dead) ==
  IF dead = NotDead THEN Null
  ELSE Json("object", [reason |-> Json("string", dead.reason), at |-> Json("number", dead.at)])

RecordToDict(record) ==
  Json("object",
    [token |-> Json("string", record.token.value),
     token_id |-> Json("string", record.token.token_id),
     sid |-> Json("string", record.token.sid),
     agreement_id |-> Json("string", record.token.agreement_id),
     scope |-> Json("string", ScopeValues[record.token.scope]),
     issued_at |-> Json("number", record.token.issued_at),
     expires_at |-> Json("number", record.token.expires_at),
     added_at |-> Json("number", record.added_at),
     dead |-> StatusToDict(record.dead)])

AccountToDict(account) ==
  Json("object",
    [label |-> account.label,
     tokens |-> Json("list", [i \in DOMAIN account.tokens |-> RecordToDict(account.tokens[i])])])

Dump(accounts) ==
  Json("object",
    [version |-> Json("number", 1),
     accounts |-> Json("object",
       [i \in DOMAIN accounts |-> <<accounts[i].name, AccountToDict(accounts[i])>>])])

----------------------------------------------------------------------------
(* Reading: what is refused, and what the rest says.                       *)

ReadableStatus(dead) ==
  \/ Missing(dead)
  \/ /\ dead[1] = "object"
     /\ dead[2].reason[1] = "string" /\ dead[2].reason[2] \in Reasons
     /\ TimestampClaim(dead[2].at)

ReadableRecord(entry) ==
  /\ entry[1] = "object"
  /\ entry[2].scope[1] = "string" /\ \E s \in DOMAIN ScopeValues : ScopeValues[s] = entry[2].scope[2]
  /\ \A key \in {"token", "sid", "agreement_id", "token_id"} : StrClaim(entry[2][key])
  /\ \A key \in {"issued_at", "expires_at", "added_at"} : TimestampClaim(entry[2][key])
  /\ ReadableStatus(entry[2].dead)

RecordFromDict(data) ==
  [token |-> [value |-> data.token[2],
              scope |-> CHOOSE s \in DOMAIN ScopeValues : ScopeValues[s] = data.scope[2],
              issued_at |-> data.issued_at[2],
              expires_at |-> data.expires_at[2],
              sid |-> data.sid[2],
              agreement_id |-> data.agreement_id[2],
              token_id |-> data.token_id[2]],
   added_at |-> data.added_at[2],
   dead |-> IF Missing(data.dead) THEN NotDead
            ELSE TokenStatus(data.dead[2].reason[2], data.dead[2].at[2])]

TokensFromDict(fields) ==
  IF fields.tokens[1] = "absent" THEN << >>
  ELSE [i \in DOMAIN fields.tokens[2] |-> RecordFromDict(fields.tokens[2][i][2])]

ReadableAccount(fields) ==
  /\ fields[1] = "object"
  /\ Missing(fields[2].label) \/ fields[2].label[1] = "string"
  /\ \/ fields[2].tokens[1] = "absent"
     \/ /\ fields[2].tokens[1] = "list"
        /\ \A i \in DOMAIN fields[2].tokens[2] : ReadableRecord(fields[2].tokens[2][i])
  /\ SoundTokens(TokensFromDict(fields[2]))

AccountFromDict(name, fields) ==
  Account(name, IF Missing(fields.label) THEN Null ELSE fields.label, TokensFromDict(fields))

Readable(document) ==
  /\ document[1] = "object"
  /\ document[2].version[1] = "absent" \/ document[2].version = Json("number", 1)
  /\ \/ document[2].accounts[1] = "absent"
     \/ /\ document[2].accounts[1] = "object"
        /\ \A i \in DOMAIN document[2].accounts[2] : ReadableAccount(document[2].accounts[2][i][2])

Unreadable == [ok |-> FALSE]
Holding(accounts) == [ok |-> TRUE, accounts |-> accounts]

\* load: no file holds no account.
Load(document) ==
  CASE document = Absent -> Holding(<< >>)
    [] document # Absent /\ ~ Readable(document) -> Unreadable
    [] OTHER ->
         IF document[2].accounts[1] = "absent" THEN Holding(<< >>)
         ELSE Holding([i \in DOMAIN document[2].accounts[2] |->
                AccountFromDict(document[2].accounts[2][i][1], document[2].accounts[2][i][2][2])])
=============================================================================
