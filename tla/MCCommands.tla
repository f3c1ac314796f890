------------------------------ MODULE MCCommands ------------------------------
(***************************************************************************)
(* Commands for TLC: a read token, a write token that lives longer, and a  *)
(* token of another agreement.                                             *)
(***************************************************************************)
EXTENDS Commands
LOCAL INSTANCE TLC

\* A JWT with its claims; ids, subjects and sessions are numbers.
Jwt(text, fault, typ, azp, sub, sid, jti, exp) ==
  [text |-> text, digest |-> 90 + text, fault |-> fault,
   claims |-> [typ |-> typ, azp |-> azp, sub |-> sub, sid |-> sid, jti |-> jti,
               iat |-> Json("number", 0), exp |-> exp]]

Id(n) == Json("string", n)
At(n) == Json("number", n)

ReadJwt  == Jwt(1, "", "Refresh", "trade-api-read", Id(1), Id(1), Id(1), At(2))
WriteJwt == Jwt(2, "", "Offline", "trade-api-write", Id(1), Id(2), Absent, At(4))
OtherJwt == Jwt(3, "", "Refresh", "trade-api-read", Id(2), Id(3), Id(3), At(4))
AccessJwt == Jwt(4, "", "Bearer", "trade-api-read", Id(1), Id(1), Id(1), At(2))
BrokenJwt == Jwt(5, "base64", "Refresh", "trade-api-read", Id(1), Id(1), Id(1), At(2))
NoExpiryJwt == Jwt(6, "", "Refresh", "trade-api-read", Id(1), Id(1), Id(1), Absent)

PastedTexts ==
  {<<ReadJwt>>, <<BrokenJwt, AccessJwt, WriteJwt, ReadJwt>>, <<OtherJwt>>, <<AccessJwt, NoExpiryJwt>>}

Reply(status, form, error, description) ==
  [status |-> status, form |-> form, error |-> error, description |-> description, type |-> ""]

EndpointReplies ==
  {Reply(200, "token", "", ""),
   Reply(400, "oauth", "invalid_grant", "Session not active"),
   Reply(400, "oauth", "invalid_grant", "Invalid refresh token"),
   Reply(400, "oauth", "invalid_grant", "Account disabled"),
   Reply(0, "text", "", "")}

Held(jwt) == TokenRecord(Parse(jwt).token, 0)
Main(tokens) == Account(1, Json("string", 1), tokens)

NoLabels == {Null}

SomeFiles ==
  {Absent,
   Dump(<<Main(<<Held(WriteJwt), Held(ReadJwt)>>), Account(2, Null, << >>)>>)}

Entry == RecordToDict(Held(ReadJwt))
FileOf(fields) ==
  Json("object", [version |-> Absent, accounts |-> Json("object", <<(<<1, fields>>)>>)])
Tokens(entries) ==
  FileOf(Json("object", [label |-> Absent, tokens |-> Json("list", entries)]))

DamagedFiles ==
  {Json("text", 0),
   [Dump(<< >>) EXCEPT ![2].version = Json("number", 2)],
   FileOf(Null),
   Tokens(<<Entry, Entry>>),
   Tokens(<<[Entry EXCEPT ![2].dead = Json("object", [reason |-> Json("string", "expired"), at |-> Absent])]>>)}
  \cup {Tokens(<<[Entry EXCEPT ![2][key] = Absent]>>) : key \in DOMAIN Entry[2] \ {"dead"}}
=============================================================================
