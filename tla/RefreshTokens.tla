---------------------------- MODULE RefreshTokens ----------------------------
(***************************************************************************)
(* auth/tokens.py and auth/_jwt.py: what a refresh token says of itself.   *)
(*                                                                         *)
(* A candidate is [text, digest, fault, claims]: the text itself, the id   *)
(* derived from it, what is wrong with it as a JWT ("" when nothing is)    *)
(* and its claims.  A claim is a JSON value <<type, value>>; one of type   *)
(* "absent" is not there.  Ids and times are numbers, 0 an empty string.   *)
(***************************************************************************)
EXTENDS Integers, Sequences, SequencesExt
LOCAL INSTANCE TLC

Json(type, value) == <<type, value>>
Absent == Json("absent", 0)

InvalidToken == [ok |-> FALSE]
Parsed(token) == [ok |-> TRUE, token |-> token]

ScopeNames ==
  [read |-> "READ", ro |-> "READ", write |-> "WRITE", rw |-> "WRITE"]
    @@ ("trade-api-read" :> "READ" @@ "trade-api-write" :> "WRITE")

Capabilities(scope) == IF scope = "WRITE" THEN {"READ", "WRITE"} ELSE {"READ"}

\* Three segments of base64url, the first two of them JSON objects.
Faults == {"segments", "base64", "json", "object"}

StrClaim(claim) == claim[1] = "string" /\ claim[2] # 0
TimestampClaim(claim) == claim[1] = "number"

\* RefreshToken.parse
Parse(jwt) ==
  IF /\ jwt.fault \notin Faults
     /\ jwt.claims.typ \in {"Refresh", "Offline"}
     /\ StrClaim(jwt.claims.sub) /\ StrClaim(jwt.claims.sid)
     /\ jwt.claims.azp \in DOMAIN ScopeNames
     /\ TimestampClaim(jwt.claims.iat) /\ TimestampClaim(jwt.claims.exp)
  THEN Parsed([value |-> jwt.text,
               scope |-> ScopeNames[jwt.claims.azp],
               issued_at |-> jwt.claims.iat[2],
               expires_at |-> jwt.claims.exp[2],
               sid |-> jwt.claims.sid[2],
               agreement_id |-> jwt.claims.sub[2],
               token_id |-> IF StrClaim(jwt.claims.jti) THEN jwt.claims.jti[2] ELSE jwt.digest])
  ELSE InvalidToken

Expired(token, now) == now >= token.expires_at
ExpiresIn(token, now) == token.expires_at - now

\* The first refresh token in pasted text.
ExtractToken(pasted) ==
  LET tokens == SelectSeq(pasted, LAMBDA jwt : Parse(jwt).ok)
  IN IF tokens = << >> THEN InvalidToken ELSE Parse(Head(tokens))

\* parse_refresh_tokens: every value has to be a token.
ParseRefreshTokens(values) ==
  IF \A i \in DOMAIN values : Parse(values[i]).ok
  THEN [ok |-> TRUE, tokens |-> [i \in DOMAIN values |-> Parse(values[i]).token]]
  ELSE InvalidToken

----------------------------------------------------------------------------
(* credentials.py: what a provider is made for, or a ConfigurationError.   *)
(* An argument that is not given is Absent, and so is a variable that is   *)
(* not set.                                                                *)

NoCredential == [ok |-> FALSE]

\* The name given, else BACSY_ACCOUNT; an empty one is none.
AccountTokenProvider(name, env) ==
  CASE StrClaim(name) -> [ok |-> TRUE, account |-> name[2]]
    [] ~ StrClaim(name) /\ StrClaim(env) -> [ok |-> TRUE, account |-> env[2]]
    [] OTHER -> NoCredential

\* The tokens given, else those of BACSY_REFRESH_TOKEN, as a list of the values
\* in it: an empty argument does not fall back on the variable.
RefreshTokenProvider(argument, env) ==
  LET values == CASE argument # Absent -> argument[2]
                  [] argument = Absent /\ env # Absent -> env[2]
                  [] OTHER -> << >>
  IN IF values = << >> THEN NoCredential ELSE ParseRefreshTokens(values)
=============================================================================
