------------------------------- MODULE Errors -------------------------------
(***************************************************************************)
(* exceptions.py and auth/keycloak.py: the classes of errors, and which of *)
(* them a reply of the REST API or of the token endpoint becomes.          *)
(*                                                                         *)
(* A reply is [status, form, error, description, type]: the status, 0 when *)
(* no reply came; the form of its body, "text" (not JSON), "oauth" (the    *)
(* error body of the token endpoint), "api" (that of the REST API),        *)
(* "token" (a token response) or "other" JSON; and what the body says,     *)
(* each "" when it does not.                                               *)
(***************************************************************************)
EXTENDS Integers, Enums

----------------------------------------------------------------------------
(* The classes.                                                            *)

Parent ==
  [TransportError |-> "BacsyError", ServerError |-> "TransportError",
   ProtocolError |-> "TransportError", WebSocketConnectError |-> "TransportError",
   WebSocketClosedError |-> "TransportError",
   ConfigurationError |-> "BacsyError", InvalidTokenError |-> "ConfigurationError",
   AccountError |-> "ConfigurationError", AccountNotFoundError |-> "AccountError",
   AccountExistsError |-> "AccountError", AccountStoreError |-> "AccountError",
   AuthError |-> "BacsyError", AuthenticationError |-> "AuthError",
   PermissionDeniedError |-> "AuthError", TokenRefreshError |-> "AuthError",
   NoUsableTokenError |-> "AuthError",
   ApiError |-> "BacsyError", BadRequestError |-> "ApiError",
   RequestValidationError |-> "BadRequestError", NotFoundError |-> "ApiError",
   ConflictError |-> "ApiError", RateLimitError |-> "ApiError", StreamLimitError |-> "ApiError"]

Bases ==
  LET bases[class \in DOMAIN Parent \cup {"BacsyError"}] ==
        {class} \cup (IF class = "BacsyError" THEN {} ELSE bases[Parent[class]])
  IN bases

Reasons == {"expired", "revoked", "scope_mismatch", "invalid", "unknown"}
Permanent(reason) == reason # "unknown"

Error(class, status, reason) == [class |-> class, status |-> status, reason |-> reason]
Raised(class, status) == Error(class, status, "")

\* Whether the same call may succeed later.
Transient(error) ==
  \/ "TransportError" \in Bases[error.class] /\ error.class # "ProtocolError"
  \/ error.class = "RateLimitError"
  \/ error.class = "TokenRefreshError" /\ error.reason = "unknown"

----------------------------------------------------------------------------
(* Replies.                                                                *)

ErrorTypeClass ==
  [VALIDATION_ERROR |-> "RequestValidationError", BAD_REQUEST |-> "BadRequestError",
   RESOURCE_EXHAUSTED |-> "RateLimitError", USER_BLOCKED |-> "PermissionDeniedError",
   FORBIDDEN |-> "PermissionDeniedError", NOT_FOUND |-> "NotFoundError",
   USER_NOT_FOUND |-> "NotFoundError", UNAUTHORIZED |-> "AuthenticationError",
   SESSION_NOT_FOUND_ERROR |-> "AuthenticationError",
   SESSION_EXPIRED_ERROR |-> "AuthenticationError",
   SESSION_FAILED_ERROR |-> "AuthenticationError", CONFLICT |-> "ConflictError",
   INTERNAL_SERVER_ERROR |-> "ServerError", CANDLE_LIMIT_EXCEEDED |-> "RequestValidationError"]

ClassForStatus(status) ==
  CASE status = 400 -> "BadRequestError"
    [] status = 401 -> "AuthenticationError"
    [] status = 403 -> "PermissionDeniedError"
    [] status = 404 -> "NotFoundError"
    [] status = 409 -> "ConflictError"
    [] status = 422 -> "RequestValidationError"
    [] status = 429 -> "RateLimitError"
    [] status >= 500 -> "ServerError"
    [] OTHER -> "ApiError"

\* A body of another shape, and a type nobody declared, say nothing.
ErrorType(reply) == IF reply.form = "api" THEN reply.type ELSE ""

ErrorForResponse(reply) ==
  LET class == ClassForStatus(reply.status)
  IN Raised(IF /\ class \in {"ApiError", "BadRequestError", "RequestValidationError"}
               /\ ErrorType(reply) \in ApiErrorType
            THEN ErrorTypeClass[ErrorType(reply)] ELSE class,
            reply.status)

Descriptions ==
  {<<"Invalid refresh token. Token client and authorized client don't match", "scope_mismatch">>,
   <<"Invalid refresh token", "invalid">>,
   <<"Token is not active", "expired">>,
   <<"Session not active", "revoked">>}

ClassifyRefreshError(status, error, description) ==
  IF status = 400 /\ error = "invalid_grant" /\ \E d \in Descriptions : d[1] = description
  THEN (CHOOSE d \in Descriptions : d[1] = description)[2]
  ELSE "unknown"

RefreshError(reply) ==
  Error("TokenRefreshError", reply.status,
        IF reply.form = "oauth"
        THEN ClassifyRefreshError(reply.status, reply.error, reply.description)
        ELSE "unknown")

Minted == Error("", 200, "")

\* exchange_refresh_token: an access token, or the error it raises.
Exchange(reply) ==
  CASE reply.status = 0 -> Raised("TransportError", 0)
    [] reply.status = 400 -> RefreshError(reply)
    [] reply.status > 400 -> ErrorForResponse(reply)
    [] 0 < reply.status /\ reply.status < 400 ->
         IF reply.form = "token" THEN Minted ELSE Raised("ProtocolError", reply.status)
=============================================================================
