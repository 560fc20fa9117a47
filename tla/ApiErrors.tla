------------------------------ MODULE ApiErrors -----------------------------
(***************************************************************************)
(* The one place where failures become HTTP answers                        *)
(* (relayterm-api/src/error.rs): what each layer's error turns into, and   *)
(* what of it reaches the client.                                          *)
(***************************************************************************)

\* A variant of ApiError.
ApiErrorKinds ==
  {"Validation", "Unauthorized", "CsrfOriginMismatch", "NotFound", "Conflict",
   "TooManyRequests", "TooManySessions", "TooManyStartingSessions",
   "TooManySessionsDeployment", "BadGateway", "ServiceUnavailable", "Internal"}

\* ErrorCode::as_str: the stable code of the envelope.
ErrorCode(kind) ==
  [Validation |-> "invalid_input", Unauthorized |-> "unauthorized",
   CsrfOriginMismatch |-> "csrf_origin_mismatch", NotFound |-> "not_found",
   Conflict |-> "conflict", TooManyRequests |-> "too_many_requests",
   TooManySessions |-> "too_many_sessions",
   TooManyStartingSessions |-> "too_many_starting_sessions",
   TooManySessionsDeployment |-> "too_many_sessions_deployment",
   BadGateway |-> "bad_gateway", ServiceUnavailable |-> "service_unavailable",
   Internal |-> "internal_error"][kind]

\* ApiError::parts: the status.
Status(kind) ==
  CASE kind = "Validation" -> 400
    [] kind = "Unauthorized" -> 401
    [] kind = "CsrfOriginMismatch" -> 403
    [] kind = "NotFound" -> 404
    [] kind = "Conflict" -> 409
    [] kind \in {"TooManyRequests", "TooManySessions", "TooManyStartingSessions",
                 "TooManySessionsDeployment"} -> 429
    [] kind = "Internal" -> 500
    [] kind = "BadGateway" -> 502
    [] kind = "ServiceUnavailable" -> 503

\* Only a validation message, an entity's name or a fixed conflict reason is sent;
\* the detail of the other kinds is logged.
DetailSent(kind) == kind \in {"Validation", "NotFound", "Conflict"}

\* IntoResponse.
Envelope(kind) ==
  [status |-> Status(kind), code |-> ErrorCode(kind), detail |-> DetailSent(kind)]

\* From<RepositoryError>: a CHECK that fails is a bug of this code, not the client's.
FromRepository(err) ==
  CASE err = "NotFound" -> "NotFound" [] err = "Conflict" -> "Conflict"
    [] err \in {"Validation", "Database"} -> "Internal"

\* From<HostKeyPreflightError>, From<ProbeError>.
FromPreflight(err) == IF err = "InvalidIdentity" THEN "Internal" ELSE "BadGateway"

\* From<SshAuthCheckError>.
FromAuthCheck(err) == IF err = "Saturated" THEN "ServiceUnavailable" ELSE "Internal"

\* From<TerminalSessionManagerError>; its Repository variant is passed through, and
\* PtyStart is a net for a route that does not translate it first.
FromManager(err) ==
  CASE err = "InvalidDimensions" -> "Validation"
    [] err = "NotFound" -> "NotFound"
    [] err \in {"SessionClosed", "PtyNotLive"} -> "Conflict"
    [] err = "PtyStart" -> "Internal"
    [] OTHER -> FromRepository(err)

\* map_pty_start_error of the create route: a server that refuses the key, or shows
\* one that is not pinned, is a conflict, not a failing gateway.
SshPtyErrors ==
  {"InvalidIdentity", "Transport", "HostKeyNotTrusted", "AuthenticationFailed",
   "PtyStartFailed", "BridgeClosed"}
MapPtyStartError(err) ==
  CASE err \in {"InvalidIdentity", "BridgeClosed"} -> "Internal"
    [] err \in {"Transport", "PtyStartFailed"} -> "BadGateway"
    [] err \in {"HostKeyNotTrusted", "AuthenticationFailed"} -> "Conflict"

\* From<AuthServiceError>: the reasons a session is refused are one answer.
FromAuthService(err) ==
  IF err \in {"InvalidCredentials", "SessionInvalid", "SessionExpired", "SessionRevoked"}
    THEN "Unauthorized" ELSE "Internal"

\* From<VaultError>.
FromVault(err) ==
  CASE err \in {"UnsupportedKeyType", "UnsupportedFormat"} -> "Validation"
    [] err = "MasterKey" -> "ServiceUnavailable"
    [] OTHER -> "Internal"

\* map_sqlx_error (relayterm-db/src/error.rs): unique and foreign-key violations are
\* conflicts, a missing row is NotFound, a CHECK and everything else is opaque.
MapSqlxError(err) ==
  CASE err = "RowNotFound" -> "NotFound"
    [] err \in {"unique", "foreign_key"} -> "Conflict"
    [] OTHER -> "Database"
=============================================================================
