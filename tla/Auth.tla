-------------------------------- MODULE Auth --------------------------------
(***************************************************************************)
(* Browser authentication: the first-user bootstrap, password login behind *)
(* the throttle, cookie sessions and every way to revoke them.             *)
(*                                                                         *)
(* routes/v1/auth.rs over AuthService (relayterm-auth/service.rs), the     *)
(* LoginThrottler, the AuthenticatedUser extractor and the PostgreSQL      *)
(* repositories of users, user_passwords, user_sessions, audit_events.     *)
(*                                                                         *)
(* A request is a task: one action is one SQL statement, or one critical   *)
(* section of the throttle's mutex, and requests interleave between them.  *)
(* req[r].pc names the next step; its first letter tells the route: b      *)
(* bootstrap, l login, o logout, x the extractor, p change_password,       *)
(* v sessions/:id/revoke, w revoke-all-except-current.                     *)
(*                                                                         *)
(* Emails are unique and compared without case, as the throttle's key is,  *)
(* so one value of Users is the row, its email and its key.  A session's   *)
(* token is drawn at random and only its digest is stored: a cookie names  *)
(* its session and no other.  Of the audit feed the model keeps the events *)
(* that name a session; the others are appended and read by no decision,   *)
(* but their statement is a step that can fail.                            *)
(***************************************************************************)
EXTENDS LoginThrottle

CONSTANTS
  Users, Passwords, Sids, Reqs,
  None,
  Provisioned,   \* the users with a password before the first request
  Routes,        \* the routes under test
  TTL,           \* SESSION_TTL
  MaxTime,       \* bound on the clock
  MaxEpoch,      \* bound on the password writes of one user
  MaxRestarts,   \* bound on the backend restarts
  MaxLost        \* bound on the owed writes that are lost

Reasons == {"logout", "password_changed", "user_revoke", "user_revoke_all"}
Times == 0 .. MaxTime
Row == [user : Users, expires_at : 0 .. MaxTime + TTL,
        revoked_at : Times \cup {None}, reason : Reasons \cup {None},
        epoch : 0 .. MaxEpoch, late : BOOLEAN]

ASSUME AuthAssumption ==
  /\ None \notin Users \cup Passwords \cup Sids \cup Nat \cup Reasons /\ None \notin Row
  /\ Provisioned \subseteq Users /\ TTL \in Nat \ {0} /\ IsFiniteSet(Reqs)
  /\ MaxTime \in Nat /\ MaxEpoch \in Nat /\ MaxRestarts \in Nat /\ MaxLost \in Nat

VARIABLES
  \* the database
  users,      \* rows of users
  creds,      \* user_passwords: the password whose hash is stored
  sessions,   \* user_sessions, None before the row exists
  audit,      \* audit_events that name a session
  \* the backend process
  throttle,   \* LoginThrottler.inner
  req,        \* the requests in flight
  now,
  restarts,
  \* the browsers
  cookies,    \* the sessions whose cookie left the server
  \* history, read by the properties only
  epoch,      \* how often a user's password was written
  keepers,    \* sessions that changed their user's password
  died,       \* where a request stopped half way: << step, user or session >>
  guesses     \* per key, the starts of its failed attempts since it was last clear

db      == << users, creds, sessions, audit >>
history == << epoch, keepers, died, guesses >>
vars    == << db, throttle, req, now, restarts, cookies, history >>

Steps == {"idle", "b_any", "b_create", "b_password", "b_audit",
          "l_verify", "l_fail", "l_clear", "l_create", "l_audit",
          "o_validate", "o_revoke", "o_audit",
          "x_validate", "x_touch", "p_verify", "p_set", "p_revoke", "p_audit",
          "v_snapshot", "v_update", "v_audit", "w_update", "w_audit"}
Request == [pc : Steps, route : Routes \cup {None}, user : Users \cup {None},
            pw : Passwords \cup {None}, new : Passwords \cup {None},
            sid : Sids \cup {None}, tgt : Sids \cup {None},
            at : Times, epoch : 0 .. MaxEpoch, fresh : BOOLEAN]

\* The rows and the requests; the throttle's table is bounded in TypeOK.
RowsOK ==
  /\ users \subseteq Users
  /\ creds \in [Users -> Passwords \cup {None}]
  /\ \A u \in Users : creds[u] # None => u \in users
  /\ sessions \in [Sids -> Row \cup {None}]
  /\ audit \subseteq [kind : {"logout_succeeded", "session_revoked"}, of : Sids]
  /\ DOMAIN throttle \subseteq Users
  /\ \A u \in DOMAIN throttle :
       DOMAIN throttle[u] = {"failures", "blocked_until"} /\ throttle[u].blocked_until \in Nat
  /\ req \in [Reqs -> Request]
  /\ now \in Times /\ restarts \in 0 .. MaxRestarts
  /\ cookies \subseteq Sids /\ keepers \subseteq Sids
  /\ epoch \in [Users -> 0 .. MaxEpoch]

TypeOK ==
  /\ RowsOK
  /\ Cardinality(DOMAIN throttle) <= MaxTrackedKeys
  /\ \A u \in DOMAIN throttle : Len(throttle[u].failures) <= MaxFailures + 1

Idle == [pc |-> "idle", route |-> None, user |-> None, pw |-> None, new |-> None,
         sid |-> None, tgt |-> None, at |-> 0, epoch |-> 0, fresh |-> FALSE]

Init ==
  /\ users = Provisioned
  /\ creds \in [Users -> Passwords \cup {None}]
  /\ \A u \in Users : creds[u] # None <=> u \in Provisioned
  /\ sessions = [s \in Sids |-> None]
  /\ audit = {}
  /\ throttle = << >>
  /\ req = [r \in Reqs |-> Idle]
  /\ now = 0 /\ restarts = 0
  /\ cookies = {} /\ keepers = {} /\ died = {}
  /\ epoch = [u \in Users |-> 0]
  /\ guesses = [u \in Users |-> << >>]

At(r, step)   == req[r].pc = step
Go(r, step)   == req' = [req EXCEPT ![r].pc = step]
Done(r)       == req' = [req EXCEPT ![r] = Idle]
Open(r, q)    == At(r, "idle") /\ req' = [req EXCEPT ![r] = q]
Audited(k, x) == audit' = audit \cup {[kind |-> k, of |-> x]}

-----------------------------------------------------------------------------
(* AuthService and the repositories *)

IsRevoked(row)     == row.revoked_at # None
IsExpiredAt(row,t) == row.expires_at <= t

\* The row whose digest the cookie's token has.
GetByTokenHash(s) == sessions[s]

\* validate_session_token: the cookie's row, neither revoked nor expired.
Validates(s, t) ==
  GetByTokenHash(s) # None /\ ~IsRevoked(sessions[s]) /\ ~IsExpiredAt(sessions[s], t)

\* The credential row of a user, None when there is none, and whether any exists.
GetForUser(u) == creds[u]
AnyExists == \E u \in Users : GetForUser(u) # None

\* An Argon2id hash verifies the password it was made from and no other.
HashVerifies(hashed, pw) == hashed # None /\ hashed = pw

\* verify_password: no credential row and a wrong password are one error.
PasswordMatches(u, pw) == u # None /\ HashVerifies(GetForUser(u), pw)

\* users().create: the unique index on the email refuses a second row.
CreateUser(u) == u \notin users /\ users' = users \cup {u}

UpsertForUser(u, pw) == creds' = [creds EXCEPT ![u] = pw]

\* set_password: the hash replaces the user's credential row.
SetPassword(u, pw) ==
  /\ epoch[u] < MaxEpoch
  /\ UpsertForUser(u, pw)
  /\ epoch' = [epoch EXCEPT ![u] = @ + 1]

\* A token is 32 fresh random bytes: its digest is no other row's.
FreshToken(s) == sessions[s] = None

InsertSession(s, u, expires_at, e) ==
  sessions' = [sessions EXCEPT ![s] =
    [user |-> u, expires_at |-> expires_at, revoked_at |-> None, reason |-> None,
     epoch |-> e, late |-> e # epoch[u]]]

CreateSession(s, u, t, e) == FreshToken(s) /\ InsertSession(s, u, t + TTL, e)

\* The CASE of revoke and revoke_for_user keeps the first revocation.
Revoked(row, t, why) ==
  IF IsRevoked(row) THEN row ELSE [row EXCEPT !.revoked_at = t, !.reason = why]

Revoke(s, t, why) == sessions' = [sessions EXCEPT ![s] = Revoked(@, t, why)]

\* The rows an UPDATE with id <> except and revoked_at IS NULL changes.
OtherLiveSessions(u, except) ==
  {s \in Sids \ {except} : sessions[s] # None /\ sessions[s].user = u /\ ~IsRevoked(sessions[s])}

RevokeAllExcept(u, except, t, why) ==
  sessions' = [s \in Sids |-> IF s \in OtherLiveSessions(u, except)
                                THEN Revoked(sessions[s], t, why) ELSE sessions[s]]

-----------------------------------------------------------------------------
(* POST /auth/bootstrap, with the right bootstrap token *)

BootstrapStart(r, u, pw) ==
  /\ "bootstrap" \in Routes
  /\ Open(r, [Idle EXCEPT !.pc = "b_any", !.route = "bootstrap", !.user = u, !.pw = pw,
                          !.fresh = ~AnyExists])
  /\ UNCHANGED << db, throttle, now, restarts, cookies, history >>

\* any_exists; a refusal only adds a login_failed event.
BootstrapAny(r) ==
  /\ At(r, "b_any")
  /\ IF AnyExists THEN Done(r) ELSE Go(r, "b_create")
  /\ UNCHANGED << db, throttle, now, restarts, cookies, history >>

BootstrapCreate(r) ==
  /\ At(r, "b_create")
  /\ IF req[r].user \in users
       THEN Done(r) /\ UNCHANGED users
       ELSE CreateUser(req[r].user) /\ Go(r, "b_password")
  /\ UNCHANGED << creds, sessions, audit, throttle, now, restarts, cookies, history >>

BootstrapPassword(r) ==
  /\ At(r, "b_password")
  /\ SetPassword(req[r].user, req[r].pw)
  /\ Go(r, "b_audit")
  /\ UNCHANGED << users, sessions, audit, throttle, now, restarts, cookies, keepers, died, guesses >>

BootstrapAudit(r) ==
  /\ At(r, "b_audit")
  /\ Done(r)
  /\ UNCHANGED << db, throttle, now, restarts, cookies, history >>

Bootstrap(r) ==
  \/ \E u \in Users, pw \in Passwords : BootstrapStart(r, u, pw)
  \/ BootstrapAny(r) \/ BootstrapCreate(r) \/ BootstrapPassword(r) \/ BootstrapAudit(r)

-----------------------------------------------------------------------------
(* POST /auth/login *)

\* The throttle is consulted and the clock read before the first await.
LoginStart(r, u, pw) ==
  /\ "login" \in Routes
  /\ IF Throttled(throttle, u, now)
       THEN At(r, "idle") /\ UNCHANGED req
       ELSE Open(r, [Idle EXCEPT !.pc = "l_verify", !.route = "login", !.user = u,
                                 !.pw = pw, !.at = now])
  /\ UNCHANGED << db, throttle, now, restarts, cookies, history >>

\* get_by_email and verify_password.  An error of the credential read fails
\* the attempt as a wrong password does; req[r].epoch is history.
LoginVerify(r) ==
  /\ At(r, "l_verify")
  /\ \/ /\ PasswordMatches(req[r].user, req[r].pw)
        /\ req' = [req EXCEPT ![r].pc = "l_clear", ![r].pw = None,
                              ![r].epoch = epoch[req[r].user]]
     \/ req' = [req EXCEPT ![r].pc = "l_fail", ![r].pw = None]
  /\ UNCHANGED << db, throttle, now, restarts, cookies, history >>

\* record_failure, with the time of the start.
LoginFail(r) ==
  LET u == req[r].user
      t == req[r].at
      table == RecordFailure(throttle, u, t)
  IN
  /\ At(r, "l_fail")
  /\ throttle' = table
  /\ guesses' = [k \in Users |-> IF k \notin DOMAIN table THEN << >>
                                 ELSE IF k = u THEN Append(guesses[k], t) ELSE guesses[k]]
  /\ Done(r)
  /\ UNCHANGED << db, now, restarts, cookies, epoch, keepers, died >>

LoginClear(r) ==
  /\ At(r, "l_clear")
  /\ throttle' = RecordSuccess(throttle, req[r].user)
  /\ guesses' = [guesses EXCEPT ![req[r].user] = << >>]
  /\ Go(r, "l_create")
  /\ UNCHANGED << db, now, restarts, cookies, epoch, keepers, died >>

LoginCreate(r, s) ==
  /\ At(r, "l_create")
  /\ CreateSession(s, req[r].user, req[r].at, req[r].epoch)
  /\ req' = [req EXCEPT ![r].pc = "l_audit", ![r].sid = s]
  /\ UNCHANGED << users, creds, audit, throttle, now, restarts, cookies, history >>

SetCookie(s) == cookies' = cookies \cup {s}

\* Only a request that wrote its audit row answers with the cookie.
LoginAudit(r) ==
  /\ At(r, "l_audit")
  /\ SetCookie(req[r].sid)
  /\ Done(r)
  /\ UNCHANGED << db, throttle, now, restarts, history >>

Login(r) ==
  \/ \E u \in Users, pw \in Passwords : LoginStart(r, u, pw)
  \/ LoginVerify(r) \/ LoginFail(r) \/ LoginClear(r)
  \/ \E s \in Sids : LoginCreate(r, s)
  \/ LoginAudit(r)

-----------------------------------------------------------------------------
(* POST /auth/logout: no extractor, any bad cookie is a 204 *)

LogoutStart(r, s) ==
  /\ "logout" \in Routes
  /\ Open(r, [Idle EXCEPT !.pc = "o_validate", !.route = "logout", !.sid = s, !.at = now])
  /\ UNCHANGED << db, throttle, now, restarts, cookies, history >>

LogoutValidate(r) ==
  /\ At(r, "o_validate")
  /\ IF Validates(req[r].sid, req[r].at) THEN Go(r, "o_revoke") ELSE Done(r)
  /\ UNCHANGED << db, throttle, now, restarts, cookies, history >>

LogoutRevoke(r) ==
  /\ At(r, "o_revoke")
  /\ Revoke(req[r].sid, req[r].at, "logout")
  /\ Go(r, "o_audit")
  /\ UNCHANGED << users, creds, audit, throttle, now, restarts, cookies, history >>

LogoutAudit(r) ==
  /\ At(r, "o_audit")
  /\ Audited("logout_succeeded", req[r].sid)
  /\ Done(r)
  /\ UNCHANGED << users, creds, sessions, throttle, now, restarts, cookies, history >>

Logout(r) ==
  \/ \E s \in cookies : LogoutStart(r, s)
  \/ LogoutValidate(r) \/ LogoutRevoke(r) \/ LogoutAudit(r)

-----------------------------------------------------------------------------
(* The AuthenticatedUser extractor of the other routes *)

\* "read" stands for every route that only reads: me, the session list, the
\* audit feed.
FirstStep == [change |-> "p_verify", revoke |-> "v_snapshot", revoke_all |-> "w_update"]

ExtractorStart(r, route, s, tgt, pw, new) ==
  /\ route \in Routes
  /\ Open(r, [Idle EXCEPT !.pc = "x_validate", !.route = route, !.sid = s, !.tgt = tgt,
                          !.pw = pw, !.new = new, !.at = now])
  /\ UNCHANGED << db, throttle, now, restarts, cookies, history >>

ExtractorValidate(r) ==
  /\ At(r, "x_validate")
  /\ IF Validates(req[r].sid, req[r].at)
       THEN req' = [req EXCEPT ![r].pc = "x_touch", ![r].user = sessions[req[r].sid].user]
       ELSE Done(r)
  /\ UNCHANGED << db, throttle, now, restarts, cookies, history >>

\* The user's row and touch_last_seen (last_seen_at is displayed, never
\* read by a decision); the route then reads the clock for itself.
ExtractorTouch(r) ==
  /\ At(r, "x_touch")
  /\ IF req[r].route = "read" THEN Done(r)
     ELSE req' = [req EXCEPT ![r].pc = FirstStep[req[r].route], ![r].at = now]
  /\ UNCHANGED << db, throttle, now, restarts, cookies, history >>

Extractor(r) ==
  \/ \E s \in cookies, route \in {"read", "revoke_all"} :
       ExtractorStart(r, route, s, None, None, None)
  \/ \E s \in cookies, tgt \in {x \in Sids : sessions[x] # None} :
       ExtractorStart(r, "revoke", s, tgt, None, None)
  \/ \E s \in cookies, pw, new \in Passwords :
       ExtractorStart(r, "change", s, None, pw, new)
  \/ ExtractorValidate(r) \/ ExtractorTouch(r)

-----------------------------------------------------------------------------
(* POST /auth/change-password *)

ChangeVerify(r) ==
  /\ At(r, "p_verify")
  /\ IF PasswordMatches(req[r].user, req[r].pw)
       THEN req' = [req EXCEPT ![r].pc = "p_set", ![r].pw = None] ELSE Done(r)
  /\ UNCHANGED << db, throttle, now, restarts, cookies, history >>

\* mutant of ChangeSet: the other sessions are not revoked
ChangeSetOnly(r) ==
  /\ At(r, "p_set")
  /\ SetPassword(req[r].user, req[r].new)
  /\ keepers' = keepers \cup {req[r].sid}
  /\ req' = [req EXCEPT ![r].pc = "p_audit", ![r].new = None]
  /\ UNCHANGED << users, sessions, audit, throttle, now, restarts, cookies, died, guesses >>

ChangeSet(r) ==
  /\ At(r, "p_set")
  /\ SetPassword(req[r].user, req[r].new)
  /\ keepers' = keepers \cup {req[r].sid}
  /\ req' = [req EXCEPT ![r].pc = "p_revoke", ![r].new = None]
  /\ UNCHANGED << users, sessions, audit, throttle, now, restarts, cookies, died, guesses >>

ChangeRevoke(r) ==
  /\ At(r, "p_revoke")
  /\ RevokeAllExcept(req[r].user, req[r].sid, req[r].at, "password_changed")
  /\ Go(r, "p_audit")
  /\ UNCHANGED << users, creds, audit, throttle, now, restarts, cookies, history >>

ChangeAudit(r) ==
  /\ At(r, "p_audit")
  /\ Done(r)
  /\ UNCHANGED << db, throttle, now, restarts, cookies, history >>

ChangePassword(r) == ChangeVerify(r) \/ ChangeSet(r) \/ ChangeRevoke(r) \/ ChangeAudit(r)

-----------------------------------------------------------------------------
(* POST /auth/sessions/:id/revoke and /auth/sessions/revoke-all-except-current *)

\* revoke_for_user is one statement, but its `old` CTE reads the row in the
\* statement's snapshot while the UPDATE waits for the row's lock: the two
\* are separate steps, and fresh is prior_revoked_at IS NULL.  A session of
\* another user answers as a missing one.
RevokeSnapshot(r) ==
  LET row == sessions[req[r].tgt] IN
  /\ At(r, "v_snapshot")
  /\ IF row # None /\ row.user = req[r].user
       THEN req' = [req EXCEPT ![r].pc = "v_update", ![r].fresh = ~IsRevoked(row)]
       ELSE Done(r)
  /\ UNCHANGED << db, throttle, now, restarts, cookies, history >>

\* mutant of RevokeUpdate: whether the row changed is read after the update
RevokeUpdateRereads(r) ==
  /\ At(r, "v_update")
  /\ Revoke(req[r].tgt, req[r].at, "user_revoke")
  /\ IF ~IsRevoked(sessions'[req[r].tgt]) THEN Go(r, "v_audit") ELSE Done(r)
  /\ UNCHANGED << users, creds, audit, throttle, now, restarts, cookies, history >>

RevokeUpdate(r) ==
  /\ At(r, "v_update")
  /\ Revoke(req[r].tgt, req[r].at, "user_revoke")
  /\ IF req[r].fresh THEN Go(r, "v_audit") ELSE Done(r)
  /\ UNCHANGED << users, creds, audit, throttle, now, restarts, cookies, history >>

RevokeAudit(r) ==
  /\ At(r, "v_audit")
  /\ Audited("session_revoked", req[r].tgt)
  /\ Done(r)
  /\ UNCHANGED << users, creds, sessions, throttle, now, restarts, cookies, history >>

RevokeAllUpdate(r) ==
  /\ At(r, "w_update")
  /\ RevokeAllExcept(req[r].user, req[r].sid, req[r].at, "user_revoke_all")
  /\ IF OtherLiveSessions(req[r].user, req[r].sid) # {} THEN Go(r, "w_audit") ELSE Done(r)
  /\ UNCHANGED << users, creds, audit, throttle, now, restarts, cookies, history >>

RevokeAllAudit(r) ==
  /\ At(r, "w_audit")
  /\ Done(r)
  /\ UNCHANGED << db, throttle, now, restarts, cookies, history >>

RevokeSessions(r) ==
  \/ RevokeSnapshot(r) \/ RevokeUpdate(r) \/ RevokeAudit(r)
  \/ RevokeAllUpdate(r) \/ RevokeAllAudit(r)

-----------------------------------------------------------------------------
(* The environment *)

\* What the requests of R still have to write.
Owed(R) ==
  {<< "p_revoke", req[r].user >> : r \in {q \in R : At(q, "p_revoke")}}
    \cup {<< "o_audit", req[r].sid >> : r \in {q \in R : At(q, "o_audit")}}
    \cup {<< "v_audit", req[r].tgt >> : r \in {q \in R : At(q, "v_audit")}}

\* A statement fails with a 500, or the client disconnects and the server
\* drops the handler at an await: what was written before stays.
Abort(r) ==
  /\ ~At(r, "idle")
  /\ Owed({r}) = {} \/ Cardinality(died) < MaxLost
  /\ died' = died \cup Owed({r})
  /\ Done(r)
  /\ UNCHANGED << db, throttle, now, restarts, cookies, epoch, keepers, guesses >>

\* A restart loses the throttle's table and every request in flight.
Restart ==
  /\ restarts < MaxRestarts
  /\ restarts' = restarts + 1
  /\ throttle' = << >>
  /\ guesses' = [u \in Users |-> << >>]
  /\ died' = died \cup Owed(Reqs)
  /\ req' = [r \in Reqs |-> Idle]
  /\ UNCHANGED << db, now, cookies, epoch, keepers >>

Tick ==
  /\ now < MaxTime
  /\ now' = now + 1
  /\ UNCHANGED << db, throttle, req, restarts, cookies, history >>

Next ==
  \/ \E r \in Reqs :
       Bootstrap(r) \/ Login(r) \/ Logout(r) \/ Extractor(r)
         \/ ChangePassword(r) \/ RevokeSessions(r) \/ Abort(r)
  \/ Restart
  \/ Tick

Spec == Init /\ [][Next]_vars

-----------------------------------------------------------------------------
(* Properties *)

\* change_password promises that a rotation ends every other session.  A live
\* session opened with an older password belongs to the browser that changed
\* it, or to a login that read the old hash before the write and inserted its
\* row after the revocation; or the rotation is between its two writes, or it
\* died there.  Nothing else outlives the old password.
OldPasswordDies ==
  \A s \in Sids :
    LET row == sessions[s] IN
    (row # None /\ ~IsRevoked(row) /\ row.epoch # epoch[row.user]) =>
      \/ s \in keepers \/ row.late
      \/ << "p_revoke", row.user >> \in died \cup Owed(Reqs)

\* The session that a logout or a revoke ended has the event that says so, or
\* the request that ended it is still to write it or died trying: two racing
\* revocations never both take the other for the one that did it.
RevocationAudited ==
  \A s \in Sids : sessions[s] # None =>
    /\ sessions[s].reason = "logout" =>
         \/ [kind |-> "logout_succeeded", of |-> s] \in audit
         \/ << "o_audit", s >> \in died \cup Owed(Reqs)
    /\ sessions[s].reason = "user_revoke" =>
         \/ [kind |-> "session_revoked", of |-> s] \in audit
         \/ << "v_audit", s >> \in died \cup Owed(Reqs)

\* Bootstrap creates a user only for a request that began while no password
\* existed: several first users can only come from overlapping requests.
BootstrapOnlyWhenEmpty ==
  \A r \in Reqs : req[r].pc \in {"b_create", "b_password", "b_audit"} => req[r].fresh

\* In any window of the throttle's length at most max_failures attempts fail
\* on one tracked identifier, and one more for each other request that had
\* passed the check before the block was recorded.
ThrottleBound ==
  \A u \in Users, t \in Times :
    Cardinality({i \in DOMAIN guesses[u] : t <= guesses[u][i] /\ guesses[u][i] < t + Window})
      <= MaxFailures + Cardinality(Reqs) - 1

\* The throttle keeps its bound on attempts and on tracked identifiers, and
\* bootstrap starts from an empty table, whatever requests overlap
\* (LoginThrottle::record_failure, check; bootstrap's any_exists).
ThrottleInv == TypeOK /\ BootstrapOnlyWhenEmpty /\ ThrottleBound

\* A block in force is never lifted or shortened, neither by the sweep of a
\* full table nor by a failure that started earlier: only the identifier's
\* own successful login (or a restart) ends it early.
BlockPersists ==
  [][\A u \in DOMAIN throttle :
       IsBlocked(throttle[u], now) =>
         \/ u \in DOMAIN throttle' /\ throttle'[u].blocked_until >= throttle[u].blocked_until
         \/ \E r \in Reqs : At(r, "l_clear") /\ req[r].user = u /\ ~At(r, "l_clear")'
         \/ restarts' # restarts]_vars
=============================================================================
