---------------------------- MODULE Auth_proofs -----------------------------
(***************************************************************************)
(* Proofs about browser sessions, for any users, passwords, sessions,      *)
(* requests and bounds.                                                    *)
(*                                                                         *)
(* What makes the statements inductive is what a request relies on between *)
(* two of its statements.  Known collects it per request; Grow says how    *)
(* the tables may change under it: a user or a password that is there      *)
(* stays, a session's row stays and stays revoked once it is.              *)
(***************************************************************************)
EXTENDS Auth, FiniteSetTheorems, SequenceTheorems, WellFoundedInduction, TLAPS

\* Steps of a request that knows whose session it runs under.
Signed == {"x_touch", "p_verify", "p_set", "p_revoke", "p_audit", "v_snapshot", "v_update",
           "v_audit", "w_update", "w_audit"}

Known(q) ==
  /\ q.at <= now
  /\ q.pc \in {"b_any", "b_create", "b_password", "b_audit"} => q.user \in Users /\ q.pw \in Passwords
  /\ q.pc = "b_any" => q.fresh \/ AnyExists
  /\ q.pc \in {"b_create", "b_password", "b_audit"} => q.fresh
  /\ q.pc = "b_password" => q.user \in users /\ creds[q.user] = None
  /\ q.pc \in {"l_verify", "l_fail", "l_clear", "l_create"} => q.user \in Users
  /\ q.pc \in {"l_clear", "l_create"} => creds[q.user] # None
  /\ q.pc \in {"l_audit", "o_validate", "x_validate"} => q.sid \in Sids
  /\ q.pc \in {"o_revoke", "o_audit"} => q.sid \in Sids /\ sessions[q.sid] # None
  /\ q.pc \in Signed => q.sid \in Sids /\ q.user \in Users /\ creds[q.user] # None
  /\ q.pc \in {"x_validate", "x_touch"} =>
       /\ q.route \in {"read", "revoke_all", "revoke", "change"}
       /\ q.route = "change" => q.new \in Passwords
       /\ q.route = "revoke" => q.tgt \in Sids
  /\ q.pc \in {"p_verify", "p_set"} => q.new \in Passwords
  /\ q.pc = "p_revoke" => q.sid \in keepers
  /\ q.pc = "v_snapshot" => q.tgt \in Sids
  /\ q.pc \in {"v_update", "v_audit"} => q.tgt \in Sids /\ sessions[q.tgt] # None
  /\ q.pc = "v_update" /\ ~q.fresh => IsRevoked(sessions[q.tgt])

\* No two bootstraps are about to set the password of the same new user.
BootstrapsApart ==
  \A q, r \in Reqs : q # r /\ At(q, "b_password") /\ At(r, "b_password") => req[q].user # req[r].user

\* A session is a user's who has a password.
SessionsOwned == \A s \in Sids : sessions[s] # None => creds[sessions[s].user] # None

Core == RowsOK /\ BootstrapsApart /\ SessionsOwned /\ \A r \in Reqs : Known(req[r])
IInv == Core /\ OldPasswordDies /\ RevocationAudited

-----------------------------------------------------------------------------
(* What the requests rely on *)

Grow ==
  /\ now <= now' /\ users \subseteq users' /\ keepers \subseteq keepers'
  /\ \A u \in Users : creds[u] # None => creds'[u] # None
  /\ \A s \in Sids : sessions[s] # None =>
       sessions'[s] # None /\ (IsRevoked(sessions[s]) => IsRevoked(sessions'[s]))

LEMMA KnownGrows ==
  ASSUME RowsOK, RowsOK', Grow, NEW q \in Request, Known(q),
         q.pc = "b_password" => creds'[q.user] = None
  PROVE  Known(q)'
<1>1. q.at \in Nat /\ now \in Nat /\ now' \in Nat
  BY AuthAssumption DEF RowsOK, Request, Times
<1>2. (q.at <= now)'
  BY <1>1 DEF Known, Grow
<1>3. (q.pc = "b_any" => q.fresh \/ AnyExists)'
  BY DEF Known, Grow, AnyExists, GetForUser
<1>4. (q.pc = "b_password" => q.user \in users /\ creds[q.user] = None)'
  BY DEF Known, Grow
<1>5. /\ (q.pc \in {"l_clear", "l_create"} => creds[q.user] # None)'
      /\ (q.pc \in Signed => q.sid \in Sids /\ q.user \in Users /\ creds[q.user] # None)'
  BY DEF Known, Grow
<1>6. /\ (q.pc \in {"o_revoke", "o_audit"} => q.sid \in Sids /\ sessions[q.sid] # None)'
      /\ (q.pc \in {"v_update", "v_audit"} => q.tgt \in Sids /\ sessions[q.tgt] # None)'
      /\ (q.pc = "v_update" /\ ~q.fresh => IsRevoked(sessions[q.tgt]))'
  BY DEF Known, Grow, IsRevoked
<1>7. (q.pc = "p_revoke" => q.sid \in keepers)'
  BY DEF Known, Grow
<1> QED  BY <1>2, <1>3, <1>4, <1>5, <1>6, <1>7 DEF Known

LEMMA IdleIsKnown ==
  RowsOK => Idle \in Request /\ Known(Idle) /\ Idle.pc = "idle"
<1> SUFFICES ASSUME RowsOK PROVE Idle \in Request /\ Known(Idle) /\ Idle.pc = "idle"
  OBVIOUS
<1>1. Idle \in Request
  BY AuthAssumption DEF Idle, Request, Steps, Times
<1>2. 0 <= now
  BY AuthAssumption DEF RowsOK, Times
<1> QED  BY <1>1, <1>2 DEF Idle, Known, Signed

\* One request takes a step to q2 and the tables grow.
LEMMA StepCore ==
  ASSUME Core, RowsOK', SessionsOwned', Grow, NEW r \in Reqs, NEW q2, Known(q2)',
         req' = [req EXCEPT ![r] = q2],
         \A q \in Reqs : q # r /\ At(q, "b_password") => creds'[req[q].user] = None,
         q2.pc = "b_password" => \A q \in Reqs : q # r /\ At(q, "b_password") => req[q].user # q2.user
  PROVE  Core'
<1>0. RowsOK /\ BootstrapsApart
  BY DEF Core
<1>1. req'[r] = q2 /\ \A q \in Reqs : q # r => req'[q] = req[q]
  BY <1>0 DEF RowsOK
<1>2. ASSUME NEW q \in Reqs PROVE Known(req[q])'
  <2>1. CASE q = r
    BY <1>1, <2>1 DEF Known, AnyExists, GetForUser
  <2>2. CASE q # r
    <3>1. PICK p \in Request : p = req[q]
      BY <1>0 DEF RowsOK
    <3>2. Known(p) /\ p = req'[q]
      BY <1>1, <2>2, <3>1 DEF Core
    <3>3. Known(p)'
      BY <1>0, <2>2, <3>1, <3>2, KnownGrows DEF At
    <3> QED  BY <3>2, <3>3 DEF Known, AnyExists, GetForUser
  <2> QED  BY <2>1, <2>2
<1>3. BootstrapsApart'
  BY <1>0, <1>1 DEF BootstrapsApart, At
<1> QED  BY <1>2, <1>3 DEF Core

-----------------------------------------------------------------------------
(* What is owed *)

RotationOpen(u) == << "p_revoke", u >> \in died \/ \E r \in Reqs : At(r, "p_revoke") /\ req[r].user = u
LogoutOpen(s) == << "o_audit", s >> \in died \/ \E r \in Reqs : At(r, "o_audit") /\ req[r].sid = s
RevokeOpen(s) == << "v_audit", s >> \in died \/ \E r \in Reqs : At(r, "v_audit") /\ req[r].tgt = s

LEMMA OwedMeans ==
  ASSUME NEW R
  PROVE  /\ \A u : << "p_revoke", u >> \in Owed(R) <=> \E r \in R : At(r, "p_revoke") /\ req[r].user = u
         /\ \A s : << "o_audit", s >> \in Owed(R) <=> \E r \in R : At(r, "o_audit") /\ req[r].sid = s
         /\ \A s : << "v_audit", s >> \in Owed(R) <=> \E r \in R : At(r, "v_audit") /\ req[r].tgt = s
<1>1. ASSUME NEW u
      PROVE  << "p_revoke", u >> \in Owed(R) <=> \E r \in R : At(r, "p_revoke") /\ req[r].user = u
  BY DEF Owed
<1>2. ASSUME NEW s
      PROVE  << "o_audit", s >> \in Owed(R) <=> \E r \in R : At(r, "o_audit") /\ req[r].sid = s
  BY DEF Owed
<1>3. ASSUME NEW s
      PROVE  << "v_audit", s >> \in Owed(R) <=> \E r \in R : At(r, "v_audit") /\ req[r].tgt = s
  BY DEF Owed
<1> QED  BY <1>1, <1>2, <1>3

LEMMA OwedMeansNext ==
  /\ \A u : << "p_revoke", u >> \in Owed(Reqs)' <=> \E r \in Reqs : At(r, "p_revoke")' /\ req'[r].user = u
  /\ \A s : << "o_audit", s >> \in Owed(Reqs)' <=> \E r \in Reqs : At(r, "o_audit")' /\ req'[r].sid = s
  /\ \A s : << "v_audit", s >> \in Owed(Reqs)' <=> \E r \in Reqs : At(r, "v_audit")' /\ req'[r].tgt = s
<1>1. ASSUME NEW u
      PROVE  << "p_revoke", u >> \in Owed(Reqs)' <=> \E r \in Reqs : At(r, "p_revoke")' /\ req'[r].user = u
  BY DEF Owed
<1>2. ASSUME NEW s
      PROVE  << "o_audit", s >> \in Owed(Reqs)' <=> \E r \in Reqs : At(r, "o_audit")' /\ req'[r].sid = s
  BY DEF Owed
<1>3. ASSUME NEW s
      PROVE  << "v_audit", s >> \in Owed(Reqs)' <=> \E r \in Reqs : At(r, "v_audit")' /\ req'[r].tgt = s
  BY DEF Owed
<1> QED  BY <1>1, <1>2, <1>3

\* The two properties, session by session.
Dies(s) ==
  (sessions[s] # None /\ ~IsRevoked(sessions[s]) /\ sessions[s].epoch # epoch[sessions[s].user]) =>
    s \in keepers \/ sessions[s].late \/ RotationOpen(sessions[s].user)
Told(s) ==
  sessions[s] # None =>
    /\ sessions[s].reason = "logout" => [kind |-> "logout_succeeded", of |-> s] \in audit \/ LogoutOpen(s)
    /\ sessions[s].reason = "user_revoke" => [kind |-> "session_revoked", of |-> s] \in audit \/ RevokeOpen(s)

LEMMA PropsAre ==
  /\ OldPasswordDies <=> \A s \in Sids : Dies(s)
  /\ RevocationAudited <=> \A s \in Sids : Told(s)
<1>1. OldPasswordDies <=> \A s \in Sids : Dies(s)
  BY OwedMeans DEF OldPasswordDies, Dies, RotationOpen
<1>2. RevocationAudited <=> \A s \in Sids : Told(s)
  BY OwedMeans DEF RevocationAudited, Told, LogoutOpen, RevokeOpen
<1> QED  BY <1>1, <1>2

LEMMA PropsAreNext ==
  /\ OldPasswordDies' <=> \A s \in Sids : Dies(s)'
  /\ RevocationAudited' <=> \A s \in Sids : Told(s)'
<1>1. OldPasswordDies' <=> \A s \in Sids : Dies(s)'
  BY OwedMeansNext DEF OldPasswordDies, Dies, RotationOpen
<1>2. RevocationAudited' <=> \A s \in Sids : Told(s)'
  BY OwedMeansNext DEF RevocationAudited, Told, LogoutOpen, RevokeOpen
<1> QED  BY <1>1, <1>2

-----------------------------------------------------------------------------
(* Steps that leave the rows alone *)

Owing == {"p_revoke", "o_audit", "v_audit"}
TableOK(table) ==
  /\ DOMAIN table \subseteq Users
  /\ \A u \in DOMAIN table :
       DOMAIN table[u] = {"failures", "blocked_until"} /\ table[u].blocked_until \in Nat
TableKept == TableOK(throttle')

LEMMA QuietStep ==
  ASSUME IInv, NEW r \in Reqs, NEW q2 \in Request, Known(q2), q2.pc # "b_password",
         req' = [req EXCEPT ![r] = q2], req[r].pc \notin Owing,
         UNCHANGED << db, now, restarts, epoch, keepers, died >>, cookies' \subseteq Sids, TableKept
  PROVE  IInv'
<1> USE DEF db
<1>0. Core /\ RowsOK /\ OldPasswordDies /\ RevocationAudited
  BY DEF IInv, Core
<1>1. RowsOK'
  BY <1>0 DEF RowsOK, TableKept, TableOK
<1>2. SessionsOwned' /\ Grow
  <2>1. now' = now /\ now \in Nat
    BY <1>0, AuthAssumption DEF RowsOK, Times
  <2> QED  BY <1>0, <2>1 DEF Core, SessionsOwned, Grow
<1>3. Known(q2)'
  BY DEF Known, AnyExists, GetForUser
<1>4. \A q \in Reqs : q # r /\ At(q, "b_password") => creds'[req[q].user] = None
  BY <1>0 DEF Core, Known, At
<1>5. Core'
  BY <1>0, <1>1, <1>2, <1>3, <1>4, StepCore
<1>6. req'[r] = q2 /\ \A q \in Reqs : q # r => req'[q] = req[q]
  BY <1>0 DEF RowsOK
<1>7. /\ \A u : RotationOpen(u) => RotationOpen(u)'
      /\ \A s : LogoutOpen(s) => LogoutOpen(s)'
      /\ \A s : RevokeOpen(s) => RevokeOpen(s)'
  BY <1>6 DEF RotationOpen, LogoutOpen, RevokeOpen, At, Owing
<1>8. \A s \in Sids : Dies(s)' /\ Told(s)'
  BY <1>0, <1>7, PropsAre DEF Dies, Told
<1> QED  BY <1>5, <1>8, PropsAreNext DEF IInv

LEMMA QuietDone ==
  ASSUME IInv, NEW r \in Reqs, Done(r), req[r].pc \notin Owing,
         UNCHANGED << db, now, restarts, epoch, keepers, died >>, cookies' \subseteq Sids, TableKept
  PROVE  IInv'
<1>1. Idle \in Request /\ Known(Idle) /\ Idle.pc # "b_password"
  BY IdleIsKnown DEF IInv, Core
<1> QED  BY <1>1, QuietStep DEF Done

LEMMA KeptTable ==
  ASSUME IInv, UNCHANGED << throttle, cookies >>
  PROVE  TableKept /\ cookies' \subseteq Sids
  BY DEF IInv, Core, RowsOK, TableKept, TableOK

\* A request as a handler's first step leaves it.
LEMMA OpenedRequest ==
  ASSUME NEW pc \in Steps, NEW route \in Routes, NEW u \in Users \cup {None},
         NEW pw \in Passwords \cup {None}, NEW new \in Passwords \cup {None},
         NEW s \in Sids \cup {None}, NEW tgt \in Sids \cup {None}, NEW t \in Times,
         NEW b \in BOOLEAN
  PROVE  [pc |-> pc, route |-> route, user |-> u, pw |-> pw, new |-> new, sid |-> s,
          tgt |-> tgt, at |-> t, epoch |-> 0, fresh |-> b] \in Request
<1>1. 0 \in 0 .. MaxEpoch
  BY AuthAssumption
<1> QED  BY <1>1 DEF Request

LEMMA BootstrapQuiet ==
  ASSUME IInv, NEW r \in Reqs,
         \/ \E u \in Users, pw \in Passwords : BootstrapStart(r, u, pw)
         \/ BootstrapAny(r) \/ BootstrapAudit(r)
  PROVE  IInv'
<1> USE DEF history
<1>0. Core /\ RowsOK
  BY DEF IInv, Core
<1>1. UNCHANGED << db, throttle, now, restarts, cookies, history >>
  BY DEF BootstrapStart, BootstrapAny, BootstrapAudit
<1>2. TableKept /\ cookies' \subseteq Sids
  BY <1>1, KeptTable
<1>3. ASSUME NEW u \in Users, NEW pw \in Passwords, BootstrapStart(r, u, pw)
      PROVE  IInv'
  <2>1. PICK q2 : q2 = [Idle EXCEPT !.pc = "b_any", !.route = "bootstrap", !.user = u, !.pw = pw,
                                    !.fresh = ~AnyExists]
    OBVIOUS
  <2>2. "bootstrap" \in Routes /\ At(r, "idle") /\ req' = [req EXCEPT ![r] = q2]
    BY <1>3, <2>1 DEF BootstrapStart, Open
  <2>3. PICK b \in BOOLEAN : b = ~AnyExists
    BY DEF AnyExists
  <2>4. /\ q2.pc = "b_any" /\ q2.user = u /\ q2.pw = pw /\ q2.fresh = ~AnyExists /\ q2.at = 0
        /\ q2 \in Request
    <3>1. q2 = [pc |-> "b_any", route |-> "bootstrap", user |-> u, pw |-> pw, new |-> None,
                sid |-> None, tgt |-> None, at |-> 0, epoch |-> 0, fresh |-> b]
      BY <2>1, <2>3 DEF Idle
    <3>2. "b_any" \in Steps /\ 0 \in Times
      BY AuthAssumption DEF Steps, Times
    <3>3. q2 \in Request
      BY <2>2, <3>1, <3>2, OpenedRequest
    <3> QED  BY <2>3, <3>1, <3>3
  <2>5. 0 <= now
    BY <1>0, AuthAssumption DEF RowsOK, Times
  <2>6. Known(q2)
    BY <2>4, <2>5 DEF Known, Signed
  <2> QED  BY <1>1, <1>2, <2>2, <2>4, <2>6, QuietStep DEF At, Owing
<1>4. CASE BootstrapAny(r)
  <2>1. CASE AnyExists
    BY <1>1, <1>2, <1>4, <2>1, QuietDone DEF BootstrapAny, At, Owing
  <2>2. CASE ~AnyExists
    <3>1. PICK q \in Request : q = req[r]
      BY <1>0 DEF RowsOK
    <3>2. q.pc = "b_any" /\ Known(q)
      BY <1>0, <1>4, <3>1 DEF Core, BootstrapAny, At
    <3>3. PICK q2 : q2 = [q EXCEPT !.pc = "b_create"]
      OBVIOUS
    <3>4. /\ q2 \in Request /\ q2.pc = "b_create" /\ q2.user = q.user /\ q2.pw = q.pw
          /\ q2.fresh = q.fresh /\ q2.at = q.at
      BY <3>3 DEF Request, Steps
    <3>5. Known(q2)
      BY <2>2, <3>2, <3>4 DEF Known, Signed
    <3>6. req' = [req EXCEPT ![r] = q2]
      BY <1>0, <1>4, <2>2, <3>1, <3>3 DEF BootstrapAny, Go, RowsOK
    <3> QED  BY <1>1, <1>2, <3>1, <3>2, <3>4, <3>5, <3>6, QuietStep DEF Owing
  <2> QED  BY <2>1, <2>2
<1>5. CASE BootstrapAudit(r)
  BY <1>1, <1>2, <1>5, QuietDone DEF BootstrapAudit, At, Owing
<1> QED  BY <1>3, <1>4, <1>5

-----------------------------------------------------------------------------
(* The throttle's table *)

\* record_failure on one entry: never a shorter block.
LEMMA EntryRecorded ==
  ASSUME NEW state, DOMAIN state = {"failures", "blocked_until"}, state.blocked_until \in Nat,
         NEW t \in Nat
  PROVE  /\ DOMAIN FailureRecorded(state, t) = {"failures", "blocked_until"}
         /\ FailureRecorded(state, t).blocked_until \in Nat
         /\ FailureRecorded(state, t).blocked_until >= state.blocked_until
<1>1. PruneWindow(state, t).blocked_until = state.blocked_until
  BY DEF PruneWindow
<1>2. PICK F, B :
        /\ FailureRecorded(state, t) = [failures |-> F, blocked_until |-> B]
        /\ \/ B = t + Block /\ state.blocked_until <= t + Block
           \/ B = state.blocked_until
  BY <1>1 DEF FailureRecorded
<1>3. B \in Nat /\ B >= state.blocked_until
  BY <1>2, ThrottleAssumption
<1> QED  BY <1>2, <1>3

LEMMA FailureKeeps ==
  ASSUME NEW table, TableOK(table), NEW u \in Users, NEW t \in Nat
  PROVE  /\ TableOK(RecordFailure(table, u, t))
         /\ \A k \in DOMAIN table : IsBlocked(table[k], t) =>
              /\ k \in DOMAIN RecordFailure(table, u, t)
              /\ RecordFailure(table, u, t)[k].blocked_until >= table[k].blocked_until
<1> DEFINE swept == IF Cardinality(DOMAIN table) >= MaxTrackedKeys
                      THEN DropIdle(table, t) ELSE table
           state == IF u \in DOMAIN swept THEN swept[u] ELSE AttemptStateNew
           full  == u \notin DOMAIN swept /\ Cardinality(DOMAIN swept) >= MaxTrackedKeys
           grown == [k \in DOMAIN swept \cup {u} |->
                       IF k = u THEN FailureRecorded(state, t) ELSE swept[k]]
<1>1. /\ DOMAIN swept \subseteq DOMAIN table
      /\ \A k \in DOMAIN swept : swept[k] = table[k]
      /\ \A k \in DOMAIN table : IsBlocked(table[k], t) => k \in DOMAIN swept
  BY DEF DropIdle, Restrict, IsIdle
<1>2. TableOK(swept)
  BY <1>1 DEF TableOK
<1>3. DOMAIN state = {"failures", "blocked_until"} /\ state.blocked_until \in Nat
  BY <1>2 DEF TableOK, AttemptStateNew
<1>4. RecordFailure(table, u, t) = IF full THEN swept ELSE grown
  BY DEF RecordFailure
<1>5. u \in DOMAIN swept => state = table[u]
  BY <1>1
<1> HIDE DEF swept, state, full
<1>6. TableOK(grown)
  BY <1>2, <1>3, EntryRecorded DEF TableOK
<1>7. ASSUME NEW k \in DOMAIN table, IsBlocked(table[k], t)
      PROVE  /\ k \in DOMAIN swept /\ swept[k].blocked_until >= table[k].blocked_until
             /\ k \in DOMAIN grown /\ grown[k].blocked_until >= table[k].blocked_until
  <2>1. k \in DOMAIN swept /\ swept[k] = table[k] /\ table[k].blocked_until \in Nat
    BY <1>1, <1>7 DEF TableOK
  <2>2. swept[k].blocked_until >= table[k].blocked_until
    BY <2>1
  <2>3. CASE k = u
    <3>1. grown[k] = FailureRecorded(state, t) /\ state = table[k]
      BY <1>5, <2>1, <2>3
    <3> QED  BY <1>3, <2>1, <2>2, <2>3, <3>1, EntryRecorded
  <2>4. CASE k # u
    BY <2>1, <2>2, <2>4
  <2> QED  BY <2>3, <2>4
<1> QED  BY <1>2, <1>4, <1>6, <1>7

LEMMA SuccessKeeps ==
  ASSUME NEW table, TableOK(table), NEW u
  PROVE  /\ TableOK(RecordSuccess(table, u))
         /\ \A k \in DOMAIN table : k # u =>
              k \in DOMAIN RecordSuccess(table, u) /\ RecordSuccess(table, u)[k] = table[k]
  BY DEF TableOK, RecordSuccess, Restrict

-----------------------------------------------------------------------------
(* Login, up to the session it creates *)

LEMMA Stutters == IInv /\ UNCHANGED vars => IInv'
<1> SUFFICES ASSUME IInv, UNCHANGED vars PROVE IInv'
  OBVIOUS
<1> USE DEF vars, db, history
<1>0. RowsOK /\ BootstrapsApart /\ SessionsOwned /\ OldPasswordDies /\ RevocationAudited
  BY DEF IInv, Core
<1>1. RowsOK' /\ BootstrapsApart' /\ SessionsOwned'
  BY <1>0 DEF RowsOK, BootstrapsApart, SessionsOwned, At
<1>2. \A r \in Reqs : Known(req[r])'
  BY DEF IInv, Core, Known, AnyExists, GetForUser
<1>3. \A s \in Sids : Dies(s)' /\ Told(s)'
  <2>1. /\ \A u : RotationOpen(u) <=> RotationOpen(u)'
        /\ \A s : LogoutOpen(s) <=> LogoutOpen(s)'
        /\ \A s : RevokeOpen(s) <=> RevokeOpen(s)'
    BY DEF RotationOpen, LogoutOpen, RevokeOpen, At
  <2> QED  BY <1>0, <2>1, PropsAre DEF Dies, Told
<1> QED  BY <1>1, <1>2, <1>3, PropsAreNext DEF IInv, Core

\* A request that only moves on.
LEMMA GoTo ==
  ASSUME RowsOK, NEW r \in Reqs, NEW step \in Steps, Go(r, step)
  PROVE  \E q2 \in Request :
           /\ req' = [req EXCEPT ![r] = q2] /\ q2.pc = step
           /\ q2.route = req[r].route /\ q2.user = req[r].user /\ q2.pw = req[r].pw
           /\ q2.new = req[r].new /\ q2.sid = req[r].sid /\ q2.tgt = req[r].tgt
           /\ q2.at = req[r].at /\ q2.epoch = req[r].epoch /\ q2.fresh = req[r].fresh
<1>1. PICK q \in Request : q = req[r]
  BY DEF RowsOK
<1>2. PICK q2 : q2 = [q EXCEPT !.pc = step]
  OBVIOUS
<1>3. /\ q2 \in Request /\ q2.pc = step
      /\ q2.route = q.route /\ q2.user = q.user /\ q2.pw = q.pw
      /\ q2.new = q.new /\ q2.sid = q.sid /\ q2.tgt = q.tgt
      /\ q2.at = q.at /\ q2.epoch = q.epoch /\ q2.fresh = q.fresh
  BY <1>2 DEF Request
<1>4. req' = [req EXCEPT ![r] = q2]
  BY <1>1, <1>2 DEF Go, RowsOK
<1> QED  BY <1>1, <1>3, <1>4

LEMMA LoginStarts ==
  ASSUME IInv, NEW r \in Reqs, NEW u \in Users, NEW pw \in Passwords, LoginStart(r, u, pw)
  PROVE  IInv'
<1> USE DEF history
<1>0. RowsOK /\ UNCHANGED << db, throttle, now, restarts, cookies, history >>
  BY DEF IInv, Core, LoginStart
<1>1. CASE Throttled(throttle, u, now)
  BY <1>0, <1>1, Stutters DEF LoginStart, vars
<1>2. CASE ~Throttled(throttle, u, now)
  <2>1. PICK q2 : q2 = [Idle EXCEPT !.pc = "l_verify", !.route = "login", !.user = u,
                                    !.pw = pw, !.at = now]
    OBVIOUS
  <2>2. "login" \in Routes /\ At(r, "idle") /\ req' = [req EXCEPT ![r] = q2]
    BY <1>2, <2>1 DEF LoginStart, Open
  <2>3. q2 = [pc |-> "l_verify", route |-> "login", user |-> u, pw |-> pw, new |-> None,
              sid |-> None, tgt |-> None, at |-> now, epoch |-> 0, fresh |-> FALSE]
    BY <2>1 DEF Idle
  <2>4. "l_verify" \in Steps /\ now \in Times /\ now <= now
    BY <1>0, AuthAssumption DEF RowsOK, Steps, Times
  <2>5. q2 \in Request
    BY <2>2, <2>3, <2>4, OpenedRequest
  <2>6. Known(q2) /\ q2.pc = "l_verify"
    BY <2>3, <2>4 DEF Known, Signed
  <2> QED  BY <1>0, <2>2, <2>5, <2>6, KeptTable, QuietStep DEF At, Owing
<1> QED  BY <1>1, <1>2

LEMMA LoginVerifies ==
  ASSUME IInv, NEW r \in Reqs, LoginVerify(r)
  PROVE  IInv'
<1> USE DEF history
<1>0. RowsOK /\ UNCHANGED << db, throttle, now, restarts, cookies, history >>
  BY DEF IInv, Core, LoginVerify
<1>1. PICK q \in Request : q = req[r]
  BY <1>0 DEF RowsOK
<1>2. q.pc = "l_verify" /\ Known(q)
  BY <1>1 DEF IInv, Core, LoginVerify, At
<1>3. q.user \in Users
  BY <1>2 DEF Known
<1>4. ASSUME PasswordMatches(q.user, q.pw),
             req' = [req EXCEPT ![r].pc = "l_clear", ![r].pw = None, ![r].epoch = epoch[q.user]]
      PROVE  IInv'
  <2>1. PICK e \in 0 .. MaxEpoch : e = epoch[q.user]
    BY <1>0, <1>3 DEF RowsOK
  <2>2. PICK q2 : q2 = [q EXCEPT !.pc = "l_clear", !.pw = None, !.epoch = e]
    OBVIOUS
  <2>3. q2 \in Request /\ q2.pc = "l_clear" /\ q2.user = q.user /\ q2.at = q.at
    BY <2>1, <2>2 DEF Request, Steps
  <2>4. req' = [req EXCEPT ![r] = q2]
    BY <1>0, <1>1, <1>4, <2>1, <2>2 DEF RowsOK
  <2>5. creds[q.user] # None
    BY <1>4 DEF PasswordMatches, HashVerifies, GetForUser
  <2>6. Known(q2)
    BY <1>2, <2>3, <2>5 DEF Known, Signed
  <2> QED  BY <1>0, <1>1, <1>2, <2>3, <2>4, <2>6, KeptTable, QuietStep DEF Owing
<1>5. ASSUME req' = [req EXCEPT ![r].pc = "l_fail", ![r].pw = None]
      PROVE  IInv'
  <2>2. PICK q2 : q2 = [q EXCEPT !.pc = "l_fail", !.pw = None]
    OBVIOUS
  <2>3. q2 \in Request /\ q2.pc = "l_fail" /\ q2.user = q.user /\ q2.at = q.at
    BY <2>2 DEF Request, Steps
  <2>4. req' = [req EXCEPT ![r] = q2]
    BY <1>0, <1>1, <1>5, <2>2 DEF RowsOK
  <2>6. Known(q2)
    BY <1>2, <2>3 DEF Known, Signed
  <2> QED  BY <1>0, <1>1, <1>2, <2>3, <2>4, <2>6, KeptTable, QuietStep DEF Owing
<1> QED  BY <1>1, <1>4, <1>5 DEF LoginVerify

LEMMA LoginFails ==
  ASSUME IInv, NEW r \in Reqs, LoginFail(r)
  PROVE  IInv'
<1>1. RowsOK /\ At(r, "l_fail") /\ Known(req[r])
  BY DEF IInv, Core, LoginFail
<1>2. req[r].user \in Users /\ req[r].at \in Nat
  BY <1>1 DEF RowsOK, Known, At, Request, Times
<1>3. TableOK(throttle) /\ throttle' = RecordFailure(throttle, req[r].user, req[r].at)
  BY <1>1 DEF TableOK, RowsOK, LoginFail
<1>4. TableKept
  BY <1>2, <1>3, FailureKeeps DEF TableKept
<1>5. cookies' \subseteq Sids
  BY <1>1 DEF RowsOK, LoginFail
<1> QED  BY <1>1, <1>4, <1>5, QuietDone DEF LoginFail, At, Owing

LEMMA LoginClears ==
  ASSUME IInv, NEW r \in Reqs, LoginClear(r)
  PROVE  IInv'
<1>1. RowsOK /\ At(r, "l_clear") /\ Known(req[r]) /\ "l_create" \in Steps
  BY DEF IInv, Core, LoginClear, Steps
<1>2. TableOK(throttle) /\ throttle' = RecordSuccess(throttle, req[r].user)
  BY <1>1 DEF TableOK, RowsOK, LoginClear
<1>3. TableKept /\ cookies' \subseteq Sids
  BY <1>1, <1>2, SuccessKeeps DEF TableKept, RowsOK, LoginClear
<1>4. PICK q2 \in Request :
        /\ req' = [req EXCEPT ![r] = q2] /\ q2.pc = "l_create"
        /\ q2.user = req[r].user /\ q2.at = req[r].at
  BY <1>1, GoTo DEF LoginClear
<1>5. Known(q2)
  BY <1>1, <1>4 DEF Known, Signed, At
<1> QED  BY <1>1, <1>3, <1>4, <1>5, QuietStep DEF LoginClear, At, Owing

LEMMA LoginAudits ==
  ASSUME IInv, NEW r \in Reqs, LoginAudit(r)
  PROVE  IInv'
<1>1. RowsOK /\ At(r, "l_audit") /\ Known(req[r])
  BY DEF IInv, Core, LoginAudit
<1>2. cookies' \subseteq Sids
  BY <1>1 DEF LoginAudit, SetCookie, RowsOK, Known, At
<1>3. TableKept
  BY <1>1 DEF RowsOK, TableKept, TableOK, LoginAudit
<1> QED  BY <1>1, <1>2, <1>3, QuietDone DEF LoginAudit, At, Owing, history

-----------------------------------------------------------------------------
(* The extractor, and the steps of its routes that write no row *)

LEMMA ExtractorStarts ==
  ASSUME IInv, NEW r \in Reqs, NEW route \in {"read", "revoke_all", "revoke", "change"},
         NEW s \in cookies, NEW tgt \in Sids \cup {None}, NEW pw \in Passwords \cup {None},
         NEW new \in Passwords \cup {None}, route = "change" => new \in Passwords,
         route = "revoke" => tgt \in Sids, ExtractorStart(r, route, s, tgt, pw, new)
  PROVE  IInv'
<1> USE DEF history
<1>0. RowsOK /\ UNCHANGED << db, throttle, now, restarts, cookies, history >>
  BY DEF IInv, Core, ExtractorStart
<1>1. PICK q2 : q2 = [Idle EXCEPT !.pc = "x_validate", !.route = route, !.sid = s, !.tgt = tgt,
                                  !.pw = pw, !.new = new, !.at = now]
  OBVIOUS
<1>2. route \in Routes /\ At(r, "idle") /\ req' = [req EXCEPT ![r] = q2]
  BY <1>1 DEF ExtractorStart, Open
<1>3. q2 = [pc |-> "x_validate", route |-> route, user |-> None, pw |-> pw, new |-> new,
            sid |-> s, tgt |-> tgt, at |-> now, epoch |-> 0, fresh |-> FALSE]
  BY <1>1 DEF Idle
<1>4. "x_validate" \in Steps /\ now \in Times /\ now <= now /\ s \in Sids
  BY <1>0, AuthAssumption DEF RowsOK, Steps, Times
<1>5. q2 \in Request
  <2>1. None \in Users \cup {None} /\ s \in Sids \cup {None} /\ 0 \in 0 .. MaxEpoch
    BY <1>4, AuthAssumption
  <2> QED  BY <1>2, <1>3, <1>4, <2>1 DEF Request
<1>6. /\ q2.pc = "x_validate" /\ q2.at = now /\ q2.sid = s /\ q2.route = route
      /\ q2.new = new /\ q2.tgt = tgt
  BY <1>3
<1>7. Known(q2)
  BY <1>4, <1>6 DEF Known, Signed
<1> QED  BY <1>0, <1>2, <1>5, <1>6, <1>7, KeptTable, QuietStep DEF At, Owing

LEMMA LogoutStarts ==
  ASSUME IInv, NEW r \in Reqs, NEW s \in cookies, LogoutStart(r, s)
  PROVE  IInv'
<1> USE DEF history
<1>0. RowsOK /\ UNCHANGED << db, throttle, now, restarts, cookies, history >>
  BY DEF IInv, Core, LogoutStart
<1>1. PICK q2 : q2 = [Idle EXCEPT !.pc = "o_validate", !.route = "logout", !.sid = s, !.at = now]
  OBVIOUS
<1>2. "logout" \in Routes /\ At(r, "idle") /\ req' = [req EXCEPT ![r] = q2]
  BY <1>1 DEF LogoutStart, Open
<1>3. q2 = [pc |-> "o_validate", route |-> "logout", user |-> None, pw |-> None, new |-> None,
            sid |-> s, tgt |-> None, at |-> now, epoch |-> 0, fresh |-> FALSE]
  BY <1>1 DEF Idle
<1>4. "o_validate" \in Steps /\ now \in Times /\ now <= now /\ s \in Sids
  BY <1>0, AuthAssumption DEF RowsOK, Steps, Times
<1>5. q2 \in Request
  <2>1. /\ s \in Sids \cup {None} /\ None \in Users \cup {None} /\ None \in Passwords \cup {None}
        /\ None \in Sids \cup {None} /\ FALSE \in BOOLEAN
    BY <1>4
  <2> QED  BY <1>2, <1>3, <1>4, <2>1, OpenedRequest
<1>6. q2.pc = "o_validate" /\ q2.at = now /\ q2.sid = s
  BY <1>3
<1>7. Known(q2)
  BY <1>4, <1>6 DEF Known, Signed
<1> QED  BY <1>0, <1>2, <1>5, <1>6, <1>7, KeptTable, QuietStep DEF At, Owing

LEMMA LogoutValidates ==
  ASSUME IInv, NEW r \in Reqs, LogoutValidate(r)
  PROVE  IInv'
<1> USE DEF history
<1>0. RowsOK /\ UNCHANGED << db, throttle, now, restarts, cookies, history >>
  BY DEF IInv, Core, LogoutValidate
<1>1. At(r, "o_validate") /\ Known(req[r]) /\ TableKept /\ cookies' \subseteq Sids
  BY <1>0, KeptTable DEF IInv, Core, LogoutValidate
<1>2. CASE Validates(req[r].sid, req[r].at)
  <2>1. "o_revoke" \in Steps
    BY DEF Steps
  <2>2. PICK q2 \in Request :
          /\ req' = [req EXCEPT ![r] = q2] /\ q2.pc = "o_revoke"
          /\ q2.sid = req[r].sid /\ q2.at = req[r].at
    BY <1>0, <1>2, <2>1, GoTo DEF LogoutValidate
  <2>3. Known(q2)
    BY <1>1, <1>2, <2>2 DEF Known, Signed, At, Validates, GetByTokenHash
  <2> QED  BY <1>0, <1>1, <2>2, <2>3, QuietStep DEF At, Owing
<1>3. CASE ~Validates(req[r].sid, req[r].at)
  BY <1>0, <1>1, <1>3, QuietDone DEF LogoutValidate, At, Owing
<1> QED  BY <1>2, <1>3

LEMMA ExtractorValidates ==
  ASSUME IInv, NEW r \in Reqs, ExtractorValidate(r)
  PROVE  IInv'
<1> USE DEF history
<1>0. RowsOK /\ SessionsOwned /\ UNCHANGED << db, throttle, now, restarts, cookies, history >>
  BY DEF IInv, Core, ExtractorValidate
<1>1. PICK q \in Request : q = req[r]
  BY <1>0 DEF RowsOK
<1>2. q.pc = "x_validate" /\ Known(q) /\ q.sid \in Sids /\ TableKept /\ cookies' \subseteq Sids
  BY <1>0, <1>1, KeptTable DEF IInv, Core, ExtractorValidate, At, Known
<1>3. CASE Validates(q.sid, q.at)
  <2>1. PICK u \in Users : u = sessions[q.sid].user
    BY <1>0, <1>2, <1>3 DEF RowsOK, Validates, GetByTokenHash, Row
  <2>2. creds[u] # None
    BY <1>0, <1>2, <1>3, <2>1 DEF SessionsOwned, Validates, GetByTokenHash
  <2>3. PICK q2 : q2 = [q EXCEPT !.pc = "x_touch", !.user = u]
    OBVIOUS
  <2>4. /\ q2 \in Request /\ q2.pc = "x_touch" /\ q2.user = u /\ q2.sid = q.sid
        /\ q2.route = q.route /\ q2.new = q.new /\ q2.tgt = q.tgt /\ q2.at = q.at
    BY <2>3 DEF Request, Steps
  <2>5. req' = [req EXCEPT ![r] = q2]
    BY <1>0, <1>1, <1>3, <2>1, <2>3 DEF RowsOK, ExtractorValidate
  <2>6. Known(q2)
    BY <1>2, <2>2, <2>4 DEF Known, Signed
  <2> QED  BY <1>0, <1>1, <1>2, <2>4, <2>5, <2>6, QuietStep DEF Owing
<1>4. CASE ~Validates(q.sid, q.at)
  BY <1>0, <1>1, <1>2, <1>4, QuietDone DEF ExtractorValidate, Owing
<1> QED  BY <1>3, <1>4

LEMMA ExtractorTouches ==
  ASSUME IInv, NEW r \in Reqs, ExtractorTouch(r)
  PROVE  IInv'
<1> USE DEF history
<1>0. RowsOK /\ UNCHANGED << db, throttle, now, restarts, cookies, history >>
  BY DEF IInv, Core, ExtractorTouch
<1>1. PICK q \in Request : q = req[r]
  BY <1>0 DEF RowsOK
<1>2. q.pc = "x_touch" /\ Known(q) /\ TableKept /\ cookies' \subseteq Sids
  BY <1>0, <1>1, KeptTable DEF IInv, Core, ExtractorTouch, At
<1>3. CASE q.route = "read"
  BY <1>0, <1>1, <1>2, <1>3, QuietDone DEF ExtractorTouch, Owing
<1>4. CASE q.route # "read"
  <2>1. q.route \in {"change", "revoke", "revoke_all"}
    BY <1>2, <1>4 DEF Known
  <2>2. PICK step \in {"p_verify", "v_snapshot", "w_update"} :
          /\ step = FirstStep[q.route]
          /\ step = "p_verify" <=> q.route = "change"
          /\ step = "v_snapshot" <=> q.route = "revoke"
    BY <2>1 DEF FirstStep
  <2>3. PICK q2 : q2 = [q EXCEPT !.pc = step, !.at = now]
    OBVIOUS
  <2>4. now \in Times /\ now <= now /\ step \in Steps
    BY <1>0, AuthAssumption DEF RowsOK, Times, Steps
  <2>5. /\ q2 \in Request /\ q2.pc = step /\ q2.user = q.user /\ q2.sid = q.sid
        /\ q2.new = q.new /\ q2.tgt = q.tgt /\ q2.at = now
    BY <2>3, <2>4 DEF Request
  <2>6. req' = [req EXCEPT ![r] = q2]
    BY <1>0, <1>1, <1>4, <2>2, <2>3 DEF RowsOK, ExtractorTouch
  <2>7. Known(q2)
    BY <1>2, <2>2, <2>4, <2>5 DEF Known, Signed
  <2> QED  BY <1>0, <1>1, <1>2, <2>2, <2>5, <2>6, <2>7, QuietStep DEF Owing
<1> QED  BY <1>3, <1>4

LEMMA ChangeVerifies ==
  ASSUME IInv, NEW r \in Reqs, ChangeVerify(r)
  PROVE  IInv'
<1> USE DEF history
<1>0. RowsOK /\ UNCHANGED << db, throttle, now, restarts, cookies, history >>
  BY DEF IInv, Core, ChangeVerify
<1>1. PICK q \in Request : q = req[r]
  BY <1>0 DEF RowsOK
<1>2. q.pc = "p_verify" /\ Known(q) /\ TableKept /\ cookies' \subseteq Sids
  BY <1>0, <1>1, KeptTable DEF IInv, Core, ChangeVerify, At
<1>3. CASE PasswordMatches(q.user, q.pw)
  <2>1. PICK q2 : q2 = [q EXCEPT !.pc = "p_set", !.pw = None]
    OBVIOUS
  <2>2. /\ q2 \in Request /\ q2.pc = "p_set" /\ q2.user = q.user /\ q2.sid = q.sid
        /\ q2.new = q.new /\ q2.at = q.at
    BY <2>1 DEF Request, Steps
  <2>3. req' = [req EXCEPT ![r] = q2]
    BY <1>0, <1>1, <1>3, <2>1 DEF RowsOK, ChangeVerify
  <2>4. Known(q2)
    BY <1>2, <2>2 DEF Known, Signed
  <2> QED  BY <1>0, <1>1, <1>2, <2>2, <2>3, <2>4, QuietStep DEF Owing
<1>4. CASE ~PasswordMatches(q.user, q.pw)
  BY <1>0, <1>1, <1>2, <1>4, QuietDone DEF ChangeVerify, Owing
<1> QED  BY <1>3, <1>4

LEMMA RevokeSnapshots ==
  ASSUME IInv, NEW r \in Reqs, RevokeSnapshot(r)
  PROVE  IInv'
<1> USE DEF history
<1>0. RowsOK /\ UNCHANGED << db, throttle, now, restarts, cookies, history >>
  BY DEF IInv, Core, RevokeSnapshot
<1>1. PICK q \in Request : q = req[r]
  BY <1>0 DEF RowsOK
<1>2. q.pc = "v_snapshot" /\ Known(q) /\ TableKept /\ cookies' \subseteq Sids
  BY <1>0, <1>1, KeptTable DEF IInv, Core, RevokeSnapshot, At
<1>3. CASE sessions[q.tgt] # None /\ sessions[q.tgt].user = q.user
  <2>1. PICK b \in BOOLEAN : b = ~IsRevoked(sessions[q.tgt])
    BY DEF IsRevoked
  <2>2. PICK q2 : q2 = [q EXCEPT !.pc = "v_update", !.fresh = b]
    OBVIOUS
  <2>3. /\ q2 \in Request /\ q2.pc = "v_update" /\ q2.user = q.user /\ q2.sid = q.sid
        /\ q2.tgt = q.tgt /\ q2.at = q.at /\ q2.fresh = b
    BY <2>2 DEF Request, Steps
  <2>4. req' = [req EXCEPT ![r] = q2]
    BY <1>0, <1>1, <1>3, <2>1, <2>2 DEF RowsOK, RevokeSnapshot
  <2>5. Known(q2)
    BY <1>2, <1>3, <2>1, <2>3 DEF Known, Signed
  <2> QED  BY <1>0, <1>1, <1>2, <2>3, <2>4, <2>5, QuietStep DEF Owing
<1>4. CASE ~(sessions[q.tgt] # None /\ sessions[q.tgt].user = q.user)
  BY <1>0, <1>1, <1>2, <1>4, QuietDone DEF RevokeSnapshot, Owing
<1> QED  BY <1>3, <1>4

LEMMA AuditsLast ==
  ASSUME IInv, NEW r \in Reqs, ChangeAudit(r) \/ RevokeAllAudit(r)
  PROVE  IInv'
  BY KeptTable, QuietDone DEF ChangeAudit, RevokeAllAudit, At, Owing, history

-----------------------------------------------------------------------------
(* Steps that write a user, a password or a session *)

LEMMA GrowStep ==
  ASSUME Core, RowsOK', SessionsOwned', Grow, NEW r \in Reqs, NEW q2 \in Request, Known(q2),
         q2.pc # "b_password", req' = [req EXCEPT ![r] = q2],
         \A q \in Reqs : q # r /\ At(q, "b_password") => creds'[req[q].user] = None
  PROVE  Core'
<1>1. Known(q2)'
  BY KnownGrows DEF Core
<1> QED  BY <1>1, StepCore

\* What is owed stays owed unless the step writes it.
LEMMA StillOwed ==
  ASSUME RowsOK, NEW r \in Reqs, NEW q2, req' = [req EXCEPT ![r] = q2], died' = died
  PROVE  /\ \A q \in Reqs : q # r => req'[q] = req[q]
         /\ req'[r] = q2
         /\ \A u : RotationOpen(u) => RotationOpen(u)' \/ (At(r, "p_revoke") /\ req[r].user = u)
         /\ \A s : LogoutOpen(s) => LogoutOpen(s)' \/ (At(r, "o_audit") /\ req[r].sid = s)
         /\ \A s : RevokeOpen(s) => RevokeOpen(s)' \/ (At(r, "v_audit") /\ req[r].tgt = s)
<1>1. /\ \A q \in Reqs : q # r => req'[q] = req[q]
      /\ req'[r] = q2
  BY DEF RowsOK
<1>2. \A u : RotationOpen(u) => RotationOpen(u)' \/ (At(r, "p_revoke") /\ req[r].user = u)
  BY <1>1 DEF RotationOpen, At
<1>3. \A s : LogoutOpen(s) => LogoutOpen(s)' \/ (At(r, "o_audit") /\ req[r].sid = s)
  BY <1>1 DEF LogoutOpen, At
<1>4. \A s : RevokeOpen(s) => RevokeOpen(s)' \/ (At(r, "v_audit") /\ req[r].tgt = s)
  BY <1>1 DEF RevokeOpen, At
<1> QED  BY <1>1, <1>2, <1>3, <1>4

\* A bootstrap waiting to set a password has a user without one.
LEMMA Unset ==
  ASSUME Core
  PROVE  \A q \in Reqs : At(q, "b_password") => req[q].user \in Users /\ creds[req[q].user] = None
  BY DEF Core, Known, At

LEMMA BootstrapCreates ==
  ASSUME IInv, NEW r \in Reqs, BootstrapCreate(r)
  PROVE  IInv'
<1> USE DEF db, history
<1>0. Core /\ RowsOK /\ At(r, "b_create") /\ Known(req[r]) /\ OldPasswordDies /\ RevocationAudited
  BY DEF IInv, Core, BootstrapCreate
<1>1. UNCHANGED << creds, sessions, audit, throttle, now, restarts, cookies, history >>
  BY DEF BootstrapCreate
<1>2. CASE req[r].user \in users
  BY <1>0, <1>1, <1>2, KeptTable, QuietDone DEF BootstrapCreate, At, Owing
<1>3. CASE req[r].user \notin users
  <2>0. "b_password" \in Steps
    BY DEF Steps
  <2>1. PICK q2 \in Request :
          /\ req' = [req EXCEPT ![r] = q2] /\ q2.pc = "b_password"
          /\ q2.user = req[r].user /\ q2.pw = req[r].pw /\ q2.at = req[r].at /\ q2.fresh = req[r].fresh
    BY <1>0, <1>3, <2>0, GoTo DEF BootstrapCreate
  <2>2. /\ users' = users \cup {q2.user} /\ q2.user \in Users /\ q2.pw \in Passwords
        /\ q2.user \notin users /\ creds[q2.user] = None
    BY <1>0, <1>3, <2>1 DEF BootstrapCreate, CreateUser, Known, At, RowsOK
  <2>3. RowsOK'
    BY <1>0, <1>1, <2>1, <2>2 DEF RowsOK
  <2>4. SessionsOwned' /\ Grow
    <3>1. now <= now'
      BY <1>0, <1>1, AuthAssumption DEF RowsOK, Times
    <3> QED  BY <1>0, <1>1, <2>2, <3>1 DEF Core, SessionsOwned, Grow
  <2>5. Known(q2)'
    BY <1>0, <1>1, <2>1, <2>2 DEF Known, Signed, At
  <2>6. \A q \in Reqs : q # r /\ At(q, "b_password") =>
          creds'[req[q].user] = None /\ req[q].user # q2.user
    BY <1>0, <1>1, <2>2 DEF Core, Known, At
  <2>7. Core'
    BY <1>0, <2>1, <2>3, <2>4, <2>5, <2>6, StepCore
  <2>8. \A s \in Sids : Dies(s)' /\ Told(s)'
    <3>1. /\ \A u : RotationOpen(u) => RotationOpen(u)'
          /\ \A s : LogoutOpen(s) => LogoutOpen(s)'
          /\ \A s : RevokeOpen(s) => RevokeOpen(s)'
      BY <1>0, <1>1, <2>1, StillOwed DEF At
    <3> QED  BY <1>0, <1>1, <3>1, PropsAre DEF Dies, Told
  <2> QED  BY <2>7, <2>8, PropsAreNext DEF IInv
<1> QED  BY <1>2, <1>3

LEMMA BootstrapSets ==
  ASSUME IInv, NEW r \in Reqs, BootstrapPassword(r)
  PROVE  IInv'
<1>0. /\ Core /\ RowsOK /\ SessionsOwned /\ BootstrapsApart /\ At(r, "b_password") /\ Known(req[r])
      /\ OldPasswordDies /\ RevocationAudited
  BY DEF IInv, Core, BootstrapPassword
<1>1. UNCHANGED << users, sessions, audit, throttle, now, restarts, cookies, keepers, died >>
  BY DEF BootstrapPassword
<1>2. "b_audit" \in Steps
  BY DEF Steps
<1>3. PICK q2 \in Request :
        /\ req' = [req EXCEPT ![r] = q2] /\ q2.pc = "b_audit"
        /\ q2.user = req[r].user /\ q2.pw = req[r].pw /\ q2.at = req[r].at /\ q2.fresh = req[r].fresh
  BY <1>0, <1>2, GoTo DEF BootstrapPassword
<1>4. PICK u \in Users, pw \in Passwords :
        u = req[r].user /\ pw = req[r].pw /\ u \in users /\ creds[u] = None
  BY <1>0 DEF Known, At
<1>5. /\ creds' = [creds EXCEPT ![u] = pw] /\ epoch[u] < MaxEpoch
      /\ epoch' = [epoch EXCEPT ![u] = epoch[u] + 1]
  BY <1>4 DEF BootstrapPassword, SetPassword, UpsertForUser
<1>6. pw # None
  BY AuthAssumption
<1>7. /\ creds'[u] = pw /\ \A v \in Users : v # u => creds'[v] = creds[v] /\ epoch'[v] = epoch[v]
      /\ \A v \in Users : creds[v] # None => creds'[v] # None
  BY <1>0, <1>5, <1>6 DEF RowsOK
<1>8. RowsOK'
  <2>1. epoch' \in [Users -> 0 .. MaxEpoch]
    BY <1>0, <1>5, AuthAssumption DEF RowsOK
  <2>2. creds' \in [Users -> Passwords \cup {None}] /\ \A v \in Users : creds'[v] # None => v \in users
    BY <1>0, <1>4, <1>5 DEF RowsOK
  <2> QED  BY <1>0, <1>1, <1>3, <2>1, <2>2 DEF RowsOK
<1>9. SessionsOwned' /\ Grow
  <2>1. now <= now'
    BY <1>0, <1>1, AuthAssumption DEF RowsOK, Times
  <2>2. \A s \in Sids : sessions[s] # None => sessions[s].user \in Users
    BY <1>0 DEF RowsOK, Row
  <2> QED  BY <1>0, <1>1, <1>7, <2>1, <2>2 DEF SessionsOwned, Grow
<1>10. Known(q2)
  BY <1>0, <1>3, <1>4 DEF Known, Signed, At
<1>11. \A q \in Reqs : q # r /\ At(q, "b_password") => creds'[req[q].user] = None
  BY <1>0, <1>4, <1>7, Unset DEF BootstrapsApart
<1>12. Core'
  BY <1>0, <1>3, <1>8, <1>9, <1>10, <1>11, GrowStep
<1>13. \A s \in Sids : Dies(s)' /\ Told(s)'
  <2>1. /\ \A v : RotationOpen(v) => RotationOpen(v)'
        /\ \A s : LogoutOpen(s) => LogoutOpen(s)'
        /\ \A s : RevokeOpen(s) => RevokeOpen(s)'
    BY <1>0, <1>1, <1>3, StillOwed DEF At
  <2>2. \A s \in Sids : sessions[s] # None => epoch'[sessions[s].user] = epoch[sessions[s].user]
    BY <1>0, <1>4, <1>7 DEF RowsOK, Row, SessionsOwned
  <2> QED  BY <1>0, <1>1, <2>1, <2>2, PropsAre DEF Dies, Told
<1> QED  BY <1>12, <1>13, PropsAreNext DEF IInv

LEMMA LoginCreates ==
  ASSUME IInv, NEW r \in Reqs, NEW s \in Sids, LoginCreate(r, s)
  PROVE  IInv'
<1>0. /\ Core /\ RowsOK /\ SessionsOwned /\ At(r, "l_create") /\ Known(req[r])
      /\ OldPasswordDies /\ RevocationAudited
  BY DEF IInv, Core, LoginCreate
<1>1. UNCHANGED << users, creds, audit, throttle, now, restarts, cookies, epoch, keepers, died >>
  BY DEF LoginCreate, history
<1>2. PICK q \in Request : q = req[r] /\ q.pc = "l_create" /\ Known(q)
  BY <1>0 DEF RowsOK, At
<1>3. q.user \in Users /\ creds[q.user] # None /\ q.at \in Times /\ q.epoch \in 0 .. MaxEpoch
  BY <1>2 DEF Known, Request
<1>4. PICK q2 : q2 = [q EXCEPT !.pc = "l_audit", !.sid = s]
  OBVIOUS
<1>5. q2 \in Request /\ q2.pc = "l_audit" /\ q2.sid = s /\ q2.at = q.at
  BY <1>4 DEF Request, Steps
<1>6. req' = [req EXCEPT ![r] = q2]
  BY <1>0, <1>2, <1>4 DEF LoginCreate, RowsOK
<1>7. PICK late \in BOOLEAN : late <=> q.epoch # epoch[q.user]
  OBVIOUS
<1>8. PICK row : row = [user |-> q.user, expires_at |-> q.at + TTL, revoked_at |-> None, reason |-> None,
                        epoch |-> q.epoch, late |-> late]
  OBVIOUS
<1>9. row \in Row
  <2>1. q.at + TTL \in 0 .. MaxTime + TTL
    BY <1>3, AuthAssumption DEF Times
  <2> QED  BY <1>3, <1>8, <2>1 DEF Row
<1>10. row.user = q.user /\ row.reason = None /\ row.epoch = q.epoch /\ row.late = late
  BY <1>8
<1>11. sessions[s] = None /\ sessions' = [sessions EXCEPT ![s] = row]
  BY <1>2, <1>7, <1>8 DEF LoginCreate, CreateSession, FreshToken, InsertSession
<1>12. sessions'[s] = row /\ \A x \in Sids : x # s => sessions'[x] = sessions[x]
  BY <1>0, <1>11 DEF RowsOK
<1>13. RowsOK'
  BY <1>0, <1>1, <1>5, <1>6, <1>9, <1>11 DEF RowsOK
<1>14. SessionsOwned' /\ Grow
  <2>1. now <= now'
    BY <1>0, <1>1, AuthAssumption DEF RowsOK, Times
  <2> QED  BY <1>0, <1>1, <1>3, <1>10, <1>11, <1>12, <2>1 DEF SessionsOwned, Grow
<1>15. Known(q2)
  BY <1>2, <1>5 DEF Known, Signed
<1>16. Core'
  BY <1>0, <1>1, <1>5, <1>6, <1>13, <1>14, <1>15, Unset, GrowStep
<1>17. /\ \A v : RotationOpen(v) => RotationOpen(v)'
       /\ \A x : LogoutOpen(x) => LogoutOpen(x)'
       /\ \A x : RevokeOpen(x) => RevokeOpen(x)'
  BY <1>0, <1>1, <1>6, StillOwed DEF At
<1>18. Dies(s)' /\ Told(s)'
  <2>1. None \notin Reasons
    BY AuthAssumption
  <2>2. None # "logout" /\ None # "user_revoke"
    BY <2>1 DEF Reasons
  <2> QED  BY <1>1, <1>7, <1>10, <1>12, <2>2 DEF Dies, Told
<1>19. ASSUME NEW x \in Sids, x # s PROVE Dies(x)' /\ Told(x)'
  BY <1>0, <1>1, <1>12, <1>17, <1>19, PropsAre DEF Dies, Told
<1> QED  BY <1>16, <1>18, <1>19, PropsAreNext DEF IInv

-----------------------------------------------------------------------------
(* Steps that revoke sessions *)

LEMMA RevokedRow ==
  ASSUME NEW row \in Row, NEW t \in Times, NEW why \in Reasons
  PROVE  /\ Revoked(row, t, why) \in Row /\ IsRevoked(Revoked(row, t, why))
         /\ Revoked(row, t, why).user = row.user
         /\ IsRevoked(row) => Revoked(row, t, why) = row
         /\ ~IsRevoked(row) => Revoked(row, t, why).reason = why
<1>1. CASE IsRevoked(row)
  BY <1>1 DEF Revoked
<1>2. CASE ~IsRevoked(row)
  <2>1. Revoked(row, t, why) = [row EXCEPT !.revoked_at = t, !.reason = why]
    BY <1>2 DEF Revoked
  <2>2. PICK row2 : row2 = [row EXCEPT !.revoked_at = t, !.reason = why]
    OBVIOUS
  <2>3. row2 \in Row /\ row2.revoked_at = t /\ row2.reason = why /\ row2.user = row.user
    BY <2>2 DEF Row
  <2>4. t # None
    BY AuthAssumption DEF Times
  <2> QED  BY <1>2, <2>1, <2>2, <2>3, <2>4 DEF IsRevoked
<1> QED  BY <1>1, <1>2

\* An UPDATE that revokes the sessions of S and nothing else.
RevokesSome(S, t, why) ==
  \A s \in Sids : sessions'[s] = IF s \in S THEN Revoked(sessions[s], t, why) ELSE sessions[s]

\* Request r does so and goes on as q2.
Revocation(r, q2, S, t, why) ==
  /\ r \in Reqs /\ q2 \in Request /\ S \subseteq Sids /\ t \in Times /\ why \in Reasons
  /\ Known(q2) /\ q2.pc # "b_password" /\ req' = [req EXCEPT ![r] = q2]
  /\ \A s \in S : sessions[s] # None
  /\ RevokesSome(S, t, why) /\ sessions' = [s \in Sids |-> sessions'[s]]
  /\ UNCHANGED << users, creds, audit, throttle, now, restarts, cookies, history >>

LEMMA RevokesStep ==
  ASSUME IInv, NEW r, NEW q2, NEW S, NEW t, NEW why, Revocation(r, q2, S, t, why)
  PROVE  /\ Core'
         /\ \A s \in S : sessions'[s] # None /\ IsRevoked(sessions'[s])
         /\ \A s \in Sids : ~(s \in S /\ ~IsRevoked(sessions[s])) => sessions'[s] = sessions[s]
         /\ \A s \in S : ~IsRevoked(sessions[s]) => sessions'[s].reason = why
<1> USE DEF history, Revocation
<1>0. Core /\ RowsOK /\ SessionsOwned
  BY DEF IInv, Core
<1>1. None \notin Row
  BY AuthAssumption
<1>2. ASSUME NEW s \in S
      PROVE  /\ sessions[s] \in Row /\ sessions'[s] \in Row /\ IsRevoked(sessions'[s])
             /\ sessions'[s].user = sessions[s].user
             /\ IsRevoked(sessions[s]) => sessions'[s] = sessions[s]
             /\ ~IsRevoked(sessions[s]) => sessions'[s].reason = why
  <2>1. PICK row \in Row : row = sessions[s]
    BY <1>0 DEF RowsOK
  <2>2. sessions'[s] = Revoked(row, t, why)
    BY <2>1 DEF RevokesSome
  <2> QED  BY <2>1, <2>2, RevokedRow
<1>3. \A s \in Sids : s \notin S => sessions'[s] = sessions[s]
  BY DEF RevokesSome
<1>4. \A s \in Sids :
        /\ sessions[s] = None => sessions'[s] = None
        /\ sessions[s] # None => /\ sessions'[s] # None /\ sessions'[s].user = sessions[s].user
                                 /\ IsRevoked(sessions[s]) => IsRevoked(sessions'[s])
  BY <1>1, <1>2, <1>3
<1>5. RowsOK'
  <2>1. \A s \in Sids : sessions'[s] \in Row \cup {None}
    BY <1>0, <1>2, <1>3 DEF RowsOK
  <2>2. sessions' \in [Sids -> Row \cup {None}]
    BY <2>1
  <2> QED  BY <1>0, <2>2 DEF RowsOK
<1>6. SessionsOwned' /\ Grow
  <2>1. now <= now'
    BY <1>0, AuthAssumption DEF RowsOK, Times
  <2> QED  BY <1>0, <1>4, <2>1 DEF SessionsOwned, Grow
<1>7. Core'
  BY <1>0, <1>5, <1>6, Unset, GrowStep
<1> QED  BY <1>1, <1>2, <1>3, <1>7

\* The UPDATE by id changes one row.
LEMMA RevokeIsSome ==
  ASSUME RowsOK, NEW s \in Sids, NEW t, NEW why, Revoke(s, t, why)
  PROVE  RevokesSome({s}, t, why) /\ sessions' = [x \in Sids |-> sessions'[x]]
  BY DEF RowsOK, Revoke, RevokesSome

LEMMA LogoutRevokes ==
  ASSUME IInv, NEW r \in Reqs, LogoutRevoke(r)
  PROVE  IInv'
<1>0. Core /\ RowsOK /\ At(r, "o_revoke") /\ Known(req[r]) /\ OldPasswordDies /\ RevocationAudited
  BY DEF IInv, Core, LogoutRevoke
<1>1. UNCHANGED << users, creds, audit, throttle, now, restarts, cookies, history >>
  BY DEF LogoutRevoke
<1>2. "o_audit" \in Steps /\ "logout" \in Reasons
  BY DEF Steps, Reasons
<1>3. PICK q2 \in Request :
        /\ req' = [req EXCEPT ![r] = q2] /\ q2.pc = "o_audit" /\ q2.sid = req[r].sid /\ q2.at = req[r].at
  BY <1>0, <1>2, GoTo DEF LogoutRevoke
<1>4. PICK s \in Sids, t \in Times : s = req[r].sid /\ t = req[r].at /\ sessions[s] # None
  BY <1>0 DEF Known, At, RowsOK, Request
<1>5. Known(q2)
  BY <1>0, <1>3 DEF Known, Signed, At
<1>6. RevokesSome({s}, t, "logout") /\ sessions' = [x \in Sids |-> sessions'[x]]
  BY <1>0, <1>4, RevokeIsSome DEF LogoutRevoke
<1>7. /\ Core' /\ IsRevoked(sessions'[s])
      /\ \A x \in Sids : ~(x = s /\ ~IsRevoked(sessions[x])) => sessions'[x] = sessions[x]
      /\ ~IsRevoked(sessions[s]) => sessions'[s].reason = "logout"
  <2>1. {s} \in SUBSET Sids /\ \A x \in {s} : sessions[x] # None
    BY <1>4
  <2>2. Revocation(r, q2, {s}, t, "logout")
    BY <1>1, <1>2, <1>3, <1>5, <1>6, <2>1 DEF Revocation
  <2> QED  BY <2>2, RevokesStep
<1>8. /\ req'[r] = q2
      /\ \A v : RotationOpen(v) => RotationOpen(v)'
      /\ \A x : LogoutOpen(x) => LogoutOpen(x)'
      /\ \A x : RevokeOpen(x) => RevokeOpen(x)'
  BY <1>0, <1>1, <1>3, StillOwed DEF At, history
<1>9. LogoutOpen(s)'
  BY <1>3, <1>4, <1>8 DEF LogoutOpen, At
<1>10. ASSUME NEW x \in Sids PROVE Dies(x)' /\ Told(x)'
  <2>1. CASE x = s /\ ~IsRevoked(sessions[x])
    <3>1. sessions'[x].reason = "logout" /\ "logout" # "user_revoke"
      BY <1>7, <2>1
    <3> QED  BY <1>7, <1>9, <2>1, <3>1 DEF Dies, Told
  <2>2. CASE ~(x = s /\ ~IsRevoked(sessions[x]))
    <3>1. sessions'[x] = sessions[x]
      BY <1>7, <2>2
    <3> QED  BY <1>0, <1>1, <1>8, <3>1, PropsAre DEF Dies, Told, history
  <2> QED  BY <2>1, <2>2
<1> QED  BY <1>7, <1>10, PropsAreNext DEF IInv

LEMMA RevokeUpdates ==
  ASSUME IInv, NEW r \in Reqs, RevokeUpdate(r)
  PROVE  IInv'
<1>0. Core /\ RowsOK /\ At(r, "v_update") /\ Known(req[r]) /\ OldPasswordDies /\ RevocationAudited
  BY DEF IInv, Core, RevokeUpdate
<1>1. UNCHANGED << users, creds, audit, throttle, now, restarts, cookies, history >>
  BY DEF RevokeUpdate
<1>2. "v_audit" \in Steps /\ "user_revoke" \in Reasons
  BY DEF Steps, Reasons
<1>3. PICK s \in Sids, t \in Times :
        /\ s = req[r].tgt /\ t = req[r].at /\ sessions[s] # None
        /\ req[r].fresh \/ IsRevoked(sessions[s])
  BY <1>0 DEF Known, At, RowsOK, Request
<1>4. PICK q2 \in Request :
        /\ req' = [req EXCEPT ![r] = q2] /\ Known(q2) /\ q2.pc # "b_password"
        /\ req[r].fresh => q2.pc = "v_audit" /\ q2.tgt = s
  <2>1. CASE req[r].fresh
    <3>1. PICK q2 \in Request :
            /\ req' = [req EXCEPT ![r] = q2] /\ q2.pc = "v_audit" /\ q2.tgt = req[r].tgt
            /\ q2.sid = req[r].sid /\ q2.user = req[r].user /\ q2.at = req[r].at
      BY <1>0, <1>2, <2>1, GoTo DEF RevokeUpdate
    <3>2. Known(q2)
      BY <1>0, <3>1 DEF Known, Signed, At
    <3> QED  BY <1>3, <3>1, <3>2
  <2>2. CASE ~req[r].fresh
    BY <1>0, <2>2, IdleIsKnown DEF RevokeUpdate, Done
  <2> QED  BY <2>1, <2>2
<1>5. RevokesSome({s}, t, "user_revoke") /\ sessions' = [x \in Sids |-> sessions'[x]]
  BY <1>0, <1>3, RevokeIsSome DEF RevokeUpdate
<1>6. /\ Core' /\ IsRevoked(sessions'[s])
      /\ \A x \in Sids : ~(x = s /\ ~IsRevoked(sessions[x])) => sessions'[x] = sessions[x]
      /\ ~IsRevoked(sessions[s]) => sessions'[s].reason = "user_revoke"
  <2>1. {s} \in SUBSET Sids /\ \A x \in {s} : sessions[x] # None
    BY <1>3
  <2>2. Revocation(r, q2, {s}, t, "user_revoke")
    BY <1>1, <1>2, <1>4, <1>5, <2>1 DEF Revocation
  <2> QED  BY <2>2, RevokesStep
<1>7. /\ req'[r] = q2
      /\ \A v : RotationOpen(v) => RotationOpen(v)'
      /\ \A x : LogoutOpen(x) => LogoutOpen(x)'
      /\ \A x : RevokeOpen(x) => RevokeOpen(x)'
  BY <1>0, <1>1, <1>4, StillOwed DEF At, history
<1>8. ~IsRevoked(sessions[s]) => RevokeOpen(s)'
  BY <1>3, <1>4, <1>7 DEF RevokeOpen, At
<1>9. ASSUME NEW x \in Sids PROVE Dies(x)' /\ Told(x)'
  <2>1. CASE x = s /\ ~IsRevoked(sessions[x])
    <3>1. sessions'[x].reason = "user_revoke" /\ "logout" # "user_revoke"
      BY <1>6, <2>1
    <3> QED  BY <1>6, <1>8, <2>1, <3>1 DEF Dies, Told
  <2>2. CASE ~(x = s /\ ~IsRevoked(sessions[x]))
    <3>1. sessions'[x] = sessions[x]
      BY <1>6, <2>2
    <3> QED  BY <1>0, <1>1, <1>7, <3>1, PropsAre DEF Dies, Told, history
  <2> QED  BY <2>1, <2>2
<1> QED  BY <1>6, <1>9, PropsAreNext DEF IInv

\* The UPDATE by user changes the other live sessions of the user.
LEMMA RevokeAllIsSome ==
  ASSUME RowsOK, NEW u, NEW except, NEW t, NEW why, RevokeAllExcept(u, except, t, why)
  PROVE  /\ RevokesSome(OtherLiveSessions(u, except), t, why)
         /\ sessions' = [x \in Sids |-> sessions'[x]]
         /\ OtherLiveSessions(u, except) \in SUBSET Sids
         /\ \A x \in OtherLiveSessions(u, except) : sessions[x] # None
         /\ \A x \in Sids : x \in OtherLiveSessions(u, except) <=>
              x # except /\ sessions[x] # None /\ sessions[x].user = u /\ ~IsRevoked(sessions[x])
  BY DEF RevokeAllExcept, RevokesSome, OtherLiveSessions

LEMMA ChangeRevokes ==
  ASSUME IInv, NEW r \in Reqs, ChangeRevoke(r)
  PROVE  IInv'
<1>0. Core /\ RowsOK /\ At(r, "p_revoke") /\ Known(req[r]) /\ OldPasswordDies /\ RevocationAudited
  BY DEF IInv, Core, ChangeRevoke
<1>1. UNCHANGED << users, creds, audit, throttle, now, restarts, cookies, history >>
  BY DEF ChangeRevoke
<1>2. "p_audit" \in Steps /\ "password_changed" \in Reasons
  BY DEF Steps, Reasons
<1>3. PICK q2 \in Request :
        /\ req' = [req EXCEPT ![r] = q2] /\ q2.pc = "p_audit" /\ q2.sid = req[r].sid
        /\ q2.user = req[r].user /\ q2.at = req[r].at
  BY <1>0, <1>2, GoTo DEF ChangeRevoke
<1>4. PICK s \in Sids, t \in Times, u \in Users :
        s = req[r].sid /\ t = req[r].at /\ u = req[r].user /\ s \in keepers
  BY <1>0 DEF Known, Signed, At, RowsOK, Request
<1>5. Known(q2)
  BY <1>0, <1>3 DEF Known, Signed, At
<1>6. PICK S \in SUBSET Sids :
        /\ RevokesSome(S, t, "password_changed") /\ sessions' = [x \in Sids |-> sessions'[x]]
        /\ \A x \in S : sessions[x] # None
        /\ \A x \in Sids : x \in S <=>
             x # s /\ sessions[x] # None /\ sessions[x].user = u /\ ~IsRevoked(sessions[x])
  BY <1>0, <1>4, RevokeAllIsSome DEF ChangeRevoke
<1>7. /\ Core'
      /\ \A x \in S : IsRevoked(sessions'[x])
      /\ \A x \in Sids : ~(x \in S /\ ~IsRevoked(sessions[x])) => sessions'[x] = sessions[x]
      /\ \A x \in S : ~IsRevoked(sessions[x]) => sessions'[x].reason = "password_changed"
  <2>1. Revocation(r, q2, S, t, "password_changed")
    BY <1>1, <1>2, <1>3, <1>5, <1>6 DEF Revocation
  <2> QED  BY <2>1, RevokesStep
<1>8. /\ \A v : RotationOpen(v) => RotationOpen(v)' \/ v = u
      /\ \A x : LogoutOpen(x) => LogoutOpen(x)'
      /\ \A x : RevokeOpen(x) => RevokeOpen(x)'
  BY <1>0, <1>1, <1>3, <1>4, StillOwed DEF At, history
<1>9. ASSUME NEW x \in Sids PROVE Dies(x)' /\ Told(x)'
  <2>1. CASE x \in S
    <3>1. /\ sessions'[x].reason = "password_changed" /\ IsRevoked(sessions'[x])
          /\ "password_changed" # "logout" /\ "password_changed" # "user_revoke"
      BY <1>6, <1>7, <2>1
    <3> QED  BY <3>1 DEF Dies, Told
  <2>2. CASE x \notin S
    <3>1. sessions'[x] = sessions[x]
      BY <1>7, <2>2
    <3>2. Told(x)'
      BY <1>0, <1>1, <1>8, <3>1, PropsAre DEF Told, history
    <3>3. CASE sessions[x] # None /\ ~IsRevoked(sessions[x]) /\ sessions[x].user = u
      <4>1. x \in keepers'
        BY <1>1, <1>4, <1>6, <2>2, <3>3 DEF history
      <4> QED  BY <3>2, <4>1 DEF Dies
    <3>4. CASE ~(sessions[x] # None /\ ~IsRevoked(sessions[x]) /\ sessions[x].user = u)
      BY <1>0, <1>1, <1>8, <3>1, <3>2, <3>4, PropsAre DEF Dies, history
    <3> QED  BY <3>3, <3>4
  <2> QED  BY <2>1, <2>2
<1> QED  BY <1>7, <1>9, PropsAreNext DEF IInv

LEMMA RevokeAllUpdates ==
  ASSUME IInv, NEW r \in Reqs, RevokeAllUpdate(r)
  PROVE  IInv'
<1>0. Core /\ RowsOK /\ At(r, "w_update") /\ Known(req[r]) /\ OldPasswordDies /\ RevocationAudited
  BY DEF IInv, Core, RevokeAllUpdate
<1>1. UNCHANGED << users, creds, audit, throttle, now, restarts, cookies, history >>
  BY DEF RevokeAllUpdate
<1>2. "w_audit" \in Steps /\ "user_revoke_all" \in Reasons
  BY DEF Steps, Reasons
<1>3. PICK q2 \in Request :
        req' = [req EXCEPT ![r] = q2] /\ Known(q2) /\ q2.pc # "b_password"
  <2>1. CASE Go(r, "w_audit")
    <3>1. PICK q2 \in Request :
            /\ req' = [req EXCEPT ![r] = q2] /\ q2.pc = "w_audit" /\ q2.sid = req[r].sid
            /\ q2.user = req[r].user /\ q2.at = req[r].at
      BY <1>0, <1>2, <2>1, GoTo
    <3>2. Known(q2)
      BY <1>0, <3>1 DEF Known, Signed, At
    <3> QED  BY <3>1, <3>2
  <2>2. CASE Done(r)
    BY <1>0, <2>2, IdleIsKnown DEF Done
  <2> QED  BY <2>1, <2>2 DEF RevokeAllUpdate
<1>4. PICK t \in Times, u \in Users : t = req[r].at /\ u = req[r].user
  BY <1>0 DEF Known, Signed, At, RowsOK, Request
<1>5. PICK S \in SUBSET Sids :
        /\ RevokesSome(S, t, "user_revoke_all") /\ sessions' = [x \in Sids |-> sessions'[x]]
        /\ \A x \in S : sessions[x] # None /\ ~IsRevoked(sessions[x])
  BY <1>0, <1>4, RevokeAllIsSome DEF RevokeAllUpdate
<1>6. /\ Core'
      /\ \A x \in S : IsRevoked(sessions'[x])
      /\ \A x \in Sids : ~(x \in S /\ ~IsRevoked(sessions[x])) => sessions'[x] = sessions[x]
      /\ \A x \in S : ~IsRevoked(sessions[x]) => sessions'[x].reason = "user_revoke_all"
  <2>1. Revocation(r, q2, S, t, "user_revoke_all")
    BY <1>1, <1>2, <1>3, <1>5 DEF Revocation
  <2> QED  BY <2>1, RevokesStep
<1>7. /\ \A v : RotationOpen(v) => RotationOpen(v)'
      /\ \A x : LogoutOpen(x) => LogoutOpen(x)'
      /\ \A x : RevokeOpen(x) => RevokeOpen(x)'
  BY <1>0, <1>1, <1>3, StillOwed DEF At, history
<1>8. ASSUME NEW x \in Sids PROVE Dies(x)' /\ Told(x)'
  <2>1. CASE x \in S
    <3>1. /\ sessions'[x].reason = "user_revoke_all" /\ IsRevoked(sessions'[x])
          /\ "user_revoke_all" # "logout" /\ "user_revoke_all" # "user_revoke"
      BY <1>5, <1>6, <2>1
    <3> QED  BY <3>1 DEF Dies, Told
  <2>2. CASE x \notin S
    <3>1. sessions'[x] = sessions[x]
      BY <1>6, <2>2
    <3> QED  BY <1>0, <1>1, <1>7, <3>1, PropsAre DEF Dies, Told, history
  <2> QED  BY <2>1, <2>2
<1> QED  BY <1>6, <1>8, PropsAreNext DEF IInv

-----------------------------------------------------------------------------
(* The other steps *)

LEMMA ChangeSets ==
  ASSUME IInv, NEW r \in Reqs, ChangeSet(r)
  PROVE  IInv'
<1>0. /\ Core /\ RowsOK /\ SessionsOwned /\ At(r, "p_set") /\ Known(req[r])
      /\ OldPasswordDies /\ RevocationAudited
  BY DEF IInv, Core, ChangeSet
<1>1. UNCHANGED << users, sessions, audit, throttle, now, restarts, cookies, died >>
  BY DEF ChangeSet
<1>2. PICK q \in Request : q = req[r] /\ q.pc = "p_set" /\ Known(q)
  BY <1>0 DEF RowsOK, At
<1>3. PICK u \in Users, pw \in Passwords, s \in Sids :
        u = q.user /\ pw = q.new /\ s = q.sid /\ creds[u] # None
  BY <1>2 DEF Known, Signed
<1>4. PICK q2 : q2 = [q EXCEPT !.pc = "p_revoke", !.new = None]
  OBVIOUS
<1>5. q2 \in Request /\ q2.pc = "p_revoke" /\ q2.user = u /\ q2.sid = s /\ q2.at = q.at
  BY <1>3, <1>4 DEF Request, Steps
<1>6. req' = [req EXCEPT ![r] = q2] /\ keepers' = keepers \cup {s}
  BY <1>0, <1>2, <1>3, <1>4 DEF RowsOK, ChangeSet
<1>7. /\ creds' = [creds EXCEPT ![u] = pw] /\ epoch[u] < MaxEpoch
      /\ epoch' = [epoch EXCEPT ![u] = epoch[u] + 1]
  BY <1>2, <1>3 DEF ChangeSet, SetPassword, UpsertForUser
<1>8. pw # None
  BY AuthAssumption
<1>9. /\ creds'[u] = pw /\ \A v \in Users : v # u => creds'[v] = creds[v] /\ epoch'[v] = epoch[v]
      /\ \A v \in Users : creds[v] # None => creds'[v] # None
  BY <1>0, <1>7, <1>8 DEF RowsOK
<1>10. RowsOK'
  <2>1. epoch' \in [Users -> 0 .. MaxEpoch]
    BY <1>0, <1>7, AuthAssumption DEF RowsOK
  <2>2. creds' \in [Users -> Passwords \cup {None}] /\ \A v \in Users : creds'[v] # None => v \in users
    BY <1>0, <1>3, <1>7 DEF RowsOK
  <2> QED  BY <1>0, <1>1, <1>5, <1>6, <2>1, <2>2 DEF RowsOK
<1>11. SessionsOwned' /\ Grow
  <2>1. now <= now'
    BY <1>0, <1>1, AuthAssumption DEF RowsOK, Times
  <2>2. \A x \in Sids : sessions[x] # None => sessions[x].user \in Users
    BY <1>0 DEF RowsOK, Row
  <2> QED  BY <1>0, <1>1, <1>6, <1>9, <2>1, <2>2 DEF SessionsOwned, Grow
<1>12. Known(q2)'
  BY <1>1, <1>2, <1>3, <1>5, <1>6, <1>8, <1>9 DEF Known, Signed
<1>13. \A p \in Reqs : p # r /\ At(p, "b_password") => creds'[req[p].user] = None
  BY <1>0, <1>3, <1>9, Unset
<1>14. Core'
  BY <1>0, <1>5, <1>6, <1>10, <1>11, <1>12, <1>13, StepCore
<1>15. /\ req'[r] = q2
       /\ \A v : RotationOpen(v) => RotationOpen(v)'
       /\ \A x : LogoutOpen(x) => LogoutOpen(x)'
       /\ \A x : RevokeOpen(x) => RevokeOpen(x)'
  BY <1>0, <1>1, <1>6, StillOwed DEF At
<1>16. RotationOpen(u)'
  BY <1>5, <1>15 DEF RotationOpen, At
<1>17. ASSUME NEW x \in Sids PROVE Dies(x)' /\ Told(x)'
  <2>1. sessions[x] # None => sessions[x].user = u \/ epoch'[sessions[x].user] = epoch[sessions[x].user]
    BY <1>0, <1>9 DEF RowsOK, Row
  <2>2. Told(x)'
    BY <1>0, <1>1, <1>15, PropsAre DEF Told
  <2>3. Dies(x)'
    BY <1>0, <1>1, <1>6, <1>15, <1>16, <2>1, PropsAre DEF Dies
  <2> QED  BY <2>2, <2>3
<1> QED  BY <1>14, <1>17, PropsAreNext DEF IInv

LEMMA AuditsWritten ==
  ASSUME IInv, NEW r \in Reqs, LogoutAudit(r) \/ RevokeAudit(r)
  PROVE  IInv'
<1>0. /\ Core /\ RowsOK /\ Known(req[r]) /\ OldPasswordDies /\ RevocationAudited
      /\ At(r, "o_audit") \/ At(r, "v_audit")
  BY DEF IInv, Core, LogoutAudit, RevokeAudit
<1>1. UNCHANGED << users, creds, sessions, throttle, now, restarts, cookies, epoch, keepers, died >>
  BY DEF LogoutAudit, RevokeAudit, history
<1>2. req' = [req EXCEPT ![r] = Idle] /\ audit \subseteq audit'
  BY DEF LogoutAudit, RevokeAudit, Done, Audited
<1>3. /\ At(r, "o_audit") => /\ req[r].sid \in Sids
                             /\ audit' = audit \cup {[kind |-> "logout_succeeded", of |-> req[r].sid]}
      /\ At(r, "v_audit") => /\ req[r].tgt \in Sids
                             /\ audit' = audit \cup {[kind |-> "session_revoked", of |-> req[r].tgt]}
  BY <1>0 DEF LogoutAudit, RevokeAudit, Audited, Known, At
<1>4. Idle \in Request /\ Known(Idle) /\ Idle.pc = "idle"
  BY <1>0, IdleIsKnown
<1>5. RowsOK'
  <2>1. audit' \subseteq [kind : {"logout_succeeded", "session_revoked"}, of : Sids]
    BY <1>0, <1>3 DEF RowsOK
  <2> QED  BY <1>0, <1>1, <1>2, <1>4, <2>1 DEF RowsOK
<1>6. SessionsOwned' /\ Grow
  <2>1. now <= now'
    BY <1>0, <1>1, AuthAssumption DEF RowsOK, Times
  <2> QED  BY <1>0, <1>1, <2>1 DEF Core, SessionsOwned, Grow
<1>7. Core'
  BY <1>0, <1>1, <1>2, <1>4, <1>5, <1>6, Unset, GrowStep
<1>8. /\ \A v : RotationOpen(v) => RotationOpen(v)'
      /\ \A x : LogoutOpen(x) => LogoutOpen(x)' \/ [kind |-> "logout_succeeded", of |-> x] \in audit'
      /\ \A x : RevokeOpen(x) => RevokeOpen(x)' \/ [kind |-> "session_revoked", of |-> x] \in audit'
  <2>1. /\ \A v : RotationOpen(v) => RotationOpen(v)'
        /\ \A x : LogoutOpen(x) => LogoutOpen(x)' \/ (At(r, "o_audit") /\ req[r].sid = x)
        /\ \A x : RevokeOpen(x) => RevokeOpen(x)' \/ (At(r, "v_audit") /\ req[r].tgt = x)
    BY <1>0, <1>1, <1>2, StillOwed DEF At
  <2> QED  BY <1>3, <2>1
<1>9. \A x \in Sids : Dies(x)' /\ Told(x)'
  BY <1>0, <1>1, <1>2, <1>8, PropsAre DEF Dies, Told
<1> QED  BY <1>7, <1>9, PropsAreNext DEF IInv

\* Requests of R stop where they are: what they owed is in died.
LEMMA Stops ==
  ASSUME IInv, NEW R \in SUBSET Reqs, req' = [r \in Reqs |-> IF r \in R THEN Idle ELSE req[r]],
         died' = died \cup Owed(R), TableKept, restarts' \in 0 .. MaxRestarts,
         UNCHANGED << db, now, cookies, epoch, keepers >>
  PROVE  IInv'
<1> USE DEF db
<1>0. Core /\ RowsOK /\ OldPasswordDies /\ RevocationAudited
  BY DEF IInv, Core
<1>1. Idle \in Request /\ Known(Idle) /\ Idle.pc = "idle"
  BY <1>0, IdleIsKnown
<1>2. \A r \in Reqs : req'[r] = IF r \in R THEN Idle ELSE req[r]
  OBVIOUS
<1>3. RowsOK'
  <2>1. req' \in [Reqs -> Request]
    BY <1>0, <1>1 DEF RowsOK
  <2> QED  BY <1>0, <2>1 DEF RowsOK, TableKept, TableOK
<1>4. SessionsOwned' /\ BootstrapsApart'
  BY <1>0, <1>1, <1>2 DEF Core, SessionsOwned, BootstrapsApart, At
<1>5. ASSUME NEW r \in Reqs PROVE Known(req[r])'
  <2>1. PICK q : q = req'[r] /\ Known(q)
    BY <1>0, <1>1, <1>2 DEF Core
  <2> QED  BY <2>1 DEF Known, AnyExists, GetForUser
<1>6. /\ \A v : RotationOpen(v) => RotationOpen(v)'
      /\ \A x : LogoutOpen(x) => LogoutOpen(x)'
      /\ \A x : RevokeOpen(x) => RevokeOpen(x)'
  <2>1. ASSUME NEW v, RotationOpen(v) PROVE RotationOpen(v)'
    BY <1>2, <2>1, OwedMeans DEF RotationOpen, At
  <2>2. ASSUME NEW x, LogoutOpen(x) PROVE LogoutOpen(x)'
    BY <1>2, <2>2, OwedMeans DEF LogoutOpen, At
  <2>3. ASSUME NEW x, RevokeOpen(x) PROVE RevokeOpen(x)'
    BY <1>2, <2>3, OwedMeans DEF RevokeOpen, At
  <2> QED  BY <2>1, <2>2, <2>3
<1>7. \A x \in Sids : Dies(x)' /\ Told(x)'
  BY <1>0, <1>6, PropsAre DEF Dies, Told
<1> QED  BY <1>3, <1>4, <1>5, <1>7, PropsAreNext DEF IInv, Core

LEMMA AbortStops ==
  ASSUME IInv, NEW r \in Reqs, Abort(r)
  PROVE  IInv'
<1>1. RowsOK
  BY DEF IInv, Core
<1>2. req' = [q \in Reqs |-> IF q \in {r} THEN Idle ELSE req[q]]
  BY <1>1 DEF Abort, Done, RowsOK
<1>3. TableKept /\ restarts' \in 0 .. MaxRestarts
  BY <1>1 DEF Abort, RowsOK, TableKept, TableOK
<1> QED  BY <1>2, <1>3, Stops DEF Abort

LEMMA RestartStops ==
  ASSUME IInv, Restart
  PROVE  IInv'
<1>1. RowsOK
  BY DEF IInv, Core
<1>2. req' = [q \in Reqs |-> IF q \in Reqs THEN Idle ELSE req[q]]
  BY DEF Restart
<1>3. TableKept
  BY DEF Restart, TableKept, TableOK
<1>4. restarts' \in 0 .. MaxRestarts
  BY <1>1, AuthAssumption DEF Restart, RowsOK
<1> QED  BY <1>2, <1>3, <1>4, Stops DEF Restart

LEMMA TickStep ==
  ASSUME IInv, Tick
  PROVE  IInv'
<1> USE DEF db, history
<1>0. Core /\ RowsOK /\ OldPasswordDies /\ RevocationAudited
  BY DEF IInv, Core
<1>1. now' \in Times /\ now <= now'
  BY <1>0, AuthAssumption DEF RowsOK, Times, Tick
<1>2. RowsOK' /\ SessionsOwned' /\ BootstrapsApart' /\ Grow
  BY <1>0, <1>1 DEF Tick, Core, RowsOK, SessionsOwned, BootstrapsApart, At, Grow
<1>3. ASSUME NEW r \in Reqs PROVE Known(req[r])'
  <2>1. PICK q \in Request : q = req[r] /\ q = req'[r] /\ Known(q)
    BY <1>0 DEF Tick, Core, RowsOK
  <2>2. q.pc = "b_password" => creds'[q.user] = None
    BY <2>1 DEF Tick, Known
  <2>3. Known(q)'
    BY <1>0, <1>2, <2>1, <2>2, KnownGrows
  <2> QED  BY <2>1, <2>3 DEF Known, AnyExists, GetForUser
<1>4. \A x \in Sids : Dies(x)' /\ Told(x)'
  <2>1. /\ \A u : RotationOpen(u) <=> RotationOpen(u)'
        /\ \A s : LogoutOpen(s) <=> LogoutOpen(s)'
        /\ \A s : RevokeOpen(s) <=> RevokeOpen(s)'
    BY DEF Tick, RotationOpen, LogoutOpen, RevokeOpen, At
  <2> QED  BY <1>0, <2>1, PropsAre DEF Tick, Dies, Told
<1> QED  BY <1>2, <1>3, <1>4, PropsAreNext DEF IInv, Core

-----------------------------------------------------------------------------
(* The theorems *)

LEMMA InitHolds == Init => IInv
<1> SUFFICES ASSUME Init PROVE IInv
  OBVIOUS
<1> USE DEF Init
<1>1. Idle \in Request /\ Idle.pc = "idle"
  BY AuthAssumption DEF Idle, Request, Steps, Times
<1>2. RowsOK
  <2>1. 0 \in Times /\ 0 \in 0 .. MaxRestarts /\ 0 \in 0 .. MaxEpoch
    BY AuthAssumption DEF Times
  <2>2. epoch \in [Users -> 0 .. MaxEpoch] /\ req \in [Reqs -> Request]
    BY <1>1, <2>1
  <2>3. DOMAIN throttle = {}
    OBVIOUS
  <2> QED  BY <2>1, <2>2, <2>3, AuthAssumption DEF RowsOK
<1>3. ASSUME NEW r \in Reqs PROVE Known(req[r])
  <2>1. req[r] = Idle /\ Known(Idle)
    BY <1>2, IdleIsKnown
  <2> QED  BY <2>1
<1>4. Core
  BY <1>1, <1>2, <1>3 DEF Core, BootstrapsApart, SessionsOwned, At
<1>5. \A s \in Sids : Dies(s) /\ Told(s)
  BY DEF Dies, Told
<1> QED  BY <1>4, <1>5, PropsAre DEF IInv

LEMMA NextPreserves == IInv /\ [Next]_vars => IInv'
<1> SUFFICES ASSUME IInv, [Next]_vars PROVE IInv'
  OBVIOUS
<1>1. ASSUME NEW r \in Reqs, Bootstrap(r) PROVE IInv'
  BY <1>1, BootstrapQuiet, BootstrapCreates, BootstrapSets DEF Bootstrap
<1>2. ASSUME NEW r \in Reqs, Login(r) PROVE IInv'
  BY <1>2, LoginStarts, LoginVerifies, LoginFails, LoginClears, LoginCreates, LoginAudits DEF Login
<1>3. ASSUME NEW r \in Reqs, Logout(r) PROVE IInv'
  BY <1>3, LogoutStarts, LogoutValidates, LogoutRevokes, AuditsWritten DEF Logout
<1>4. ASSUME NEW r \in Reqs, Extractor(r) PROVE IInv'
  <2>1. ASSUME NEW s \in cookies, NEW route \in {"read", "revoke_all"},
               ExtractorStart(r, route, s, None, None, None)
        PROVE  IInv'
    <3>1. route \in {"read", "revoke_all", "revoke", "change"} /\ route # "revoke" /\ route # "change"
      OBVIOUS
    <3>2. None \in Sids \cup {None} /\ None \in Passwords \cup {None}
      OBVIOUS
    <3> QED  BY <2>1, <3>1, <3>2, ExtractorStarts
  <2>2. ASSUME NEW s \in cookies, NEW tgt \in Sids, ExtractorStart(r, "revoke", s, tgt, None, None)
        PROVE  IInv'
    <3>1. tgt \in Sids \cup {None} /\ None \in Passwords \cup {None}
      OBVIOUS
    <3> QED  BY <2>2, <3>1, ExtractorStarts
  <2>3. ASSUME NEW s \in cookies, NEW pw \in Passwords, NEW new \in Passwords,
               ExtractorStart(r, "change", s, None, pw, new)
        PROVE  IInv'
    <3>1. None \in Sids \cup {None} /\ pw \in Passwords \cup {None} /\ new \in Passwords \cup {None}
      OBVIOUS
    <3> QED  BY <2>3, <3>1, ExtractorStarts
  <2> QED  BY <1>4, <2>1, <2>2, <2>3, ExtractorValidates, ExtractorTouches DEF Extractor
<1>5. ASSUME NEW r \in Reqs, ChangePassword(r) PROVE IInv'
  BY <1>5, ChangeVerifies, ChangeSets, ChangeRevokes, AuditsLast DEF ChangePassword
<1>6. ASSUME NEW r \in Reqs, RevokeSessions(r) PROVE IInv'
  BY <1>6, RevokeSnapshots, RevokeUpdates, AuditsWritten, RevokeAllUpdates, AuditsLast DEF RevokeSessions
<1>7. CASE UNCHANGED vars
  BY <1>7, Stutters
<1> QED  BY <1>1, <1>2, <1>3, <1>4, <1>5, <1>6, <1>7, AbortStops, RestartStops, TickStep DEF Next

\* The tables are well formed, every request relies only on what holds, and
\* the two properties below hold, whatever requests overlap, fail or are lost.
THEOREM AuthInvariant == Spec => []IInv
  BY InitHolds, NextPreserves, PTL DEF Spec

\* A rotation ends every session opened with the older password, but the one
\* it was made from, a login that was already past the check, and those of a
\* rotation that stopped between its two writes (AuthService::change_password).
THEOREM OldSessionsDie == Spec => []OldPasswordDies
<1>1. IInv => OldPasswordDies
  BY DEF IInv
<1> QED  BY <1>1, AuthInvariant, PTL

\* A session ended by logout or by a revoke has its audit event, or the
\* request that ended it still owes it or died owing it (routes/v1/auth.rs).
THEOREM RevocationsAudited == Spec => []RevocationAudited
<1>1. IInv => RevocationAudited
  BY DEF IInv
<1> QED  BY <1>1, AuthInvariant, PTL

\* Bootstrap creates a user, and sets its password, only for a request that
\* began while no password existed (the any_exists check of bootstrap).
THEOREM BootstrapsFromEmpty == Spec => []BootstrapOnlyWhenEmpty
<1>1. IInv => BootstrapOnlyWhenEmpty
  BY DEF IInv, Core, Known, BootstrapOnlyWhenEmpty
<1> QED  BY <1>1, AuthInvariant, PTL

\* Only the identifier's own successful login or a restart ends a block in
\* force; the sweep of a full table and a late failure never do
\* (LoginThrottler::record_failure).
THEOREM BlocksPersist == Spec => BlockPersists
<1> DEFINE Lasts(u) ==
      \/ u \in DOMAIN throttle' /\ throttle'[u].blocked_until >= throttle[u].blocked_until
      \/ \E r \in Reqs : At(r, "l_clear") /\ req[r].user = u /\ ~At(r, "l_clear")'
      \/ restarts' # restarts
<1>1. ASSUME IInv, Next, NEW u \in DOMAIN throttle, IsBlocked(throttle[u], now)
      PROVE  Lasts(u)
  <2>0. RowsOK /\ TableOK(throttle) /\ throttle[u].blocked_until \in Nat
    BY <1>1 DEF IInv, Core, RowsOK, TableOK
  <2>1. ASSUME NEW r \in Reqs, LoginFail(r) PROVE Lasts(u)
    <3>1. At(r, "l_fail") /\ Known(req[r]) /\ throttle' = RecordFailure(throttle, req[r].user, req[r].at)
      BY <1>1, <2>1 DEF IInv, Core, LoginFail
    <3>2. req[r].user \in Users /\ req[r].at \in Nat /\ req[r].at <= now /\ now \in Nat
      BY <2>0, <3>1 DEF RowsOK, Known, At, Request, Times
    <3>3. IsBlocked(throttle[u], req[r].at)
      BY <1>1, <2>0, <3>2 DEF IsBlocked
    <3> QED  BY <2>0, <3>1, <3>2, <3>3, FailureKeeps
  <2>2. ASSUME NEW r \in Reqs, LoginClear(r) PROVE Lasts(u)
    <3>1. throttle' = RecordSuccess(throttle, req[r].user) /\ At(r, "l_clear")
      BY <2>2 DEF LoginClear
    <3>2. CASE req[r].user = u
      <4>1. ~At(r, "l_clear")'
        BY <2>0, <2>2 DEF LoginClear, Go, At, RowsOK, Request
      <4> QED  BY <3>1, <3>2, <4>1
    <3>3. CASE req[r].user # u
      <4>1. u \in DOMAIN throttle' /\ throttle'[u] = throttle[u]
        BY <2>0, <3>1, <3>3, SuccessKeeps
      <4> QED  BY <2>0, <4>1
    <3> QED  BY <3>2, <3>3
  <2>3. CASE Restart
    <3>1. restarts' # restarts
      BY <2>0, <2>3, AuthAssumption DEF Restart, RowsOK
    <3> QED  BY <3>1
  <2>4. CASE UNCHANGED throttle
    BY <2>0, <2>4
  <2>5. \/ UNCHANGED throttle \/ Restart
        \/ \E r \in Reqs : LoginFail(r) \/ LoginClear(r)
    <3>1. ASSUME NEW r \in Reqs, Bootstrap(r) PROVE UNCHANGED throttle
      BY <3>1 DEF Bootstrap, BootstrapStart, BootstrapAny, BootstrapCreate, BootstrapPassword, BootstrapAudit
    <3>2. ASSUME NEW r \in Reqs, Login(r) PROVE UNCHANGED throttle \/ LoginFail(r) \/ LoginClear(r)
      BY <3>2 DEF Login, LoginStart, LoginVerify, LoginCreate, LoginAudit
    <3>3. ASSUME NEW r \in Reqs, Logout(r) PROVE UNCHANGED throttle
      BY <3>3 DEF Logout, LogoutStart, LogoutValidate, LogoutRevoke, LogoutAudit
    <3>4. ASSUME NEW r \in Reqs, Extractor(r) PROVE UNCHANGED throttle
      BY <3>4 DEF Extractor, ExtractorStart, ExtractorValidate, ExtractorTouch
    <3>5. ASSUME NEW r \in Reqs, ChangePassword(r) PROVE UNCHANGED throttle
      BY <3>5 DEF ChangePassword, ChangeVerify, ChangeSet, ChangeRevoke, ChangeAudit
    <3>6. ASSUME NEW r \in Reqs, RevokeSessions(r) PROVE UNCHANGED throttle
      BY <3>6 DEF RevokeSessions, RevokeSnapshot, RevokeUpdate, RevokeAudit, RevokeAllUpdate, RevokeAllAudit
    <3>7. ASSUME NEW r \in Reqs, Abort(r) PROVE UNCHANGED throttle
      BY <3>7 DEF Abort
    <3>8. Tick => UNCHANGED throttle
      BY DEF Tick
    <3> QED  BY <1>1, <3>1, <3>2, <3>3, <3>4, <3>5, <3>6, <3>7, <3>8 DEF Next
  <2> QED  BY <2>1, <2>2, <2>3, <2>4, <2>5
<1>2. IInv /\ [Next]_vars =>
        [\A u \in DOMAIN throttle : IsBlocked(throttle[u], now) => Lasts(u)]_vars
  BY <1>1
<1> QED  BY <1>2, AuthInvariant, PTL DEF Spec, BlockPersists
-----------------------------------------------------------------------------
(***************************************************************************)
(* How many attempts fail.                                                 *)
(*                                                                         *)
(* The throttle's vector of failures is pruned and capped, so it is not    *)
(* the history of failed attempts.  What holds instead, for every window   *)
(* that has not passed yet: either the block reaches past its end, or the  *)
(* vector still has all of its failures and they are too few for a block.  *)
(* A window that has passed only gets the failures of requests that were   *)
(* under way, and those are counted with it from the start (Room).         *)
(***************************************************************************)

Recent(s, T) == {i \in DOMAIN s : T <= s[i]}
InTime(s, T) == {i \in DOMAIN s : T <= s[i] /\ s[i] < T + Window}
Hits(u, T) == InTime(guesses[u], T)
Trying(u, T) ==
  {r \in Reqs : /\ req[r].pc \in {"l_verify", "l_fail"} /\ req[r].user = u
                /\ T <= req[r].at /\ req[r].at < T + Window}

Counted(u, T) ==
  now < T + Window =>
    \/ T + Window <= throttle[u].blocked_until
    \/ /\ Cardinality(Hits(u, T)) < MaxFailures
       /\ Cardinality(Hits(u, T)) <= Cardinality(Recent(throttle[u].failures, T))

Room(u, T) ==
  Cardinality(Hits(u, T)) + Cardinality(Trying(u, T)) < MaxFailures + Cardinality(Reqs)

Tracked(table) ==
  /\ IsFiniteSet(DOMAIN table) /\ Cardinality(DOMAIN table) <= MaxTrackedKeys
  /\ \A u \in DOMAIN table :
       table[u].failures \in Seq(Nat) /\ Len(table[u].failures) <= MaxFailures + 1

GuessInv ==
  /\ Tracked(throttle)
  /\ guesses \in [Users -> Seq(Nat)]
  /\ \A u \in Users \ DOMAIN throttle : guesses[u] = << >>
  /\ \A u \in DOMAIN throttle, T \in Nat : Counted(u, T)
  /\ \A u \in Users, T \in Nat : Room(u, T)

LEMMA LeastNat ==
  ASSUME NEW T, T \subseteq Nat, T # {}
  PROVE  \E k \in T : \A j \in T : k <= j
<1>1. \E R : IsWellFoundedOn(R, Nat) /\ \A j, k \in Nat : j < k => <<j, k>> \in R
  <2>1. \A j, k \in Nat : j < k => <<j, k>> \in OpToRel(<, Nat)
    BY Zenon DEF OpToRel
  <2> QED  BY <2>1, NatLessThanWellFounded, Zenon
<1>2. PICK R : IsWellFoundedOn(R, Nat) /\ \A j, k \in Nat : j < k => <<j, k>> \in R
  BY <1>1
<1>3. PICK k \in T : \A j \in T : ~(<<j, k>> \in R)
  <2>1. ASSUME NEW Q, IsWellFoundedOn(Q, Nat)
        PROVE  \E x \in T : \A y \in T : ~(<<y, x>> \in Q)
    BY <2>1, WFMin, Zenon
  <2> QED  BY <1>2, <2>1, Zenon
<1>4. ASSUME NEW j \in T PROVE k <= j
  <2>1. ~(j < k)
    BY <1>2, <1>3
  <2> QED  BY <2>1
<1> QED  BY <1>4

\* A function may be defined by what it does to the value before.
Iterates(x0, m, step, g) == g[0] = x0 /\ \A n \in 1 .. m : g[n] = step[n][g[n - 1]]

LEMMA IterationExists ==
  ASSUME NEW X, NEW x0 \in X, NEW m \in Nat, NEW step \in [1 .. m -> [X -> X]]
  PROVE  \E g \in [0 .. m -> X] : Iterates(x0, m, step, g)
<1> DEFINE T == {n \in 0 .. m : ~\E g \in [0 .. n -> X] : Iterates(x0, n, step, g)}
<1>0. m \in 0 .. m
  OBVIOUS
<1> SUFFICES ASSUME T # {} PROVE FALSE
  BY <1>0
<1>1. PICK k \in T : \A j \in T : k <= j
  <2>1. T \subseteq Nat
    OBVIOUS
  <2> QED  BY <2>1, LeastNat
<1>2. k # 0
  <2>1. PICK g : g = [n \in 0 .. 0 |-> x0]
    OBVIOUS
  <2>2. g \in [0 .. 0 -> X] /\ Iterates(x0, 0, step, g)
    BY <2>1 DEF Iterates
  <2> QED  BY <2>2
<1>3. k \in 1 .. m /\ k - 1 \in 0 .. m /\ k - 1 \notin T
  BY <1>1, <1>2
<1>4. PICK g \in [0 .. k - 1 -> X] : Iterates(x0, k - 1, step, g)
  BY <1>3
<1>5. PICK h : h = [n \in 0 .. k |-> IF n = k THEN step[k][g[k - 1]] ELSE g[n]]
  OBVIOUS
<1>6. g[k - 1] \in X /\ step[k][g[k - 1]] \in X
  BY <1>3
<1>7. h \in [0 .. k -> X]
  <2>1. \A n \in 0 .. k : n = k \/ n \in 0 .. k - 1
    BY <1>3
  <2> QED  BY <1>5, <1>6, <2>1
<1>8. Iterates(x0, k, step, h)
  <2>1. h[0] = x0
    BY <1>3, <1>4, <1>5 DEF Iterates
  <2>2. ASSUME NEW n \in 1 .. k PROVE h[n] = step[n][h[n - 1]]
    <3>1. h[n - 1] = g[n - 1]
      BY <1>3, <1>5
    <3>2. CASE n = k
      BY <1>5, <3>1, <3>2
    <3>3. CASE n # k
      <4>1. n \in 1 .. k - 1 /\ h[n] = g[n]
        BY <1>3, <1>5, <3>3
      <4> QED  BY <1>4, <3>1, <4>1 DEF Iterates
    <3> QED  BY <3>2, <3>3
  <2> QED  BY <2>1, <2>2 DEF Iterates
<1> QED  BY <1>7, <1>8

LEMMA RecentFinite ==
  ASSUME NEW s \in Seq(Nat), NEW T \in Nat
  PROVE  /\ IsFiniteSet(Recent(s, T)) /\ Cardinality(Recent(s, T)) \in Nat
         /\ Cardinality(Recent(s, T)) <= Len(s)
<1>1. Len(s) \in Nat /\ DOMAIN s = 1 .. Len(s)
  OBVIOUS
<1>2. IsFiniteSet(1 .. Len(s)) /\ Cardinality(1 .. Len(s)) = Len(s)
  <2>1. PICK n \in Nat : n = Len(s)
    BY <1>1
  <2>2. IsFiniteSet(1 .. n) /\ Cardinality(1 .. n) = IF 1 > n THEN 0 ELSE n - 1 + 1
    BY FS_Interval
  <2> QED  BY <2>1, <2>2
<1>3. Recent(s, T) \in SUBSET (1 .. Len(s))
  BY <1>1 DEF Recent
<1> QED  BY <1>2, <1>3, FS_Subset, FS_CardinalityType

LEMMA RecentAppend ==
  ASSUME NEW s \in Seq(Nat), NEW x \in Nat, NEW T \in Nat
  PROVE  Cardinality(Recent(Append(s, x), T)) =
           IF T <= x THEN Cardinality(Recent(s, T)) + 1 ELSE Cardinality(Recent(s, T))
<1>1. PICK n \in Nat : n = Len(s)
  OBVIOUS
<1>2. PICK a \in Seq(Nat) : a = Append(s, x)
  BY AppendProperties
<1>3. DOMAIN s = 1 .. n /\ DOMAIN a = 1 .. n + 1 /\ a[n + 1] = x /\ \A i \in 1 .. n : a[i] = s[i]
  BY <1>1, <1>2, AppendProperties, LenProperties
<1>4. IsFiniteSet(Recent(s, T)) /\ n + 1 \notin Recent(s, T)
  <2>1. IsFiniteSet(Recent(s, T))
    BY RecentFinite
  <2>2. n + 1 \notin DOMAIN s
    BY <1>3
  <2> QED  BY <2>1, <2>2 DEF Recent
<1>5. CASE T <= x
  <2>1. Recent(a, T) = Recent(s, T) \cup {n + 1}
    BY <1>3, <1>5 DEF Recent
  <2> QED  BY <1>2, <1>4, <1>5, <2>1, FS_AddElement
<1>6. CASE ~(T <= x)
  <2>1. Recent(a, T) = Recent(s, T)
    BY <1>3, <1>6 DEF Recent
  <2> QED  BY <1>2, <1>6, <2>1
<1> QED  BY <1>5, <1>6

\* What Retained recurses over.
RetainStep(s, t) ==
  [n \in 1 .. Len(s) |->
     [x \in Seq(Nat) |-> IF InWindow(s[n], t) THEN Append(x, s[n]) ELSE x]]

LEMMA RetainedIs ==
  ASSUME NEW s \in Seq(Nat), NEW t \in Nat
  PROVE  \E g \in [0 .. Len(s) -> Seq(Nat)] :
           /\ Retained(s, t) = g[Len(s)]
           /\ g[0] = << >>
           /\ \A n \in 1 .. Len(s) :
                g[n] = IF InWindow(s[n], t) THEN Append(g[n - 1], s[n]) ELSE g[n - 1]
<1>1. PICK m \in Nat : m = Len(s) /\ \A n \in 1 .. m : s[n] \in Nat
  BY LenProperties, ElementOfSeq
<1>2. RetainStep(s, t) \in [1 .. m -> [Seq(Nat) -> Seq(Nat)]]
  <2>1. \A n \in 1 .. m : \A x \in Seq(Nat) : Append(x, s[n]) \in Seq(Nat)
    BY <1>1, AppendProperties
  <2> QED  BY <1>1, <2>1 DEF RetainStep
<1>3. << >> \in Seq(Nat)
  BY EmptySeq
<1>4. PICK g \in [0 .. m -> Seq(Nat)] : Iterates(<< >>, m, RetainStep(s, t), g)
  BY <1>2, <1>3, IterationExists
<1>5. /\ g[0] = << >>
      /\ \A n \in 1 .. m : g[n] = IF InWindow(s[n], t) THEN Append(g[n - 1], s[n]) ELSE g[n - 1]
  <2>1. ASSUME NEW n \in 1 .. m
        PROVE  g[n] = IF InWindow(s[n], t) THEN Append(g[n - 1], s[n]) ELSE g[n - 1]
    <3>1. g[n] = RetainStep(s, t)[n][g[n - 1]] /\ g[n - 1] \in Seq(Nat)
      BY <1>4 DEF Iterates
    <3> QED  BY <1>1, <3>1 DEF RetainStep
  <2> QED  BY <1>4, <2>1 DEF Iterates
<1> DEFINE kept == CHOOSE f : f = [n \in 0 .. Len(s) |->
                      IF n = 0 THEN << >>
                      ELSE IF InWindow(s[n], t) THEN Append(f[n - 1], s[n]) ELSE f[n - 1]]
<1>6. g = [n \in 0 .. Len(s) |->
             IF n = 0 THEN << >>
             ELSE IF InWindow(s[n], t) THEN Append(g[n - 1], s[n]) ELSE g[n - 1]]
  <2>1. \A n \in 0 .. m : n = 0 \/ n \in 1 .. m
    OBVIOUS
  <2>2. \A n \in 0 .. m : g[n] = IF n = 0 THEN << >>
             ELSE IF InWindow(s[n], t) THEN Append(g[n - 1], s[n]) ELSE g[n - 1]
    BY <1>5, <2>1
  <2> QED  BY <1>1, <2>2
<1>7. kept = [n \in 0 .. Len(s) |->
                IF n = 0 THEN << >>
                ELSE IF InWindow(s[n], t) THEN Append(kept[n - 1], s[n]) ELSE kept[n - 1]]
  BY <1>6
<1>8. Retained(s, t) = kept[Len(s)]
  BY DEF Retained
<1> HIDE DEF kept
<1>9. ASSUME NEW i \in 0 .. m PROVE kept[i] = g[i]
  <2> DEFINE T == {n \in 0 .. m : kept[n] # g[n]}
  <2> SUFFICES ASSUME T # {} PROVE FALSE
    OBVIOUS
  <2>1. PICK k \in T : \A j \in T : k <= j
    <3>1. T \subseteq Nat
      OBVIOUS
    <3> QED  BY <3>1, LeastNat
  <2>2. kept[0] = << >>
    BY <1>1, <1>7
  <2>3. k # 0
    BY <1>5, <2>2
  <2>4. k \in 1 .. m /\ k - 1 \in 0 .. m /\ k - 1 \notin T
    BY <2>1, <2>3
  <2>5. kept[k] = IF InWindow(s[k], t) THEN Append(kept[k - 1], s[k]) ELSE kept[k - 1]
    <3>1. k \in 0 .. Len(s) /\ k # 0
      BY <1>1, <2>3
    <3> QED  BY <1>7, <3>1
  <2> QED  BY <1>5, <2>4, <2>5
<1> QED  BY <1>1, <1>5, <1>8, <1>9

\* Pruning at t keeps every failure of a window that has not passed at t.
LEMMA RetainedKeeps ==
  ASSUME NEW s \in Seq(Nat), NEW t \in Nat, NEW T \in Nat, t < T + Window
  PROVE  /\ Retained(s, t) \in Seq(Nat) /\ Len(Retained(s, t)) <= Len(s)
         /\ Cardinality(Recent(Retained(s, t), T)) = Cardinality(Recent(s, T))
<1>1. PICK m \in Nat : m = Len(s) /\ DOMAIN s = 1 .. m /\ \A n \in 1 .. m : s[n] \in Nat
  BY LenProperties, ElementOfSeq
<1>2. PICK g \in [0 .. m -> Seq(Nat)] :
        /\ Retained(s, t) = g[m] /\ g[0] = << >>
        /\ \A n \in 1 .. m : g[n] = IF InWindow(s[n], t) THEN Append(g[n - 1], s[n]) ELSE g[n - 1]
  BY <1>1, RetainedIs
<1> DEFINE upTo(n) == {i \in 1 .. n : T <= s[i]}
           good(n) == Len(g[n]) <= n /\ Cardinality(Recent(g[n], T)) = Cardinality(upTo(n))
           bad == {n \in 0 .. m : ~good(n)}
<1>3. bad = {}
  <2> SUFFICES ASSUME bad # {} PROVE FALSE
    OBVIOUS
  <2>1. PICK k \in bad : \A j \in bad : k <= j
    <3>1. bad \subseteq Nat
      OBVIOUS
    <3> QED  BY <3>1, LeastNat
  <2>2. good(0)
    <3>1. upTo(0) = {} /\ Recent(<< >>, T) = {} /\ Len(<< >>) <= 0
      BY DEF Recent
    <3>2. g[0] = << >>
      BY <1>2
    <3> QED  BY <3>1, <3>2
  <2>3. k \in 1 .. m /\ k - 1 \in 0 .. m /\ good(k - 1)
    <3>1. k # 0 /\ k \in 0 .. m
      BY <2>1, <2>2
    <3>2. k \in 1 .. m /\ k - 1 \in 0 .. m /\ k - 1 \notin bad
      <4>1. k \in 1 .. m /\ k - 1 \in 0 .. m /\ ~(k <= k - 1)
        BY <3>1
      <4> QED  BY <2>1, <4>1
    <3> QED  BY <3>2
  <2>4. IsFiniteSet(upTo(k - 1)) /\ k \notin upTo(k - 1) /\ Cardinality(upTo(k - 1)) \in Nat
    <3>1. IsFiniteSet(1 .. k - 1) /\ upTo(k - 1) \in SUBSET (1 .. k - 1)
      BY <2>3, FS_Interval
    <3> QED  BY <2>3, <3>1, FS_Subset, FS_CardinalityType
  <2>5. Cardinality(upTo(k)) = IF T <= s[k] THEN Cardinality(upTo(k - 1)) + 1
                               ELSE Cardinality(upTo(k - 1))
    <3>1. upTo(k) = IF T <= s[k] THEN upTo(k - 1) \cup {k} ELSE upTo(k - 1)
      BY <2>3
    <3> QED  BY <2>4, <3>1, FS_AddElement
  <2>6. g[k - 1] \in Seq(Nat) /\ s[k] \in Nat
    BY <1>1, <2>3
  <2>7. CASE InWindow(s[k], t)
    <3>0. g[k] = Append(g[k - 1], s[k])
      BY <1>2, <2>3, <2>7
    <3>1. g[k] = Append(g[k - 1], s[k]) /\ Len(g[k]) = Len(g[k - 1]) + 1
      BY <2>6, <3>0, AppendProperties
    <3>2. Cardinality(Recent(g[k], T)) =
            IF T <= s[k] THEN Cardinality(Recent(g[k - 1], T)) + 1 ELSE Cardinality(Recent(g[k - 1], T))
      <4>1. PICK x \in Seq(Nat), y \in Nat : x = g[k - 1] /\ y = s[k]
        BY <2>6
      <4>2. Cardinality(Recent(Append(x, y), T)) =
              IF T <= y THEN Cardinality(Recent(x, T)) + 1 ELSE Cardinality(Recent(x, T))
        BY RecentAppend
      <4> QED  BY <3>0, <4>1, <4>2
    <3>3. Len(g[k - 1]) \in Nat
      BY <2>6, LenProperties
    <3>4. Len(g[k]) <= k
      BY <2>3, <3>1, <3>3
    <3>5. good(k)
      BY <2>3, <2>5, <3>2, <3>4
    <3> QED  BY <2>1, <3>5
  <2>8. CASE ~InWindow(s[k], t)
    <3>0. ~(T <= s[k])
      BY <2>6, <2>8, ThrottleAssumption DEF InWindow
    <3>1. g[k] = g[k - 1] /\ ~(T <= s[k])
      BY <1>2, <2>3, <2>8, <3>0
    <3>2. Len(g[k - 1]) \in Nat
      BY <2>6, LenProperties
    <3>3. good(k)
      BY <2>3, <2>5, <3>1, <3>2
    <3> QED  BY <2>1, <3>3
  <2> QED  BY <2>7, <2>8
<1>4. good(m)
  <2>1. m \in 0 .. m
    OBVIOUS
  <2> QED  BY <1>3, <2>1
<1>5. upTo(m) = Recent(s, T)
  BY <1>1 DEF Recent
<1>6. g[m] \in Seq(Nat)
  OBVIOUS
<1> QED  BY <1>1, <1>2, <1>4, <1>5, <1>6

LEMMA InTimeFinite ==
  ASSUME NEW s \in Seq(Nat), NEW T \in Nat
  PROVE  IsFiniteSet(InTime(s, T)) /\ Cardinality(InTime(s, T)) \in Nat
<1>1. InTime(s, T) \in SUBSET Recent(s, T)
  BY DEF InTime, Recent
<1> QED  BY <1>1, RecentFinite, FS_Subset, FS_CardinalityType

LEMMA InTimeAppend ==
  ASSUME NEW s \in Seq(Nat), NEW x \in Nat, NEW T \in Nat
  PROVE  Cardinality(InTime(Append(s, x), T)) =
           IF T <= x /\ x < T + Window THEN Cardinality(InTime(s, T)) + 1
           ELSE Cardinality(InTime(s, T))
<1>1. PICK n \in Nat : n = Len(s)
  OBVIOUS
<1>2. PICK a \in Seq(Nat) : a = Append(s, x)
  BY AppendProperties
<1>3. DOMAIN s = 1 .. n /\ DOMAIN a = 1 .. n + 1 /\ a[n + 1] = x /\ \A i \in 1 .. n : a[i] = s[i]
  BY <1>1, <1>2, AppendProperties, LenProperties
<1>4. IsFiniteSet(InTime(s, T)) /\ n + 1 \notin InTime(s, T)
  <2>1. IsFiniteSet(InTime(s, T))
    BY InTimeFinite
  <2>2. n + 1 \notin DOMAIN s
    BY <1>3
  <2> QED  BY <2>1, <2>2 DEF InTime
<1>5. CASE T <= x /\ x < T + Window
  <2>1. InTime(a, T) = InTime(s, T) \cup {n + 1}
    BY <1>3, <1>5 DEF InTime
  <2> QED  BY <1>2, <1>4, <1>5, <2>1, FS_AddElement
<1>6. CASE ~(T <= x /\ x < T + Window)
  <2>1. InTime(a, T) = InTime(s, T)
    BY <1>3, <1>6 DEF InTime
  <2> QED  BY <1>2, <1>6, <2>1
<1> QED  BY <1>5, <1>6

LEMMA NothingInTime ==
  ASSUME NEW T \in Nat
  PROVE  InTime(<< >>, T) = {} /\ Recent(<< >>, T) = {} /\ Cardinality({}) = 0
<1>1. DOMAIN << >> = {}
  OBVIOUS
<1> QED  BY <1>1, FS_EmptySet DEF InTime, Recent

\* record_failure on one entry, for a window that has not passed: its failures
\* are all kept, and when the new one is in it, either it is counted too or the
\* block reaches past the window's end.
LEMMA EntryCounts ==
  ASSUME NEW state, DOMAIN state = {"failures", "blocked_until"}, state.blocked_until \in Nat,
         state.failures \in Seq(Nat), Len(state.failures) <= MaxFailures + 1, NEW t \in Nat,
         NEW e, e = FailureRecorded(state, t)
  PROVE  /\ e.failures \in Seq(Nat) /\ Len(e.failures) <= MaxFailures + 1
         /\ \A T \in Nat : T <= t /\ t < T + Window =>
              \/ T + Window <= e.blocked_until
              \/ /\ Cardinality(Recent(e.failures, T)) = Cardinality(Recent(state.failures, T)) + 1
                 /\ Cardinality(Recent(e.failures, T)) < MaxFailures
         /\ \A T \in Nat : t < T =>
              Cardinality(Recent(e.failures, T)) = Cardinality(Recent(state.failures, T))
<1>1. PICK old \in Seq(Nat) : old = state.failures
  OBVIOUS
<1>2. PICK pruned : pruned = Retained(old, t)
  OBVIOUS
<1>3. PruneWindow(state, t).failures = pruned /\ PruneWindow(state, t).blocked_until = state.blocked_until
  BY <1>1, <1>2 DEF PruneWindow
<1>4. MaxFailures \in Nat /\ Window \in Nat /\ Block \in Nat /\ Window <= Block /\ t < t + Window
  BY ThrottleAssumption
<1>5. pruned \in Seq(Nat) /\ Len(pruned) <= Len(old) /\ Len(pruned) \in Nat /\ Len(old) \in Nat
  BY <1>2, <1>4, RetainedKeeps, LenProperties
<1>6. \A T \in Nat : t < T + Window => Cardinality(Recent(pruned, T)) = Cardinality(Recent(old, T))
  BY <1>2, RetainedKeeps
<1>7. PICK now2 : now2 = IF Len(pruned) < MaxFailures + 1 THEN Append(pruned, t) ELSE pruned
  OBVIOUS
<1>8. e.failures = now2
  BY <1>3, <1>7 DEF FailureRecorded
<1>9. Len(now2) >= MaxFailures => e.blocked_until >= t + Block
  <2>1. e.blocked_until = IF Len(now2) >= MaxFailures /\ state.blocked_until <= t + Block
                            THEN t + Block ELSE state.blocked_until
    BY <1>3, <1>7 DEF FailureRecorded
  <2> QED  BY <1>4, <2>1
<1>10. now2 \in Seq(Nat) /\ Len(now2) <= MaxFailures + 1
  <2>1. Append(pruned, t) \in Seq(Nat) /\ Len(Append(pruned, t)) = Len(pruned) + 1
    BY <1>5, AppendProperties
  <2> QED  BY <1>1, <1>4, <1>5, <1>7, <2>1
<1>11. ASSUME NEW T \in Nat, T <= t, t < T + Window
       PROVE  \/ T + Window <= e.blocked_until
              \/ /\ Cardinality(Recent(now2, T)) = Cardinality(Recent(old, T)) + 1
                 /\ Cardinality(Recent(now2, T)) < MaxFailures
  <2>1. CASE Len(now2) >= MaxFailures
    <3>1. e.blocked_until \in Nat
      BY EntryRecorded
    <3> QED  BY <1>4, <1>9, <1>11, <2>1, <3>1
  <2>2. CASE ~(Len(now2) >= MaxFailures)
    <3>1. Len(pruned) < MaxFailures + 1
      BY <1>4, <1>5, <1>7, <2>2
    <3>2. now2 = Append(pruned, t)
      BY <1>7, <3>1
    <3>3. Cardinality(Recent(old, T)) = Cardinality(Recent(pruned, T))
      BY <1>6, <1>11
    <3>4. Cardinality(Recent(now2, T)) = Cardinality(Recent(pruned, T)) + 1
      BY <1>5, <1>11, <3>2, RecentAppend
    <3>5. Cardinality(Recent(now2, T)) \in Nat /\ Cardinality(Recent(now2, T)) <= Len(now2)
      BY <1>10, RecentFinite
    <3>6. Len(now2) \in Nat
      BY <1>10, LenProperties
    <3> QED  BY <1>4, <2>2, <3>3, <3>4, <3>5, <3>6
  <2> QED  BY <2>1, <2>2
<1>12. ASSUME NEW T \in Nat, t < T
       PROVE  Cardinality(Recent(now2, T)) = Cardinality(Recent(old, T))
  <2>1. Cardinality(Recent(pruned, T)) = Cardinality(Recent(old, T))
    BY <1>4, <1>6, <1>12
  <2>2. Cardinality(Recent(Append(pruned, t), T)) = Cardinality(Recent(pruned, T))
    BY <1>5, <1>12, RecentAppend
  <2> QED  BY <1>7, <2>1, <2>2
<1> QED  BY <1>1, <1>8, <1>10, <1>11, <1>12

\* record_failure on the table: at most one entry more and never above the cap;
\* the key's entry was there, or is new because it was idle or not tracked.
LEMMA TableCounts ==
  ASSUME NEW table, TableOK(table), Tracked(table), NEW u \in Users, NEW t \in Nat,
         NEW after, after = RecordFailure(table, u, t)
  PROVE  /\ Tracked(after)
         /\ \A k \in DOMAIN after : k # u => k \in DOMAIN table /\ after[k] = table[k]
         /\ u \in DOMAIN after =>
              \/ u \in DOMAIN table /\ after[u] = FailureRecorded(table[u], t)
              \/ /\ after[u] = FailureRecorded(AttemptStateNew, t)
                 /\ u \in DOMAIN table => IsIdle(table[u], t)
<1> DEFINE swept == IF Cardinality(DOMAIN table) >= MaxTrackedKeys
                      THEN DropIdle(table, t) ELSE table
           state == IF u \in DOMAIN swept THEN swept[u] ELSE AttemptStateNew
           full  == u \notin DOMAIN swept /\ Cardinality(DOMAIN swept) >= MaxTrackedKeys
           grown == [k \in DOMAIN swept \cup {u} |->
                       IF k = u THEN FailureRecorded(state, t) ELSE swept[k]]
<1>1. /\ DOMAIN swept \subseteq DOMAIN table
      /\ \A k \in DOMAIN swept : swept[k] = table[k]
      /\ \A k \in DOMAIN table : k \notin DOMAIN swept => IsIdle(table[k], t)
  BY DEF DropIdle, Restrict
<1>2. after = IF full THEN swept ELSE grown
  BY DEF RecordFailure
<1>3. state = IF u \in DOMAIN swept THEN table[u] ELSE AttemptStateNew
  BY <1>1
<1>4. full <=> u \notin DOMAIN swept /\ Cardinality(DOMAIN swept) >= MaxTrackedKeys
  OBVIOUS
<1> HIDE DEF swept, state, full
<1>5. MaxTrackedKeys \in Nat /\ MaxFailures \in Nat
  BY ThrottleAssumption
<1>6. /\ IsFiniteSet(DOMAIN swept) /\ Cardinality(DOMAIN swept) \in Nat
      /\ Cardinality(DOMAIN swept) <= MaxTrackedKeys
  <2>1. IsFiniteSet(DOMAIN table) /\ Cardinality(DOMAIN table) <= MaxTrackedKeys
    BY DEF Tracked
  <2>2. /\ IsFiniteSet(DOMAIN swept) /\ Cardinality(DOMAIN swept) <= Cardinality(DOMAIN table)
        /\ Cardinality(DOMAIN swept) \in Nat /\ Cardinality(DOMAIN table) \in Nat
    BY <1>1, <2>1, FS_Subset, FS_CardinalityType
  <2> QED  BY <1>5, <2>1, <2>2
<1>7. Tracked(swept)
  BY <1>1, <1>6 DEF Tracked
<1>8. /\ DOMAIN state = {"failures", "blocked_until"} /\ state.blocked_until \in Nat
      /\ state.failures \in Seq(Nat) /\ Len(state.failures) <= MaxFailures + 1
  <2>1. CASE u \in DOMAIN swept
    BY <1>1, <1>3, <2>1 DEF TableOK, Tracked
  <2>2. CASE u \notin DOMAIN swept
    <3>1. state = AttemptStateNew /\ << >> \in Seq(Nat) /\ Len(<< >>) <= MaxFailures + 1
      BY <1>3, <1>5, <2>2
    <3> QED  BY <3>1 DEF AttemptStateNew
  <2> QED  BY <2>1, <2>2
<1>9. ~full => Tracked(grown)
  <2> SUFFICES ASSUME ~full PROVE Tracked(grown)
    OBVIOUS
  <2>1. DOMAIN grown = DOMAIN swept \cup {u}
    OBVIOUS
  <2>2. IsFiniteSet(DOMAIN grown) /\ Cardinality(DOMAIN grown) <= MaxTrackedKeys
    <3>1. /\ IsFiniteSet(DOMAIN swept \cup {u})
          /\ Cardinality(DOMAIN swept \cup {u}) =
               IF u \in DOMAIN swept THEN Cardinality(DOMAIN swept) ELSE Cardinality(DOMAIN swept) + 1
      BY <1>6, FS_AddElement
    <3> QED  BY <1>4, <1>5, <1>6, <2>1, <3>1
  <2>3. ASSUME NEW k \in DOMAIN grown
        PROVE  grown[k].failures \in Seq(Nat) /\ Len(grown[k].failures) <= MaxFailures + 1
    <3>1. CASE k = u
      <4>1. grown[k] = FailureRecorded(state, t)
        BY <3>1
      <4> QED  BY <1>8, <4>1, EntryCounts
    <3>2. CASE k # u
      <4>1. k \in DOMAIN swept /\ grown[k] = swept[k]
        BY <3>2
      <4> QED  BY <1>7, <4>1 DEF Tracked
    <3> QED  BY <3>1, <3>2
  <2> QED  BY <2>2, <2>3 DEF Tracked
<1> QED  BY <1>1, <1>2, <1>3, <1>4, <1>7, <1>9

-----------------------------------------------------------------------------
(* Steps and the count *)

\* Every attempt still in the password check was in it before.
NoNewTry ==
  \A r \in Reqs : req'[r].pc \in {"l_verify", "l_fail"} =>
    /\ req[r].pc \in {"l_verify", "l_fail"}
    /\ req'[r].user = req[r].user /\ req'[r].at = req[r].at

LEMMA TryingFinite ==
  ASSUME NEW u, NEW T
  PROVE  /\ IsFiniteSet(Trying(u, T)) /\ Cardinality(Trying(u, T)) \in Nat
         /\ Cardinality(Trying(u, T)) <= Cardinality(Reqs) /\ Cardinality(Reqs) \in Nat
<1>1. Trying(u, T) \in SUBSET Reqs /\ IsFiniteSet(Reqs)
  BY AuthAssumption DEF Trying
<1> QED  BY <1>1, FS_Subset, FS_CardinalityType

LEMMA TryingFiniteNext ==
  ASSUME NEW u, NEW T
  PROVE  /\ IsFiniteSet(Trying(u, T)') /\ Cardinality(Trying(u, T)') \in Nat
         /\ Cardinality(Trying(u, T)') <= Cardinality(Reqs) /\ Cardinality(Reqs) \in Nat
<1>1. Trying(u, T)' \in SUBSET Reqs /\ IsFiniteSet(Reqs)
  BY AuthAssumption DEF Trying
<1> QED  BY <1>1, FS_Subset, FS_CardinalityType

\* Fewer hits and no new attempt leave room; so do no hits at all.
LEMMA RoomKept ==
  ASSUME GuessInv, NEW u \in Users, NEW T \in Nat,
         \/ guesses'[u] = << >>
         \/ guesses'[u] = guesses[u] /\ Trying(u, T)' \subseteq Trying(u, T)
  PROVE  Room(u, T)'
<1>1. MaxFailures \in Nat /\ MaxFailures > 0
  BY ThrottleAssumption
<1>2. CASE guesses'[u] = << >>
  <2>1. Cardinality(Hits(u, T)') = 0
    BY <1>2, NothingInTime DEF Hits
  <2> QED  BY <1>1, <2>1, TryingFiniteNext DEF Room
<1>3. CASE guesses'[u] = guesses[u] /\ Trying(u, T)' \subseteq Trying(u, T)
  <2>1. guesses[u] \in Seq(Nat) /\ Room(u, T)
    BY DEF GuessInv
  <2>2. Hits(u, T)' = Hits(u, T) /\ Cardinality(Hits(u, T)) \in Nat
    BY <1>3, <2>1, InTimeFinite DEF Hits
  <2>3. Cardinality(Trying(u, T)') <= Cardinality(Trying(u, T))
    BY <1>3, TryingFinite, FS_Subset
  <2> QED  BY <1>1, <2>1, <2>2, <2>3, TryingFinite, TryingFiniteNext DEF Room
<1> QED  BY <1>2, <1>3

LEMMA TryingShrinks ==
  ASSUME NoNewTry, NEW u, NEW T
  PROVE  Trying(u, T)' \subseteq Trying(u, T)
  BY DEF NoNewTry, Trying

LEMMA CountedKept ==
  ASSUME IInv, GuessInv, NEW u \in DOMAIN throttle, NEW T \in Nat, now' \in Nat, now <= now',
         throttle'[u] = throttle[u], guesses'[u] = guesses[u]
  PROVE  Counted(u, T)'
<1>1. Counted(u, T)
  BY DEF GuessInv
<1>2. Hits(u, T)' = Hits(u, T) /\ Recent(throttle[u].failures, T)' = Recent(throttle[u].failures, T)
  BY DEF Hits, Recent
<1>3. now \in Nat /\ Window \in Nat
  BY AuthAssumption, ThrottleAssumption DEF IInv, Core, RowsOK, Times
<1> QED  BY <1>1, <1>2, <1>3 DEF Counted

\* Steps that have nothing to do with the throttle.
LEMMA CountQuiet ==
  ASSUME IInv, GuessInv, UNCHANGED << throttle, guesses >>, now' \in Nat, now <= now', NoNewTry
  PROVE  GuessInv'
<1>1. DOMAIN throttle \subseteq Users
  BY DEF IInv, Core, RowsOK
<1>2. \A u \in DOMAIN throttle, T \in Nat : Counted(u, T)'
  BY CountedKept
<1>3. \A u \in Users, T \in Nat : Room(u, T)'
  BY RoomKept, TryingShrinks
<1> QED  BY <1>1, <1>2, <1>3 DEF GuessInv

\* An identifier whose attempt is let through has room in its window.
LEMMA LoginStartCounts ==
  ASSUME IInv, GuessInv, NEW r \in Reqs, NEW u \in Users, NEW pw \in Passwords,
         LoginStart(r, u, pw)
  PROVE  GuessInv'
<1>0. /\ UNCHANGED << throttle, guesses, now >> /\ now \in Nat /\ req \in [Reqs -> Request]
      /\ DOMAIN throttle \subseteq Users
      /\ \A k \in DOMAIN throttle : throttle[k].blocked_until \in Nat
  BY AuthAssumption DEF LoginStart, history, IInv, Core, RowsOK, Times
<1>c. MaxFailures \in Nat /\ MaxFailures > 0 /\ Window \in Nat
  BY ThrottleAssumption
<1>1. CASE Throttled(throttle, u, now)
  <2>1. UNCHANGED req
    BY <1>1 DEF LoginStart
  <2>2. NoNewTry
    BY <2>1 DEF NoNewTry
  <2> QED  BY <1>0, <2>2, CountQuiet
<1>2. CASE ~Throttled(throttle, u, now)
  <2>1. PICK q2 : /\ q2 = [Idle EXCEPT !.pc = "l_verify", !.route = "login", !.user = u,
                                       !.pw = pw, !.at = now]
                  /\ req' = [req EXCEPT ![r] = q2]
    BY <1>2 DEF LoginStart, Open
  <2>2. q2.user = u /\ q2.at = now
    BY <2>1 DEF Idle
  <2>3. req'[r] = q2 /\ \A q \in Reqs \ {r} : req'[q] = req[q]
    BY <1>0, <2>1
  <2>4. ASSUME NEW k \in Users, NEW T \in Nat PROVE Room(k, T)'
    <3>1. CASE k = u /\ T <= now /\ now < T + Window
      <4>1. Cardinality(Hits(u, T)) < MaxFailures /\ Cardinality(Hits(u, T)) \in Nat
        <5>1. CASE u \in DOMAIN throttle
          <6>1. Counted(u, T) /\ ~IsBlocked(throttle[u], now)
            BY <1>2, <5>1 DEF GuessInv, Throttled
          <6>2. ~(T + Window <= throttle[u].blocked_until)
            BY <1>0, <1>c, <3>1, <5>1, <6>1 DEF IsBlocked
          <6>3. Cardinality(Hits(u, T)) \in Nat
            BY InTimeFinite DEF GuessInv, Hits
          <6> QED  BY <3>1, <6>1, <6>2, <6>3 DEF Counted
        <5>2. CASE u \notin DOMAIN throttle
          <6>1. guesses[u] = << >>
            BY <5>2 DEF GuessInv
          <6>2. Cardinality(Hits(u, T)) = 0
            BY <6>1, NothingInTime DEF Hits
          <6> QED  BY <1>c, <6>2
        <5> QED  BY <5>1, <5>2
      <4>2. Hits(k, T)' = Hits(u, T)
        BY <1>0, <3>1 DEF Hits
      <4> QED  BY <1>c, <4>1, <4>2, TryingFiniteNext DEF Room
    <3>2. CASE ~(k = u /\ T <= now /\ now < T + Window)
      <4>1. Trying(k, T)' \subseteq Trying(k, T)
        BY <2>2, <2>3, <3>2 DEF Trying
      <4> QED  BY <1>0, <4>1, RoomKept
    <3> QED  BY <3>1, <3>2
  <2>5. \A k \in DOMAIN throttle, T \in Nat : Counted(k, T)'
    BY <1>0, CountedKept
  <2> QED  BY <1>0, <2>4, <2>5 DEF GuessInv
<1> QED  BY <1>1, <1>2

\* A successful login forgets the identifier's failures, a restart all of them.
LEMMA LoginClearCounts ==
  ASSUME IInv, GuessInv, NEW r \in Reqs, LoginClear(r)
  PROVE  GuessInv'
<1>0. /\ now' = now /\ now \in Nat /\ req \in [Reqs -> Request]
      /\ DOMAIN throttle \subseteq Users /\ req[r].user \in Users
  BY AuthAssumption DEF LoginClear, At, IInv, Core, Known, RowsOK, Times
<1>1. PICK u \in Users : u = req[r].user
  BY <1>0
<1>2. /\ guesses' = [guesses EXCEPT ![u] = << >>] /\ throttle' = RecordSuccess(throttle, u)
      /\ guesses \in [Users -> Seq(Nat)]
  BY <1>1 DEF LoginClear, GuessInv
<1>3. /\ DOMAIN throttle' = DOMAIN throttle \ {u}
      /\ \A k \in DOMAIN throttle' : throttle'[k] = throttle[k]
  BY <1>2 DEF RecordSuccess, Restrict
<1>4. Tracked(throttle')
  <2>1. Tracked(throttle) /\ MaxTrackedKeys \in Nat
    BY ThrottleAssumption DEF GuessInv
  <2>2. /\ IsFiniteSet(DOMAIN throttle') /\ Cardinality(DOMAIN throttle') <= Cardinality(DOMAIN throttle)
        /\ Cardinality(DOMAIN throttle') \in Nat /\ Cardinality(DOMAIN throttle) \in Nat
    BY <1>3, <2>1, FS_Subset, FS_CardinalityType DEF Tracked
  <2> QED  BY <1>3, <2>1, <2>2 DEF Tracked
<1>5. guesses' \in [Users -> Seq(Nat)] /\ guesses'[u] = << >> /\ \A k \in Users \ {u} : guesses'[k] = guesses[k]
  BY <1>2
<1>6. \A k \in Users \ DOMAIN throttle' : guesses'[k] = << >>
  BY <1>3, <1>5 DEF GuessInv
<1>7. ASSUME NEW k \in DOMAIN throttle', NEW T \in Nat PROVE Counted(k, T)'
  <2>1. k \in DOMAIN throttle /\ throttle'[k] = throttle[k] /\ guesses'[k] = guesses[k]
    BY <1>0, <1>3, <1>5
  <2>2. now' \in Nat /\ now <= now'
    BY <1>0
  <2> QED  BY <2>1, <2>2, CountedKept
<1>8. NoNewTry
  BY <1>0 DEF LoginClear, Go, NoNewTry, Request
<1>9. ASSUME NEW k \in Users, NEW T \in Nat PROVE Room(k, T)'
  BY <1>5, <1>8, RoomKept, TryingShrinks
<1> QED  BY <1>4, <1>5, <1>6, <1>7, <1>9 DEF GuessInv

LEMMA EmptyCounts ==
  ASSUME throttle = << >>, guesses = [u \in Users |-> << >>]
  PROVE  GuessInv
<1>1. DOMAIN throttle = {} /\ Cardinality({}) = 0 /\ IsFiniteSet({}) /\ MaxTrackedKeys \in Nat
  BY FS_EmptySet, ThrottleAssumption
<1>2. Tracked(throttle)
  BY <1>1 DEF Tracked
<1>3. << >> \in Seq(Nat)
  OBVIOUS
<1>4. ASSUME NEW u \in Users, NEW T \in Nat PROVE Room(u, T)
  <2>1. Cardinality(Hits(u, T)) = 0
    BY NothingInTime DEF Hits
  <2> QED  BY <2>1, TryingFinite, ThrottleAssumption DEF Room
<1> QED  BY <1>1, <1>2, <1>3, <1>4 DEF GuessInv

LEMMA RestartCounts ==
  ASSUME throttle' = << >>, guesses' = [u \in Users |-> << >>]
  PROVE  GuessInv'
<1>1. DOMAIN throttle' = {} /\ Cardinality({}) = 0 /\ IsFiniteSet({}) /\ MaxTrackedKeys \in Nat
  BY FS_EmptySet, ThrottleAssumption
<1>2. Tracked(throttle')
  BY <1>1 DEF Tracked
<1>3. << >> \in Seq(Nat)
  OBVIOUS
<1>4. ASSUME NEW u \in Users, NEW T \in Nat PROVE Room(u, T)'
  <2>1. Cardinality(Hits(u, T)') = 0
    BY NothingInTime DEF Hits
  <2> QED  BY <2>1, TryingFiniteNext, ThrottleAssumption DEF Room
<1> QED  BY <1>1, <1>2, <1>3, <1>4 DEF GuessInv

\* A failure recorded late counts in the window of its start: one that has
\* passed had room for it, for one that has not the entry knows.
LEMMA LoginFailCounts ==
  ASSUME IInv, GuessInv, NEW r \in Reqs, LoginFail(r)
  PROVE  GuessInv'
<1>0. /\ now' = now /\ now \in Nat /\ req \in [Reqs -> Request] /\ At(r, "l_fail")
      /\ DOMAIN throttle \subseteq Users /\ req[r].user \in Users
      /\ req[r].at \in Nat /\ req[r].at <= now
  BY AuthAssumption DEF LoginFail, At, IInv, Core, Known, RowsOK, Times, Request
<1>c. MaxFailures \in Nat /\ MaxFailures > 0 /\ Window \in Nat
  BY ThrottleAssumption
<1>1. PICK u \in Users, t \in Nat : u = req[r].user /\ t = req[r].at
  BY <1>0
<1>2. PICK table : table = RecordFailure(throttle, u, t)
  OBVIOUS
<1>3. /\ throttle' = table /\ guesses \in [Users -> Seq(Nat)]
      /\ guesses' = [k \in Users |-> IF k \notin DOMAIN table THEN << >>
                                     ELSE IF k = u THEN Append(guesses[k], t) ELSE guesses[k]]
      /\ req' = [req EXCEPT ![r] = Idle]
  BY <1>1, <1>2 DEF LoginFail, GuessInv, Done
<1>4. TableOK(throttle) /\ Tracked(throttle)
  BY DEF IInv, Core, RowsOK, TableOK, GuessInv
<1>5. /\ Tracked(table)
      /\ \A k \in DOMAIN table : k # u => k \in DOMAIN throttle /\ table[k] = throttle[k]
      /\ u \in DOMAIN table =>
           \/ u \in DOMAIN throttle /\ table[u] = FailureRecorded(throttle[u], t)
           \/ /\ table[u] = FailureRecorded(AttemptStateNew, t)
              /\ u \in DOMAIN throttle => IsIdle(throttle[u], t)
  BY <1>2, <1>4, TableCounts
<1>6. DOMAIN table \subseteq Users
  BY <1>0, <1>5
<1>7. guesses' \in [Users -> Seq(Nat)]
  <2>1. << >> \in Seq(Nat) /\ \A s \in Seq(Nat) : Append(s, t) \in Seq(Nat)
    BY AppendProperties
  <2> QED  BY <1>3, <2>1
<1>8. \A k \in Users \ DOMAIN table : guesses'[k] = << >>
  BY <1>3
<1>9. ASSUME NEW T \in Nat, u \in DOMAIN table PROVE Counted(u, T)'
  <2>0. /\ guesses'[u] = Append(guesses[u], t) /\ guesses[u] \in Seq(Nat) /\ throttle'[u] = table[u]
    BY <1>3, <1>9
  <2>1. Cardinality(Hits(u, T)') = IF T <= t /\ t < T + Window THEN Cardinality(Hits(u, T)) + 1
                                   ELSE Cardinality(Hits(u, T))
    BY <2>0, InTimeAppend DEF Hits
  <2>2. Cardinality(Hits(u, T)) \in Nat
    BY <2>0, InTimeFinite DEF Hits
  <2> SUFFICES ASSUME now < T + Window, ~(T + Window <= table[u].blocked_until)
               PROVE  /\ Cardinality(Hits(u, T)') < MaxFailures
                      /\ Cardinality(Hits(u, T)') <= Cardinality(Recent(table[u].failures, T))
    BY <1>0, <2>0 DEF Counted, Recent
  <2>3. t < T + Window
    BY <1>0, <1>1, <1>c
  <2>4. PICK state : /\ table[u] = FailureRecorded(state, t)
                     /\ DOMAIN state = {"failures", "blocked_until"} /\ state.blocked_until \in Nat
                     /\ state.failures \in Seq(Nat) /\ Len(state.failures) <= MaxFailures + 1
                     /\ state.blocked_until <= table[u].blocked_until \/ ~(T + Window <= state.blocked_until)
                     /\ \/ T + Window <= state.blocked_until
                        \/ /\ Cardinality(Hits(u, T)) < MaxFailures
                           /\ Cardinality(Hits(u, T)) <= Cardinality(Recent(state.failures, T))
    <3>1. CASE u \in DOMAIN throttle /\ table[u] = FailureRecorded(throttle[u], t)
      <4>1. /\ DOMAIN throttle[u] = {"failures", "blocked_until"} /\ throttle[u].blocked_until \in Nat
            /\ throttle[u].failures \in Seq(Nat) /\ Len(throttle[u].failures) <= MaxFailures + 1
        BY <1>4, <3>1 DEF TableOK, Tracked
      <4>2. Counted(u, T)
        BY <3>1 DEF GuessInv
      <4>3. throttle[u].blocked_until <= table[u].blocked_until \/ ~(T + Window <= throttle[u].blocked_until)
        BY <1>c, <2>3, <3>1, <4>1, EntryRecorded
      <4> QED  BY <3>1, <4>1, <4>2, <4>3 DEF Counted
    <3>2. CASE table[u] = FailureRecorded(AttemptStateNew, t) /\ (u \in DOMAIN throttle => IsIdle(throttle[u], t))
      <4>0. Cardinality(Recent(<< >>, T)) = 0
        BY NothingInTime
      <4>1. Cardinality(Hits(u, T)) = 0
        <5>1. CASE u \in DOMAIN throttle
          <6>1. /\ throttle[u].blocked_until \in Nat /\ throttle[u].failures \in Seq(Nat)
            BY <1>4, <5>1 DEF TableOK, Tracked
          <6>2. Recent(throttle[u].failures, T) = {}
            <7>1. \A i \in DOMAIN throttle[u].failures :
                    throttle[u].failures[i] \in Nat /\ ~InWindow(throttle[u].failures[i], t)
              BY <3>2, <5>1, <6>1, ElementOfSeq, LenProperties DEF IsIdle
            <7>2. \A i \in DOMAIN throttle[u].failures : ~(T <= throttle[u].failures[i])
              BY <1>c, <2>3, <7>1 DEF InWindow
            <7> QED  BY <7>2 DEF Recent
          <6>3. ~(T + Window <= throttle[u].blocked_until)
            BY <1>c, <2>3, <3>2, <5>1, <6>1 DEF IsIdle, IsBlocked
          <6>4. Counted(u, T)
            BY <5>1 DEF GuessInv
          <6>5. Cardinality(Hits(u, T)) <= Cardinality(Recent(throttle[u].failures, T))
            BY <6>3, <6>4 DEF Counted
          <6> QED  BY <2>2, <6>2, <6>5, NothingInTime
        <5>2. CASE u \notin DOMAIN throttle
          <6>1. guesses[u] = << >>
            BY <5>2 DEF GuessInv
          <6> QED  BY <6>1, NothingInTime DEF Hits
        <5> QED  BY <5>1, <5>2
      <4>2. PICK none \in Seq(Nat) : none = << >>
        BY EmptySeq
      <4>3. /\ AttemptStateNew.failures = none /\ AttemptStateNew.blocked_until = 0
            /\ DOMAIN AttemptStateNew = {"failures", "blocked_until"}
        BY <4>2 DEF AttemptStateNew
      <4>4. ~(T + Window <= 0) /\ Cardinality(Recent(none, T)) = 0
        BY <4>0, <4>2, ThrottleAssumption
      <4>5. PICK new : new = AttemptStateNew
        OBVIOUS
      <4>6. Len(none) = 0
        BY <4>2
      <4>7. Len(none) <= MaxFailures + 1
        BY <1>c, <4>6
      <4>8. /\ new.failures \in Seq(Nat) /\ Len(new.failures) <= MaxFailures + 1
            /\ new.blocked_until \in Nat /\ DOMAIN new = {"failures", "blocked_until"}
        BY <4>7, <4>3, <4>5
      <4>9. ~(T + Window <= new.blocked_until) /\ Cardinality(Recent(new.failures, T)) = 0
        BY <4>3, <4>4, <4>5
      <4>10. /\ Cardinality(Hits(u, T)) < MaxFailures
             /\ Cardinality(Hits(u, T)) <= Cardinality(Recent(new.failures, T))
        BY <1>c, <4>1, <4>9
      <4> QED  BY <3>2, <4>5, <4>8, <4>9, <4>10
    <3> QED  BY <1>5, <1>9, <3>1, <3>2
  <2>5. table[u].blocked_until \in Nat
    BY <2>4, EntryRecorded
  <2>6. /\ Cardinality(Hits(u, T)) < MaxFailures
        /\ Cardinality(Hits(u, T)) <= Cardinality(Recent(state.failures, T))
    BY <1>c, <2>4, <2>5
  <2>7. Cardinality(Recent(state.failures, T)) \in Nat
    BY <2>4, RecentFinite
  <2>8. CASE T <= t
    <3>1. /\ Cardinality(Recent(table[u].failures, T)) = Cardinality(Recent(state.failures, T)) + 1
          /\ Cardinality(Recent(table[u].failures, T)) < MaxFailures
      BY <2>3, <2>4, <2>8, EntryCounts
    <3> QED  BY <1>c, <2>1, <2>2, <2>3, <2>6, <2>7, <2>8, <3>1
  <2>9. CASE t < T
    <3>1. Cardinality(Recent(table[u].failures, T)) = Cardinality(Recent(state.failures, T))
      BY <2>4, <2>9, EntryCounts
    <3> QED  BY <2>1, <2>6, <2>9, <3>1
  <2> QED  BY <2>8, <2>9
<1>10. ASSUME NEW k \in DOMAIN table, NEW T \in Nat PROVE Counted(k, T)'
  <2>1. CASE k = u
    BY <1>9, <2>1
  <2>2. CASE k # u
    <3>1. k \in DOMAIN throttle /\ throttle'[k] = throttle[k] /\ guesses'[k] = guesses[k]
      BY <1>3, <1>5, <1>6, <2>2
    <3>2. now' \in Nat /\ now <= now'
      BY <1>0
    <3> QED  BY <3>1, <3>2, CountedKept
  <2> QED  BY <2>1, <2>2
<1>11. req'[r] = Idle /\ \A q \in Reqs \ {r} : req'[q] = req[q]
  BY <1>0, <1>3
<1>12. ASSUME NEW k \in Users, NEW T \in Nat PROVE Room(k, T)'
  <2>1. Trying(k, T)' \subseteq Trying(k, T) /\ r \notin Trying(k, T)'
    BY <1>11 DEF Trying, Idle
  <2>2. CASE k \notin DOMAIN table \/ k # u
    <3>1. guesses'[k] = << >> \/ guesses'[k] = guesses[k]
      BY <1>3, <2>2
    <3> QED  BY <2>1, <3>1, RoomKept
  <2>3. CASE k \in DOMAIN table /\ k = u
    <3>1. guesses'[u] = Append(guesses[u], t) /\ guesses[u] \in Seq(Nat)
      BY <1>3, <2>3
    <3>2. Cardinality(Hits(u, T)') = IF T <= t /\ t < T + Window THEN Cardinality(Hits(u, T)) + 1
                                     ELSE Cardinality(Hits(u, T))
      BY <3>1, InTimeAppend DEF Hits
    <3>3. Cardinality(Hits(u, T)) \in Nat /\ Room(u, T)
      BY <3>1, InTimeFinite DEF Hits, GuessInv
    <3>4. CASE T <= t /\ t < T + Window
      <4>1. r \in Trying(u, T)
        BY <1>0, <1>1, <3>4 DEF Trying, At
      <4>2. /\ IsFiniteSet(Trying(u, T) \ {r})
            /\ Cardinality(Trying(u, T) \ {r}) = Cardinality(Trying(u, T)) - 1
        BY <4>1, TryingFinite, FS_RemoveElement
      <4>3. Trying(u, T)' \subseteq Trying(u, T) \ {r}
        BY <2>1, <2>3
      <4>4. Cardinality(Trying(u, T)') <= Cardinality(Trying(u, T) \ {r})
        BY <4>2, <4>3, FS_Subset
      <4> QED  BY <1>c, <2>3, <3>2, <3>3, <3>4, <4>2, <4>4, TryingFinite, TryingFiniteNext DEF Room
    <3>5. CASE ~(T <= t /\ t < T + Window)
      <4>1. Cardinality(Trying(u, T)') <= Cardinality(Trying(u, T))
        BY <2>1, <2>3, TryingFinite, FS_Subset
      <4> QED  BY <1>c, <2>3, <3>2, <3>3, <3>5, <4>1, TryingFinite, TryingFiniteNext DEF Room
    <3> QED  BY <3>4, <3>5
  <2> QED  BY <2>2, <2>3
<1> QED  BY <1>3, <1>5, <1>7, <1>8, <1>10, <1>12 DEF GuessInv

\* The other steps of a request neither fail an attempt nor start one.
LEMMA QuietRequest ==
  ASSUME IInv, NEW r \in Reqs,
         \/ Bootstrap(r) \/ LoginVerify(r) \/ (\E s \in Sids : LoginCreate(r, s)) \/ LoginAudit(r)
         \/ Logout(r) \/ Extractor(r) \/ ChangePassword(r) \/ RevokeSessions(r) \/ Abort(r)
  PROVE  UNCHANGED << throttle, guesses, now >> /\ NoNewTry
<1> USE DEF history, Done, Go, Open, At
<1>0. req \in [Reqs -> Request]
  BY DEF IInv, Core, RowsOK
<1> DEFINE Calm == UNCHANGED << throttle, guesses, now >>
           Moves(q2) == /\ req' = [req EXCEPT ![r] = q2]
                        /\ q2.pc \in {"l_verify", "l_fail"} =>
                             /\ req[r].pc \in {"l_verify", "l_fail"}
                             /\ q2.user = req[r].user /\ q2.at = req[r].at
<1>1. ASSUME NEW q2, Moves(q2) PROVE NoNewTry
  BY <1>0, <1>1 DEF NoNewTry
<1>2. Moves(Idle) <=> req' = [req EXCEPT ![r] = Idle]
  BY DEF Idle
<1>3. ASSUME NEW p, p \notin {"l_verify", "l_fail"}, req' = [req EXCEPT ![r].pc = p] PROVE NoNewTry
  BY <1>0, <1>3 DEF NoNewTry, Request
<1>4. ASSUME Bootstrap(r) PROVE Calm /\ NoNewTry
  <2>1. Calm
    BY <1>4 DEF Bootstrap, BootstrapStart, BootstrapAny, BootstrapCreate, BootstrapPassword, BootstrapAudit
  <2>2. ASSUME NEW u, NEW pw, BootstrapStart(r, u, pw) PROVE NoNewTry
    <3>1. Moves([Idle EXCEPT !.pc = "b_any", !.route = "bootstrap", !.user = u, !.pw = pw,
                             !.fresh = ~AnyExists])
      BY <2>2 DEF BootstrapStart, Idle
    <3> QED  BY <1>1, <3>1
  <2>3. ASSUME BootstrapAny(r) \/ BootstrapCreate(r) \/ BootstrapPassword(r) \/ BootstrapAudit(r)
        PROVE  NoNewTry
    BY <1>1, <1>2, <1>3, <2>3 DEF BootstrapAny, BootstrapCreate, BootstrapPassword, BootstrapAudit
  <2> QED  BY <1>4, <2>1, <2>2, <2>3 DEF Bootstrap
<1>5. ASSUME LoginVerify(r) PROVE Calm /\ NoNewTry
  BY <1>0, <1>5 DEF LoginVerify, NoNewTry, Request
<1>6. ASSUME NEW s, LoginCreate(r, s) PROVE Calm /\ NoNewTry
  BY <1>0, <1>6 DEF LoginCreate, NoNewTry, Request
<1>7. ASSUME LoginAudit(r) \/ Abort(r) PROVE Calm /\ NoNewTry
  BY <1>1, <1>2, <1>7 DEF LoginAudit, Abort
<1>8. ASSUME Logout(r) PROVE Calm /\ NoNewTry
  <2>1. Calm
    BY <1>8 DEF Logout, LogoutStart, LogoutValidate, LogoutRevoke, LogoutAudit
  <2>2. ASSUME NEW s, LogoutStart(r, s) PROVE NoNewTry
    <3>1. Moves([Idle EXCEPT !.pc = "o_validate", !.route = "logout", !.sid = s, !.at = now])
      BY <2>2 DEF LogoutStart, Idle
    <3> QED  BY <1>1, <3>1
  <2>3. ASSUME LogoutValidate(r) \/ LogoutRevoke(r) \/ LogoutAudit(r) PROVE NoNewTry
    BY <1>1, <1>2, <1>3, <2>3 DEF LogoutValidate, LogoutRevoke, LogoutAudit
  <2> QED  BY <1>8, <2>1, <2>2, <2>3 DEF Logout
<1>9. ASSUME Extractor(r) PROVE Calm /\ NoNewTry
  <2>1. Calm
    BY <1>9 DEF Extractor, ExtractorStart, ExtractorValidate, ExtractorTouch
  <2>2. ASSUME NEW route, NEW s, NEW tgt, NEW pw, NEW new, ExtractorStart(r, route, s, tgt, pw, new)
        PROVE  NoNewTry
    <3>1. Moves([Idle EXCEPT !.pc = "x_validate", !.route = route, !.sid = s, !.tgt = tgt,
                             !.pw = pw, !.new = new, !.at = now])
      BY <2>2 DEF ExtractorStart, Idle
    <3> QED  BY <1>1, <3>1
  <2>3. ASSUME ExtractorValidate(r) PROVE NoNewTry
    <3>1. CASE req' = [req EXCEPT ![r].pc = "x_touch", ![r].user = sessions[req[r].sid].user]
      BY <1>0, <3>1 DEF NoNewTry, Request
    <3> QED  BY <1>1, <1>2, <2>3, <3>1 DEF ExtractorValidate
  <2>4. ASSUME ExtractorTouch(r) PROVE NoNewTry
    <3>1. CASE req' = [req EXCEPT ![r].pc = FirstStep[req[r].route], ![r].at = now] /\ req[r].route # "read"
      <4>1. req[r].route \in {"revoke_all", "revoke", "change"}
        BY <2>4, <3>1 DEF ExtractorTouch, IInv, Core, Known
      <4>2. PICK p : p = FirstStep[req[r].route] /\ p \notin {"l_verify", "l_fail"}
        BY <4>1 DEF FirstStep
      <4>3. req'[r].pc = p /\ \A q \in Reqs \ {r} : req'[q] = req[q]
        BY <1>0, <3>1, <4>2 DEF Request
      <4> QED  BY <4>2, <4>3 DEF NoNewTry
    <3> QED  BY <1>1, <1>2, <2>4, <3>1 DEF ExtractorTouch
  <2> QED  BY <1>9, <2>1, <2>2, <2>3, <2>4 DEF Extractor
<1>10. ASSUME ChangePassword(r) PROVE Calm /\ NoNewTry
  <2>1. Calm
    BY <1>10 DEF ChangePassword, ChangeVerify, ChangeSet, ChangeRevoke, ChangeAudit
  <2>2. ASSUME ChangeVerify(r) PROVE NoNewTry
    <3>1. CASE req' = [req EXCEPT ![r].pc = "p_set", ![r].pw = None]
      BY <1>0, <3>1 DEF NoNewTry, Request
    <3> QED  BY <1>1, <1>2, <2>2, <3>1 DEF ChangeVerify
  <2>3. ASSUME ChangeSet(r) PROVE NoNewTry
    BY <1>0, <2>3 DEF ChangeSet, NoNewTry, Request
  <2>4. ASSUME ChangeRevoke(r) \/ ChangeAudit(r) PROVE NoNewTry
    BY <1>1, <1>2, <1>3, <2>4 DEF ChangeRevoke, ChangeAudit
  <2> QED  BY <1>10, <2>1, <2>2, <2>3, <2>4 DEF ChangePassword
<1>11. ASSUME RevokeSessions(r) PROVE Calm /\ NoNewTry
  <2>1. Calm
    BY <1>11 DEF RevokeSessions, RevokeSnapshot, RevokeUpdate, RevokeAudit, RevokeAllUpdate, RevokeAllAudit
  <2>2. ASSUME RevokeSnapshot(r) PROVE NoNewTry
    <3>1. CASE req' = [req EXCEPT ![r].pc = "v_update", ![r].fresh = ~IsRevoked(sessions[req[r].tgt])]
      BY <1>0, <3>1 DEF NoNewTry, Request
    <3> QED  BY <1>1, <1>2, <2>2, <3>1 DEF RevokeSnapshot
  <2>3. ASSUME RevokeUpdate(r) \/ RevokeAudit(r) \/ RevokeAllUpdate(r) \/ RevokeAllAudit(r) PROVE NoNewTry
    BY <1>1, <1>2, <1>3, <2>3 DEF RevokeUpdate, RevokeAudit, RevokeAllUpdate, RevokeAllAudit
  <2> QED  BY <1>11, <2>1, <2>2, <2>3 DEF RevokeSessions
<1> QED  BY <1>4, <1>5, <1>6, <1>7, <1>8, <1>9, <1>10, <1>11

LEMMA NextCounts == IInv /\ GuessInv /\ [Next]_vars => GuessInv'
<1> SUFFICES ASSUME IInv, GuessInv, [Next]_vars PROVE GuessInv'
  OBVIOUS
<1>0. now \in Nat
  BY AuthAssumption DEF IInv, Core, RowsOK, Times
<1>1. ASSUME UNCHANGED << throttle, guesses, req >>, now' \in Nat, now <= now' PROVE GuessInv'
  <2>1. NoNewTry
    BY <1>1 DEF NoNewTry
  <2> QED  BY <1>1, <2>1, CountQuiet
<1>2. CASE UNCHANGED vars
  BY <1>0, <1>1, <1>2 DEF vars, history
<1>3. CASE Tick
  BY <1>0, <1>1, <1>3 DEF Tick, history
<1>4. CASE Restart
  BY <1>4, RestartCounts DEF Restart
<1>5. ASSUME NEW r \in Reqs, Login(r) PROVE GuessInv'
  <2>1. CASE LoginVerify(r) \/ (\E s \in Sids : LoginCreate(r, s)) \/ LoginAudit(r)
    <3>1. UNCHANGED << throttle, guesses, now >> /\ NoNewTry
      BY <2>1, QuietRequest
    <3> QED  BY <1>0, <3>1, CountQuiet
  <2> QED  BY <1>5, <2>1, LoginStartCounts, LoginFailCounts, LoginClearCounts DEF Login
<1>6. ASSUME NEW r \in Reqs,
             \/ Bootstrap(r) \/ Logout(r) \/ Extractor(r) \/ ChangePassword(r)
             \/ RevokeSessions(r) \/ Abort(r)
      PROVE  GuessInv'
  <2>1. UNCHANGED << throttle, guesses, now >> /\ NoNewTry
    BY <1>6, QuietRequest
  <2> QED  BY <1>0, <2>1, CountQuiet
<1> QED  BY <1>2, <1>3, <1>4, <1>5, <1>6 DEF Next

\* The count of failed attempts is kept whatever the requests do.
THEOREM GuessesCounted == Spec => [](IInv /\ GuessInv)
<1>1. Init => IInv /\ GuessInv
  BY InitHolds, EmptyCounts DEF Init
<1>2. (IInv /\ GuessInv) /\ [Next]_vars => (IInv /\ GuessInv)'
  BY NextPreserves, NextCounts
<1> QED  BY <1>1, <1>2, PTL DEF Spec

\* For any number of identifiers and requests: in a window of the throttle's
\* length at most max_failures attempts fail on an identifier, and one more for
\* each other request already past the check; the table keeps its cap
\* (LoginThrottler::check, record_failure); bootstrap starts from no password.
THEOREM FailuresBounded == Spec => []ThrottleInv
<1>1. IInv /\ GuessInv => ThrottleInv
  <2> SUFFICES ASSUME IInv, GuessInv PROVE ThrottleInv
    OBVIOUS
  <2>1. TypeOK
    BY DEF TypeOK, IInv, Core, GuessInv, Tracked
  <2>2. BootstrapOnlyWhenEmpty
    BY DEF IInv, Core, Known, BootstrapOnlyWhenEmpty
  <2>3. ThrottleBound
    <3>1. ASSUME NEW u \in Users, NEW t \in Times
          PROVE  Cardinality({i \in DOMAIN guesses[u] : t <= guesses[u][i] /\ guesses[u][i] < t + Window})
                   <= MaxFailures + Cardinality(Reqs) - 1
      <4>1. t \in Nat /\ MaxFailures \in Nat
        BY AuthAssumption, ThrottleAssumption DEF Times
      <4>2. Room(u, t) /\ Cardinality(Hits(u, t)) \in Nat
        BY <4>1, InTimeFinite DEF GuessInv, Hits
      <4>3. Hits(u, t) = {i \in DOMAIN guesses[u] : t <= guesses[u][i] /\ guesses[u][i] < t + Window}
        BY DEF Hits, InTime
      <4>4. Cardinality(Hits(u, t)) <= MaxFailures + Cardinality(Reqs) - 1
        BY <4>1, <4>2, TryingFinite DEF Room
      <4> QED  BY <4>3, <4>4
    <3> QED  BY <3>1 DEF ThrottleBound
  <2> QED  BY <2>1, <2>2, <2>3 DEF ThrottleInv
<1> QED  BY <1>1, GuessesCounted, PTL
=============================================================================
