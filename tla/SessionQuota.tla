---------------------------- MODULE SessionQuota ----------------------------
(***************************************************************************)
(* The session quotas: POST /terminal-sessions (routes/v1/                 *)
(* terminal_sessions.rs create) counts the entries of the manager's        *)
(* runtime registry against three ceilings and registers its own entry     *)
(* only after several awaits; RusshPtyBridge::start then takes seconds     *)
(* before start_live_pty turns the entry live.                             *)
(*                                                                         *)
(* SessionManager has the life of one session in full.  Here there are     *)
(* many sessions of several users, each reduced to what the counts see:    *)
(* its registry entry, and what puts the entry there or takes it away.     *)
(***************************************************************************)
EXTENDS Naturals, FiniteSets

CONSTANTS
  Users, Reqs, None,
  MaxSessions,    \* sessions at a time (a bound of the model; a removed one's name is reused)
  MaxFaults,      \* failed statements and dropped requests (a bound of the model)
  MaxLivePerUser, MaxLivePerDeployment, MaxStartingPerUser

ASSUME QuotaAssumption ==
  /\ None \notin Users /\ IsFiniteSet(Reqs)
  /\ {MaxSessions, MaxFaults} \subseteq Nat
  /\ {MaxLivePerUser, MaxLivePerDeployment, MaxStartingPerUser} \subseteq Nat \ {0}
  /\ MaxLivePerUser <= MaxLivePerDeployment

Sessions == 1 .. MaxSessions

VARIABLES
  entry,    \* the RuntimeEntry: its snapshot status, or "none"
  owner,    \* its owner_id; None when there is no entry
  expiring, \* sessions whose last client has left: their TTL task sleeps
  ended,    \* sessions whose PTY is gone
  closed,   \* sessions whose row is closed, as long as anyone can still read it
  closing,  \* sessions with a close_session between its status write and its removal
  lost,     \* starting sessions whose create request a fault took (history)
  req,      \* create requests
  faults

vars == << entry, owner, expiring, ended, closed, closing, lost, req, faults >>

Checks == {"user", "deployment", "starting"}
Phases == {"connect", "auth", "open"}  \* of RusshPtyBridge::start
Binding == {"start", "mark", "install"}  \* of start_live_pty
Starts == Phases \cup Binding
Holding == Starts \cup {"enter", "record"}  \* a request that has a session
Steps == {"idle", "register"} \cup Checks \cup Holding
Idle == [pc |-> "idle", user |-> None, session |-> 0]

TypeOK ==
  /\ entry \in [Sessions -> {"none", "starting", "live", "ended"}]
  /\ owner \in [Sessions -> Users \cup {None}]
  /\ expiring \subseteq Sessions /\ ended \subseteq Sessions /\ closed \subseteq Sessions
  /\ closing \subseteq Sessions /\ lost \subseteq Sessions
  /\ req \in [Reqs -> [pc : Steps, user : Users \cup {None}, session : 0 .. MaxSessions]]
  /\ faults \in 0 .. MaxFaults

Init ==
  /\ entry = [s \in Sessions |-> "none"]
  /\ owner = [s \in Sessions |-> None]
  /\ expiring = {} /\ ended = {} /\ closed = {} /\ closing = {} /\ lost = {}
  /\ req = [r \in Reqs |-> Idle]
  /\ faults = 0

registry == << entry, owner, expiring, ended >>
rows == << closed, closing, lost >>

Go(r, step) == req' = [req EXCEPT ![r].pc = step]
Done(r) == req' = [req EXCEPT ![r] = Idle]

-----------------------------------------------------------------------------
(* The counts, each one scan of the registry under its read lock *)

Live == {s \in Sessions : entry[s] = "live"}
Starting == {s \in Sessions : entry[s] = "starting"}
OwnedBy(S, u) == {s \in S : owner[s] = u}

count_live_pty_for_user(u) == Cardinality(OwnedBy(Live, u))
count_live_pty_total == Cardinality(Live)
count_starting_for_user(u) == Cardinality(OwnedBy(Starting, u))

-----------------------------------------------------------------------------
(* create *)

Begin(r, u) ==
  /\ req[r].pc = "idle"
  /\ req' = [req EXCEPT ![r] = [Idle EXCEPT !.pc = "user", !.user = u]]
  /\ UNCHANGED << registry, rows, faults >>

\* mutant of CheckUser: one session too many passes
CheckUserOver(r) ==
  /\ req[r].pc = "user"
  /\ IF count_live_pty_for_user(req[r].user) > MaxLivePerUser THEN Done(r) ELSE Go(r, "deployment")
  /\ UNCHANGED << registry, rows, faults >>

CheckUser(r) ==
  /\ req[r].pc = "user"
  /\ IF count_live_pty_for_user(req[r].user) >= MaxLivePerUser THEN Done(r) ELSE Go(r, "deployment")
  /\ UNCHANGED << registry, rows, faults >>

CheckDeployment(r) ==
  /\ req[r].pc = "deployment"
  /\ IF count_live_pty_total >= MaxLivePerDeployment THEN Done(r) ELSE Go(r, "starting")
  /\ UNCHANGED << registry, rows, faults >>

CheckStarting(r) ==
  /\ req[r].pc = "starting"
  /\ IF count_starting_for_user(req[r].user) >= MaxStartingPerUser THEN Done(r) ELSE Go(r, "register")
  /\ UNCHANGED << registry, rows, faults >>

Unused(s) ==
  entry[s] = "none" /\ s \notin closing /\ \A r \in Reqs : req[r].session # s

\* create_session: the row and its event are inserted, which shows the session
\* to its owner, and after these awaits the registry's entry.
InsertRow(r) ==
  \E s \in Sessions :
    /\ req[r].pc = "register"
    /\ Unused(s) /\ \A t \in 1 .. s - 1 : ~Unused(t)
    /\ ended' = ended \ {s} /\ closed' = closed \ {s} /\ lost' = lost \ {s}
    /\ req' = [req EXCEPT ![r].pc = "enter", ![r].session = s]
    /\ UNCHANGED << entry, owner, expiring, closing, faults >>

InsertEntry(r) ==
  LET s == req[r].session IN
  /\ req[r].pc = "enter"
  /\ owner' = [owner EXCEPT ![s] = req[r].user]
  /\ entry' = [entry EXCEPT ![s] = "starting"]
  /\ Go(r, "connect")
  /\ UNCHANGED << expiring, ended, rows, faults >>

\* mutant of NextPhase: authentication is retried from the start without limit
NextPhaseRetry(step) ==
  CASE step = "connect" -> "auth" [] step = "auth" -> "connect" [] OTHER -> "start"

\* RusshPtyBridge::start: connect and authenticate under the inner timeout,
\* then open the channel, request the PTY and the shell, under none.
NextPhase(step) == CASE step = "connect" -> "auth" [] step = "auth" -> "open" [] OTHER -> "start"

Answered(r, step) ==
  /\ req[r].pc = step
  /\ Go(r, NextPhase(step))
  /\ UNCHANGED << registry, rows, faults >>

\* mutant of StartFailed: the entry keeps its starting status
StartFailedKept(r, step) ==
  /\ req[r].pc = step
  /\ Go(r, "record")
  /\ UNCHANGED << registry, rows, faults >>

\* Any phase may fail: record_pty_start_failed takes the entry out of the counts.
StartFailed(r, step) ==
  /\ req[r].pc = step
  /\ entry' = [entry EXCEPT ![req[r].session] = IF @ = "none" THEN @ ELSE "ended"]
  /\ Go(r, "record")
  /\ UNCHANGED << owner, expiring, ended, rows, faults >>

\* runtimes.remove(id) and attachments.retain(...)
Remove(s) ==
  /\ entry' = [entry EXCEPT ![s] = "none"]
  /\ owner' = [owner EXCEPT ![s] = None]
  /\ expiring' = expiring \ {s}
  /\ ended' = ended \ {s}
  /\ lost' = lost \ {s}

\* A removed session is only read by the create request that still holds it.
Forget(s) == closed' = IF \E r \in Reqs : req[r].session = s THEN closed ELSE closed \ {s}

\* The rest of record_pty_start_failed: the row is closed and the entry removed,
\* or left as it is where a close has closed the row already.
RecordFailed(r) ==
  LET s == req[r].session IN
  /\ req[r].pc = "record"
  /\ IF s \in closed
       THEN UNCHANGED << registry, lost, closed >>
       ELSE Remove(s) /\ UNCHANGED closed
  /\ Done(r)
  /\ UNCHANGED << closing, faults >>

\* start_live_pty gives up when the row is closed or the entry gone, and leaves
\* the entry as it is.
StartRead(r) ==
  LET s == req[r].session IN
  /\ req[r].pc = "start"
  /\ IF s \in closed \/ entry[s] = "none" THEN Done(r) ELSE Go(r, "mark")
  /\ UNCHANGED << registry, rows, faults >>

\* The forwarder runs from here on, and the row is set active, also one that a
\* close has closed since it was read.
StartMark(r) ==
  /\ req[r].pc = "mark"
  /\ closed' = closed \ {req[r].session}
  /\ Go(r, "install")
  /\ UNCHANGED << registry, closing, lost, faults >>

\* The entry goes live, unless a close has removed it.
StartInstall(r) ==
  LET s == req[r].session IN
  /\ req[r].pc = "install"
  /\ entry' = [entry EXCEPT ![s] = IF @ = "none" THEN @ ELSE "live"]
  /\ Done(r)
  /\ UNCHANGED << owner, expiring, ended, rows, faults >>

\* A statement of create_session, start_live_pty or record_pty_start_failed
\* fails, or hyper drops the request's future: the entry stays as it is.
Fault(r) ==
  /\ req[r].pc # "idle" /\ faults < MaxFaults
  /\ faults' = faults + 1
  /\ lost' = lost \cup ({req[r].session} \cap Starting)
  /\ Done(r)
  /\ UNCHANGED << registry, closed, closing >>

-----------------------------------------------------------------------------
(* The life of an entry *)

\* attach_session refuses a session whose row is closed, and otherwise cancels
\* its TTL task.
Attach(s) ==
  /\ s \in expiring /\ s \notin closed
  /\ expiring' = expiring \ {s}
  /\ UNCHANGED << entry, owner, ended, rows, req, faults >>

\* The last detach_attachment schedules the close of a live session, also of
\* one whose PTY has ended.
Detach(s) ==
  /\ entry[s] = "live" /\ s \notin expiring
  /\ expiring' = expiring \cup {s}
  /\ UNCHANGED << entry, owner, ended, rows, req, faults >>

\* close_session up to its status write: a row that is closed already has its
\* stale entry removed; otherwise the event insert and a re-read come before
\* the removal.
CloseMark(s) ==
  IF s \in closed
    THEN Remove(s) /\ Forget(s) /\ UNCHANGED closing
    ELSE /\ closed' = closed \cup {s} /\ closing' = closing \cup {s}
         /\ expiring' = expiring \ {s}
         /\ UNCHANGED << entry, owner, ended, lost >>

\* A request or a Close frame: the session is in its owner's list from the
\* moment its row is.
Close(s) ==
  /\ entry[s] # "none" \/ \E r \in Reqs : req[r].session = s /\ req[r].pc = "enter"
  /\ CloseMark(s)
  /\ UNCHANGED << req, faults >>

\* The TTL task, which runs once.
Expire(s) ==
  /\ s \in expiring
  /\ CloseMark(s)
  /\ UNCHANGED << req, faults >>

CloseRemove(s) ==
  /\ s \in closing
  /\ closing' = closing \ {s}
  /\ Remove(s) /\ Forget(s)
  /\ UNCHANGED << req, faults >>

\* The event insert or the re-read fails, or the close is dropped there.
CloseFails(s) ==
  /\ s \in closing /\ faults < MaxFaults
  /\ faults' = faults + 1
  /\ closing' = closing \ {s}
  /\ UNCHANGED << registry, closed, lost, req >>

\* The shell exits or the transport breaks: drive_channel ends, and with it
\* forward_pty_output, which closes the row and leaves the registry alone.
PtyEnds(s) ==
  /\ s \notin ended
  /\ entry[s] = "live" \/ \E r \in Reqs : req[r].session = s /\ req[r].pc \in {"mark", "install"}
  /\ ended' = ended \cup {s} /\ closed' = closed \cup {s}
  /\ UNCHANGED << entry, owner, expiring, closing, lost, req, faults >>

Local(r) ==
  \/ CheckUser(r) \/ CheckDeployment(r) \/ CheckStarting(r)
  \/ InsertRow(r) \/ InsertEntry(r)
  \/ StartRead(r) \/ StartMark(r) \/ StartInstall(r) \/ RecordFailed(r)
Timed(r) == \E step \in {"connect", "auth"} : Answered(r, step) \/ StartFailed(r, step)

Next ==
  \/ \E r \in Reqs : \/ \E u \in Users : Begin(r, u)
                     \/ Local(r) \/ Timed(r) \/ Fault(r)
                     \/ Answered(r, "open") \/ StartFailed(r, "open")
  \/ \E s \in Sessions : \/ Attach(s) \/ Detach(s) \/ PtyEnds(s)
                         \/ Close(s) \/ Expire(s) \/ CloseRemove(s) \/ CloseFails(s)

\* The runtime polls every handler, connect and authenticate have a timeout,
\* and the TTL sleeps end.  Nothing makes the peer answer a channel open.
Fairness ==
  /\ \A r \in Reqs : WF_vars(Local(r)) /\ WF_vars(Timed(r))
  /\ \A s \in Sessions : WF_vars(Expire(s)) /\ WF_vars(CloseRemove(s))

Spec == Init /\ [][Next]_vars /\ Fairness

-----------------------------------------------------------------------------
(* Properties *)

Past(step) == {r \in Reqs : req[r].pc \in step}
ToStarting == {"register", "enter"}
ToLive == ToStarting \cup Starts
Of(R, u) == Cardinality({r \in R : req[r].user = u})

\* Requests that overlap all pass the checks before any of them counts: the
\* ceilings are overrun, but never by more than the other requests in flight,
\* those that are still on their way to an entry included.
OverrunBounded ==
  LET slack == Cardinality(Reqs) - 1 IN
  /\ \A u \in Users :
       /\ count_live_pty_for_user(u) + Of(Past(ToLive \cup {"deployment", "starting"}), u)
            <= MaxLivePerUser + slack
       /\ count_starting_for_user(u) + Of(Past(ToStarting), u) <= MaxStartingPerUser + slack
  /\ count_live_pty_total + Cardinality(Past(ToLive \cup {"starting"})) <= MaxLivePerDeployment + slack

\* What terminal_sessions.rs ("Single-instance exact") and docs/session-quotas.md
\* say of the ceilings.  Two creates that overlap violate it.
CeilingsExact ==
  /\ count_live_pty_total <= MaxLivePerDeployment
  /\ \A u \in Users : /\ count_live_pty_for_user(u) <= MaxLivePerUser
                       /\ count_starting_for_user(u) <= MaxStartingPerUser

Holder(s) == {r \in Reqs : req[r].session = s /\ req[r].pc \in Starts}

\* A starting slot is held by the one request that is still starting it.  What
\* else can keep it: a fault took that request, or a close got to the row first,
\* and then the next close finds the row closed and sweeps the entry.
StartingHeld ==
  \A s \in Starting : Cardinality(Holder(s)) = 1 \/ s \in closed \/ s \in lost

\* StartingHeld without its second excuse once no close is under way: violated
\* by a close that comes and goes between the row's insert and the entry's.
StartingOnlyWhileStarted ==
  \A s \in Starting : Holder(s) # {} \/ s \in closing \/ s \in lost

\* A request holds a session from create_session on, no two hold the same one,
\* and as long as its entry is there it is charged to the request's user.
SlotsHeld ==
  /\ \A r \in Reqs :
       /\ req[r].pc # "idle" => req[r].user \in Users
       /\ req[r].session # 0 <=> req[r].pc \in Holding
       /\ req[r].session # 0 /\ entry[req[r].session] # "none"
            => owner[req[r].session] = req[r].user
  /\ \A q, r \in Reqs : q # r /\ req[q].session = req[r].session => req[r].session = 0

\* Every entry the quotas count as starting has its create request at work, or a
\* closed row (create_session, start_live_pty and close_session interleaved), or
\* lost its request to a fault; and it counts against the user who asked for it.
QuotaInv == TypeOK /\ StartingHeld /\ SlotsHeld

\* A starting slot is given back or becomes a live one, unless a fault took its
\* request, the peer never answers the channel open, which has no timeout, or a
\* close of the row is over and did not remove the entry.
StartingResolves ==
  \A s \in Sessions :
    s \in Starting ~> \/ s \notin Starting \/ s \in lost
                      \/ s \in closed \ closing
                      \/ \E r \in Reqs : req[r].session = s /\ req[r].pc = "open"

\* docs/session-quotas.md: the forwarder-exit path "similarly frees the slot".
ExitFreesSlot == \A s \in Sessions : s \in ended ~> entry[s] # "live"
=============================================================================
