--------------------------- MODULE SessionManager ---------------------------
(***************************************************************************)
(* The life of one terminal session: the database row and its audit        *)
(* events, the runtime registry's entry with the live PTY, and the tasks   *)
(* that race over them: the create request, the WebSocket tasks, the HTTP  *)
(* close requests, the TTL close tasks and the PTY forwarder.              *)
(*                                                                         *)
(* manager.rs (TerminalSessionManager); routes/v1/terminal_sessions.rs     *)
(* (create, close, ws_attach, run_attached_socket); the repository's       *)
(* set_status, mark_attachment_detached, reconcile_orphaned_on_startup.    *)
(*                                                                         *)
(* One action is one database statement or one critical section of a       *)
(* registry lock: the tasks are interleaved at every other point.  pc[p]   *)
(* names the next step of task p; a label's first letter tells the         *)
(* operation: n create_session, b the SSH bridge, s start_live_pty,        *)
(* r record_pty_start_failed, a attach_session, d detach_attachment,       *)
(* c close_session, f forward_pty_output.                                  *)
(***************************************************************************)
EXTENDS Naturals, FiniteSets

CONSTANTS
  Sockets,     \* WebSocket connections; each is one attachment
  Requests,    \* POST /:id/close requests
  Timers,      \* TTL close tasks
  Creator,     \* the POST / request
  Forwarder,   \* the forward_pty_output task
  NoTimer,
  Fallible,    \* the steps at which an I/O error may happen
  MaxFaults,   \* bound on the I/O errors of one behaviour
  MaxCrashes   \* bound on the backend restarts of one behaviour

Closers == Requests \cup Timers \cup Sockets   \* tasks that run close_session
Procs   == Closers \cup {Creator, Forwarder}

ASSUME ProcAssumption ==
  /\ Sockets \cap Requests = {} /\ Sockets \cap Timers = {} /\ Requests \cap Timers = {}
  /\ Creator \notin Closers /\ Forwarder \notin Closers /\ Creator # Forwarder
  /\ NoTimer \notin Procs

ASSUME FaultAssumption == MaxFaults \in Nat /\ MaxCrashes \in Nat

VARIABLES
  \* the database
  row,             \* terminal_sessions.status, "none" before the row exists
  closedEvents,    \* session_events of kind closed
  attRow,          \* each attachment's row: none, open, detached
  detachedEvents,  \* session_events of kind detached, per attachment
  \* the backend process
  entry,           \* RuntimeEntry: none, starting, live, ended
  detach_close,    \* the live runtime's TTL close task
  attachments,     \* the attachment registry
  pc,
  taken,           \* per socket: the task cancel_pending_close took
  view,            \* the sockets whose attach bound a live PTY
  why,             \* per socket: who called detach (frame, tail, ack), or stale
                   \* when the last call found the row already detached
  pty,             \* the remote PTY: none, open, gone
  \* the environment
  faults, crashes

db     == << row, closedEvents, attRow, detachedEvents >>
memory == << entry, detach_close, attachments, taken, view, why >>
env    == << faults, crashes >>
vars   == << db, memory, pc, pty, env >>

Labels ==
  {"idle", "done", "closed", "dead",
   "n_row", "n_event", "n_register", "b_start",
   "s_read", "s_spawn", "s_mark", "s_install",
   "r_entry", "r_read", "r_mark", "r_event", "r_drop",
   "a_read", "a_take", "a_abort", "a_record", "a_reactivate", "a_register", "open",
   "d_read", "d_mark", "d_event", "d_remove", "d_stale", "d_decide", "d_row", "d_install",
   "sleep",
   "c_read", "c_mark", "c_event", "c_remove", "c_stale", "c_handle", "c_stale_handle",
   "c_await", "c_stale_await",
   "run", "f_read", "f_mark", "f_event"}

TypeOK ==
  /\ row \in {"none", "starting", "active", "detached", "closed"}
  /\ closedEvents \in Nat
  /\ attRow \in [Sockets -> {"none", "open", "detached"}]
  /\ detachedEvents \in [Sockets -> Nat]
  /\ entry \in {"none", "starting", "live", "ended"}
  /\ detach_close \in Timers \cup {NoTimer}
  /\ attachments \subseteq Sockets
  /\ pc \in [Procs -> Labels]
  /\ taken \in [Sockets -> Timers \cup {NoTimer}]
  /\ view \subseteq Sockets
  /\ why \in [Sockets -> {"none", "frame", "tail", "ack", "stale"}]
  /\ pty \in {"none", "open", "gone"}
  /\ faults \in 0 .. MaxFaults
  /\ crashes \in 0 .. MaxCrashes

Init ==
  /\ row = "none"
  /\ closedEvents = 0
  /\ attRow = [a \in Sockets |-> "none"]
  /\ detachedEvents = [a \in Sockets |-> 0]
  /\ entry = "none"
  /\ detach_close = NoTimer
  /\ attachments = {}
  /\ pc = [p \in Procs |-> "idle"]
  /\ taken = [a \in Sockets |-> NoTimer]
  /\ view = {}
  /\ why = [a \in Sockets |-> "none"]
  /\ pty = "none"
  /\ faults = 0
  /\ crashes = 0

\* Task p moves from one label to another.
Step(p, from, to) == pc[p] = from /\ pc' = [pc EXCEPT ![p] = to]

\* An I/O error at the step task p is about to take.
Fault(p) ==
  /\ pc[p] \in Fallible
  /\ faults < MaxFaults
  /\ faults' = faults + 1
  /\ UNCHANGED crashes

-----------------------------------------------------------------------------
(***************************************************************************)
(* POST /: create_session, the SSH bridge, then start_live_pty or          *)
(* record_pty_start_failed.                                                *)
(***************************************************************************)
Create == Step(Creator, "idle", "n_row") /\ UNCHANGED << db, memory, pty, env >>

CreateRow ==
  /\ Step(Creator, "n_row", "n_event")
  /\ row' = "starting"
  /\ UNCHANGED << closedEvents, attRow, detachedEvents, memory, pty, env >>

CreateEvent ==
  /\ Step(Creator, "n_event", "n_register")
  /\ UNCHANGED << db, memory, pty, env >>

CreateRegister ==
  /\ Step(Creator, "n_register", "b_start")
  /\ entry' = "starting"
  /\ UNCHANGED << db, detach_close, attachments, taken, view, why, pty, env >>

CreateFails ==
  /\ pc[Creator] \in {"n_row", "n_event"}
  /\ Fault(Creator)
  /\ pc' = [pc EXCEPT ![Creator] = "done"]
  /\ UNCHANGED << db, memory, pty >>

BridgeStarted ==
  /\ Step(Creator, "b_start", "s_read")
  /\ pty' = "open"
  /\ UNCHANGED << db, memory, env >>

BridgeFailed ==
  /\ Step(Creator, "b_start", "r_entry")
  /\ UNCHANGED << db, memory, pty, env >>

\* start_live_pty gives up: the SshPtyStart it holds is dropped.
StartGivesUp(from) ==
  /\ Step(Creator, from, "done")
  /\ pty' = "gone"
  /\ UNCHANGED << db, memory >>

StartRead ==
  \/ /\ row = "closed"
     /\ StartGivesUp("s_read")
     /\ UNCHANGED env
  \/ /\ row # "closed"
     /\ Step(Creator, "s_read", "s_spawn")
     /\ UNCHANGED << db, memory, pty, env >>

StartSpawn ==
  \/ /\ entry = "none"
     /\ StartGivesUp("s_spawn")
     /\ UNCHANGED env
  \/ /\ entry # "none"
     /\ pc[Creator] = "s_spawn"
     /\ pc' = [pc EXCEPT ![Creator] = "s_mark", ![Forwarder] = "run"]
     /\ UNCHANGED << db, memory, pty, env >>

StartMark ==
  /\ Step(Creator, "s_mark", "s_install")
  /\ row' = "active"
  /\ UNCHANGED << closedEvents, attRow, detachedEvents, memory, pty, env >>

StartFails ==
  /\ Fault(Creator)
  /\ \E from \in {"s_read", "s_mark", "s_install"} : StartGivesUp(from)

\* mutant of StartInstall: the bridge is not torn down on the race
StartInstallLeaks ==
  /\ pc[Creator] = "s_install"
  /\ pc' = [pc EXCEPT ![Creator] = "done"]
  /\ entry' = IF entry = "none" THEN "none" ELSE "live"
  /\ UNCHANGED << db, detach_close, attachments, taken, view, why, pty, env >>

\* mutant of StartInstall: the entry is inserted, not looked up
StartInstallInserts ==
  /\ Step(Creator, "s_install", "done")
  /\ entry' = "live"
  /\ UNCHANGED << db, detach_close, attachments, taken, view, why, pty, env >>

\* Promote the entry; if it vanished, abort the forwarder and close the PTY.
StartInstall ==
  \/ /\ entry # "none"
     /\ Step(Creator, "s_install", "done")
     /\ entry' = "live"
     /\ UNCHANGED << db, detach_close, attachments, taken, view, why, pty, env >>
  \/ /\ entry = "none"
     /\ pc[Creator] = "s_install"
     /\ pc' = [pc EXCEPT ![Creator] = "done", ![Forwarder] = "done"]
     /\ pty' = "gone"
     /\ UNCHANGED << db, memory, env >>

RecordEntry ==
  /\ Step(Creator, "r_entry", "r_read")
  /\ entry' = IF entry = "none" THEN "none" ELSE "ended"
  /\ UNCHANGED << db, detach_close, attachments, taken, view, why, pty, env >>

RecordRead ==
  /\ Step(Creator, "r_read", IF row = "closed" THEN "done" ELSE "r_mark")
  /\ UNCHANGED << db, memory, pty, env >>

RecordMark ==
  /\ Step(Creator, "r_mark", "r_event")
  /\ row' = "closed"
  /\ UNCHANGED << closedEvents, attRow, detachedEvents, memory, pty, env >>

RecordEvent ==
  /\ Step(Creator, "r_event", "r_drop")
  /\ closedEvents' = closedEvents + 1
  /\ UNCHANGED << row, attRow, detachedEvents, memory, pty, env >>

RecordDrop ==
  /\ Step(Creator, "r_drop", "done")
  /\ attachments' = {}
  /\ entry' = "none"
  /\ UNCHANGED << db, detach_close, taken, view, why, pty, env >>

\* The lifecycle event is best effort; the other two statements are not.
RecordFails ==
  /\ pc[Creator] \in {"r_read", "r_mark", "r_event"}
  /\ Fault(Creator)
  /\ pc' = [pc EXCEPT ![Creator] = IF @ = "r_event" THEN "r_drop" ELSE "done"]
  /\ UNCHANGED << db, memory, pty >>

-----------------------------------------------------------------------------
(***************************************************************************)
(* The forwarder, once the bridge's output channel has ended.              *)
(***************************************************************************)
RemoteExit ==
  /\ pty = "open"
  /\ pty' = "gone"
  /\ UNCHANGED << db, memory, pc, env >>

ForwarderEnds ==
  /\ pty = "gone"
  /\ Step(Forwarder, "run", "f_read")
  /\ UNCHANGED << db, memory, pty, env >>

ForwarderRead ==
  /\ Step(Forwarder, "f_read", IF row = "closed" THEN "done" ELSE "f_mark")
  /\ UNCHANGED << db, memory, pty, env >>

ForwarderMark ==
  /\ Step(Forwarder, "f_mark", "f_event")
  /\ row' = "closed"
  /\ UNCHANGED << closedEvents, attRow, detachedEvents, memory, pty, env >>

ForwarderEvent ==
  /\ Step(Forwarder, "f_event", "done")
  /\ closedEvents' = closedEvents + 1
  /\ UNCHANGED << row, attRow, detachedEvents, memory, pty, env >>

\* A failed status write is logged and the event is still appended.
ForwarderFails ==
  /\ pc[Forwarder] \in {"f_read", "f_mark", "f_event"}
  /\ Fault(Forwarder)
  /\ pc' = [pc EXCEPT ![Forwarder] = IF @ = "f_mark" THEN "f_event" ELSE "done"]
  /\ UNCHANGED << db, memory, pty >>

-----------------------------------------------------------------------------
(***************************************************************************)
(* A WebSocket: ws_attach's gate, attach_session, and the acknowledgement. *)
(***************************************************************************)
Upgrade(a) ==
  /\ row # "none"
  /\ Step(a, "idle", IF row = "closed" THEN "done" ELSE "a_read")
  /\ UNCHANGED << db, memory, pty, env >>

AttachRead(a) ==
  /\ Step(a, "a_read", IF row = "closed" THEN "done" ELSE "a_take")
  /\ UNCHANGED << db, memory, pty, env >>

\* cancel_pending_close takes the task under the lock ...
AttachTake(a) ==
  /\ Step(a, "a_take", IF entry = "live" /\ detach_close # NoTimer
                         THEN "a_abort" ELSE "a_record")
  /\ taken' = [taken EXCEPT ![a] = IF entry = "live" THEN detach_close ELSE NoTimer]
  /\ detach_close' = IF entry = "live" THEN NoTimer ELSE detach_close
  /\ UNCHANGED << db, entry, attachments, view, why, pty, env >>

\* ... and aborts it outside: wherever the task has got to, it stops, and a
\* runtime whose handle it was closing is dropped with it.
AttachAbort(a) ==
  /\ pc[a] = "a_abort"
  /\ LET dropped == pc[taken[a]] \in {"c_handle", "c_stale_handle"} IN
       /\ pc' = [pc EXCEPT ![a] = "a_record", ![taken[a]] = "done",
                           ![Forwarder] = IF dropped THEN "done" ELSE @]
       /\ pty' = IF dropped THEN "gone" ELSE pty
  /\ UNCHANGED << db, memory, env >>

\* The attachment row, the snapshot of the live view and the attached event.
AttachRecord(a) ==
  /\ Step(a, "a_record", IF taken[a] # NoTimer THEN "a_reactivate" ELSE "a_register")
  /\ attRow' = [attRow EXCEPT ![a] = "open"]
  /\ view' = IF entry = "live" THEN view \cup {a} ELSE view
  /\ UNCHANGED << row, closedEvents, detachedEvents, entry, detach_close,
                  attachments, taken, why, pty, env >>

AttachReactivate(a) ==
  /\ Step(a, "a_reactivate", "a_register")
  /\ row' = "active"
  /\ UNCHANGED << closedEvents, attRow, detachedEvents, memory, pty, env >>

\* attach_session fails; at a_record the attachment's row may stay behind.
AttachFails(a) ==
  /\ pc[a] \in {"a_read", "a_record", "a_reactivate"}
  /\ Fault(a)
  /\ pc' = [pc EXCEPT ![a] = "done"]
  /\ \/ UNCHANGED attRow
     \/ pc[a] = "a_record" /\ attRow' = [attRow EXCEPT ![a] = "open"]
  /\ UNCHANGED << row, closedEvents, detachedEvents, memory, pty >>

AttachRegister(a) ==
  /\ Step(a, "a_register", "open")
  /\ attachments' = attachments \cup {a}
  /\ UNCHANGED << db, entry, detach_close, taken, view, why, pty, env >>

\* The acknowledgement cannot be sent: detach_session alone is called.
AckLost(a) ==
  /\ Fault(a)
  /\ Step(a, "a_register", "d_read")
  /\ attachments' = attachments \cup {a}
  /\ why' = [why EXCEPT ![a] = "ack"]
  /\ UNCHANGED << db, entry, detach_close, taken, view, pty >>

-----------------------------------------------------------------------------
(***************************************************************************)
(* The client leaves: a Detach frame, or a dropped socket's cleanup tail.  *)
(***************************************************************************)
Leave(a, reason) ==
  /\ Step(a, "open", "d_read")
  /\ why' = [why EXCEPT ![a] = reason]
  /\ UNCHANGED << db, entry, detach_close, attachments, taken, view, pty, env >>

DetachFrame(a) == Leave(a, "frame")
SocketDrop(a)  == Leave(a, "tail")

DetachRead(a) ==
  /\ Step(a, "d_read", IF attRow[a] = "detached" THEN "d_stale" ELSE "d_mark")
  /\ UNCHANGED << db, memory, pty, env >>

\* mutant of DetachStale: the event is written although the row has it
DetachStaleWrites(a) ==
  /\ Step(a, "d_stale", "done")
  /\ attachments' = attachments \ {a}
  /\ detachedEvents' = [detachedEvents EXCEPT ![a] = @ + 1]
  /\ UNCHANGED << row, closedEvents, attRow, entry, detach_close, taken, view, why, pty, env >>

\* already_detached: the attachment is forgotten and no close is scheduled.
DetachStale(a) ==
  /\ Step(a, "d_stale", "done")
  /\ attachments' = attachments \ {a}
  /\ why' = [why EXCEPT ![a] = "stale"]
  /\ UNCHANGED << db, entry, detach_close, taken, view, pty, env >>

DetachMark(a) ==
  /\ Step(a, "d_mark", "d_event")
  /\ attRow' = [attRow EXCEPT ![a] = "detached"]
  /\ UNCHANGED << row, closedEvents, detachedEvents, memory, pty, env >>

DetachEvent(a) ==
  /\ Step(a, "d_event", "d_remove")
  /\ detachedEvents' = [detachedEvents EXCEPT ![a] = @ + 1]
  /\ UNCHANGED << row, closedEvents, attRow, memory, pty, env >>

DetachRemove(a) ==
  /\ Step(a, "d_remove", IF why[a] = "ack" THEN "done" ELSE "d_decide")
  /\ attachments' = attachments \ {a}
  /\ UNCHANGED << db, entry, detach_close, taken, view, why, pty, env >>

\* A Detach frame that failed is answered with an error and the socket
\* stays; the tail's and the lost acknowledgement's errors are dropped.
DetachFails(a) ==
  /\ pc[a] \in {"d_read", "d_mark", "d_event", "d_remove"}
  /\ Fault(a)
  /\ pc' = [pc EXCEPT ![a] = IF why[a] = "frame" THEN "open" ELSE "done"]
  /\ UNCHANGED << db, memory, pty >>

\* mutant of DetachDecide: a dropped socket schedules nothing
DetachDecideFrameOnly(a) ==
  /\ Step(a, "d_decide",
          IF attachments = {} /\ entry = "live" /\ why[a] = "frame" THEN "d_row" ELSE "done")
  /\ UNCHANGED << db, memory, pty, env >>

DetachDecide(a) ==
  /\ Step(a, "d_decide", IF attachments = {} /\ entry = "live" THEN "d_row" ELSE "done")
  /\ UNCHANGED << db, memory, pty, env >>

ScheduleMark(a) ==
  /\ Step(a, "d_row", "d_install")
  /\ row' = "detached"
  /\ UNCHANGED << closedEvents, attRow, detachedEvents, memory, pty, env >>

\* The failed write is logged and the timer is installed all the same.
ScheduleMarkFails(a) ==
  /\ Fault(a)
  /\ Step(a, "d_row", "d_install")
  /\ UNCHANGED << db, memory, pty >>

\* mutant of ScheduleInstall: an existing timer is replaced, not kept
ScheduleInstallReplaces(a) ==
  \/ /\ entry # "live"
     /\ Step(a, "d_install", "done")
     /\ UNCHANGED << db, memory, pty, env >>
  \/ /\ entry = "live"
     /\ pc[a] = "d_install"
     /\ \E t \in Timers :
          /\ pc[t] = "idle"
          /\ pc' = [pc EXCEPT ![a] = "done", ![t] = "sleep"]
          /\ detach_close' = t
     /\ UNCHANGED << db, entry, attachments, taken, view, why, pty, env >>

\* The task is spawned and installed; it is aborted at once if the runtime
\* vanished or a close is already pending.
ScheduleInstall(a) ==
  \/ /\ entry # "live" \/ detach_close # NoTimer
     /\ Step(a, "d_install", "done")
     /\ UNCHANGED << db, memory, pty, env >>
  \/ /\ entry = "live" /\ detach_close = NoTimer
     /\ pc[a] = "d_install"
     /\ \E t \in Timers :
          /\ pc[t] = "idle"
          /\ pc' = [pc EXCEPT ![a] = "done", ![t] = "sleep"]
          /\ detach_close' = t
     /\ UNCHANGED << db, entry, attachments, taken, view, why, pty, env >>

-----------------------------------------------------------------------------
(***************************************************************************)
(* close_session, run by a request, by a client's Close frame or by an     *)
(* expired TTL task.                                                       *)
(***************************************************************************)
CloseRequest(k) ==
  /\ row # "none"
  /\ Step(k, "idle", "c_read")
  /\ UNCHANGED << db, memory, pty, env >>

CloseFrame(a) ==
  /\ Step(a, "open", "c_read")
  /\ UNCHANGED << db, memory, pty, env >>

\* expire_detach_close: go on only if a close is still pending.
Expire(t) ==
  /\ Step(t, "sleep", IF entry = "live" /\ detach_close # NoTimer THEN "c_read" ELSE "done")
  /\ UNCHANGED << db, memory, pty, env >>

CloseRead(p) ==
  /\ Step(p, "c_read", IF row = "closed" THEN "c_stale" ELSE "c_mark")
  /\ UNCHANGED << db, memory, pty, env >>

CloseMark(p) ==
  /\ Step(p, "c_mark", "c_event")
  /\ row' = "closed"
  /\ UNCHANGED << closedEvents, attRow, detachedEvents, memory, pty, env >>

CloseEvent(p) ==
  /\ Step(p, "c_event", "c_remove")
  /\ closedEvents' = closedEvents + 1
  /\ UNCHANGED << row, attRow, detachedEvents, memory, pty, env >>

\* mutant of CloseRemove: the entry is looked up, not removed
CloseRemoveKeeps(p) ==
  /\ Step(p, "c_remove", IF entry = "live" THEN "c_handle" ELSE "closed")
  /\ attachments' = IF entry = "live" THEN attachments ELSE {}
  /\ UNCHANGED << db, entry, detach_close, taken, view, why, pty, env >>

\* Take the entry out of the registry.  Without a live PTY nothing is shut
\* down, and the session's attachments are forgotten at once.
CloseRemove(p) ==
  /\ Step(p, "c_remove", IF entry = "live" THEN "c_handle" ELSE "closed")
  /\ entry' = "none"
  /\ attachments' = IF entry = "live" THEN attachments ELSE {}
  /\ UNCHANGED << db, detach_close, taken, view, why, pty, env >>

\* The row was closed already: take out what a partial close left behind.
CloseStale(p) ==
  /\ Step(p, "c_stale", IF entry = "live" THEN "c_stale_handle" ELSE "closed")
  /\ entry' = "none"
  /\ UNCHANGED << db, detach_close, attachments, taken, view, why, pty, env >>

\* shutdown_runtime: close the handle ...
CloseHandle(p) ==
  /\ \/ Step(p, "c_handle", "c_await")
     \/ Step(p, "c_stale_handle", "c_stale_await")
  /\ pty' = "gone"
  /\ UNCHANGED << db, memory, env >>

\* ... wait up to 500 ms for the forwarder, which then runs on by itself,
\* and drop the runtime, whose Drop aborts a pending TTL task.
CloseFinish(p) ==
  /\ pc[p] \in {"c_await", "c_stale_await"}
  /\ pc' = [q \in Procs |-> IF q = p THEN "closed"
                            ELSE IF q = detach_close THEN "done" ELSE pc[q]]
  /\ detach_close' = NoTimer
  /\ attachments' = IF pc[p] = "c_await" THEN {} ELSE attachments
  /\ UNCHANGED << db, entry, taken, view, why, pty, env >>

\* A request answers 5xx, a TTL task logs, a socket reports and stays open.
\* At c_remove it is the re-read of the row that fails.
CloseFails(p) ==
  /\ pc[p] \in {"c_read", "c_mark", "c_event", "c_remove"}
  /\ Fault(p)
  /\ pc' = [pc EXCEPT ![p] = IF p \in Sockets THEN "open" ELSE "done"]
  /\ UNCHANGED << db, memory, pty >>

-----------------------------------------------------------------------------
(***************************************************************************)
(* The backend dies and starts again: every task and all memory is gone,   *)
(* and reconcile_orphaned_on_startup closes the row it finds open before   *)
(* any request is served.                                                  *)
(***************************************************************************)
\* mutant of Restart: the sweep forgets detached rows
RestartSkipsDetached ==
  /\ crashes < MaxCrashes
  /\ crashes' = crashes + 1
  /\ pc' = [p \in Procs |-> IF pc[p] = "idle" THEN "idle" ELSE "dead"]
  /\ entry' = "none"
  /\ detach_close' = NoTimer
  /\ attachments' = {}
  /\ pty' = IF pty = "open" THEN "gone" ELSE pty
  /\ row' = IF row \in {"starting", "active"} THEN "closed" ELSE row
  /\ closedEvents' = IF row \in {"starting", "active"} THEN closedEvents + 1 ELSE closedEvents
  /\ UNCHANGED << attRow, detachedEvents, taken, view, why, faults >>

Restart ==
  /\ crashes < MaxCrashes
  /\ crashes' = crashes + 1
  /\ pc' = [p \in Procs |-> IF pc[p] = "idle" THEN "idle" ELSE "dead"]
  /\ entry' = "none"
  /\ detach_close' = NoTimer
  /\ attachments' = {}
  /\ pty' = IF pty = "open" THEN "gone" ELSE pty
  /\ LET orphaned == row \in {"starting", "active", "detached"} IN
       /\ row' = IF orphaned THEN "closed" ELSE row
       /\ closedEvents' = IF orphaned THEN closedEvents + 1 ELSE closedEvents
  /\ UNCHANGED << attRow, detachedEvents, taken, view, why, faults >>

-----------------------------------------------------------------------------
CreateStep ==
  \/ CreateRow \/ CreateEvent \/ CreateRegister
  \/ BridgeStarted \/ BridgeFailed
  \/ StartRead \/ StartSpawn \/ StartMark \/ StartInstall
  \/ RecordEntry \/ RecordRead \/ RecordMark \/ RecordEvent \/ RecordDrop

ForwarderStep == ForwarderEnds \/ ForwarderRead \/ ForwarderMark \/ ForwarderEvent

AttachStep(a) ==
  \/ AttachRead(a) \/ AttachTake(a) \/ AttachAbort(a)
  \/ AttachRecord(a) \/ AttachReactivate(a) \/ AttachRegister(a)

DetachStep(a) ==
  \/ DetachRead(a) \/ DetachStale(a) \/ DetachMark(a) \/ DetachEvent(a)
  \/ DetachRemove(a) \/ DetachDecide(a) \/ ScheduleMark(a) \/ ScheduleInstall(a)

CloseStep(p) ==
  \/ CloseRead(p) \/ CloseMark(p) \/ CloseEvent(p) \/ CloseRemove(p)
  \/ CloseStale(p) \/ CloseHandle(p) \/ CloseFinish(p)

\* What clients and the remote host may do, and need not.
ClientStep ==
  \/ Create
  \/ RemoteExit
  \/ \E a \in Sockets : Upgrade(a) \/ DetachFrame(a) \/ SocketDrop(a) \/ CloseFrame(a)
  \/ \E k \in Requests : CloseRequest(k)

FailStep ==
  \/ CreateFails \/ StartFails \/ RecordFails \/ ForwarderFails
  \/ \E a \in Sockets : AttachFails(a) \/ AckLost(a) \/ DetachFails(a) \/ ScheduleMarkFails(a)
  \/ \E p \in Closers : CloseFails(p)
  \/ Restart

Quiet == \A p \in Procs : pc[p] \in {"idle", "open", "done", "closed", "dead", "run"}

\* Nothing is left to do but for clients that never come.
Idle == Quiet /\ UNCHANGED vars

Next ==
  \/ CreateStep
  \/ ForwarderStep
  \/ \E a \in Sockets : AttachStep(a) \/ DetachStep(a)
  \/ \E t \in Timers : Expire(t)
  \/ \E p \in Closers : CloseStep(p)
  \/ ClientStep
  \/ FailStep
  \/ Idle

Spec == Init /\ [][Next]_vars

(***************************************************************************)
(* Every task of the backend that can go on does; clients, the remote      *)
(* host and failures are under no obligation.                              *)
(***************************************************************************)
Fairness ==
  /\ WF_vars(CreateStep)
  /\ WF_vars(ForwarderStep)
  /\ \A a \in Sockets : WF_vars(AttachStep(a)) /\ WF_vars(DetachStep(a))
  /\ \A t \in Timers : WF_vars(Expire(t))
  /\ \A p \in Closers : WF_vars(CloseStep(p))

FairSpec == Spec /\ Fairness

-----------------------------------------------------------------------------
(***************************************************************************)
(* Safety.                                                                 *)
(***************************************************************************)
Holding == {"s_read", "s_spawn", "s_mark", "s_install"}
ShuttingDown == {"c_handle", "c_stale_handle"}

\* An open PTY always has an owner that will close it: the create request
\* that is starting it, the registry's entry, or the task that took the
\* entry out and is about to close the handle.  start_live_pty, close_session
\* and record_pty_start_failed race over the entry without a common lock.
PtyOwned ==
  pty = "open" =>
    \/ pc[Creator] \in Holding
    \/ entry = "live"
    \/ \E p \in Closers : pc[p] \in ShuttingDown

\* Once any close_session has answered Ok, the session has no live runtime
\* and will not get one: a start that was under way finds the row closed or
\* the entry gone and tears its PTY down.
CloseIsFinal ==
  (\E p \in Closers : pc[p] = "closed") => entry # "live"

\* No TTL task sleeps unaccounted for: one that may still fire is installed
\* on the live runtime, or a reattach has taken it and is about to abort it.
\* schedule_detach_close, cancel_pending_close and LiveRuntime::drop each
\* handle the task's JoinHandle.
TimersTracked ==
  \A t \in Timers :
    pc[t] = "sleep" =>
      \/ detach_close = t
      \/ \E a \in Sockets : pc[a] = "a_abort" /\ taken[a] = t

\* One detached event per attachment, whatever Detach frames, socket drops
\* and retries after database errors come together (detach_session).
DetachedOnce == \A a \in Sockets : detachedEvents[a] <= 1

\* A session the backend was restarted under is over for good: its row is
\* closed, and no later request or socket brings the row, the runtime or the
\* PTY back (reconcile_orphaned_on_startup runs before anything is served).
RestartEndsSession ==
  pc[Creator] = "dead" =>
    row \in {"none", "closed"} /\ entry = "none" /\ pty # "open"

-----------------------------------------------------------------------------
(***************************************************************************)
(* Why these hold: the inductive invariant.                                *)
(***************************************************************************)
InShutdown == ShuttingDown \cup {"c_await", "c_stale_await"}

\* There is one live runtime at most, in the registry or in the hands of the
\* one task that removed it, and the create request is over by then.
RuntimeInv ==
  /\ entry = "live" => pc[Creator] = "done"
  /\ \A p \in Closers : pc[p] \in InShutdown => pc[Creator] = "done" /\ entry = "none"
  /\ \A p, q \in Closers : pc[p] \in InShutdown /\ pc[q] \in InShutdown => p = q

\* A TTL task is only ever scheduled and taken once the start is over.
TimerInv ==
  /\ detach_close # NoTimer => pc[Creator] = "done"
  /\ \A a \in Sockets :
       /\ taken[a] # NoTimer => pc[Creator] \in {"done", "dead"}
       /\ pc[a] \in {"a_abort", "a_reactivate"} => taken[a] # NoTimer
       /\ pc[a] \in {"d_row", "d_install"} => pc[Creator] = "done"

\* An attachment's row tells whether its detached event may still be written.
DetachInv ==
  \A a \in Sockets :
    /\ detachedEvents[a] <= 1
    /\ attRow[a] # "detached" => detachedEvents[a] = 0
    /\ pc[a] \in {"idle", "a_read", "a_take", "a_abort", "a_record"} => attRow[a] = "none"
    /\ pc[a] = "d_mark" => attRow[a] # "detached"
    /\ pc[a] = "d_event" => detachedEvents[a] = 0 /\ attRow[a] = "detached"

\* A close that is past its status write is seen by a start that has not read
\* the row yet; one that has answered is seen by every start, in the row or
\* in the registry.
CloseInv ==
  /\ pc[Creator] \in {"idle", "n_row"} =>
       /\ row = "none"
       /\ pc[Forwarder] = "idle"
       /\ \A p \in Closers : pc[p] = "idle"
  /\ \A p \in Closers :
       /\ /\ pc[p] \in {"c_event", "c_remove", "c_stale", "closed"}
          /\ pc[Creator] \in {"n_event", "n_register", "b_start", "s_read"}
          => row = "closed"
       /\ pc[p] = "closed" /\ pc[Creator] \in {"s_spawn", "s_mark", "s_install"}
          => entry = "none"
       /\ pc[p] = "closed" => entry # "live"

\* After a restart only late close requests move, and find the row closed.
RestartInv ==
  pc[Creator] = "dead" =>
    /\ row \in {"none", "closed"}
    /\ entry = "none"
    /\ pty # "open"
    /\ pc[Forwarder] \in {"idle", "dead"}
    /\ \A p \in Sockets \cup Timers : pc[p] \in {"idle", "done", "dead"}
    /\ \A k \in Requests :
         \/ pc[k] \in {"idle", "done", "dead"}
         \/ pc[k] \in {"c_read", "c_stale", "closed"} /\ row = "closed"

SessionInv ==
  /\ TypeOK
  /\ RuntimeInv
  /\ PtyOwned
  /\ TimerInv
  /\ TimersTracked
  /\ DetachInv
  /\ CloseInv
  /\ RestartInv

-----------------------------------------------------------------------------
(***************************************************************************)
(* Liveness.                                                               *)
(***************************************************************************)
Attaching == {"a_read", "a_take", "a_abort", "a_record", "a_reactivate", "a_register", "open"}
Gone(a) == pc[a] \in {"idle", "done", "closed", "dead"}

\* The ways a session can be left without a close to come: the attach of a
\* socket failed after it had cancelled one, its acknowledgement was lost, its
\* detach failed or was the retry of one that failed half way, or close_session
\* failed in the TTL task.
Stranded ==
  \/ \E a \in Sockets :
       /\ pc[a] = "done"
       /\ \/ why[a] \in {"ack", "stale"}
          \/ why[a] = "none" /\ taken[a] # NoTimer
          \/ a \in attachments
  \/ \E t \in Timers : detach_close = t /\ pc[t] = "done"

\* A live session whose last client, one that had the live PTY, has left is
\* reaped within its TTL window or attached again, unless one of these I/O
\* errors stranded it; and a detach that finds no other attachment has it
\* reaped whatever failed before, unless the TTL task's own close fails
\* (detach_attachment, schedule_detach_close, expire_detach_close).
ReapedAfterLastClient ==
  /\ (entry = "live" /\ (\A a \in Sockets : Gone(a)) /\ (\E a \in view : Gone(a)))
       ~> (entry # "live" \/ Stranded \/ \E a \in Sockets : ~Gone(a))
  /\ (entry = "live" /\ attachments = {} /\ \E a \in Sockets : pc[a] = "d_decide")
       ~> \/ entry # "live"
          \/ \E a \in Sockets : pc[a] \in Attaching
          \/ \E t \in Timers : detach_close = t /\ pc[t] = "done"

-----------------------------------------------------------------------------
(***************************************************************************)
(* What the documentation says and the code does not do.                   *)
(***************************************************************************)
\* docs/spec/terminal.md: every detach goes through detach_attachment, and
\* the last one of a live PTY schedules a TTL close.
LastDetachSchedulesClose ==
  Quiet /\ entry = "live" /\ (\A a \in Sockets : Gone(a)) => view = {}

\* terminal_session.rs lists the status's transitions; none leaves Closed.
ClosedStaysClosed == [][row = "closed" => row' = "closed"]_row

\* docs/spec/terminal.md: the TTL task re-checks that no reattach happened
\* before it calls close_session.
NoCloseUnderClient ==
  \A t \in Timers, a \in Sockets :
    ~ (pc[t] = "c_mark" /\ pc[a] = "open" /\ a \in attachments)

\* run_attached_socket: the loop ends when "the live PTY tears down".
TeardownEndsSocket ==
  \A a \in Sockets : (a \in view /\ pc[a] = "open" /\ pty = "gone") ~> pc[a] # "open"
=============================================================================
