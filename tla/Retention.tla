----------------------------- MODULE Retention ------------------------------
(***************************************************************************)
(* Recording retention: the start-up sweep of main.rs and the periodic     *)
(* worker of retention_worker.rs, on several instances that share one      *)
(* database, run retention.rs' sweep, which purges recordings with         *)
(* purge_for_retention (relayterm-db terminal_recording.rs).               *)
(*                                                                         *)
(* While a sweep works through its list, sessions are closed, revived by a *)
(* late set_status and closed again, a recording writer still flushes, the *)
(* other instance sweeps too, statements fail and instances crash.  A day  *)
(* is one unit of time.                                                    *)
(***************************************************************************)
EXTENDS Naturals, FiniteSets, Sequences, SequencesExt

CONSTANTS
  Sessions, Instances, None,
  RetentionDays, BatchSize,
  MaxTime, MaxFaults,           \* bounds of the model ...
  MaxRows                       \* ... and of all rows written

ASSUME RetentionAssumption ==
  /\ RetentionDays \in Nat \ {0} /\ BatchSize \in Nat \ {0}   \* config.rs
  /\ {MaxTime, MaxRows, MaxFaults} \subseteq Nat
  /\ None \notin Instances \cup Nat \cup {"startup", "periodic"}
  /\ IsFiniteSet(Sessions)

VARIABLES
  now,
  closed_at,  \* of terminal_sessions; None while the session is open
  rows,       \* chunk and marker rows of a session
  written,    \* rows ever inserted for it
  row_lock,   \* the instance whose transaction holds the session row FOR UPDATE
  advisory,   \* the holder of the advisory lock
  sweep,      \* per instance
  purged,     \* rows the recording_purged audit events of a session add up to
  faults

vars == << now, closed_at, rows, written, row_lock, advisory, sweep, purged, faults >>

Times == 0 .. MaxTime
Sweeps == [pc : {"boot", "idle", "list", "lock", "count", "commit", "unlock"},
           cadence : {"startup", "periodic", None}, now : Times, todo : Seq(Sessions),
           count : Nat, stacked : BOOLEAN]
NoSweep == [pc |-> "idle", cadence |-> None, now |-> 0, todo |-> << >>, count |-> 0,
            stacked |-> FALSE]

TypeOK ==
  /\ now \in Times
  /\ closed_at \in [Sessions -> Times \cup {None}]
  /\ rows \in [Sessions -> Nat] /\ written \in [Sessions -> Nat]
  /\ row_lock \in [Sessions -> Instances \cup {None}]
  /\ advisory \in Instances \cup {None}
  /\ sweep \in [Instances -> Sweeps]
  /\ \A i \in Instances : Len(sweep[i].todo) <= BatchSize
  /\ purged \in [Sessions -> Nat]
  /\ faults \in 0 .. MaxFaults

Init ==
  /\ now = 0
  /\ closed_at = [s \in Sessions |-> None]
  /\ rows = [s \in Sessions |-> 0] /\ written = [s \in Sessions |-> 0]
  /\ row_lock = [s \in Sessions |-> None]
  /\ advisory = None
  /\ sweep = [i \in Instances |-> [NoSweep EXCEPT !.pc = "boot"]]
  /\ purged = [s \in Sessions |-> 0]
  /\ faults = 0

db == << closed_at, rows, written, row_lock, purged >>

-----------------------------------------------------------------------------
(* The sweep *)

\* closed_at IS NOT NULL AND closed_at + retention_days <= $now
Expired(s, t) == closed_at[s] # None /\ closed_at[s] + RetentionDays <= t

\* list_eligible_for_retention: any order of equal closed_at may come back.
Listings(t) ==
  LET eligible == {s \in Sessions : Expired(s, t) /\ rows[s] > 0}
      oldestFirst(l) == \A j, k \in 1 .. Len(l) : j < k => closed_at[l[j]] <= closed_at[l[k]]
  IN  {SubSeq(l, 1, IF Len(l) < BatchSize THEN Len(l) ELSE BatchSize) :
         l \in {q \in SetToSeqs(eligible) : oldestFirst(q)}}

\* The start-up sweep takes no advisory lock.
StartupSweep(i) ==
  /\ sweep[i].pc = "boot"
  /\ sweep' = [sweep EXCEPT ![i] = [NoSweep EXCEPT !.pc = "list", !.cadence = "startup", !.now = now]]
  /\ UNCHANGED << now, db, advisory, faults >>

\* mutant of PeriodicTick: the lock's answer is not looked at
PeriodicTickAnyway(i) ==
  /\ sweep[i].pc = "idle"
  /\ advisory' = i
  /\ sweep' = [sweep EXCEPT ![i] = [NoSweep EXCEPT !.pc = "list", !.cadence = "periodic", !.now = now]]
  /\ UNCHANGED << now, db, faults >>

\* run_one_periodic_tick: pg_try_advisory_lock, or the tick is skipped.  The
\* lock belongs to a connection and stacks: an instance that failed to unlock
\* gets it again when its pool hands out the same connection.
PeriodicTick(i) ==
  /\ sweep[i].pc = "idle"
  /\ advisory \in {None, i}
  /\ advisory' = i
  /\ sweep' = [sweep EXCEPT ![i] = [NoSweep EXCEPT !.pc = "list", !.cadence = "periodic",
                                                  !.now = now, !.stacked = advisory = i]]
  /\ UNCHANGED << now, db, faults >>

Current(i) == Head(sweep[i].todo)

\* The end of run_recording_retention_sweep.
Finished(i) == IF sweep[i].cadence = "periodic" THEN [sweep[i] EXCEPT !.pc = "unlock", !.todo = << >>, !.count = 0]
                                                ELSE NoSweep
NextCandidate(i) ==
  sweep' = [sweep EXCEPT ![i] =
    IF Len(sweep[i].todo) <= 1 THEN Finished(i)
    ELSE [sweep[i] EXCEPT !.pc = "lock", !.todo = Tail(sweep[i].todo), !.count = 0]]

List(i) ==
  /\ sweep[i].pc = "list"
  /\ \E l \in Listings(sweep[i].now) :
       sweep' = [sweep EXCEPT ![i] = IF l = << >> THEN Finished(i)
                                     ELSE [@ EXCEPT !.pc = "lock", !.todo = l]]
  /\ UNCHANGED << now, db, advisory, faults >>

\* mutant of PurgeLock: the eligibility is not checked again
PurgeLockTrusting(i) ==
  /\ sweep[i].pc = "lock"
  /\ row_lock[Current(i)] = None
  /\ row_lock' = [row_lock EXCEPT ![Current(i)] = i]
  /\ sweep' = [sweep EXCEPT ![i].pc = "count"]
  /\ UNCHANGED << now, closed_at, rows, written, purged, advisory, faults >>

\* SELECT closed_at ... FOR UPDATE: the eligibility is checked again.
PurgeLock(i) ==
  /\ sweep[i].pc = "lock"
  /\ row_lock[Current(i)] = None
  /\ IF Expired(Current(i), sweep[i].now)
       THEN /\ row_lock' = [row_lock EXCEPT ![Current(i)] = i]
            /\ sweep' = [sweep EXCEPT ![i].pc = "count"]
       ELSE NextCandidate(i) /\ UNCHANGED row_lock
  /\ UNCHANGED << now, closed_at, rows, written, purged, advisory, faults >>

\* The two COUNTs; without rows the transaction is dropped.
PurgeCount(i) ==
  /\ sweep[i].pc = "count"
  /\ IF rows[Current(i)] = 0
       THEN NextCandidate(i) /\ row_lock' = [row_lock EXCEPT ![Current(i)] = None]
       ELSE sweep' = [sweep EXCEPT ![i].pc = "commit", ![i].count = rows[Current(i)]]
            /\ UNCHANGED row_lock
  /\ UNCHANGED << now, closed_at, rows, written, purged, advisory, faults >>

\* The deletes, the audit insert and the commit.
PurgeCommit(i) ==
  LET s == Current(i) IN
  /\ sweep[i].pc = "commit"
  /\ rows' = [rows EXCEPT ![s] = 0]
  /\ purged' = [purged EXCEPT ![s] = @ + sweep[i].count]
  /\ row_lock' = [row_lock EXCEPT ![s] = None]
  /\ NextCandidate(i)
  /\ UNCHANGED << now, closed_at, written, advisory, faults >>

Unlocked(i) == [s \in Sessions |-> IF row_lock[s] = i THEN None ELSE row_lock[s]]

\* mutant of SweepFails: the transaction is left open
SweepFailsOpen(i) ==
  /\ sweep[i].pc \in {"list", "lock", "count", "commit"} /\ faults < MaxFaults
  /\ faults' = faults + 1
  /\ sweep' = [sweep EXCEPT ![i] = Finished(i)]
  /\ UNCHANGED << now, db, advisory >>

\* A statement of the sweep fails: the transaction is rolled back and the
\* sweep stops at its first error.
SweepFails(i) ==
  /\ sweep[i].pc \in {"list", "lock", "count", "commit"} /\ faults < MaxFaults
  /\ faults' = faults + 1
  /\ row_lock' = Unlocked(i)
  /\ sweep' = [sweep EXCEPT ![i] = Finished(i)]
  /\ UNCHANGED << now, closed_at, rows, written, purged, advisory >>

\* pg_advisory_unlock takes one lock off the connection.
Unlock(i) ==
  /\ sweep[i].pc = "unlock"
  /\ advisory' = IF sweep[i].stacked THEN i ELSE None
  /\ sweep' = [sweep EXCEPT ![i] = NoSweep]
  /\ UNCHANGED << now, db, faults >>

\* The unlock fails: the tick is a LockError and the lock stays with the
\* connection, back in the pool, until that is closed.
UnlockFails(i) ==
  /\ sweep[i].pc = "unlock" /\ faults < MaxFaults
  /\ faults' = faults + 1
  /\ sweep' = [sweep EXCEPT ![i] = NoSweep]
  /\ UNCHANGED << now, db, advisory >>

ConnectionCloses ==
  /\ advisory # None /\ sweep[advisory].pc \in {"boot", "idle"}
  /\ advisory' = None
  /\ UNCHANGED << now, db, sweep, faults >>

\* The process dies: its connections close, with their locks.
Crash(i) ==
  /\ faults < MaxFaults
  /\ faults' = faults + 1
  /\ row_lock' = Unlocked(i)
  /\ advisory' = IF advisory = i THEN None ELSE advisory
  /\ sweep' = [sweep EXCEPT ![i] = [NoSweep EXCEPT !.pc = "boot"]]
  /\ UNCHANGED << now, closed_at, rows, written, purged >>

-----------------------------------------------------------------------------
(* The sessions, between the sweep's statements *)

Tick ==
  /\ now < MaxTime
  /\ now' = now + 1
  /\ UNCHANGED << db, advisory, sweep, faults >>

\* set_status: an UPDATE of the session row, so it waits for the row's lock.
\* A revived session has closed_at NULL again.
SetStatus(s, at) ==
  /\ row_lock[s] = None
  /\ closed_at' = [closed_at EXCEPT ![s] = at]
  /\ UNCHANGED << now, rows, written, row_lock, purged, advisory, sweep, faults >>

TotalWritten == FoldFunction(+, 0, written)

\* mutant of AppendRow: the purge's lock does not hold back the foreign key check
AppendRowUnblocked(s) ==
  /\ TotalWritten < MaxRows
  /\ rows' = [rows EXCEPT ![s] = @ + 1]
  /\ written' = [written EXCEPT ![s] = @ + 1]
  /\ UNCHANGED << now, closed_at, row_lock, purged, advisory, sweep, faults >>

\* append_chunk or append_marker: the foreign key takes a share lock on the
\* session row, which waits for FOR UPDATE too.  The writer may be late.
AppendRow(s) ==
  /\ row_lock[s] = None /\ TotalWritten < MaxRows
  /\ rows' = [rows EXCEPT ![s] = @ + 1]
  /\ written' = [written EXCEPT ![s] = @ + 1]
  /\ UNCHANGED << now, closed_at, row_lock, purged, advisory, sweep, faults >>

Step(i) ==
  \/ StartupSweep(i) \/ PeriodicTick(i) \/ List(i) \/ PurgeLock(i) \/ PurgeCount(i)
  \/ PurgeCommit(i) \/ Unlock(i)

Next ==
  \/ \E i \in Instances : Step(i) \/ SweepFails(i) \/ UnlockFails(i) \/ Crash(i)
  \/ ConnectionCloses \/ Tick
  \/ \E s \in Sessions : AppendRow(s) \/ SetStatus(s, None) \/ SetStatus(s, now)

\* The worker's timer fires for ever, its sweeps run to their end, row locks
\* are granted, and the pool closes a connection it no longer trusts.
Fairness ==
  /\ \A i \in Instances : WF_vars(StartupSweep(i) \/ List(i) \/ PurgeCount(i) \/ PurgeCommit(i) \/ Unlock(i))
                       /\ SF_vars(PurgeLock(i)) /\ SF_vars(PeriodicTick(i))
  /\ WF_vars(ConnectionCloses)

Spec == Init /\ [][Next]_vars /\ Fairness

-----------------------------------------------------------------------------
(* Properties *)

\* A purge's audit event counts exactly the rows it deleted: no chunk that a
\* late writer adds while the purge counts is deleted uncounted, and two
\* sweeps of one session never both claim its rows.
PurgeAuditExact == \A s \in Sessions : purged[s] + rows[s] = written[s]

\* A recording is deleted only while its session is closed and past retention,
\* even when it was revived or closed anew after the sweep listed it.
OnlyExpiredPurged ==
  [][\A s \in Sessions : rows'[s] < rows[s] => Expired(s, now)]_vars

\* Two instances never run a periodic sweep at the same time.
OnePeriodicSweep ==
  Cardinality({i \in Instances : sweep[i].cadence = "periodic" /\ sweep[i].pc # "idle"}) <= 1

\* What a sweep has checked under its locks still holds when it acts on it.
SweepHolds(i) ==
  /\ sweep[i].now <= now
  /\ sweep[i].pc = "boot" => sweep[i].cadence = None
  /\ sweep[i].pc = "unlock" => sweep[i].cadence = "periodic"
  /\ sweep[i].cadence = "periodic" /\ sweep[i].pc # "idle" => advisory = i
  /\ sweep[i].pc \in {"lock", "count", "commit"} => sweep[i].todo # << >>
  /\ sweep[i].pc \in {"count", "commit"} =>
       row_lock[Current(i)] = i /\ Expired(Current(i), sweep[i].now)
  /\ sweep[i].pc = "commit" => sweep[i].count = rows[Current(i)]

\* The advisory lock keeps periodic sweeps of all instances apart, and the row
\* lock keeps what a purge has checked and counted true until its commit,
\* through failed unlocks, failing statements and crashes
\* (run_one_periodic_tick, purge_for_retention).
RetentionInv == TypeOK /\ OnePeriodicSweep /\ \A i \in Instances : SweepHolds(i)

\* Where the periodic worker is enabled, which it is not by default, a recording
\* that is past retention is purged, unless its session is revived, whatever finite
\* number of sweeps fail (retention_worker.rs' loop, retention.rs' sweep).
EventuallyPurged ==
  \A s \in Sessions : (Expired(s, now) /\ rows[s] > 0) ~> (rows[s] = 0 \/ ~Expired(s, now))
=============================================================================
