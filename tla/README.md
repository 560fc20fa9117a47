# RelayTerm: a TLA+ model

RelayTerm keeps SSH terminals alive on a backend while browsers and desktop
clients come and go. This directory models its backend, with the clients that
talk to it: the session lifecycle, the output stream and its replay, the
durable recording, login, host key trust, the inventory, quotas, retention,
configuration and the wire. TLC checks the models on small instances; TLAPS
proves every safety property the runs check, for every size.

Paths below are relative to the repository's root, which is `src/` here.
`T` is `crates/relayterm-terminal/src`, `RT` is
`crates/relayterm-api/src/routes/v1/terminal_sessions.rs`, `V1` its directory.

## The system

| Component | State it keeps | Operations | Talks to | Module |
|---|---|---|---|---|
| Session manager `T/manager.rs` | registry of `RuntimeEntry` (starting / live, TTL task), registry of attachments, rows and events | create, start, attach, detach, TTL expiry, close, resize, input | repositories, SSH bridge, recording writer | SessionManager, Socket |
| Session routes `RT` | one task per WebSocket (attachment, floor, flags) | create, close, `ws_attach` and its `select!` loop | manager, broadcast channel | SessionManager, OutputStream, Socket |
| Replay ring `T/replay.rs` | frames, byte count, latest seq | push, `replay_since` | forwarder, sockets | ReplayBuffer |
| Forwarder `forward_pty_output` | the next seq | stamp, push, broadcast, tee, close the row | ring, broadcast, recording, DB | OutputStream, SessionManager |
| Recording writer `T/recording.rs` | bounded queue, pending gap, open batch | tee, marker, shutdown, flush | forwarder, manager, DB | RecordingWriter, RecordingLog |
| terminal-core client | `lastSeenSeq`, its state | attach, render, detach, close | the WebSocket | OutputStream |
| Start-up reconciliation | — | close rows a previous process left open | DB | SessionManager, Startup |
| Quotas `RT`, `T/manager.rs` | counts over the registry | gates of create | manager, SSH bridge | SessionQuota |
| Retention `T/retention*.rs`, `terminal_recording.rs` | advisory lock, row locks | sweep, purge, audit | DB | Retention |
| Users, login, sessions `V1/auth.rs`, `relayterm-auth` | users, password hashes, session rows, audit | bootstrap, login, logout, change password, revoke | DB, throttle | Auth |
| Login throttle `relayterm-auth/src/throttle.rs` | attempts per identifier | check, record, clear, prune | login route | LoginThrottle |
| Host key trust `V1/server_profiles.rs`, `relayterm-ssh` | pins, replacement links, permits | preflight, trust, replace, auth check, launch | the SSH server, DB | HostKeys |
| Inventory `V1/hosts.rs`, `ssh_identities.rs`, `server_profiles.rs` | hosts, identities, profiles | create, update, delete, disable, enable | DB, audit | Inventory |
| Request bodies, rows, vault | columns, sealed keys | validate, store, read back, seal, open | DB, master key | Records, ApiErrors |
| Configuration and boot `config.rs`, `main.rs` | settings, boot stage, worker | load, validate, connect, reconcile, sweep, serve, shut down | everything | Config, Startup |
| Replay of recordings `V1/terminal_recordings.rs`, `RecordingReplayView.svelte` | page cursor, load generation | metadata, chunks, markers | DB | RecordingReplay |
| Wire protocol `relayterm-protocol` | — | binary and text frames | sockets | Socket |

`PROJECT.json` lists every component with its status, and every hazard with the
line where it bites.

What is hard here:

- **Interleaving.** No lock is held across an `.await`: every database
  statement is a point where another task or request runs. Nearly every
  operation reads a row, decides, and writes in a later statement.
- **Abortion.** A reattach aborts the TTL task at whichever `.await` it has
  reached, a deadline aborts the recording writer, hyper drops a handler whose
  client went away, a timeout drops an SSH handshake with its permit.
- **Bounded buffers.** The ring evicts, the broadcast channel skips slow
  receivers, the recording queue drops frames, the throttle's table is full;
  each loss must be visible or harmless.
- **Failure.** Every statement can fail, between two writes that belong
  together; the process can die between any two steps.
- **Stale decisions.** Pins are read seconds before the key is checked, quotas
  long before the entry counts, dependents before a delete, a password hash
  before the session row.

## The modules

### ReplayBuffer, OutputStream

`ReplayBuffer` is the ring as operators on a record: `Push` with its eviction
loop and `replay_since`, split into `WindowLost` and `ReplayFrames`. The loop is
the least number of evictions after which the rest may stay. A payload is its
length.

`OutputStream` is the forwarder, one WebSocket task per client and the client:

| Model | Code |
|---|---|
| `PtyOutput`, `Fanout` | the two halves of the forwarder's loop body: into the ring, then into the channel; another task may take the ring's lock in between |
| `Connect` | subscription and `SessionAttached` |
| `AttachWithoutBookmark`, `AttachReplay`, `AttachWindowLost`, `EmitReplay` | the client's `Attach` frame and the three answers |
| `DropReplayed`, `SendLive`, `Lagged` | the broadcast arm of `select!`: below the floor, above it, overtaken by the channel |
| `Render`, `SkipTo` | `#onBinary` and the `replay_window_lost` branch of the client |
| `Drop` | the socket is gone |

`base`, `outputs`, `lagged` and `early` are history: they record what the screen
was given, and guard nothing. A message on an open socket is handed to the
client in the step that sends it: the server keeps nothing about a client across
connections, so a message lost with its connection equals a connection lost
before it. The arm for `RecvError::Closed` cannot be reached (see
`TeardownEndsSocket` below).

### SessionManager

One session and all the tasks that touch it, each with a label `pc[p]` for its
next step. One action is one database statement or one critical section of a
registry lock. The tasks are the create request, the forwarder's end of life,
`Sockets` (each one attachment), `Requests` (`POST /:id/close`) and `Timers`
(TTL tasks). Ownership checks are left out: another user's request is answered
`NotFound` and changes nothing.

Three actions merge statements no other task can tell apart. `AttachRecord`
inserts the attachment's row, snapshots the live view and writes the attached
event: nobody knows the attachment id yet (its failure may leave the row
behind, and does in `AttachFails`). `RecordDrop` removes the entry of a start
that failed. `DetachDecide` reads the attachments and the runtime under their
locks. Spawning and installing a TTL task is one step, since the shortest TTL
is five seconds.

`AttachAbort` stops a TTL task at the label it has reached. If it had taken the
runtime out of the registry, the runtime is dropped with it, as Rust drops the
future's locals. I/O errors are the `...Fails` actions (`AckLost` is the lost
acknowledgement), at the labels in `Fallible` and `MaxFaults` times in all.
`Restart` kills every task and runs `reconcile_orphaned_on_startup` before
anything is served, which is `main.rs`'s order.

### RecordingWriter, RecordingLog

Producers, the manager's shutdown and the writer task around the bounded queue.

| Model | Code |
|---|---|
| `Stamp`, `Tee` | `last_seq.store`, then `record_output`: oversize check, `take_gap`, `try_send`, `restore_gap` and `extend_gap` |
| `ResizeRead`, `ResizeSend` | the snapshot under the registry lock, then `record_marker` |
| `ShutdownStart` to `ShutdownTimeout` | `shutdown_runtime` and `RecordingWriter::shutdown` |
| `RuntimeDropped` | the runtime goes without a complete shutdown |
| `Receive`, `Finish`, `End` | `writer_task`: a command, the end of the drain or of the channel, the return |
| `Insert`, `InsertFails` | one row of the account (a chunk or a gap); a failed chunk becomes a gap marker, a failed gap marker only a log line |
| `InsertMarker`, `MarkerFails` | a lifecycle marker, after the rows before it; its failure is only logged |

The rows a command leads to (`writes`, then `marker`) are computed when it is
received and inserted one step at a time, so that an abort or a fault can fall
between any two. The database is `account`, the chunks and gaps, and `markers`,
the lifecycle rows. Two kinds of runs in `account` stand for no row, so that the
account stays complete: `empty`, a batch without bytes, which `flush_chunk` skips,
and `lost`, frames whose gap marker failed as well. Not
modelled: the oversize check inside the writer and a send to a task that is
gone (the code's comments call the first impossible, the second needs a second
shutdown), and the conversions to `i64` and `i32`, which the bounds keep in
range. One resize is in flight at a time.

`RecordingLog` says what a recording is to its reader: an append-only account
of the frames produced, sealed or cut at the end, after which nothing follows.
`ImplementsLog` maps the writer's rows, the frames teed and the task's state to
it. Frames may go unmentioned only if they have no bytes, or in an `Outage`, a step
in which the database fails. It asks no more of the gaps than that they cover frames
there were: that every dropped frame has one is `NothingUnaccounted`, which holds
only while the task runs.

### Auth, LoginThrottle

One action per statement of a route, in the route's order: bootstrap (`b_`),
login (`l_`), logout (`o_`), change password (`p_`), the revoke routes (`v_`,
`w_`) and the extractor that every authenticated request passes, with its touch
(`x_`). A
request carries what it has read: the password epoch it verified, the session it
speaks for. `Abort` is a failing statement or a dropped future at any step,
`Restart` empties the throttle. A password is an epoch; hashing and tokens are
libraries. `RowsOK` types the tables; `TypeOK` adds the throttle's bounds. The throttle's operators (`Throttled`, `RecordFailure`,
`DropIdle`, `RecordSuccess`) work on a function from identifiers to attempt states.
`keepers`, `late`, `died` and `guesses` are history.

### HostKeys

One host, its pins, and requests that read the pins, talk to a server whose key
may change (`Rekey`), and act on what they read. `ReplaceLock` and
`ReplaceCommit` are `replace_active_pin`'s transaction with its row lock;
`RecordTrusted` is the upsert, which waits for that lock. `Acquire`,
`ConnectCheck`, `Authenticate` and `Drop` are the auth check under its
semaphore, `ConnectPty` the live start's check. A fingerprint is its key.

### Inventory

Hosts, identities and profiles of several users. A request carries the
statements its route has still to run (`todo`), so that one `Get` stands for all
owner-scoped lookups; foreign keys restrict or cascade as in the migrations.
Ids are generated, so hosts, identities and profiles share none.
`barred` is history: what forbade the request was committed before it began.

### SessionQuota

The registry for several users. A create passes the three gates in the route's
order, registers, starts (`Phases`: connect and auth under the bridge's
timeouts, then the channel open, which has none), and
fails or becomes live. `start_live_pty` is `StartRead` (which gives up on a closed
row and leaves the entry), `StartMark` and `StartInstall`; `close_session` is
`CloseMark` (the row) and, after its awaits, `CloseRemove` (the entry) or
`CloseFails`. Attach, detach, the TTL and the PTY's exit change what the gates count,
too. `closed` and `closing` are the rows as far as a start or a close can still read
them, `lost` is history.

### Retention

Instances with a start-up sweep (no lock) and a periodic one (session-scoped
advisory lock). `List`, `PurgeLock` (row lock and repeated condition),
`PurgeCount`, `PurgeCommit` (delete, audit, commit) are the statements of a purge;
`AppendRow` is a writer whose foreign key check waits for that row lock.
`SweepFails`, a failed unlock that leaves the lock on a pooled connection, and
`Crash` are the faults. `ConnectionCloses` gives such a connection back: sqlx
closes pooled connections after an idle time and a lifetime.

### Config, Startup

`Config` is `AppConfig::load`: defaults, file, environment, with which variables
are lenient and which stop the boot, and the four validators. A setting's value
is one of a few symbols (`"none"`, a placeholder, a good or a bad key) or a
number in its range. `Startup` is `main`: each stage with its early return, the
worker, requests, one of which may wait in the channel open (`RequestOpens`), the
graceful shutdown, a kill.

### Records, ApiErrors

A body's text is its first character's class, the classes it holds, its lengths
and whether it has blanks at its ends, which is all the validators look at.
`Records` takes it through a DTO, the CHECK constraints and `rows.rs` and back;
`ApiErrors` is the chain of `From` impls to status, code and detail, with
`map_pty_start_error`, by which the create route answers a failed start. Sealing a
key is a record that names its master key; the vault may be disabled. A row may be
stored and its audit event fail (`Audited`). `cause` records whose doing an answer
is.

### RecordingReplay

The read routes and the viewer's load loop against a recording that grows and is
purged. Each call is answered from the rows at the time of each of its queries;
answers of an earlier load come in late. A chunk that does not decode is skipped
(`Decodes`), the loop stops after `HARD_LOOP_CAP` pages, and either sets the warning
that keeps the view from being `ready` (`Warns`).

### Socket

Two clients' frames, their answers, the registry's snapshot, the PTY handle's
two channels and the shell. A handler takes the handle from the registry
(`TakeHandle`, `ResizeHandle`) and then waits for room in its channel (`WriteInput`,
`ResizeApply`), with a close or the shell's exit in between; a close marks the row
(`CloseMarks`) and removes the entry later (`CloseRemoves`); when the driver is gone
the forwarder closes the row (`ForwarderEnds`). `Encode`, `DecodeError` and `Decoded` are the binary
codec field by field, over bytes of a small base with the fields' widths as
constants.

### MC_Boundary

Startup, Records, RecordingReplay and Socket share no state; one run explores
each by itself (`part`), with the others at rest.

## The runs

| Run | Distinct states | Shows |
|---|---|---|
| `stream` | 22,418 | `StreamInv`, `ByteCountExact`, `ReplayAnswerExact`, `ContinuousStream`, `LiveFrameDelivered`: a client lags, drops and reconnects while the ring and the broadcast channel overflow: the ring stays a contiguous bounded suffix, replay_since answers exactly, a client that neither lagged nor was overtaken sees one continuous stream, and with fair tasks every frame fanned out while it is connected reaches it or is superseded |
| `session_races` | 494,889 | `PtyOwned`, `CloseIsFinal`, `TimersTracked`, `ReapedAfterLastClient`: two sockets that attach, detach, drop and close race with two TTL tasks, the create request and the PTY's exit, with one I/O error: no PTY is orphaned, an answered close is final, no TTL task is lost sight of, and with fair tasks a live session whose last client has left is reaped or attached again, unless the error was one of those that leave it without a close: a lost acknowledgement, an attach that failed after it cancelled the close, a detach that failed half way, or a TTL close that failed |
| `session_faults` | 349,104 | `DetachedOnce`, `RestartEndsSession`, `SessionInv`: a socket, a close request and a TTL task with two I/O errors anywhere and a restart: retried detaches write one event, a restart ends the session for good, and the invariant the proofs induct over holds |
| `recording` | 978,134 | `WriterInv`, `NothingUnaccounted`, `ImplementsLog`, `WriterEnds`: the recording queue overflows, frames are empty or oversized, two inserts of any kind fail, a resize interleaves and the writer is shut down, aborted or dropped: the rows stay one run of chunks and gaps, broken only by empty frames and at no more places than inserts failed, no frame is lost sight of while the task runs, the whole implements an append-only log, and with fair tasks and a database that answers the recording comes to an end |
| `auth_sessions` | 2.6 M | `OldPasswordDies`, `RevocationAudited`: two requests of any kind interleave statement by statement, with a failing statement or a dropped request: a session started with the old password is gone once a password change has answered unless its login overlapped it, and a revocation that took effect has its audit event or is owed one by a request under way or one that died |
| `auth_throttle` | 0.5 M | `ThrottleInv`, `BlockPersists`: overlapping logins fail against a throttle of one slot too few while the clock runs, and bootstraps overlap: the table keeps its bound, a block lasts its time and lets in no more failures than were under way, and a bootstrap starts only from an empty table |
| `host_keys` | 394,068 | `PinsInv`, `OfferedOnlyToPinned`, `RevokedForever`: two requests trust, replace, check and start sessions while the server's key changes: a credential is offered only to a key that was an active pin when the request read them, each replacement revokes and pins together, permits are neither lost nor doubled, and a revoked pin never comes back |
| `inventory` | 1.7 M | `InventoryInv`, `DeletionAudited`, `BarredNeverWrites`: two users' create, update, delete, disable, trust and launch requests interleave statement by statement, with a failing statement: no row refers to a missing or a foreign one, no profile or identity is deleted without its event, and what was committed before a request began is not overlooked by it |
| `session_quota` | 601,408 | `QuotaInv`, `OverrunBounded`, `StartingResolves`: concurrent creates pass the three gates on counts read before they register, and a close marks the row some awaits before it removes the entry: each ceiling is overrun by at most the other creates in flight, a starting entry has its request at work, or a closed row, or lost its request to a fault, and with the start's timeouts a starting slot is given back or goes live unless the channel open waits, a fault struck or a close left it |
| `quota_exit_slot` |  | `ExitFreesSlot`: a shell that exits leaves its registry entry live, and it keeps counting against the owner's quota until somebody closes the session |
| `retention` | 158,618 | `RetentionInv`, `PurgeAuditExact`, `OnlyExpiredPurged`, `EventuallyPurged`: two instances sweep at boot and periodically while sessions close, revive and append, with a failing statement, a failed unlock or a crash: every purge is audited with the rows it deleted, at most one periodic sweep runs, only sessions past their retention are purged, and rows of a closed session go in the end |
| `boundary` | 834 k | `BootInv`, `RowsInv`, `ReplayInv`, `ReplayComplete`, `InputExact`, `SocketInv`, `ShutdownEnds`: the four edges of the backend, each explored by itself from its own initial states: configuration, boot and shutdown, request bodies to rows and back with and without a vault, the replay viewer's paging, with chunks it cannot decode and a cap on its pages, against a recording that grows and is purged, and the sockets' frames down to the shell, across a close and the shell's exit |

Every property has a mutant: a plausible slip in one definition, under which TLC
finds the property violated.

### Bounds, and why they are enough

- `stream`: a ring of two frames and three bytes with chunks of one and two
  bytes: each bound evicts without the other. A channel of two slots, so a
  client lags. Five frames: enough to evict, lag, reconnect and lose the
  window. One client: clients write nothing that another one reads, and the
  theorems hold for any set.
- `session_races`: two sockets and two timers, so that two last detaches
  schedule a close each and a reattach meets a timer in every state. One fault, at
  any step of a socket or a TTL task whose failure ends differently
  (`ClientSteps`): the attach's writes and acknowledgement, the detach's read,
  event and status write, the TTL close's status write. No symmetry, since the run
  checks liveness.
- `session_faults`: two faults are a fault and the failure of its retry; every
  label that does I/O may fail. Symmetric in interchangeable tasks.
- `recording`: a queue of two, so that it overflows and a marker competes for
  its slots; chunks of at most three bytes with frames of zero, one, two and four:
  empty batches, appends, exact fits, overshoots and oversized frames. Three frames:
  a gap of two and the frame that carries it. Two inserts of any kind may fail: a
  chunk and the gap marker that was to take its place.
- `auth_sessions`: one user, two requests, two sessions and two passwords, so
  that a login meets a change and two revokes meet; one statement fails. The
  clock stands still: expiry only removes sessions. `auth_throttle`: two users
  and a table of one, so that it is full; four instants with windows and blocks
  of two; a restart. No session rows: after `LoginClear` a login touches the
  throttle no more, and its insert fails here.
- `host_keys`: two keys of one type and one of another, so that a key is
  unknown, changed or trusted; one permit; two requests. PinsInv is proved for
  all sizes.
- `inventory`: two users with a host each, two identities and one profile: a foreign host can
  be named, a profile can move between identities, and every route can meet every
  other. Only the foreign host exists at the start. Symmetric in the requests and in
  the identities, which have the same owner.
- `session_quota`: ceilings of one, two requests and two sessions at a time, of which
  a removed one makes room for the next: two creates overlap, or one meets the close
  of the other. One fault.
- `retention`: two instances, two sessions, a batch of one, so that a sweep
  takes several rounds; two rows in all, three instants, one fault.
- `boundary`: every setting gets its extreme and ill-formed values in the file
  or the environment, and every pair of values of settings that constrain each
  other; texts around the validators' limits; three sequence numbers in chunks that
  decode or not, pages of one chunk, at most two of them a load, and two loads; two
  frames in all from two clients, queues of one, and every frame one byte off a valid
  one.

`MaxSeq`, `MaxTime`, `MaxFaults` and their like bound behaviours, not values;
the theorems do not depend on them.

### Fairness

Tokio polls every ready task, and Postgres answers or fails: weak fairness for
each backend task's own steps, the forwarder's broadcast, timers and inserts.
Clients, the remote host, failures and restarts are under no obligation.
`ShutdownTimeout` is fair because it is a timer. In `SessionQuota` a local step
and every phase with a timeout is fair; the channel open, which has none, is
not, and `StartingResolves` says so. In `Retention` a sweep's own steps are
weakly fair; ticks recur and a waiter for a row lock is served in turn, hence
strong fairness for `PeriodicTick` and `PurgeLock`; the pool closes a leaked
lock's connection in the end (`ConnectionCloses`). That ticks recur presumes that the
operator enabled the periodic worker, which is off by default (`config.rs:466-470`).
The clock is not fair. `BootFairness` is what `main`'s shutdown awaits: the worker's
sweep and the requests finish, but not a create that waits in the channel open, which
`ShutdownEnds` excepts.

Deadlock is checked in every run but `boundary`, whose parts come to an end
(a boot that failed, clients that have sent all they send). `Idle` steps let a
system rest only when each task waits for the outside.

## The proofs

Each component has a module `..._proofs`; `Boundary_proofs` holds those about host
keys and about the four parts of `boundary`, which share lemmas. The theorems hold
for all sets of clients, tasks, users, rows and requests, all sizes and bounds, from
the named assumptions of the modules (naturals; kinds of tasks and of ids disjoint;
finitely many requests, sessions and instances; `None` is nothing else), and from
these, each of which the code settles:

| Assumption | Says | Because |
|---|---|---|
| `ThrottleAssumption` | a block lasts at least a window | both are 15 minutes in `V1_DEFAULT`, the policy `main.rs` builds the throttle with |
| `ReplayAssumption` | the viewer's page is at most the server's ceiling | 256 against 1024; with a longer page every page would look like the last |
| `ProfileBodiesAssumption` | a create body has all its fields | it is deserialized into a struct |
| `SocketAssumption` | a payload the encoder lets through has a length that fits its field, a sequence number fits its own, payloads are bytes | 1 MiB against a `u32`; a `u64` |

A recursive definition that a theorem is about is a recursive function over an
interval of naturals, in a `LET` (`Retained`, `SplitOrigins`, `BigEndian`, `Value`,
`OfClient`, `TakenInputs`). `IterationExists` shows by the least counterexample that
such a function exists; the step equations then follow from `CHOOSE`, and properties
of it by the same argument (`UpTo`).

**Stream.** `StreamInvariant` proves `StreamInv` inductive. `ContinuousStream`
alone is not: that the *next* frame will be the right one depends on where the
receiver stands relative to the floor, on what is left of the replay, and on
the broadcast being at most one frame behind the ring. Those are `OnStream`,
`PositionInv` and `FanoutInv`; the ring's side is `RingContiguous` and
`RingBounded`. The lemmas on `Push` (a suffix of consecutive frames plus the
next one is consecutive; the least sufficient number of evictions exists and
leaves the ring within its bounds) and on `ReplayFrames` carry the arithmetic.
From it follow `TypeCorrect`, `StreamIsContinuous` and `ReplayIsExact`.
`ByteCountIsExact` is an induction over the ring: the partial sums exist and are
unique (`SumsExist`, `SumsAgree`, by the least counterexample), so `Bytes` adds
up over an append and over the cut an eviction makes.

**Session.** `SessionInvariant` proves `SessionInv` inductive. `PtyOwned` needs
to know that at most one task holds a removed runtime and that the start is
over by then (`RuntimeInv`). `TimersTracked` needs that timers exist only after
the start (`TimerInv`). `CloseIsFinal` rests on `CloseInv`: a start that has
not read the row yet finds a finished close in the row, and one that has read
it finds the entry gone. `DetachedOnce` rests on the attachment row telling
whether the event may still be written (`DetachInv`). From it follow
`SessionTypes`, `NoOrphanPty`, `ClosedForGood`, `NoStrayTimer`,
`DetachedEventOnce` and `RestartIsFinal`.

**Host keys.** `PinsInvariant` proves `PinsInv` inductive. That a revocation is
never undone (`RevocationIsFinal`) needs that a transaction past its lock holds
a row that is still active, and that the new key it inserts has no row: the
second also keeps two pins from having one replacement. That a credential is
offered only over a pinned key (`CredentialsGuarded`) needs `ReqInv`: what a
request read is out of date in one direction only, since rows never vanish and
revocations stay. The permits are a cardinality: each lemma on `Holders` adds or
removes one request.

**Recording.** `RecordingInvariant` proves `WriterInv /\ NothingUnaccounted`
inductive; neither is alone. That the rows are one unbroken run
(`ChunksContinuous`) is known of the next insert only if the inserts to come, the
open batch, the queue and the pending gap continue it one after the other, which
is what `NothingUnaccounted` says; and that in turn needs `CarriedInv` (a gap
rides on the first frame after it), `ClosingInv` and `BeforeShutdown` (which part
can still be filled in which phase). Frames that no row stands for are runs of the
account, so no assumption on frames or failures is needed; `LossIsFailure` counts
the lost ones against the failed inserts. From it follow `RecordingWellFormed`, `EveryFrameAccounted` and, step by
step, `WriterImplementsLog`: a `Tee` maps to `Produce`, an insert of the account
to `Commit`, a failing insert to `Outage`, the closing marker to `Seal`, an end
without one to `Cut`, and everything else to a stutter.

**Retention.** `RetentionInvariant`: `SweepHolds` is what a sweep may rely on
between two statements. The row lock keeps the session expired, since reviving
it waits for the lock, and keeps its rows, since an append does; so the count
taken under it is what the delete removes (`PurgesAreAudited`), and only an
expired recording loses rows (`OnlyExpiredRecordingsPurged`). That a periodic
sweep's instance holds the advisory lock gives `SweepsKeptApart`.

**Quotas.** `QuotaInvariant` bounds, for each ceiling, the entries it counts plus
the requests past its check. A step makes both smaller, turns one of the requests
into one of the entries, or is the check, which found the count below the
ceiling (`Settled`); each keeps the bound (`SettledBounded`). The second case
needs `SlotsHeld`: an entry is charged to the user of the request that made it.
`StartingHeld` needs to follow a session through its start and its close at once: a
starting entry loses its request only to a fault or to a closed row, and a row is
opened again only by a request that still holds it. From it follow `QuotaOverrunBounded` and `StartingSlotsHeld`.

**Inventory.** `InventoryInvariant`: a request only drops the head of its
statements, so what it relies on is what its lookups told it (`RefsHold`) and what
the tables must still say (`RowsHold`); the tables change in few ways (`Steady`).
A foreign key is checked in the statement that writes, which is why a reference
found by an earlier lookup may be gone and yet no row refers to nothing. From it
follow `ReferencesStayOwned`, `DeletesAreAudited` and `BarredRequestsStop`.

**Sessions and login.** `AuthInvariant`: `Known` is what each request knows at
each step (who it speaks for has a password, the row it is about to revoke
exists, a rotation's own session is a keeper, a revoke that found the row revoked
still finds it so), and `Grow` is the only way the tables change: users,
passwords and rows stay, and a revoked session stays revoked. `Known` survives
`Grow`; the exception is a bootstrap that found its user without a password,
which no other request can set (`BootstrapsApart`). From it follow
`OldSessionsDie` and `RevocationsAudited`, whose last cases are what a request
owes or died owing, `BootstrapsFromEmpty`, and the action property
`BlocksPersist`, since a failure is recorded with the time of its start, never
later than now. TLC checked the conjuncts of this invariant on both `auth`
instances before they were proved.

**Login throttle.** `GuessesCounted` adds `GuessInv`. `ThrottleInv` bounds the
failures in every window, while an entry keeps only those in the window that ends
now, in the order they were recorded, which is not the order of their times. So
`GuessInv` speaks of every instant `T`: either the identifier is blocked past the
window that begins at `T`, or there are fewer than `max_failures` failures since `T`
and the entry still has them all (`Counted`); and those failures, with the requests
that may yet add one, leave room below the bound (`Room`). A new failure moves one
request into the count; a block takes effect because it lasts a window. From it
follows `FailuresBounded`.

**Boot.** `BootInvariant`: each stage of `main` lies behind the checks that led to it,
and `cfg` is not written after it is loaded; so the invariant lists, for nested sets
of stages, which checks have passed (`Checked`, `HasUser`, the vault key, the
recorder's mode), that only a validated boot has written, and that the worker exists
only under a configuration that asks for it. What merging layers leaves in the
settings' ranges is `Config`'s typing lemmas: any well-typed file and environment.
From it follows `BootsSafely`.

**Rows.** `RecordsInvariant`: every stored row passes its columns' validators, whichever
creates, patches and renames made it, a stored key is an ed25519 key in the vault's
format, and the last answer is one of the envelopes `error.rs` can make with the
right side to blame: a 5xx is a dependency's or the vault's, and whatever is theirs is
a 5xx. A patch needs that the row it changes passed before. From it
follows `RowsSound`.

**Viewer.** `ReplayInvariant`: `Sound` is what a call says of the tables, whichever load
it belongs to, and `Waiting` what the one call of the current load relies on: all that
was taken ends before the cursor, every counted chunk that begins before the
cursor has been taken, and a taken chunk that does not decode, like a load cut short,
has set the warning. A page in the answer is ordered, begins at the cursor and
leaves out a counted chunk only if it is full and the chunk comes after it. The lemmas
on `ListChunks` show that `ORDER BY ... LIMIT` enumerates the least rows in order (the
number of rows before one is a bijection onto an interval). From it follow
`ReplayOrdered` and `ReplayPlaysAll`.

**Sockets.** The codec first: a field of width *w* holds the numbers below
`Capacity(w)`, `Value` undoes `BigEndian` and the other way round
(`FieldRoundTrips`, `BytesRoundTrip`), and the parts of a frame are found where the
header says. So decoding undoes encoding (`FrameRoundTrips`), and a buffer that
passes as an input is an encoding (`DecodedWasEncoded`): the decoder agrees with
`InputPayloads`, which is defined by the encoder. `SocketInvariant` then proves
`SocketIInv`: silence answers inputs only; the inputs at the shell and in the queue,
restricted to a client, are those it was answered with silence, or a prefix once the
driver is gone; a handler that waits to write holds an input; every frame received is the encoding of the output it numbers; and a
client between the steps of a resize has its size in the snapshot, if nobody
else resized (`SizeInHand`). `SnapshotFollows` alone is not inductive without the
last. From it follow `SocketsSound` and `InputsReachShell`.

TLC checked `BootIInv`, `RecordsIInv`, `ReplayIInv` and `SocketIInv` on the `boundary`
instance, and `GuessInv`'s conjuncts on `auth_throttle`, before they were proved.

Only model-checked: liveness (`LiveFrameDelivered`, `ReapedAfterLastClient`,
`WriterEnds`, `StartingResolves`, `EventuallyPurged`, `ShutdownEnds`), which is out of
the prover's reach, and the counterexample `quota_exit_slot`.

## Findings

`quota_exit_slot`: when the remote shell exits, the forwarder closes the row and
returns; the registry entry stays live and counts against the owner's quota
until somebody closes the session. `docs/session-quotas.md` says this path
"similarly frees the slot".

Three more disagree with a comment or a document and need no run of their own; each
is what the property named holds *instead*:

- `OverrunBounded`: creates that overlap overrun a ceiling on a single instance.
  `RT:206` says "Single-instance exact", and so do `docs/session-quotas.md` (lines 55,
  153, 176, 929, 948) and `config.rs:542`.
- `InputExact`: a binary frame with a non-zero flag or reserved byte is refused.
  `binary.rs:23-24` and `docs/spec/terminal.md:104-105` say that readers ignore them
  (`binary.rs:136-138` says that they reject).
- `WriterInv`: a gap marker that cannot be inserted is only logged, and the frames
  are missing without a word. `recording.rs:97-99` says that a failed write of a
  "chunk or marker" is bracketed by a `writer_error` marker.

### Known counterexamples without a run

Each formula below is in its module, states what the repository says, and is
violated by the model; put it in a `.cfg` of the module to get the trace.

| Formula | Trace |
|---|---|
| `OutputStream!NoRepeatedOutput` | live frames go out before the client's `Attach` frame has raised the floor, and the replay sends them again |
| `OutputStream!GapFilledOnReconnect` | the bookmark is the highest seq seen, so a reconnect never asks for what a lag skipped |
| `SessionManager!LastDetachSchedulesClose` (`Fallible <- AckOnly`) | the attach acknowledgement cannot be sent; `detach_session` schedules no close, after `attach_session` has cancelled the pending one |
| the same (`Fallible <- ClientSteps`) | an attach fails after it has cancelled the pending close; or a `Detach` fails after it marked the attachment, and its retry finds it `already_detached`: neither schedules a close |
| `SessionQuota!CeilingsExact` | two creates pass the gate before either is counted |
| `SessionQuota!StartingOnlyWhileStarted` | a close comes and goes between the row's insert and the entry's: `start_live_pty` then finds the row closed and leaves the entry starting until the next close |
| `Startup`: `signalled ~> boot = "exited"` | a create waits in the channel open, which has no timeout, and axum's graceful shutdown waits for it |
| `SessionManager!ClosedStaysClosed` | `set_status` is unconditional: a start or a reattach with an old read turns a closed row active |
| `SessionManager!NoCloseUnderClient` | the timer is installed without a second look at the attachments, and closes the session under a client that attached during the status write |
| `SessionManager!TeardownEndsSocket` (`FairSpec`) | the socket's own `LiveRuntimeView` holds a sender of the channel whose closing it waits for |
| `RecordingWriter!NoSilentLoss` | a pending gap is only sent along with a later frame; at shutdown there is none |
| `RecordingWriter!ShutdownBounded` (`StalledDatabaseSpec`) | the deadline covers the acknowledgement, not the send of the command into a full queue |
| `HostKeys!OneActivePin` | two trusts of keys of different types, or two that overlap, both pin (`tests/repositories.rs` says every trust path enforces one) |
| `Inventory!PinHistoryKept` | a pin inserted between the check for dependents and the delete goes by cascade (`V1/hosts.rs` calls the check the enforcement of the opposite) |

Seen while modelling, and not against a checked property: two closers that both
read an open row write two `closed` events; `Close` on an already closed session
leaves the socket's attachment registered; a batch of empty frames leaves neither a
row nor a gap, so a reader sees a hole there; a resize marker can overtake the frame
whose seq it names; two overlapping logins and password changes let a session of
the old password live (`row.late` in `OldPasswordDies`); two overlapping
bootstraps both succeed; a bootstrap whose `set_password` fails cannot be retried
with its e-mail; a login whose audit fails leaves a session no cookie names; a
logout is audited also when another revocation was first; `disable`'s doc
comment says the SQL writes only while `disabled_at` is null, which the SQL does
not check (the comment inside the handler says so);
`DEFAULT_PTY_START_TIMEOUT` is never enforced, so the channel open may wait for
ever; `chunk_hard_cap_bytes` has no upper bound while the schema's CHECK has one;
malformed `BIND`, `MAX_CONNECTIONS`, `COOKIE_SECURE` and `VAULT__ENABLED`
variables are ignored, and so is a `RELAYTERM_CONFIG` that names no file;
reconciliation and the start-up sweep write before the first-user, vault and
recording checks; `allowed_origins` from a file may be `[""]`; recording and
vault keys are compared only when both come from the same kind of source; a
resize whose event fails leaves the snapshot ahead of the shell, and concurrent
resizes may leave the two different; a pool of one connection blocks the periodic
sweep, which holds one for its lock.

## Not modelled

- The origin guard (one comparison per request), the read-only list, audit feed
  and session policy routes: nothing they do changes state.
- JSON parsing, cryptography, password hashing and the SSH protocol: libraries.
- Renderers, the web application but for the replay viewer's loop, shells,
  logging: user interface and I/O.
- The terminal-core transport: browser events, with no state of its own.
- A start cancelled between the bridge's success and the runtime's installation
  (SessionQuota drops requests, but has no PTY).
