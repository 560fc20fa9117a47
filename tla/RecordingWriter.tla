--------------------------- MODULE RecordingWriter ---------------------------
(***************************************************************************)
(* The durable recording of one session's output, crates/relayterm-terminal*)
(* /src/recording.rs: the forwarder tees every frame into a bounded queue  *)
(* without ever waiting, a writer task batches frames into chunk rows, and *)
(* frames that cannot be recorded are covered by replay_gap markers.       *)
(* resize_session adds a marker, shutdown_runtime ends the recording.      *)
(*                                                                         *)
(* The producers, the writer task and the manager share nothing but the    *)
(* queue and the pending gap.  The writer's work on a command is one step  *)
(* that leaves the rows to insert: the chunks and gaps in `writes`, and    *)
(* the marker that comes after them in `marker`.  Each insert is a step of *)
(* its own, which may fail and at which the task may be aborted.           *)
(* An optional value is a sequence of length at most one.                  *)
(***************************************************************************)
EXTENDS Integers, Sequences, FiniteSets

CONSTANTS
  QueueCapacity,  \* QUEUE_CAPACITY
  Target,         \* chunk_target_bytes
  HardCap,        \* chunk_hard_cap_bytes
  Lens,           \* lengths of an output frame
  Fallible,       \* the kinds of rows whose insert may fail
  MaxSeq,         \* bound on the frames of one behaviour
  MaxResizes,     \* bound on the resizes of one behaviour
  MaxFaults       \* bound on the failed inserts of one behaviour

ASSUME WriterAssumption ==
  /\ QueueCapacity \in Nat \ {0}
  /\ Target \in Nat /\ HardCap \in Nat
  /\ Lens \subseteq Nat
  /\ MaxSeq \in Nat /\ MaxResizes \in Nat /\ MaxFaults \in Nat

VARIABLES
  \* the forwarder
  forwarder,    \* run, ended
  last_seq,     \* LiveRuntime.last_seq, stored before the frame is teed
  teed,         \* the last frame record_output was called for
  pending_gap,  \* EnabledHandle.pending_gap
  \* resize_session, between reading last_seq and sending the marker
  resize, resizes,
  \* shutdown_runtime: live, sending, waiting, over; or dropped
  manager, close_seq,
  \* the queue and the writer task
  queue,
  writer,       \* recv, drain, closing, ended, aborted
  open,         \* the open ChunkBatch
  highest_seq_observed,
  writes,       \* chunks and gaps the command in hand still has to insert ...
  marker,       \* ... and the marker that follows them
  \* the database, in the order of the inserts
  account,      \* what became of the frames: chunk and replay_gap rows, and runs of
                \* frames no row stands for, "empty" ones and ones "lost" by a failure
  markers,      \* the other markers
  faults

producer == << forwarder, last_seq, teed, pending_gap >>
control  == << resize, resizes, manager, close_seq >>
task     == << writer, open, highest_seq_observed, writes, marker >>
database == << account, markers >>
vars     == << producer, control, queue, task, database, faults >>

MaxOf(m, n) == IF m >= n THEN m ELSE n

Span(from, to) == [from |-> from, to |-> to]
Row(kind, from, to, bytes) == [kind |-> kind, from |-> from, to |-> to, bytes |-> bytes]
Marker(kind, seq) == [kind |-> kind, seq |-> seq]
Output(seq, len, gap) == [cmd |-> "output", seq |-> seq, len |-> len, gap |-> gap]
Command(cmd, seq) == [cmd |-> cmd, seq |-> seq, len |-> 0, gap |-> << >>]

Spans    == [from : Nat, to : Nat]
Rows     == [kind : {"chunk", "replay_gap", "empty"}, from : Nat, to : Nat, bytes : Nat]
Fates    == [kind : {"chunk", "replay_gap", "empty", "lost"}, from : Nat, to : Nat, bytes : Nat]
Markers  == [kind : {"started", "resized", "closed"}, seq : Nat]
Batches  == [from : Nat, to : Nat, bytes : Nat]
Commands == [cmd : {"output", "started", "resized", "shutdown"}, seq : Nat, len : Nat,
             gap : Seq(Spans)]

\* The migration's CHECKs: a marker sits at seq >= 1 unless it is started, a
\* chunk covers at least one frame and is not empty.
RowSchema(r) == 1 <= r.from /\ r.from <= r.to /\ (r.kind = "chunk" => r.bytes >= 1)
MarkerSchema(m) == m.kind = "started" \/ m.seq >= 1

TypeOK ==
  /\ forwarder \in {"run", "ended"}
  /\ manager \in {"live", "sending", "waiting", "over", "dropped"}
  /\ writer \in {"recv", "drain", "closing", "ended", "aborted"}
  /\ teed \in Nat /\ last_seq \in {teed, teed + 1}
  /\ resize \in Nat /\ close_seq \in Nat /\ highest_seq_observed \in Nat
  /\ pending_gap \in Seq(Spans) /\ Len(pending_gap) <= 1
  /\ queue \in Seq(Commands) /\ Len(queue) <= QueueCapacity
  /\ open \in Seq(Batches) /\ Len(open) <= 1
  /\ writes \in Seq(Rows) /\ account \in Seq(Fates)
  /\ marker \in Seq(Markers) /\ Len(marker) <= 1 /\ markers \in Seq(Markers)
  /\ \A i \in DOMAIN account : RowSchema(account[i])
  /\ \A i \in DOMAIN writes : RowSchema(writes[i])
  /\ \A i \in DOMAIN markers : MarkerSchema(markers[i])
  /\ \A i \in DOMAIN marker : MarkerSchema(marker[i])
  /\ resizes \in 0 .. MaxResizes /\ faults \in 0 .. MaxFaults

\* RecordingWriter::enabled seeds the started marker.
Init ==
  /\ forwarder = "run"
  /\ last_seq = 0 /\ teed = 0
  /\ pending_gap = << >>
  /\ resize = 0 /\ resizes = 0
  /\ manager = "live" /\ close_seq = 0
  /\ queue = << Command("started", 0) >>
  /\ writer = "recv"
  /\ open = << >>
  /\ highest_seq_observed = 0
  /\ writes = << >> /\ marker = << >>
  /\ account = << >> /\ markers = << >>
  /\ faults = 0

Receivable == writer \notin {"ended", "aborted"}
HasRoom == Len(queue) < QueueCapacity
NothingInHand == writes = << >> /\ marker = << >>

-----------------------------------------------------------------------------
(***************************************************************************)
(* The forwarder stores the frame's seq and calls record_output.           *)
(***************************************************************************)
Stamp ==
  /\ forwarder = "run"
  /\ teed = last_seq
  /\ last_seq < MaxSeq
  /\ last_seq' = last_seq + 1
  /\ UNCHANGED << forwarder, teed, pending_gap, control, queue, task, database, faults >>

\* extend_gap; restore_gap before it puts the same gap back.
Extended(gap, seq) ==
  IF gap = << >> THEN << Span(seq, seq) >> ELSE << Span(gap[1].from, seq) >>

\* mutant of Dropped: the gap taken for the failed enqueue is not restored
DroppedForgetsGap(seq) == pending_gap' = << Span(seq, seq) >> /\ UNCHANGED queue

\* The frame is not recorded: it is over the hard cap, or the queue is full.
Dropped(seq) == pending_gap' = Extended(pending_gap, seq) /\ UNCHANGED queue

Tee(len) ==
  /\ forwarder = "run"
  /\ teed < last_seq
  /\ teed' = last_seq
  /\ IF len > HardCap \/ (Receivable /\ ~HasRoom)
       THEN Dropped(last_seq)
       ELSE /\ pending_gap' = << >>
            /\ queue' = IF Receivable
                          THEN Append(queue, Output(last_seq, len, pending_gap))
                          ELSE queue
  /\ UNCHANGED << forwarder, last_seq, control, task, database, faults >>

\* The PTY's output has ended, or LiveRuntime::drop aborted the task.
ForwarderEnds ==
  /\ forwarder = "run"
  /\ teed = last_seq
  /\ forwarder' = "ended"
  /\ UNCHANGED << last_seq, teed, pending_gap, control, queue, task, database, faults >>

-----------------------------------------------------------------------------
(***************************************************************************)
(* resize_session snapshots last_seq under the registry lock and sends the *)
(* marker outside it; a full or closed queue drops the marker.             *)
(***************************************************************************)
ResizeRead ==
  /\ manager = "live"
  /\ resize = 0
  /\ resizes < MaxResizes
  /\ resizes' = resizes + 1
  /\ resize' = MaxOf(last_seq, 1)
  /\ UNCHANGED << producer, manager, close_seq, queue, task, database, faults >>

ResizeSend ==
  /\ resize # 0
  /\ resize' = 0
  /\ queue' = IF Receivable /\ HasRoom THEN Append(queue, Command("resized", resize)) ELSE queue
  /\ UNCHANGED << producer, resizes, manager, close_seq, task, database, faults >>

(***************************************************************************)
(* shutdown_runtime has waited for the forwarder, but for 500 ms at most:  *)
(* it may still be running.  The send waits for room in the queue; only    *)
(* the wait for the acknowledgement has a deadline.                        *)
(***************************************************************************)
ShutdownStart ==
  /\ manager = "live"
  /\ manager' = "sending"
  /\ close_seq' = last_seq
  /\ UNCHANGED << producer, resize, resizes, queue, task, database, faults >>

ShutdownSend ==
  /\ manager = "sending"
  /\ HasRoom
  /\ manager' = "waiting"
  /\ queue' = Append(queue, Command("shutdown", close_seq))
  /\ UNCHANGED << producer, resize, resizes, close_seq, task, database, faults >>

ShutdownAcked ==
  /\ manager = "waiting"
  /\ writer = "ended"
  /\ manager' = "over"
  /\ UNCHANGED << producer, resize, resizes, close_seq, queue, task, database, faults >>

\* SHUTDOWN_DEADLINE: the task is aborted with all it holds.
ShutdownTimeout ==
  /\ manager = "waiting"
  /\ Receivable
  /\ manager' = "over"
  /\ writer' = "aborted"
  /\ queue' = << >> /\ writes' = << >> /\ marker' = << >> /\ open' = << >>
  /\ UNCHANGED << producer, resize, resizes, close_seq, highest_seq_observed, database, faults >>

\* The runtime is dropped without a complete shutdown: a start that failed or
\* lost the race with a close, or a TTL close aborted by a reattach.
RuntimeDropped ==
  /\ manager \in {"live", "sending", "waiting"}
  /\ manager' = "dropped"
  /\ UNCHANGED << producer, resize, resizes, close_seq, queue, task, database, faults >>

-----------------------------------------------------------------------------
(***************************************************************************)
(* The writer task.                                                        *)
(***************************************************************************)
\* flush_chunk: a batch without bytes is no row.
Flush(batch) ==
  IF batch = << >> THEN << >>
    ELSE << Row(IF batch[1].bytes = 0 THEN "empty" ELSE "chunk",
                batch[1].from, batch[1].to, batch[1].bytes) >>

Opened(c) == << [from |-> c.seq, to |-> c.seq, bytes |-> c.len] >>

Appended(batch, c) ==
  << [from |-> batch[1].from, to |-> c.seq, bytes |-> batch[1].bytes + c.len] >>

Overshoots(batch, c) == batch # << >> /\ batch[1].bytes + c.len > HardCap

\* A frame that follows a gap ends the open batch and records the gap.
BeforeFrame(c) ==
  IF c.gap = << >>
    THEN [rows |-> << >>, batch |-> open]
    ELSE [rows |-> Flush(open) \o << Row("replay_gap", c.gap[1].from, c.gap[1].to, 0) >>,
          batch |-> << >>]

\* Batch the frame; a batch that would overshoot the hard cap is flushed
\* first, one that reaches the target is flushed at once.  record_output has
\* turned away a frame that alone is over the cap.
TakeOutput(c) ==
  LET before == BeforeFrame(c)
      spill  == Overshoots(before.batch, c)
      batch  == IF before.batch = << >> \/ spill THEN Opened(c) ELSE Appended(before.batch, c)
      full   == batch[1].bytes >= Target
  IN  /\ writes' = before.rows \o (IF spill THEN Flush(before.batch) ELSE << >>)
                               \o (IF full THEN Flush(batch) ELSE << >>)
      /\ open' = IF full THEN << >> ELSE batch
      /\ UNCHANGED << writer, marker >>

TakeMarker(c) ==
  /\ writes' = Flush(open)
  /\ marker' = << Marker(c.cmd, c.seq) >>
  /\ open' = << >>
  /\ UNCHANGED writer

TakeShutdown == writer' = "drain" /\ UNCHANGED << writes, marker, open >>

\* One command, in the main loop or in the drain that follows a shutdown.
Receive ==
  /\ writer \in {"recv", "drain"}
  /\ NothingInHand
  /\ queue # << >>
  /\ queue' = Tail(queue)
  /\ LET c == Head(queue) IN
       /\ \/ c.cmd = "output" /\ TakeOutput(c)
          \/ c.cmd \in {"started", "resized"} /\ TakeMarker(c)
          \/ c.cmd = "shutdown" /\ TakeShutdown
       /\ highest_seq_observed' =
            IF c.cmd = "output" \/ (writer = "recv" /\ c.cmd # "shutdown")
              THEN MaxOf(highest_seq_observed, c.seq)
              ELSE highest_seq_observed
  /\ UNCHANGED << producer, control, database, faults >>

\* mutant of SendersGone: the task holds a sender of its own queue
SendersKept == FALSE

\* rx.recv() answers None.
SendersGone == manager = "dropped" /\ forwarder = "ended" /\ resize = 0

ClosedAt == MaxOf(1, IF writer = "drain" THEN close_seq ELSE highest_seq_observed)

\* Nothing more to receive: flush what is open and write the closed marker.
Finish ==
  /\ writer = "drain" \/ (writer = "recv" /\ SendersGone)
  /\ NothingInHand
  /\ queue = << >>
  /\ writes' = Flush(open)
  /\ marker' = << Marker("closed", ClosedAt) >>
  /\ open' = << >>
  /\ writer' = "closing"
  /\ UNCHANGED << producer, control, queue, highest_seq_observed, database, faults >>

\* The task returns; what reached the queue meanwhile goes with it.
End ==
  /\ writer = "closing"
  /\ NothingInHand
  /\ writer' = "ended"
  /\ queue' = << >>
  /\ UNCHANGED << producer, control, open, highest_seq_observed, writes, marker, database, faults >>

\* mutant of Insert: a gap marker says only where the gap ends
InsertGapEnd ==
  /\ writes # << >>
  /\ LET r == Head(writes) IN
       account' = Append(account, IF r.kind = "replay_gap" THEN [r EXCEPT !.from = r.to] ELSE r)
  /\ writes' = Tail(writes)
  /\ UNCHANGED << producer, control, queue, writer, open, highest_seq_observed, marker, markers, faults >>

Insert ==
  /\ writes # << >>
  /\ account' = Append(account, Head(writes))
  /\ writes' = Tail(writes)
  /\ UNCHANGED << producer, control, queue, writer, open, highest_seq_observed, marker, markers, faults >>

\* A failed chunk is replaced by a writer_error gap; a failed gap marker is
\* only logged, and the frames it stood for are lost to the reader.
InsertFails ==
  /\ writes # << >>
  /\ Head(writes).kind \in Fallible
  /\ faults < MaxFaults
  /\ faults' = faults + 1
  /\ LET r == Head(writes) IN
       \/ /\ r.kind = "chunk" /\ UNCHANGED account
          /\ writes' = << Row("replay_gap", r.from, r.to, 0) >> \o Tail(writes)
       \/ /\ r.kind = "replay_gap" /\ writes' = Tail(writes)
          /\ account' = Append(account, Row("lost", r.from, r.to, 0))
  /\ UNCHANGED << producer, control, queue, writer, open, highest_seq_observed, marker, markers >>

\* mutant of InsertMarker: the marker goes in ahead of the batch it follows
InsertMarkerFirst ==
  /\ marker # << >>
  /\ markers' = markers \o marker
  /\ marker' = << >>
  /\ UNCHANGED << producer, control, queue, writer, open, highest_seq_observed, writes, account, faults >>

InsertMarker ==
  /\ writes = << >> /\ marker # << >>
  /\ markers' = markers \o marker
  /\ marker' = << >>
  /\ UNCHANGED << producer, control, queue, writer, open, highest_seq_observed, writes, account, faults >>

\* write_marker logs the error and goes on.
MarkerFails ==
  /\ writes = << >> /\ marker # << >>
  /\ marker[1].kind \in Fallible
  /\ faults < MaxFaults
  /\ faults' = faults + 1
  /\ marker' = << >>
  /\ UNCHANGED << producer, control, queue, writer, open, highest_seq_observed, writes, database >>

-----------------------------------------------------------------------------
\* All that feeds the task is over and the task has nothing in hand.
Idle ==
  /\ manager \in {"over", "dropped"} /\ forwarder = "ended" /\ resize = 0
  /\ queue = << >> /\ NothingInHand
  /\ UNCHANGED vars

TaskStep == Receive \/ Finish \/ End

Next ==
  \/ Stamp \/ (\E len \in Lens : Tee(len)) \/ ForwarderEnds
  \/ ResizeRead \/ ResizeSend
  \/ ShutdownStart \/ ShutdownSend \/ ShutdownAcked \/ ShutdownTimeout \/ RuntimeDropped
  \/ TaskStep \/ Insert \/ InsertFails \/ InsertMarker \/ MarkerFails
  \/ Idle

Spec == Init /\ [][Next]_vars

\* Every task that can go on does, and timers fire ...
Scheduling ==
  /\ WF_vars(\E len \in Lens : Tee(len))
  /\ WF_vars(ResizeSend)
  /\ WF_vars(ShutdownSend) /\ WF_vars(ShutdownAcked) /\ WF_vars(ShutdownTimeout)
  /\ WF_vars(TaskStep)

\* ... and so does the database, unless it is stalled.
FairSpec == Spec /\ Scheduling /\ WF_vars(Insert \/ InsertMarker)
StalledDatabaseSpec == Spec /\ Scheduling

-----------------------------------------------------------------------------
(***************************************************************************)
(* Properties.                                                             *)
(***************************************************************************)
ConsecutiveFrom(first, spans) ==
  /\ spans # << >> => spans[1].from = first
  /\ \A i \in 1 .. (Len(spans) - 1) : spans[i + 1].from = spans[i].to + 1

\* The last frame accounted for when spans follow a frame.
EndOf(spans, before) == IF spans = << >> THEN before ELSE spans[Len(spans)].to

\* The frames a queued command accounts for: its gap, then its own.
First(c) == IF c.gap = << >> THEN c.seq ELSE c.gap[1].from

\* Every frame after `before` and up to `last` belongs to exactly one queued
\* command, and the commands are in the order of their frames.
Outputs(q) == {i \in DOMAIN q : q[i].cmd = "output"}

QueueHolds(q, before, last) ==
  /\ before <= last
  /\ \A i \in Outputs(q) : before < First(q[i]) /\ q[i].seq <= last
  /\ \A i, j \in Outputs(q) : i < j => q[i].seq < First(q[j])
  /\ \A n \in before + 1 .. last : \E i \in Outputs(q) : First(q[i]) <= n /\ n <= q[i].seq

\* The last frame that is in a row, in an insert to come, in the open batch and
\* in the queue.
Inserted == EndOf(account, 0)
Flushed  == EndOf(writes, Inserted)
Batched  == EndOf(open, Flushed)
Queued   == IF pending_gap = << >> THEN teed ELSE pending_gap[1].from - 1

\* The chunks and gap markers in the database follow each other in the order of
\* the frames, from the first one on, without an overlap and without a hole but
\* for empty frames and for gaps whose marker failed, whatever was dropped by a
\* full queue, an oversized frame, a failed chunk insert or an abort
\* (extend_gap, gap_before, flush_chunk).
ChunksContinuous == ConsecutiveFrom(1, account)

\* Output is missing without a word at no more places than inserts have failed
\* (write_replay_gap's marker is the last attempt).
LossIsFailure == Cardinality({i \in DOMAIN account : account[i].kind = "lost"}) <= faults

\* As long as the task runs, every frame teed so far is accounted for once
\* and in order: in a row or the run of a failed one, in an insert to come, in the
\* open batch, in the queue or in the pending gap (record_output, writer_task).
NothingUnaccounted ==
  Receivable =>
    /\ ConsecutiveFrom(1, account)
    /\ ConsecutiveFrom(Inserted + 1, writes)
    /\ ConsecutiveFrom(Flushed + 1, open)
    /\ QueueHolds(queue, Batched, Queued)
    /\ pending_gap # << >> => pending_gap[1].to = teed

Sealed == \E i \in DOMAIN markers : markers[i].kind = "closed"

\* What a reader makes of the rows and of the holes between them.
Runs == [i \in DOMAIN account |->
          [kind |-> account[i].kind, from |-> account[i].from, to |-> account[i].to]]

Log == INSTANCE RecordingLog WITH
  produced <- teed,
  log <- Runs,
  outages <- faults,
  state <- IF Sealed THEN "sealed" ELSE IF Receivable THEN "recording" ELSE "cut"

\* The rows are an append-only account of the frames teed: each insert of a
\* chunk or a gap continues the one before it and covers only frames there
\* were, frames go unmentioned only in a step in which an insert fails, and after
\* the closed marker, or once the task is gone, no row follows (writer_task's drain
\* and its last flush).
ImplementsLog == Log!Spec

\* No batch and no chunk outgrows the hard cap the row size relies on,
\* however frames and flushes come together (would_overshoot_hard_cap).
WithinHardCap ==
  /\ \A i \in DOMAIN open : open[i].bytes <= HardCap
  /\ \A i \in DOMAIN writes : writes[i].bytes <= HardCap
  /\ \A i \in DOMAIN account : account[i].bytes <= HardCap

\* What the queue and the gaps carry is as record_output put it there.
Carried(c) ==
  /\ c.cmd = "output" =>
       /\ c.len <= HardCap /\ 1 <= c.seq /\ Len(c.gap) <= 1
       /\ c.gap # << >> => 1 <= c.gap[1].from /\ c.gap[1].from <= c.gap[1].to
                           /\ c.gap[1].to + 1 = c.seq
  /\ c.cmd = "resized" => 1 <= c.seq

CarriedInv ==
  /\ \A i \in DOMAIN queue : Carried(queue[i])
  /\ pending_gap # << >> => /\ 1 <= pending_gap[1].from /\ pending_gap[1].from <= pending_gap[1].to
                            /\ pending_gap[1].to <= teed
  /\ open # << >> => 1 <= open[1].from /\ open[1].from <= open[1].to

\* The closed marker is the last thing the task writes.
ClosingInv ==
  /\ marker # << >> /\ marker[1].kind = "closed" => writer = "closing"
  /\ Sealed => writer \in {"closing", "ended", "aborted"} /\ NothingInHand
  /\ writer = "closing" => open = << >>
  /\ ~Receivable => NothingInHand /\ queue = << >>

\* Until the shutdown command is sent the task is in its main loop.
BeforeShutdown ==
  manager \in {"live", "sending"} =>
    writer = "recv" /\ \A i \in DOMAIN queue : queue[i].cmd # "shutdown"

\* What the database holds of a recording is well formed at every moment: one run
\* of chunks and gaps within the size limits, broken only where frames were empty
\* or a gap marker failed, closed by its last insert, through overflow, failing
\* inserts, aborts and shutdown (flush_chunk, write_replay_gap, writer_task).  With
\* NothingUnaccounted this is inductive.
WriterInv ==
  /\ TypeOK /\ ChunksContinuous /\ LossIsFailure /\ WithinHardCap
  /\ CarriedInv /\ ClosingInv /\ BeforeShutdown

\* The task is not left behind: once the session is shut down, or dropped
\* and its forwarder done, the recording comes to an end (shutdown, and the
\* end of the channel).
WriterEnds ==
  (manager \in {"waiting", "over"} \/ (manager = "dropped" /\ forwarder = "ended" /\ resize = 0))
    ~> ~Receivable

-----------------------------------------------------------------------------
(***************************************************************************)
(* What the repository says and the code does not do.                      *)
(***************************************************************************)
\* recording.rs: dropped frames are "bracketed by a [ReplayGap] marker so
\* the replay viewer surfaces honest discontinuity"; up to the closed marker
\* of a recording that ended in good order, nothing is missing.
NoSilentLoss ==
  \A i \in DOMAIN markers :
    (markers[i].kind = "closed" /\ writer = "ended") =>
      \A n \in 1 .. markers[i].seq :
        n <= teed => \E j \in DOMAIN account :
                       account[j].kind # "lost" /\ n \in account[j].from .. account[j].to

\* RecordingWriter::shutdown: "Bounded by SHUTDOWN_DEADLINE: the manager's
\* close response will not stall arbitrarily on a slow DB."
ShutdownBounded == manager = "sending" ~> manager \in {"over", "dropped"}
=============================================================================
