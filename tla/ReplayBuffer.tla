---------------------------- MODULE ReplayBuffer ----------------------------
(***************************************************************************)
(* The bounded ring of recent PTY output, crates/relayterm-terminal        *)
(* /src/replay.rs.  Pure operators on a buffer value; the tasks that share *)
(* the buffer behind its mutex are in module OutputStream.                 *)
(*                                                                         *)
(* A frame is a record: its sequence number and the length of its payload. *)
(* The payload itself is never inspected by this code.                     *)
(***************************************************************************)
EXTENDS Integers, Sequences

CONSTANTS
  MaxFrames,    \* ReplayBufferConfig::max_frames
  MaxBytes      \* ReplayBufferConfig::max_bytes

ASSUME BufferConfigAssumption == MaxFrames \in Nat /\ MaxBytes \in Nat

Frame == [seq : Nat \ {0}, len : Nat]

\* ReplayBuffer::new
NewBuffer == [frames |-> << >>, bytes |-> 0, latest_seq |-> 0]

\* Payload bytes of a run of frames.
Bytes(fs) ==
  LET sum[n \in 0 .. Len(fs)] == IF n = 0 THEN 0 ELSE sum[n - 1] + fs[n].len
  IN  sum[Len(fs)]

-----------------------------------------------------------------------------
(***************************************************************************)
(* push: append, then drop frames at the front while either bound is       *)
(* exceeded and more than one frame is left.  The loop stops at the first  *)
(* k for which the rest of the frames may stay.                            *)
(***************************************************************************)
MayStay(all, bytes, k) ==
  \/ Len(all) - k <= 1
  \/ Len(all) - k <= MaxFrames /\ bytes - Bytes(SubSeq(all, 1, k)) <= MaxBytes

Evicted(all, bytes) ==
  CHOOSE k \in 0 .. Len(all) :
    MayStay(all, bytes, k) /\ \A j \in 0 .. (k - 1) : ~MayStay(all, bytes, j)

\* mutant of Push: forgets the bytes of the frames it drops
PushKeepsBytes(buf, frame) ==
  LET all   == Append(buf.frames, frame)
      bytes == buf.bytes + frame.len
  IN  [frames     |-> SubSeq(all, Evicted(all, bytes) + 1, Len(all)),
       bytes      |-> bytes,
       latest_seq |-> frame.seq]

Push(buf, frame) ==
  LET all   == Append(buf.frames, frame)
      bytes == buf.bytes + frame.len
      k     == Evicted(all, bytes)
  IN  [frames     |-> SubSeq(all, k + 1, Len(all)),
       bytes      |-> bytes - Bytes(SubSeq(all, 1, k)),
       latest_seq |-> frame.seq]

-----------------------------------------------------------------------------
(***************************************************************************)
(* replay_since: the frames newer than the bookmark, or the news that some *)
(* of them have been evicted.  A bookmark of 0 stands for None as well as  *)
(* for Some(0): the code collapses the two.                                *)
(***************************************************************************)
\* mutant of WindowLost: a bookmark just before the oldest frame is lost too
WindowLostTooSoon(buf, bookmark) ==
  /\ buf.frames # << >>
  /\ 0 < bookmark
  /\ bookmark < buf.latest_seq
  /\ bookmark < buf.frames[1].seq

WindowLost(buf, bookmark) ==
  /\ buf.frames # << >>
  /\ 0 < bookmark
  /\ bookmark < buf.latest_seq
  /\ bookmark + 1 < buf.frames[1].seq

(***************************************************************************)
(* The frames are in ascending order of seq, so that the filter            *)
(* `f.seq > bookmark` keeps the suffix that starts at the first newer one. *)
(***************************************************************************)
FirstNewer(fs, bookmark) ==
  CHOOSE i \in 1 .. (Len(fs) + 1) :
    \A j \in 1 .. Len(fs) : fs[j].seq > bookmark <=> i <= j

ReplayFrames(buf, bookmark) ==
  IF bookmark >= buf.latest_seq
    THEN << >>
    ELSE SubSeq(buf.frames, FirstNewer(buf.frames, bookmark), Len(buf.frames))
=============================================================================
