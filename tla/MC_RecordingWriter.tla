------------------------- MODULE MC_RecordingWriter -------------------------
(***************************************************************************)
(* Small instances of RecordingWriter for TLC: a queue of two commands, so *)
(* that it overflows and a marker competes for its slots, chunks flushed   *)
(* and capped at three bytes, so that a batch of two bytes overshoots with *)
(* the next two, frames of zero, one, two and four bytes, the last of them *)
(* over the cap, and two failures, so that a chunk's insert and the one of *)
(* the gap marker in its place both fail.                                  *)
(***************************************************************************)
EXTENDS RecordingWriter
=============================================================================
