--------------------------- MODULE MC_OutputStream ---------------------------
(***************************************************************************)
(* Small instances of OutputStream for TLC.  The constants are in the cfg  *)
(* files: a ring of two frames and three bytes, so that with chunks of one *)
(* and two bytes each bound evicts without the other, and a broadcast      *)
(* channel of two slots, so that a client can lag.                         *)
(***************************************************************************)
EXTENDS OutputStream
=============================================================================
