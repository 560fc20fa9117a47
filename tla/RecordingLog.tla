---------------------------- MODULE RecordingLog ----------------------------
(***************************************************************************)
(* What a recording promises whoever plays it back: an append-only account *)
(* of the session's frames, from the first one on and in their order, that *)
(* says of every run of frames whether it was kept (a chunk) or given up   *)
(* (a replay_gap), and that nothing follows once it is sealed by its       *)
(* closed marker.  Only frames without bytes, and frames the database has  *)
(* refused in the step in hand, go unmentioned (empty, lost).  A recording *)
(* that is cut short is never sealed.                                      *)
(* RecordingWriter implements it with its queue, batches and failing       *)
(* inserts.                                                                *)
(***************************************************************************)
EXTENDS Integers, Sequences

VARIABLES
  produced,  \* frames the session has put out
  log,       \* the runs of frames accounted for
  outages,   \* how often the database failed
  state      \* recording, sealed, cut

Covered == IF log = << >> THEN 0 ELSE log[Len(log)].to

Init == produced = 0 /\ log = << >> /\ outages = 0 /\ state = "recording"

\* The session puts out a frame, whether or not anybody records it any more.
Produce == produced' = produced + 1 /\ UNCHANGED << log, outages, state >>

\* The next frames, and only frames that exist, come to one of the ends in kinds.
Disposed(kinds) ==
  \E kind \in kinds, last \in Covered + 1 .. produced :
    log' = Append(log, [kind |-> kind, from |-> Covered + 1, to |-> last])

Commit ==
  /\ state = "recording"
  /\ Disposed({"chunk", "replay_gap", "empty"})
  /\ UNCHANGED << produced, outages, state >>

\* The database fails, and perhaps nothing is left to say that frames are missing.
Outage ==
  /\ state = "recording"
  /\ outages' = outages + 1
  /\ UNCHANGED log \/ Disposed({"lost"})
  /\ UNCHANGED << produced, state >>

Seal == state = "recording" /\ state' = "sealed" /\ UNCHANGED << produced, log, outages >>

Cut == state = "recording" /\ state' = "cut" /\ UNCHANGED << produced, log, outages >>

Next == Produce \/ Commit \/ Outage \/ Seal \/ Cut

Spec == Init /\ [][Next]_<< produced, log, outages, state >>
=============================================================================
