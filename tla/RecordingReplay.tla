-------------------------- MODULE RecordingReplay ---------------------------
(***************************************************************************)
(* Playing a recording back: the viewer (RecordingReplayView.svelte) pages *)
(* through the read API (relayterm-api/src/routes/v1/                      *)
(* terminal_recordings.rs, with the repository's queries) while the        *)
(* session may still be recording, retention may purge it, and the viewer  *)
(* may be reloaded with answers still on their way.                        *)
(*                                                                         *)
(* A chunk covers the sequence numbers first .. last; gaps between chunks  *)
(* are allowed, overlaps never happen (module RecordingWriter).  It is     *)
(* `plain' when the viewer can decode it: this version writes no others,   *)
(* but a viewer may meet a server newer than itself.                       *)
(***************************************************************************)
EXTENDS Integers, Sequences, SequencesExt, FiniteSets, FiniteSetsExt

CONSTANTS
  Owner, Viewers,       \* the session's owner; who may look
  PageSize, LimitCeiling,   \* CHUNK_PAGE_SIZE; MAX_LIMIT, equal to LIST_LIMIT_CEILING
  HardLoopCap,              \* HARD_LOOP_CAP: the pages one load asks for at most
  MaxChunkSeq, MaxLoads     \* bounds on the sequence numbers and on the loads

\* The viewer asks for 256 chunks at a time and the server gives up to 1024.
ASSUME ReplayAssumption ==
  /\ LimitCeiling \in Nat /\ PageSize \in 1 .. LimitCeiling
  /\ HardLoopCap \in Nat \ {0} /\ MaxChunkSeq \in Nat /\ MaxLoads \in Nat

VARIABLES
  chunks,      \* the rows of terminal_recording_chunks
  marks,       \* number of marker rows
  recorded,    \* the last sequence number written
  purged,      \* whether retention deleted the rows at some time
  viewer,      \* who is looking
  generation,  \* the view's load counter
  calls,       \* requests and answers on their way
  taken,       \* the chunks of the pages this load took, in order
  cursor, view,\* the load loop's position, and the status on the screen
  loops,       \* loopGuard
  warning,     \* whether firstDecodeWarning is set
  known        \* the chunks there were when this load's metadata was read

loadVars == << taken, cursor, view, loops, warning, known >>
replayVars == << chunks, marks, recorded, purged, viewer, generation, calls, loadVars >>

\* clamp_limit of the route and of the repository, and parse_from_seq.
ClampLimit(n) == Min({Max({n, 1}), LimitCeiling})
FromSeqValid(n) == n >= 0

-----------------------------------------------------------------------------
(* The tables.                                                             *)

\* append_chunk: the writer goes forward only; seq_start = 1 is the first output.
AppendChunk ==
  /\ \E first, last \in recorded + 1 .. MaxChunkSeq, plain \in BOOLEAN :
       /\ first <= last /\ recorded' = last
       /\ chunks' = chunks \cup {[first |-> first, last |-> last, plain |-> plain]}
  /\ UNCHANGED << marks, purged, viewer, generation, calls, loadVars >>

AppendMarker ==
  /\ marks = 0 /\ marks' = 1
  /\ UNCHANGED << chunks, recorded, purged, viewer, generation, calls, loadVars >>

\* purge_for_retention deletes chunks and markers in one transaction.
Purge ==
  /\ chunks # {} \/ marks # 0
  /\ chunks' = {} /\ marks' = 0 /\ purged' = TRUE
  /\ UNCHANGED << recorded, viewer, generation, calls, loadVars >>

\* WHERE seq_start >= from; ORDER BY seq_start puts this many rows before c.
Rows(from) == {c \in chunks : c.first >= from}
RowsBefore(c, rows) == Cardinality({d \in rows : d.first < c.first})

ListChunks(from, limit) ==
  LET rows == Rows(from)
  IN [i \in 1 .. Min({Cardinality(rows), ClampLimit(limit)}) |->
        CHOOSE c \in rows : RowsBefore(c, rows) = i - 1]

\* get_metadata's first query; first_seq counts as 1 when there is no chunk.
ChunkTotals == [has_recording |-> chunks # {}, rows |-> chunks,
                first_seq |-> IF chunks = {} THEN 1 ELSE Min({c.first : c \in chunks})]

-----------------------------------------------------------------------------
(* The routes: resolve_owned_session first, then one query.                *)

Serve(call, body) ==
  calls' = (calls \ {call}) \cup
             {[gen |-> call.gen, kind |-> call.kind, from |-> call.from, state |-> "answered",
               ok |-> viewer = Owner /\ FromSeqValid(call.from),
               body |-> IF viewer = Owner THEN body ELSE << >>]}

Asked(kind) == {c \in calls : c.state = "asked" /\ c.kind = kind}

\* get_metadata runs two queries, one after the other: rows may come and go between.
GetMetadataChunks ==
  /\ \E c \in Asked("metadata") :
       /\ viewer = Owner
       /\ calls' = (calls \ {c}) \cup {[c EXCEPT !.state = "counted", !.body = << ChunkTotals >>]}
  /\ UNCHANGED << chunks, marks, recorded, purged, viewer, generation, loadVars >>

GetMetadataMarkers ==
  /\ \E c \in calls :
       /\ c.state = "counted"
       /\ Serve(c, << [c.body[1] EXCEPT !.has_recording = @ \/ marks # 0] >>)
  /\ UNCHANGED << chunks, marks, recorded, purged, viewer, generation, loadVars >>

\* A session of somebody else is not found.
MetadataRefused ==
  /\ viewer # Owner
  /\ \E c \in Asked("metadata") : Serve(c, << >>)
  /\ UNCHANGED << chunks, marks, recorded, purged, viewer, generation, loadVars >>

GetChunks ==
  /\ \E c \in Asked("chunks") : Serve(c, ListChunks(c.from, PageSize))
  /\ UNCHANGED << chunks, marks, recorded, purged, viewer, generation, loadVars >>

GetMarkers ==
  /\ \E c \in Asked("markers") : Serve(c, << >>)
  /\ UNCHANGED << chunks, marks, recorded, purged, viewer, generation, loadVars >>

\* A request or its answer is lost, or a query fails: the client's call fails.
CallFails ==
  /\ \E c \in calls :
       /\ c.state # "answered"
       /\ calls' = (calls \ {c}) \cup
                     {[c EXCEPT !.state = "answered", !.ok = FALSE, !.body = << >>]}
  /\ UNCHANGED << chunks, marks, recorded, purged, viewer, generation, loadVars >>

-----------------------------------------------------------------------------
(* load().                                                                 *)

Call(gen, kind, from) == [gen |-> gen, kind |-> kind, from |-> from, state |-> "asked",
                          ok |-> FALSE, body |-> << >>]

\* Mount and refresh: a new generation with a fresh renderer.
LoadView ==
  /\ generation < MaxLoads
  /\ generation' = generation + 1
  /\ taken' = << >> /\ cursor' = 0 /\ loops' = 0 /\ warning' = FALSE
  /\ known' = {} /\ view' = "loading_metadata"
  /\ calls' = calls \cup {Call(generation + 1, "metadata", 0)}
  /\ UNCHANGED << chunks, marks, recorded, purged, viewer >>

\* An answer of the current load; one of an earlier load is ignored.
Answer(kind) == {c \in calls : c.state = "answered" /\ c.kind = kind /\ c.gen = generation}

Stale ==
  /\ \E c \in calls : c.state = "answered" /\ c.gen # generation /\ calls' = calls \ {c}
  /\ UNCHANGED << chunks, marks, recorded, purged, viewer, generation, loadVars >>

\* The loop's first pass asks for the chunks from `first' on.
StartPaging(c, first) ==
  /\ view' = "loading_chunks" /\ known' = c.body[1].rows
  /\ cursor' = first /\ loops' = 1
  /\ calls' = (calls \ {c}) \cup {Call(generation, "chunks", first)}

\* There is nothing to load, or no way to.
LoadEnds(status, c) ==
  view' = status /\ calls' = calls \ {c} /\ UNCHANGED << cursor, loops, known >>

\* mutant of TakeMetadata: the cursor starts after the first sequence number
TakeMetadataAfter ==
  /\ \E c \in Answer("metadata") :
       IF ~c.ok THEN LoadEnds("error", c)
         ELSE IF ~c.body[1].has_recording THEN LoadEnds("empty", c)
         ELSE StartPaging(c, c.body[1].first_seq + 1)
  /\ UNCHANGED << chunks, marks, recorded, purged, viewer, generation, taken, warning >>

TakeMetadata ==
  /\ \E c \in Answer("metadata") :
       IF ~c.ok THEN LoadEnds("error", c)
         ELSE IF ~c.body[1].has_recording THEN LoadEnds("empty", c)
         ELSE StartPaging(c, c.body[1].first_seq)
  /\ UNCHANGED << chunks, marks, recorded, purged, viewer, generation, taken, warning >>

\* mutant of NextCursor: the cursor moves by the page's size, not past its last number
NextCursorByCount(page) == cursor + Len(page)

\* page.reduce(max(seq_end), cursor) + 1
NextCursor(page) == Max({cursor} \cup {c.last : c \in ToSet(page)}) + 1

\* isSupportedChunk and decodeRecordingChunk: a chunk that is not plain is skipped.
Decodes(c) == c.plain

\* What the renderer was given.
Played == {c \in ToSet(taken) : Decodes(c)}

\* mutant of Warns: a page that was not the last one needs no warning
WarnsOfChunks(page) == \E c \in ToSet(page) : ~Decodes(c)

\* firstDecodeWarning: a chunk of the page is skipped, or the next pass is one too many.
Warns(page) ==
  \/ \E c \in ToSet(page) : ~Decodes(c)
  \/ Len(page) >= PageSize /\ loops = HardLoopCap

\* The chunks of the page that decode are written; a short page is the last one, and
\* so is the one after which the loop has run HARD_LOOP_CAP times.
TakeChunks ==
  /\ \E c \in Answer("chunks") :
       IF ~c.ok THEN LoadEnds("error", c) /\ UNCHANGED << taken, warning >>
         ELSE /\ taken' = taken \o c.body
              /\ warning' = (warning \/ Warns(c.body))
              /\ cursor' = IF c.body = << >> THEN cursor ELSE NextCursor(c.body)
              /\ loops' = IF Len(c.body) < PageSize THEN loops ELSE loops + 1
              /\ calls' = (calls \ {c}) \cup
                   {IF Len(c.body) < PageSize \/ loops = HardLoopCap
                      THEN Call(generation, "markers", 0)
                      ELSE Call(generation, "chunks", cursor')}
              /\ UNCHANGED << view, known >>
  /\ UNCHANGED << chunks, marks, recorded, purged, viewer, generation >>

\* A failure to read the markers is not an error of the view.
TakeMarkers ==
  /\ \E c \in Answer("markers") : calls' = calls \ {c}
  /\ view' = IF warning THEN "decode_warning" ELSE "ready"
  /\ UNCHANGED << chunks, marks, recorded, purged, viewer, generation, taken, cursor, loops,
                  warning, known >>

ReplayInit ==
  /\ chunks = {} /\ marks = 0 /\ recorded = 0 /\ purged = FALSE /\ known = {}
  /\ viewer \in Viewers
  /\ generation = 0 /\ calls = {} /\ taken = << >> /\ cursor = 0 /\ view = "loading_metadata"
  /\ loops = 0 /\ warning = FALSE

ReplayNext ==
  \/ AppendChunk \/ AppendMarker \/ Purge
  \/ GetMetadataChunks \/ GetMetadataMarkers \/ MetadataRefused \/ GetChunks \/ GetMarkers \/ CallFails
  \/ LoadView \/ Stale \/ TakeMetadata \/ TakeChunks \/ TakeMarkers

ReplaySpec == ReplayInit /\ [][ReplayNext]_replayVars

-----------------------------------------------------------------------------
(* Properties.                                                             *)

ReplayTypeOK ==
  /\ \A c \in chunks : c.first \in 1 .. MaxChunkSeq /\ c.last \in c.first .. MaxChunkSeq
  /\ generation \in 0 .. MaxLoads /\ cursor \in 0 .. MaxChunkSeq + 1
  /\ loops \in 0 .. HardLoopCap + 1 /\ warning \in BOOLEAN
  /\ view \in {"loading_metadata", "loading_chunks", "empty", "error", "ready", "decode_warning"}
  /\ Cardinality({c \in calls : c.gen = generation}) <= 1

\* Output is played in its order and no byte of it twice, whatever was appended or
\* purged between two pages and whichever answers of earlier loads come in late; and a
\* user who does not own the session sees none of it.
PlayedInOrder ==
  /\ \A i \in 1 .. Len(taken) - 1 : taken[i].last < taken[i + 1].first
  /\ taken # << >> => viewer = Owner

\* Appends, purges, pages and late answers never bring the viewer out of order
\* or show it to a stranger (the load loop of RecordingReplayView, list_chunks).
ReplayInv == ReplayTypeOK /\ PlayedInOrder

\* Unless retention purged in the meantime, a view that says it is ready has played
\* every chunk there was when its load began: paging skips nothing, and a chunk that
\* does not decode or a load that was cut short is owned up to.  A view that warns has
\* reason to, and unless it was cut short it has played all that decodes
\* (firstDecodeWarning, HARD_LOOP_CAP and the status of RecordingReplayView's load).
ReplayComplete ==
  /\ view = "ready" /\ ~purged => known \subseteq Played
  /\ view = "decode_warning" =>
       \/ loops > HardLoopCap
       \/ /\ Played # ToSet(taken)
          /\ ~purged => {k \in known : Decodes(k)} \subseteq Played
=============================================================================
