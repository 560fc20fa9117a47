---------------------------- MODULE OutputStream ----------------------------
(***************************************************************************)
(* One live session's output, from the PTY to the clients' screens: the    *)
(* forwarder stamps and keeps frames and fans them out, each WebSocket     *)
(* task sends its client first a replay and then the live stream, and      *)
(* clients drop and reconnect with the last sequence number they saw.      *)
(*                                                                         *)
(* manager.rs forward_pty_output, replay_since; routes/v1                  *)
(* /terminal_sessions.rs run_attached_socket; terminal-core client.ts.     *)
(*                                                                         *)
(* A message sent on an open WebSocket is handed to the client in the same *)
(* step.  The server keeps nothing about a client across connections, so a *)
(* message lost with its connection is the same as a connection lost       *)
(* before the message was sent.                                            *)
(***************************************************************************)
EXTENDS ReplayBuffer

CONSTANTS
  Clients,     \* the clients attached to this session
  Capacity,    \* ATTACHMENT_FANOUT_CAPACITY, slots of the broadcast channel
  Lens,        \* lengths of a PTY output chunk
  MaxSeq       \* bound on the frames one behaviour may stamp

ASSUME StreamAssumption ==
  /\ Capacity \in Nat \ {0}
  /\ Lens \subseteq Nat
  /\ MaxSeq \in Nat

VARIABLES
  \* the forwarder and what it shares
  next_seq,    \* RuntimeEntry.next_seq
  buf,         \* LiveRuntime.replay
  pending,     \* the frame kept in the ring but not yet fanned out, or 0
  sent,        \* the newest frame in the broadcast channel
  \* one WebSocket task per client (SocketState)
  phase,       \* down, attach (awaiting the Attach frame), replay, live
  cursor,      \* the broadcast receiver's position: next seq to receive
  min_live_seq,
  mark,        \* last_seen_seq in this connection's Attach frame
  todo,        \* frames of the ReplayRange still to be sent
  \* the client
  lastSeenSeq,
  \* history: what the client's screen has been given
  base,        \* the seq its stream starts after
  outputs,     \* output frames rendered since then
  lagged,      \* the clients for whom the server skipped frames for good
  early        \* the clients whose replay was overtaken by a live frame

forwarder == << next_seq, buf, pending, sent >>
socket    == << phase, cursor, min_live_seq, mark, todo >>
history   == << base, outputs, lagged, early >>
vars      == << forwarder, socket, lastSeenSeq, history >>

Phases == {"down", "attach", "replay", "live"}

TypeOK ==
  /\ next_seq \in Nat \ {0}
  /\ buf.frames \in Seq(Frame)
  /\ buf.latest_seq \in Nat
  /\ pending \in Nat
  /\ sent \in Nat
  /\ phase \in [Clients -> Phases]
  /\ cursor \in [Clients -> Nat \ {0}]
  /\ min_live_seq \in [Clients -> Nat]
  /\ mark \in [Clients -> Nat]
  /\ todo \in [Clients -> Seq(Frame)]
  /\ lastSeenSeq \in [Clients -> Nat]
  /\ base \in [Clients -> Nat]
  /\ outputs \in [Clients -> Nat]
  /\ lagged \subseteq Clients
  /\ early \subseteq Clients

Init ==
  /\ next_seq = 1
  /\ buf = NewBuffer
  /\ pending = 0
  /\ sent = 0
  /\ phase = [c \in Clients |-> "down"]
  /\ cursor = [c \in Clients |-> 1]
  /\ min_live_seq = [c \in Clients |-> 0]
  /\ mark = [c \in Clients |-> 0]
  /\ todo = [c \in Clients |-> << >>]
  /\ lastSeenSeq = [c \in Clients |-> 0]
  /\ base = [c \in Clients |-> 0]
  /\ outputs = [c \in Clients |-> 0]
  /\ lagged = {}
  /\ early = {}

MaxOf(m, n) == IF m >= n THEN m ELSE n

-----------------------------------------------------------------------------
(***************************************************************************)
(* The forwarder.  A frame is kept in the ring before it is fanned out;    *)
(* between the two another task may take the ring's lock.                  *)
(***************************************************************************)
PtyOutput(len) ==
  /\ pending = 0
  /\ next_seq <= MaxSeq
  /\ buf' = Push(buf, [seq |-> next_seq, len |-> len])
  /\ pending' = next_seq
  /\ next_seq' = next_seq + 1
  /\ UNCHANGED << sent, socket, lastSeenSeq, history >>

Fanout ==
  /\ pending # 0
  /\ sent' = pending
  /\ pending' = 0
  /\ UNCHANGED << next_seq, buf, socket, lastSeenSeq, history >>

-----------------------------------------------------------------------------
(***************************************************************************)
(* The client: TerminalSessionClient's output handlers.  It renders every  *)
(* frame it is given and remembers the highest seq.                        *)
(***************************************************************************)
Render(c, seq) ==
  /\ lastSeenSeq' = [lastSeenSeq EXCEPT ![c] = MaxOf(@, seq)]
  /\ outputs' = [outputs EXCEPT ![c] = @ + 1]
  /\ base' = [base EXCEPT ![c] = IF lastSeenSeq[c] = 0 THEN seq - 1 ELSE @]

\* replay_window_lost: skip ahead; the renderer resets its grid.
SkipTo(c, seq) ==
  /\ lastSeenSeq' = [lastSeenSeq EXCEPT ![c] = MaxOf(@, seq)]
  /\ base' = [base EXCEPT ![c] = MaxOf(lastSeenSeq[c], seq)]
  /\ outputs' = [outputs EXCEPT ![c] = 0]
  /\ lagged' = lagged \ {c}
  /\ early' = early \ {c}

(***************************************************************************)
(* A socket opens: the task subscribes to the broadcast and acknowledges   *)
(* with SessionAttached; the client's Attach frame, with the bookmark it   *)
(* had when it connected, is on its way.                                   *)
(***************************************************************************)
Connect(c) ==
  /\ phase[c] = "down"
  /\ phase' = [phase EXCEPT ![c] = "attach"]
  /\ cursor' = [cursor EXCEPT ![c] = sent + 1]
  /\ min_live_seq' = [min_live_seq EXCEPT ![c] = 0]
  /\ mark' = [mark EXCEPT ![c] = lastSeenSeq[c]]
  /\ UNCHANGED << forwarder, todo, lastSeenSeq, history >>

\* The socket drops; what the replay had left to send is gone.
Drop(c) ==
  /\ phase[c] # "down"
  /\ phase' = [phase EXCEPT ![c] = "down"]
  /\ todo' = [todo EXCEPT ![c] = << >>]
  /\ UNCHANGED << forwarder, cursor, min_live_seq, mark, lastSeenSeq, history >>

(***************************************************************************)
(* The first Attach frame.  Without a bookmark there is no replay.  With   *)
(* one the floor rises to the ring's newest frame before the range is sent.*)
(***************************************************************************)
AttachWithoutBookmark(c) ==
  /\ phase[c] = "attach"
  /\ mark[c] = 0
  /\ phase' = [phase EXCEPT ![c] = "live"]
  /\ UNCHANGED << forwarder, cursor, min_live_seq, mark, todo, lastSeenSeq, history >>

\* mutant of RaiseFloor: the floor is never raised
FloorForgotten(c) == UNCHANGED min_live_seq

RaiseFloor(c) ==
  min_live_seq' = [min_live_seq EXCEPT ![c] = MaxOf(@, buf.latest_seq)]

AttachReplay(c) ==
  /\ phase[c] = "attach"
  /\ mark[c] > 0
  /\ ~WindowLost(buf, mark[c])
  /\ RaiseFloor(c)
  /\ todo' = [todo EXCEPT ![c] = ReplayFrames(buf, mark[c])]
  /\ phase' = [phase EXCEPT ![c] = IF todo'[c] = << >> THEN "live" ELSE "replay"]
  /\ UNCHANGED << forwarder, cursor, mark, lastSeenSeq, history >>

AttachWindowLost(c) ==
  /\ phase[c] = "attach"
  /\ mark[c] > 0
  /\ WindowLost(buf, mark[c])
  /\ RaiseFloor(c)
  /\ SkipTo(c, buf.latest_seq)
  /\ phase' = [phase EXCEPT ![c] = "live"]
  /\ UNCHANGED << forwarder, cursor, mark, todo >>

\* emit_replay_range, one frame at a time; ReplayEnd follows the last one.
EmitReplay(c) ==
  /\ phase[c] = "replay"
  /\ Render(c, Head(todo[c]).seq)
  /\ todo' = [todo EXCEPT ![c] = Tail(@)]
  /\ phase' = [phase EXCEPT ![c] = IF Len(todo[c]) = 1 THEN "live" ELSE @]
  /\ UNCHANGED << forwarder, cursor, min_live_seq, mark, lagged, early >>

-----------------------------------------------------------------------------
(***************************************************************************)
(* The live stream.  Nothing but the frames the client has yet to be sent  *)
(* holds a socket back, before the Attach frame as well as after it.       *)
(***************************************************************************)
Oldest == IF sent > Capacity THEN sent - Capacity + 1 ELSE 1

Receiving(c) == phase[c] \in {"attach", "live"} /\ cursor[c] <= sent

\* A frame the replay has sent already.
DropReplayed(c) ==
  /\ Receiving(c)
  /\ cursor[c] >= Oldest
  /\ cursor[c] <= min_live_seq[c]
  /\ cursor' = [cursor EXCEPT ![c] = @ + 1]
  /\ UNCHANGED << forwarder, phase, min_live_seq, mark, todo, lastSeenSeq, history >>

\* mutant of SendLive: the floor is not looked at
SendLiveUnchecked(c) ==
  /\ Receiving(c)
  /\ cursor[c] >= Oldest
  /\ cursor' = [cursor EXCEPT ![c] = @ + 1]
  /\ Render(c, cursor[c])
  /\ early' = IF phase[c] = "attach" /\ mark[c] > 0 THEN early \cup {c} ELSE early
  /\ UNCHANGED << forwarder, phase, min_live_seq, mark, todo, lagged >>

SendLive(c) ==
  /\ Receiving(c)
  /\ cursor[c] >= Oldest
  /\ cursor[c] > min_live_seq[c]
  /\ cursor' = [cursor EXCEPT ![c] = @ + 1]
  /\ Render(c, cursor[c])
  /\ early' = IF phase[c] = "attach" /\ mark[c] > 0 THEN early \cup {c} ELSE early
  /\ UNCHANGED << forwarder, phase, min_live_seq, mark, todo, lagged >>

\* mutant of Lagged: the receiver stays where the frames are gone
LaggedInPlace(c) ==
  /\ Receiving(c)
  /\ cursor[c] < Oldest
  /\ lagged' = lagged \cup {c}
  /\ UNCHANGED << forwarder, cursor, phase, min_live_seq, mark, todo, lastSeenSeq,
                  base, outputs, early >>

\* RecvError::Lagged: the receiver moves to the oldest frame still queued.
Lagged(c) ==
  /\ Receiving(c)
  /\ cursor[c] < Oldest
  /\ cursor' = [cursor EXCEPT ![c] = Oldest]
  /\ lagged' = IF /\ phase[c] = "live" \/ mark[c] = 0
                  /\ Oldest > min_live_seq[c] + 1
                  THEN lagged \cup {c}
                  ELSE lagged
  /\ UNCHANGED << forwarder, phase, min_live_seq, mark, todo, lastSeenSeq,
                  base, outputs, early >>

-----------------------------------------------------------------------------
Server(c) ==
  \/ AttachWithoutBookmark(c)
  \/ AttachReplay(c)
  \/ AttachWindowLost(c)
  \/ EmitReplay(c)
  \/ DropReplayed(c)
  \/ SendLive(c)
  \/ Lagged(c)

Next ==
  \/ \E len \in Lens : PtyOutput(len)
  \/ Fanout
  \/ \E c \in Clients : Connect(c) \/ Drop(c) \/ Server(c)

Spec == Init /\ [][Next]_vars

\* The runtime polls the forwarder and every open socket's task.
FairSpec ==
  /\ Spec
  /\ WF_vars(Fanout)
  /\ \A c \in Clients : WF_vars(Server(c))

-----------------------------------------------------------------------------
(***************************************************************************)
(* The ring holds the most recent frames, one for every sequence number up *)
(* to the newest one stamped, in order and without a hole: what push keeps *)
(* is what the forwarder stamped last (next_seq, push).                    *)
(***************************************************************************)
RingContiguous ==
  /\ buf.latest_seq = next_seq - 1
  /\ Len(buf.frames) <= buf.latest_seq
  /\ buf.latest_seq > 0 => buf.frames # << >>
  /\ \A i \in 1 .. Len(buf.frames) :
       buf.frames[i].seq = buf.latest_seq - Len(buf.frames) + i

\* The eviction loop leaves the ring within both of its bounds, unless a
\* single frame is all that is left (push).
RingBounded ==
  \/ Len(buf.frames) <= 1
  \/ Len(buf.frames) <= MaxFrames /\ buf.bytes <= MaxBytes

\* The running byte count that eviction is decided on is the sum of the
\* retained payloads after any history of pushes and evictions (push).
ByteCountExact == buf.bytes = Bytes(buf.frames)

(***************************************************************************)
(* For every bookmark a client can hold, the ring's answer is right: all   *)
(* the newer frames and nothing else, or window-lost exactly when the      *)
(* frame after the bookmark has been evicted (replay_since).               *)
(***************************************************************************)
ReplayAnswerExact ==
  \A b \in 1 .. buf.latest_seq :
    IF \E i \in 1 .. Len(buf.frames) : buf.frames[i].seq <= b + 1
      THEN /\ ~WindowLost(buf, b)
           /\ Len(ReplayFrames(buf, b)) = buf.latest_seq - b
           /\ \A i \in 1 .. (buf.latest_seq - b) :
                ReplayFrames(buf, b)[i].seq = b + i
      ELSE WindowLost(buf, b)

(***************************************************************************)
(* Across any number of drops and reconnects a client renders every frame  *)
(* of its stream once and in order: the frames it has rendered are as many *)
(* as the sequence numbers it has moved past (the floor min_live_seq and   *)
(* the bookmark lastSeenSeq).  This leaves out a client the broadcast has  *)
(* lagged past, and one whose replay was overtaken by a live frame.        *)
(***************************************************************************)
ContinuousStream ==
  \A c \in Clients \ (lagged \cup early) : outputs[c] = lastSeenSeq[c] - base[c]

\* A frame fanned out while a client is connected reaches the client, in the
\* replay or live, or the connection ends; a newer one may stand in for it
\* after a lag (the select loop of run_attached_socket).
LiveFrameDelivered ==
  \A c \in Clients, n \in 1 .. MaxSeq :
    (phase[c] # "down" /\ cursor[c] <= n /\ n <= sent)
      ~> (lastSeenSeq[c] >= n \/ phase[c] = "down")

-----------------------------------------------------------------------------
(***************************************************************************)
(* The inductive invariant behind ContinuousStream.                        *)
(***************************************************************************)
\* The broadcast is at most the one pending frame behind the ring.
FanoutInv ==
  \/ pending = 0 /\ sent = next_seq - 1
  \/ pending = next_seq - 1 /\ pending > 0 /\ sent = next_seq - 2

\* Nothing a socket or a client holds is newer than what it was taken from.
PositionInv(c) ==
  /\ cursor[c] <= sent + 1
  /\ min_live_seq[c] < next_seq
  /\ lastSeenSeq[c] < next_seq
  /\ base[c] <= lastSeenSeq[c]
  /\ phase[c] = "attach" => min_live_seq[c] = 0
  /\ phase[c] = "attach" => mark[c] < next_seq
  /\ phase[c] = "replay" =>
       /\ todo[c] # << >>
       /\ cursor[c] <= min_live_seq[c] + 1
       /\ \A i \in 1 .. Len(todo[c]) : todo[c][i].seq <= min_live_seq[c]

\* The next live frame a socket may send.
NextLive(c) == MaxOf(cursor[c], min_live_seq[c] + 1)

\* A client that was neither lagged nor overtaken has rendered its stream
\* without a gap, and the next frame it is sent is the next of its stream.
OnStream(c) ==
  /\ outputs[c] = lastSeenSeq[c] - base[c]
  /\ phase[c] = "attach" /\ mark[c] > 0 => lastSeenSeq[c] = mark[c]
  /\ phase[c] = "replay" =>
       /\ lastSeenSeq[c] > 0
       /\ lastSeenSeq[c] + Len(todo[c]) = min_live_seq[c]
       /\ \A i \in 1 .. Len(todo[c]) : todo[c][i].seq = lastSeenSeq[c] + i
  /\ (phase[c] = "live" \/ (phase[c] = "attach" /\ mark[c] = 0)) =>
       lastSeenSeq[c] = 0 \/ NextLive(c) = lastSeenSeq[c] + 1

\* The ring, the broadcast behind it and each client's place agree at every
\* moment: this is what keeps ContinuousStream and the replay's answers true
\* (forward_pty_output, run_attached_socket).
StreamInv ==
  /\ TypeOK
  /\ RingContiguous
  /\ RingBounded
  /\ FanoutInv
  /\ \A c \in Clients : PositionInv(c)
  /\ \A c \in Clients \ (lagged \cup early) : OnStream(c)

-----------------------------------------------------------------------------
(***************************************************************************)
(* What the repository says and the code does not do.                      *)
(***************************************************************************)
\* No client is given the same output twice ("without this floor the
\* renderer would see the older frames twice", run_attached_socket).
NoRepeatedOutput ==
  \A c \in Clients : outputs[c] <= lastSeenSeq[c] - base[c]

\* A reconnect that passes last_seen_seq and is not told the window is lost
\* leaves no gap behind a lag ("the bounded replay buffer will fill the gap
\* when possible", run_attached_socket).
GapFilledOnReconnect ==
  [][ \A c \in Clients :
        (/\ phase[c] \in {"attach", "replay"} /\ phase'[c] = "live"
         /\ mark[c] > 0
         /\ c \notin early)
          => outputs'[c] >= lastSeenSeq'[c] - base'[c] ]_vars
=============================================================================
