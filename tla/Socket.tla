------------------------------- MODULE Socket -------------------------------
(***************************************************************************)
(* The attached WebSockets of one terminal session                         *)
(* (relayterm-api/src/routes/v1/terminal_sessions.rs), the binary frames   *)
(* they carry (relayterm-protocol/src/binary.rs), and the way of an input  *)
(* or a resize through the manager and the handle's channels to the shell  *)
(* (relayterm-ssh/src/russh_pty.rs).  The replay a first Attach asks for   *)
(* is module OutputStream's.                                               *)
(*                                                                         *)
(* A byte is a number below Base and the header's fields have the widths   *)
(* given; the layout, the order of the checks and the caps are the code's. *)
(***************************************************************************)
EXTENDS Naturals, Sequences, SequencesExt

CONSTANTS
  Clients,              \* sockets attached to the session
  ClientFrames,         \* what a client may send
  Base, Magic, SeqWidth, LenWidth, MAX_PAYLOAD_LEN,
  OutputData,           \* payloads the shell prints
  MIN_DIM, MAX_DIM,
  QueueCap,             \* of the handle's input and resize channels
  MaxSent, MaxOutput    \* bounds: frames of all clients, output frames

VARIABLES
  sent,          \* what each client sent, in order
  answers,       \* per frame handled: what it was answered, "silent" for nothing
  conn,          \* "open", in an await of a handler, or "ended": see Waits
  live,          \* SocketState::live: whether the attach found a live PTY
  handshaken,    \* SocketState::replay_handshake_done
  frames,        \* binary frames each client received
  pty,           \* the registry's entry: a "stub", "bound" to a PTY, or "removed"
  driver,        \* drive_channel: "none", "running", or "gone" with its receivers
  status,        \* the session row's
  snapshot,      \* the entry's terminal size
  inputq, resizeq,   \* the handle's channels
  stdin, window,     \* what reached the shell: inputs with their client, its size
  missed,        \* whether a window_change failed
  output         \* what the shell printed

socketVars == << sent, answers, conn, live, handshaken, frames, pty, driver, status, snapshot,
                 inputq, resizeq, stdin, window, missed, output >>

-----------------------------------------------------------------------------
(* The codec.                                                              *)

Byte == 0 .. Base - 1
KindByte == [Output |-> 1, Input |-> 2]
HeaderLen == 4 + SeqWidth + LenWidth

\* How many numbers a field of a width holds.
Capacity(width) ==
  LET upto[k \in 0 .. width] == IF k = 0 THEN 1 ELSE Base * upto[k - 1]
  IN  upto[width]

\* to_be_bytes and from_be_bytes.
BigEndian(n, width) ==
  LET rest[k \in 0 .. width] == IF k = 0 THEN n ELSE rest[k - 1] \div Base
  IN  [i \in 1 .. width |-> rest[width - i] % Base]
Value(bytes) ==
  LET upto[i \in 0 .. Len(bytes)] == IF i = 0 THEN 0 ELSE upto[i - 1] * Base + bytes[i]
  IN  upto[Len(bytes)]

\* A frame [kind, seq, payload] as bytes: magic, kind, flags, reserved, seq, length.
Encode(f) == << Magic, KindByte[f.kind], 0, 0 >> \o BigEndian(f.seq, SeqWidth)
               \o BigEndian(Len(f.payload), LenWidth) \o f.payload

EncodeFails(payload) == Len(payload) > MAX_PAYLOAD_LEN

PayloadLen(buf) == Value(SubSeq(buf, 5 + SeqWidth, HeaderLen))

\* decode_binary_frame's checks, in its order.
DecodeError(buf) ==
  CASE Len(buf) < HeaderLen -> "TruncatedHeader"
    [] Len(buf) >= HeaderLen /\ buf[1] # Magic -> "BadMagic"
    [] OTHER -> IF buf[3] # 0 \/ buf[4] # 0 THEN "NonZeroReserved"
                ELSE IF PayloadLen(buf) > MAX_PAYLOAD_LEN THEN "PayloadTooLarge"
                ELSE IF Len(buf) # HeaderLen + PayloadLen(buf) THEN "LengthMismatch"
                ELSE IF buf[2] \notin {1, 2} THEN "UnknownKind" ELSE "none"

Decoded(buf) == [kind |-> IF buf[2] = KindByte.Input THEN "Input" ELSE "Output",
                 seq |-> Value(SubSeq(buf, 5, 4 + SeqWidth)),
                 payload |-> SubSeq(buf, HeaderLen + 1, Len(buf))]

-----------------------------------------------------------------------------
(* The session and its sockets.                                            *)

\* A length the encoder lets through fits its field, and so do the sequence numbers
\* (u64 in the code, bounded here); frames carry bytes.
ASSUME SocketAssumption ==
  /\ Base \in Nat /\ Base > 2 /\ Magic \in Byte /\ SeqWidth \in Nat /\ LenWidth \in Nat
  /\ MAX_PAYLOAD_LEN \in Nat /\ MAX_PAYLOAD_LEN < Capacity(LenWidth)
  /\ MaxOutput \in Nat /\ MaxOutput < Capacity(SeqWidth)
  /\ MIN_DIM \in Nat /\ MAX_DIM \in Nat /\ MIN_DIM <= MAX_DIM /\ QueueCap \in Nat
  /\ OutputData \subseteq Seq(Byte)
  /\ \A f \in ClientFrames : (f.type = "Input" => f.data \in Seq(Byte))
                              /\ (f.type = "Binary" => f.buf \in Seq(Byte))

Answers == {"silent", "Pong", "InvalidMessage", "InvalidInput", "PtyNotLive", "Internal",
            "ReplayOrNothing", "Ack", "SessionDetached", "SessionClosed"}

\* The awaits another socket's frames may run in: "writing" and "resizing" with the
\* handle of the PTY in hand, "recorded" between resize_session and apply_pty_resize,
\* "closing" between the row's update and the entry's removal.
Waits == {"writing", "recorded", "resizing", "closing"}

\* Every client's attach has succeeded; a session without a PTY is a stub.
SocketInit ==
  /\ sent = [c \in Clients |-> << >>] /\ answers = [c \in Clients |-> << >>]
  /\ conn = [c \in Clients |-> "open"]
  /\ \/ pty = "stub" /\ driver = "none"
     \/ pty = "bound" /\ driver = "running"
  /\ live = [c \in Clients |-> pty = "bound"]
  /\ handshaken = [c \in Clients |-> FALSE]
  /\ frames = [c \in Clients |-> << >>]
  /\ status = "active" /\ snapshot = MIN_DIM
  /\ inputq = << >> /\ resizeq = << >> /\ stdin = << >> /\ window = MIN_DIM
  /\ missed = FALSE
  /\ output = << >>

SumLens(logs) == FoldFunction(LAMBDA log, n : Len(log) + n, 0, logs)

ClientSends(c, f) ==
  /\ conn[c] # "ended" /\ SumLens(sent) < MaxSent
  /\ sent' = [sent EXCEPT ![c] = Append(@, f)]
  /\ UNCHANGED << answers, conn, live, handshaken, frames, pty, driver, status, snapshot,
                  inputq, resizeq, stdin, window, missed, output >>

\* The frame the handler of socket c looks at, one at a time and in order.
Handling(c, kind) ==
  /\ conn[c] = "open" /\ Len(answers[c]) < Len(sent[c])
  /\ sent[c][Len(answers[c]) + 1].type = kind
Frame(c) == sent[c][Len(answers[c]) + 1]
Answered(c, a) == answers' = [answers EXCEPT ![c] = Append(@, a)]

\* Errors, pings and a second Attach are answered and the loop goes on.
Garbage(c) ==
  /\ Handling(c, "garbage") /\ Answered(c, "InvalidMessage")
  /\ UNCHANGED << sent, conn, live, handshaken, frames, pty, driver, status, snapshot,
                  inputq, resizeq, stdin, window, missed, output >>

Ping(c) ==
  /\ Handling(c, "Ping") /\ Answered(c, "Pong")
  /\ UNCHANGED << sent, conn, live, handshaken, frames, pty, driver, status, snapshot,
                  inputq, resizeq, stdin, window, missed, output >>

Attach(c) ==
  /\ Handling(c, "Attach")
  /\ Answered(c, IF handshaken[c] THEN "InvalidMessage" ELSE "ReplayOrNothing")
  /\ handshaken' = [handshaken EXCEPT ![c] = TRUE]
  /\ UNCHANGED << sent, conn, live, frames, pty, driver, status, snapshot,
                  inputq, resizeq, stdin, window, missed, output >>

\* live_handle_for, and the socket's own look at its attach: what is answered when
\* there is no handle to write to.
InputRefusal(c) ==
  CASE ~live[c] -> "PtyNotLive"
    [] live[c] /\ pty = "removed" -> "Internal"
    [] live[c] /\ pty = "stub" -> "PtyNotLive"
    [] OTHER -> "none"

TakeHandle(c) ==
  IF InputRefusal(c) # "none" THEN Answered(c, InputRefusal(c)) /\ UNCHANGED conn
    ELSE conn' = [conn EXCEPT ![c] = "writing"] /\ UNCHANGED answers

TextInput(c) ==
  /\ Handling(c, "Input") /\ TakeHandle(c)
  /\ UNCHANGED << sent, live, handshaken, frames, pty, driver, status, snapshot,
                  inputq, resizeq, stdin, window, missed, output >>

\* handle_binary_frame: only a well-formed Input frame does anything.
BinaryFrame(c) ==
  /\ Handling(c, "Binary")
  /\ LET buf == Frame(c).buf
     IN  IF DecodeError(buf) # "none" \/ Decoded(buf).kind = "Output"
           THEN Answered(c, "InvalidMessage") /\ UNCHANGED conn
           ELSE TakeHandle(c)
  /\ UNCHANGED << sent, live, handshaken, frames, pty, driver, status, snapshot,
                  inputq, resizeq, stdin, window, missed, output >>

InputOf(f) == IF f.type = "Input" THEN f.data ELSE Decoded(f.buf).payload

\* The handle's sender is gone before it could be cloned, or the receiver while it waits.
BridgeClosed == driver = "gone" \/ pty = "removed"

\* mutant of WriteInput: an input that meets a full channel is dropped (try_send)
WriteInputTry(c) ==
  /\ conn[c] = "writing"
  /\ conn' = [conn EXCEPT ![c] = "open"]
  /\ \/ /\ driver = "running" /\ Answered(c, "silent")
        /\ inputq' = IF Len(inputq) < QueueCap
                       THEN Append(inputq, [by |-> c, data |-> InputOf(Frame(c))]) ELSE inputq
     \/ BridgeClosed /\ Answered(c, "PtyNotLive") /\ UNCHANGED inputq
  /\ UNCHANGED << sent, live, handshaken, frames, pty, driver, status, snapshot,
                  resizeq, stdin, window, missed, output >>

\* The handle's write_input waits while the channel is full.  A sender cloned before a
\* close still sends after it.
WriteInput(c) ==
  /\ conn[c] = "writing"
  /\ conn' = [conn EXCEPT ![c] = "open"]
  /\ \/ /\ driver = "running" /\ Len(inputq) < QueueCap /\ Answered(c, "silent")
        /\ inputq' = Append(inputq, [by |-> c, data |-> InputOf(Frame(c))])
     \/ BridgeClosed /\ Answered(c, "PtyNotLive") /\ UNCHANGED inputq
  /\ UNCHANGED << sent, live, handshaken, frames, pty, driver, status, snapshot,
                  resizeq, stdin, window, missed, output >>

\* resize_session: checks, the entry's snapshot, the marker, then the event, which may
\* fail after the snapshot has moved.
ResizeRecord(c) ==
  /\ Handling(c, "Resize")
  /\ LET d == Frame(c).dim IN
     IF d \notin MIN_DIM .. MAX_DIM
       THEN Answered(c, "InvalidInput") /\ UNCHANGED << conn, snapshot >>
       ELSE IF status = "closed" THEN Answered(c, "Internal") /\ UNCHANGED << conn, snapshot >>
       ELSE /\ snapshot' = IF pty = "removed" THEN snapshot ELSE d
            /\ \/ conn' = [conn EXCEPT ![c] = "recorded"] /\ UNCHANGED answers
               \/ Answered(c, "Internal") /\ UNCHANGED conn
  /\ UNCHANGED << sent, live, handshaken, frames, pty, driver, status,
                  inputq, resizeq, stdin, window, missed, output >>

\* apply_pty_resize: the handle, if there is one ...
ResizeHandle(c) ==
  /\ conn[c] = "recorded"
  /\ IF pty = "bound" THEN conn' = [conn EXCEPT ![c] = "resizing"] /\ UNCHANGED answers
       ELSE /\ conn' = [conn EXCEPT ![c] = "open"]
            /\ Answered(c, IF pty = "removed" THEN "Internal" ELSE "PtyNotLive")
  /\ UNCHANGED << sent, live, handshaken, frames, pty, driver, status, snapshot,
                  inputq, resizeq, stdin, window, missed, output >>

\* mutant of ResizeApply: the acknowledgement does not wait for the handle
ResizeApplyAckOnly(c) ==
  /\ conn[c] = "resizing"
  /\ conn' = [conn EXCEPT ![c] = "open"]
  /\ Answered(c, "Ack") /\ UNCHANGED resizeq
  /\ UNCHANGED << sent, live, handshaken, frames, pty, driver, status, snapshot,
                  inputq, stdin, window, missed, output >>

\* ... and its resize, which waits like write_input.
ResizeApply(c) ==
  /\ conn[c] = "resizing"
  /\ conn' = [conn EXCEPT ![c] = "open"]
  /\ \/ /\ driver = "running" /\ Len(resizeq) < QueueCap
        /\ Answered(c, "Ack") /\ resizeq' = Append(resizeq, Frame(c).dim)
     \/ BridgeClosed /\ Answered(c, "PtyNotLive") /\ UNCHANGED resizeq
  /\ UNCHANGED << sent, live, handshaken, frames, pty, driver, status, snapshot,
                  inputq, stdin, window, missed, output >>

\* detach_attachment answers and ends the socket, or fails and does neither.
Detach(c) ==
  /\ Handling(c, "Detach")
  /\ \/ Answered(c, "SessionDetached") /\ conn' = [conn EXCEPT ![c] = "ended"]
     \/ Answered(c, "Internal") /\ UNCHANGED conn
  /\ UNCHANGED << sent, live, handshaken, frames, pty, driver, status, snapshot,
                  inputq, resizeq, stdin, window, missed, output >>

\* close_session closes the row, then awaits its event ...
CloseMarks(c) ==
  /\ Handling(c, "Close")
  /\ \/ status' = "closed" /\ conn' = [conn EXCEPT ![c] = "closing"] /\ UNCHANGED answers
     \/ Answered(c, "Internal") /\ UNCHANGED << conn, status >>
  /\ UNCHANGED << sent, live, handshaken, frames, pty, driver, snapshot,
                  inputq, resizeq, stdin, window, missed, output >>

\* ... and takes the runtime down for every socket; an event that fails leaves it up.
CloseRemoves(c) ==
  /\ conn[c] = "closing"
  /\ \/ /\ Answered(c, "SessionClosed") /\ conn' = [conn EXCEPT ![c] = "ended"]
        /\ pty' = "removed"
     \/ Answered(c, "Internal") /\ conn' = [conn EXCEPT ![c] = "open"] /\ UNCHANGED pty
  /\ UNCHANGED << sent, live, handshaken, frames, driver, status, snapshot,
                  inputq, resizeq, stdin, window, missed, output >>

\* A Close message from the client, or a lost connection.
SocketEnds(c) ==
  /\ conn[c] = "open"
  /\ conn' = [conn EXCEPT ![c] = "ended"]
  /\ UNCHANGED << sent, answers, live, handshaken, frames, pty, driver, status, snapshot,
                  inputq, resizeq, stdin, window, missed, output >>

-----------------------------------------------------------------------------
(* drive_channel and the output side.                                      *)

\* The task outlives the registry's entry until it has seen the channels close.
ShellTakesInput ==
  /\ driver = "running" /\ inputq # << >>
  /\ stdin' = Append(stdin, Head(inputq)) /\ inputq' = Tail(inputq)
  /\ UNCHANGED << sent, answers, conn, live, handshaken, frames, pty, driver, status, snapshot,
                  resizeq, window, missed, output >>

\* A failed window_change is logged and forgotten.
ShellTakesResize ==
  /\ driver = "running" /\ resizeq # << >>
  /\ resizeq' = Tail(resizeq)
  /\ \/ window' = Head(resizeq) /\ UNCHANGED missed
     \/ missed' = TRUE /\ UNCHANGED window
  /\ UNCHANGED << sent, answers, conn, live, handshaken, frames, pty, driver, status, snapshot,
                  inputq, stdin, output >>

\* The shell exits, the connection breaks or the handle is closed: what is queued is
\* dropped with the receivers.
ShellExits ==
  /\ driver = "running"
  /\ driver' = "gone" /\ inputq' = << >> /\ resizeq' = << >>
  /\ UNCHANGED << sent, answers, conn, live, handshaken, frames, pty, status, snapshot,
                  stdin, window, missed, output >>

\* forward_pty_output, when the driver is gone: the row is closed, the entry stays.
ForwarderEnds ==
  /\ driver = "gone" /\ status # "closed"
  /\ status' = "closed"
  /\ UNCHANGED << sent, answers, conn, live, handshaken, frames, pty, driver, snapshot,
                  inputq, resizeq, stdin, window, missed, output >>

\* send_binary_output: a payload that cannot be encoded is skipped, the socket stays.
SendBinaryOutput(fs, seq, data) ==
  IF EncodeFails(data) THEN fs
    ELSE Append(fs, Encode([kind |-> "Output", seq |-> seq, payload |-> data]))

\* The fan-out to the sockets that keep up; order and loss are module OutputStream's.
ShellPrints(data) ==
  /\ driver = "running" /\ pty = "bound" /\ Len(output) < MaxOutput
  /\ output' = Append(output, data)
  /\ frames' = [c \in Clients |->
                  IF live[c] /\ conn[c] # "ended"
                    THEN SendBinaryOutput(frames[c], Len(output) + 1, data) ELSE frames[c]]
  /\ UNCHANGED << sent, answers, conn, live, handshaken, pty, driver, status, snapshot,
                  inputq, resizeq, stdin, window, missed >>

SocketNext ==
  \/ \E c \in Clients :
       \/ \E f \in ClientFrames : ClientSends(c, f)
       \/ Garbage(c) \/ Ping(c) \/ Attach(c) \/ TextInput(c) \/ BinaryFrame(c)
       \/ WriteInput(c) \/ ResizeRecord(c) \/ ResizeHandle(c) \/ ResizeApply(c)
       \/ Detach(c) \/ CloseMarks(c) \/ CloseRemoves(c) \/ SocketEnds(c)
  \/ ShellTakesInput \/ ShellTakesResize \/ ShellExits \/ ForwarderEnds
  \/ \E d \in OutputData : ShellPrints(d)

SocketSpec == SocketInit /\ [][SocketNext]_socketVars

-----------------------------------------------------------------------------
(* Properties.                                                             *)

SocketTypeOK ==
  /\ \A c \in Clients : /\ Len(answers[c]) <= Len(sent[c])
                        /\ ToSet(answers[c]) \subseteq Answers
                        /\ conn[c] \in Waits \cup {"open", "ended"}
  /\ pty \in {"stub", "bound", "removed"} /\ driver \in {"none", "running", "gone"}
  /\ status \in {"active", "closed"}
  /\ snapshot \in MIN_DIM .. MAX_DIM /\ window \in MIN_DIM .. MAX_DIM
  /\ Len(inputq) <= QueueCap /\ Len(resizeq) <= QueueCap

\* The payload of a frame that is an input: reference definition, by what an encoder
\* can produce.
InputPayloads(f) ==
  IF f.type = "Input" THEN {f.data}
    ELSE IF f.type = "Binary"
      THEN {p \in {SubSeq(f.buf, i, Len(f.buf)) : i \in 1 .. Len(f.buf) + 1} :
              \E s \in 0 .. Capacity(SeqWidth) - 1 :
                /\ Len(p) <= MAX_PAYLOAD_LEN
                /\ Encode([kind |-> "Input", seq |-> s, payload |-> p]) = f.buf}
      ELSE {}

\* The inputs of client c that were taken without an error, in the order it sent them.
TakenInputs(c) ==
  LET taken[i \in 0 .. Len(answers[c])] ==
        IF i = 0 THEN << >>
        ELSE IF answers[c][i] = "silent"
               THEN Append(taken[i - 1], CHOOSE p \in InputPayloads(sent[c][i]) : TRUE)
               ELSE taken[i - 1]
  IN  taken[Len(answers[c])]

\* The inputs of client c in a queue.
OfClient(q, c) ==
  LET mine[i \in 0 .. Len(q)] ==
        IF i = 0 THEN << >>
        ELSE IF q[i].by = c THEN Append(mine[i - 1], q[i].data) ELSE mine[i - 1]
  IN  mine[Len(q)]

\* An input that no error answers reaches the shell once, whole and in the client's
\* order, unless the shell goes away first: also one that waited in a full channel
\* while another socket closed the session.  And only frames an encoder can produce are
\* inputs (handle_text_frame, handle_binary_frame, decode_binary_frame, write_input).
InputExact ==
  \A c \in Clients :
    /\ \A i \in DOMAIN answers[c] :
         answers[c][i] = "silent" => InputPayloads(sent[c][i]) # {}
    /\ IsPrefix(OfClient(stdin \o inputq, c), TakenInputs(c))
    /\ driver = "running" => OfClient(stdin \o inputq, c) = TakenInputs(c)

\* Every binary frame a client received decodes, to an output of the session with its
\* number and its whole payload (encode_binary_frame against
\* decode_binary_frame, send_binary_output).
OutputRoundTrips ==
  \A c \in Clients : \A i \in DOMAIN frames[c] :
    /\ DecodeError(frames[c][i]) = "none"
    /\ LET f == Decoded(frames[c][i])
       IN  f.kind = "Output" /\ f.seq \in DOMAIN output /\ f.payload = output[f.seq]

Resizes(c) == {i \in DOMAIN answers[c] : sent[c][i].type = "Resize"}

\* The size the registry reports is the size the shell has or is about to get, when a
\* single client resizes, all its valid resizes were acknowledged and every
\* window_change arrived (resize_session's snapshot against apply_pty_resize).
SnapshotFollows ==
  \A c \in Clients :
    (/\ pty = "bound" /\ driver = "running" /\ conn[c] \notin {"recorded", "resizing"}
     /\ \A i \in Resizes(c) : answers[c][i] \in {"Ack", "InvalidInput"}
     /\ \A o \in Clients \ {c} : Resizes(o) = {} /\ conn[o] \notin {"recorded", "resizing"}
     /\ ~missed)
      => snapshot = Last(<< window >> \o resizeq)

\* Both directions of a socket keep what they carry: output frames decode to the
\* session's output, the reported size follows the shell's, and the queues stay
\* within their bounds (terminal_sessions.rs' frame handlers, the PTY handle).
SocketInv == SocketTypeOK /\ OutputRoundTrips /\ SnapshotFollows
=============================================================================
