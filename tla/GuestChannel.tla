---------------------------- MODULE GuestChannel ----------------------------
(***************************************************************************)
(* The byte stream between GuestChannel of crates/openoj-firecracker       *)
(* (vsock.rs), which the executor of a judge node drives, and serve_frame  *)
(* of crates/openoj-guest-agent: frames of a length prefix and a body,     *)
(* written and read in pieces, with the codec of                           *)
(* crates/openoj-guest-protocol at both ends.                              *)
(*                                                                         *)
(* A byte is known by the frame it belongs to and its place in it, so that *)
(* what a reader makes of it can be told from what it is.  The bounds of   *)
(* the codec are scaled down; a frame has room for four times MaxInline.   *)
(***************************************************************************)
EXTENDS Naturals, Sequences

CONSTANTS
    Questions,      \* the messages the host is asked to send
    Prefix,         \* bytes of a length prefix
    MaxFrame,       \* MAX_FRAME_BYTES
    MaxInline,      \* MAX_INLINE_BYTES
    MaxKind,        \* MAX_TYPE_LEN, the bound on the kind of evidence
    MaxDiagnostic,  \* MAX_DIAGNOSTIC_MESSAGE
    LongestLine,    \* bound on a line that a command writes to stderr
    ReadTimeout,    \* DEFAULT_READ_TIMEOUT
    MaxFrames       \* bound on the frames the host sends

ASSUME ChannelAssumption ==
    /\ {Prefix, MaxFrame, ReadTimeout} \subseteq Nat \ {0}
    /\ {MaxInline, MaxKind, MaxDiagnostic, LongestLine, MaxFrames} \subseteq Nat
    /\ Prefix + 1 + MaxDiagnostic <= MaxFrame   \* a frame has room for a diagnostic
    /\ \A m \in Questions :                     \* the host reports no output or evidence
          /\ m.type \notin {"stage_output", "evidence_ack"}
          /\ m.type = "upload_input" => m.inline \in Nat /\ m.chars \in Nat

VARIABLES
    asked,      \* the frames the host wrote
    answered,   \* the frames the guest wrote
    taken,      \* the frames the host decoded, with what it had asked last
    down, up,   \* the bytes to the guest and to the host: on the way, arrived
    host,       \* the executor's session
    guest       \* the agent in serve_frame

channelVars == <<asked, answered, taken, down, up, host, guest>>

Quiet == [sent |-> << >>, here |-> << >>]

ChannelInit ==
    /\ asked = << >> /\ answered = << >> /\ taken = << >>
    /\ down = Quiet /\ up = Quiet
    /\ host = [step |-> "ready", buffer |-> << >>, waited |-> 0, why |-> "none"]
    /\ guest = [step |-> "prefix", buffer |-> << >>, why |-> "none"]

-----------------------------------------------------------------------------
(***************************************************************************)
(* The codec.                                                              *)
(***************************************************************************)

\* The JSON body, in bytes: the inline bytes are written as decimal numbers
\* and their commas, of two to four characters each.
Body(m) ==
    CASE m.type = "upload_input" -> 1 + m.chars
      [] m.type = "stage_output" -> 1 + m.diagnostic
      [] OTHER -> 1

\* validate_capabilities, check_name and write_command, whose rule is also that
\* of readable_command.
ValidCapabilities(m) == m.sorted
CheckName(m) == m.name = "plain"
ValidCommand(m) == m.argv # 0

\* write_fields
WriteFields(m) ==
    CASE m.type = "negotiate" -> ValidCapabilities(m)
      [] m.type = "upload_input" -> CheckName(m) /\ m.inline <= MaxInline
      [] m.type = "upload_ack" -> CheckName(m)
      [] m.type \in {"build", "run"} -> ValidCommand(m)
      [] m.type = "stage_evidence" -> m.kind <= MaxKind
      [] OTHER -> TRUE

\* Message::encode
Encodes(m) == WriteFields(m) /\ Prefix + Body(m) <= MaxFrame

\* diagnostics_from
DiagnosticsFrom(m) == m.diagnostic <= MaxDiagnostic

\* from_value.  It bounds the kind of an acknowledgement and a diagnostic,
\* which write_fields does not, and leaves the characters of a name alone.
Decodes(m) ==
    CASE m.type = "negotiate" -> ValidCapabilities(m)
      [] m.type = "upload_input" -> m.inline <= MaxInline
      [] m.type \in {"build", "run"} -> ValidCommand(m)
      [] m.type \in {"stage_evidence", "evidence_ack"} -> m.kind <= MaxKind
      [] m.type = "stage_output" -> DiagnosticsFrom(m)
      [] OTHER -> TRUE

\* Fault: a diagnostic is sent as it was written.
WholeLine(line) == line

\* GuestDiagnostic::new
Truncated(line) == IF line <= MaxDiagnostic THEN line ELSE MaxDiagnostic

\* handle.  No answer is an AgentError.
Replies(m) ==
    CASE m.type = "negotiate" -> [type : {"negotiated"}, supported : BOOLEAN]
      [] m.type = "upload_input" ->
            IF m.name = "outside" THEN {}
            ELSE {[type |-> "upload_ack", name |-> m.name, accepted |-> m.intact]}
      [] m.type \in {"build", "run"} ->
            {[type |-> "stage_output", stage |-> m.type, diagnostic |-> Truncated(line)] :
                line \in 0 .. LongestLine}
      [] m.type = "stage_evidence" -> {[type |-> "evidence_ack", kind |-> m.kind]}
      [] m.type = "cancel" -> {[type |-> "cancelled"]}
      [] m.type = "heartbeat" -> {[type |-> "ack"]}
      [] OTHER -> {}

\* A byte of a frame says what the prefix of the frame does.
Frame(n, m) ==
    [i \in 1 .. (Prefix + Body(m)) |-> [frame |-> n, at |-> i, length |-> Body(m)]]

\* The bytes are the beginning of one frame.
InStep(bytes) ==
    \A i \in DOMAIN bytes : bytes[i].frame = bytes[1].frame /\ bytes[i].at = i

\* The lengths that Prefix bytes may say: the frame's own if they are its
\* prefix, and anything if they are not.
Lengths(bytes) == IF InStep(bytes) THEN {bytes[1].length} ELSE 0 .. MaxFrame

\* Message::decode on the bytes of a buffer.
DecodesIn(buffer, frames) ==
    InStep(buffer) /\ Len(buffer) = Prefix + buffer[1].length /\ Decodes(frames[buffer[1].frame])

-----------------------------------------------------------------------------
(***************************************************************************)
(* The stream.                                                             *)
(***************************************************************************)

Arrived(stream) == [sent |-> Tail(stream.sent), here |-> Append(stream.here, Head(stream.sent))]
Written(stream, bytes) == [stream EXCEPT !.sent = @ \o bytes]
Empty(stream) == stream.sent = << >> /\ stream.here = << >>

\* The bytes of one read that has room for this many, and the stream after it.
Available(stream, room) ==
    IF room < Len(stream.here) THEN room ELSE Len(stream.here)
Read(stream, room) == SubSeq(stream.here, 1, Available(stream, room))
After(stream, room) ==
    [stream EXCEPT !.here = SubSeq(@, Available(stream, room) + 1, Len(@))]

Arrive ==
    /\ \/ down.sent # << >> /\ down' = Arrived(down) /\ UNCHANGED up
       \/ up.sent # << >> /\ up' = Arrived(up) /\ UNCHANGED down
    /\ UNCHANGED <<asked, answered, taken, host, guest>>

-----------------------------------------------------------------------------
(***************************************************************************)
(* The host: ensure_negotiated and run_guest_stage send a frame, receive   *)
(* one, and on any error the executor reclaims the VM and the session.     *)
(***************************************************************************)

Receiving == host.step \in {"prefix", "body"}

\* Fault: the session outlives an error.
KeepsSession(why) == host' = [host EXCEPT !.step = "ready", !.why = why]

Teardown(why) == host' = [host EXCEPT !.step = "closed", !.why = why]

\* send
Send(m) ==
    /\ host.step = "ready" /\ Len(asked) < MaxFrames
    /\ \/ /\ ~Encodes(m) /\ Teardown("encode")
          /\ UNCHANGED <<asked, down>>
       \/ /\ Encodes(m)
          /\ asked' = Append(asked, m)
          /\ down' = Written(down, Frame(Len(asked) + 1, m))
          /\ host' = [step |-> "prefix", buffer |-> << >>, waited |-> 0, why |-> "none"]
       \/ /\ Encodes(m)
          /\ \E written \in 0 .. (Prefix + Body(m) - 1) :
                down' = Written(down, SubSeq(Frame(Len(asked) + 1, m), 1, written))
          /\ Teardown("write")
          /\ UNCHANGED asked
    /\ UNCHANGED <<answered, taken, up, guest>>

\* The bytes that recv still waits for.
Missing(length) == Prefix + length - Len(host.buffer)

\* A read of recv, and the check of the length and the decoding when it was
\* the last one of the prefix or the body.
Receive ==
    /\ Receiving /\ up.here # << >>
    /\ \E length \in IF host.step = "prefix" THEN {0} ELSE Lengths(SubSeq(host.buffer, 1, Prefix)) :
          LET buffer == host.buffer \o Read(up, Missing(length)) IN
          /\ up' = After(up, Missing(length))
          /\ \/ /\ Len(buffer) < Prefix + length
                /\ host' = [host EXCEPT !.buffer = buffer, !.waited = 0]
                /\ UNCHANGED taken
             \/ /\ Len(buffer) = Prefix + length /\ host.step = "prefix"
                /\ \E declared \in Lengths(buffer) :
                      IF declared > MaxFrame - Prefix THEN Teardown("length") ELSE
                      host' = [host EXCEPT !.step = "body", !.buffer = buffer, !.waited = 0]
                /\ UNCHANGED taken
             \/ /\ Len(buffer) = Prefix + length /\ host.step = "body"
                /\ IF DecodesIn(buffer, answered)
                   THEN /\ host' = [host EXCEPT !.step = "ready", !.buffer = << >>, !.waited = 0]
                        /\ taken' = Append(taken, [question |-> Len(asked), frame |-> buffer[1].frame])
                   ELSE Teardown("decode") /\ UNCHANGED taken
    /\ UNCHANGED <<asked, answered, down, guest>>

\* Every read waits anew.
Tick ==
    /\ Receiving /\ up.here = << >> /\ host.waited < ReadTimeout
    /\ host' = [host EXCEPT !.waited = @ + 1]
    /\ UNCHANGED <<asked, answered, taken, down, up, guest>>

Timeout ==
    /\ Receiving /\ up.here = << >> /\ host.waited = ReadTimeout
    /\ Teardown("timeout")
    /\ UNCHANGED <<asked, answered, taken, down, up, guest>>

\* read_exact meets the end of the stream.
HostEof ==
    /\ Receiving /\ Empty(up) /\ guest.step = "exited"
    /\ Teardown("eof")
    /\ UNCHANGED <<asked, answered, taken, down, up, guest>>

\* The attempt ends.
Close ==
    /\ host.step = "ready"
    /\ Teardown("end")
    /\ UNCHANGED <<asked, answered, taken, down, up, guest>>

-----------------------------------------------------------------------------
(***************************************************************************)
(* The guest: serve_frame, until it ends the agent.                        *)
(***************************************************************************)

Exit(why) == guest' = [guest EXCEPT !.step = "exited", !.why = why]

\* Fault: a short read of the prefix is begun again.
ReadsPrefixAgain ==
    /\ guest.step = "prefix" /\ down.here # << >>
    /\ down' = After(down, Prefix)
    /\ IF Available(down, Prefix) < Prefix THEN UNCHANGED guest ELSE
       guest' = [guest EXCEPT !.step = "body", !.buffer = Read(down, Prefix)]
    /\ UNCHANGED <<asked, answered, taken, up, host>>

\* The prefix is taken from one read.
ReadPrefix ==
    /\ guest.step = "prefix" /\ down.here # << >>
    /\ down' = After(down, Prefix)
    /\ LET bytes == Read(down, Prefix) IN
       \/ /\ Len(bytes) < Prefix /\ Exit("truncated length prefix")
       \/ /\ Len(bytes) = Prefix
          /\ \E length \in Lengths(bytes) :
                IF length > MaxFrame THEN Exit("length") ELSE
                guest' = [guest EXCEPT !.step = "body", !.buffer = bytes]
    /\ UNCHANGED <<asked, answered, taken, up, host>>

ReadBody ==
    /\ guest.step = "body" /\ down.here # << >>
    /\ \E length \in Lengths(SubSeq(guest.buffer, 1, Prefix)) :
          LET room == Prefix + length - Len(guest.buffer)
              buffer == guest.buffer \o Read(down, room) IN
          /\ down' = After(down, room)
          /\ guest' =
                IF Len(buffer) < Prefix + length THEN [guest EXCEPT !.buffer = buffer] ELSE
                IF DecodesIn(buffer, asked)
                THEN [guest EXCEPT !.step = "handle", !.buffer = buffer]
                ELSE [guest EXCEPT !.step = "exited", !.why = "decode"]
    /\ UNCHANGED <<asked, answered, taken, up, host>>

\* handle, and the frame of its answer; or an AgentError.
Handle ==
    /\ guest.step = "handle"
    /\ \/ \E reply \in Replies(asked[guest.buffer[1].frame]) :
             IF Encodes(reply)
             THEN /\ answered' = Append(answered, reply)
                  /\ up' = Written(up, Frame(Len(answered) + 1, reply))
                  /\ guest' = [guest EXCEPT !.step = "prefix", !.buffer = << >>]
             ELSE Exit("encode") /\ UNCHANGED <<answered, up>>
       \/ /\ Exit("error")
          /\ UNCHANGED <<answered, up>>
    /\ UNCHANGED <<asked, taken, down, host>>

\* The host closed the stream: a clean end between two frames.
GuestEof ==
    /\ guest.step \in {"prefix", "body"} /\ host.step = "closed" /\ Empty(down)
    /\ Exit(IF guest.step = "prefix" THEN "clean" ELSE "body")
    /\ UNCHANGED <<asked, answered, taken, down, up, host>>

-----------------------------------------------------------------------------
HostNext == (\E m \in Questions : Send(m)) \/ Receive \/ Tick \/ Timeout \/ HostEof \/ Close
GuestNext == ReadPrefix \/ ReadBody \/ Handle \/ GuestEof

ChannelNext == HostNext \/ GuestNext \/ Arrive

ChannelSpec == ChannelInit /\ [][ChannelNext]_channelVars

\* recv runs on, and time passes; the kernel delivers what was written, and a
\* guest that can read does.  That it ever answers is not assumed.
ChannelFairness ==
    /\ WF_channelVars(Receive \/ Tick \/ Timeout \/ HostEof)
    /\ WF_channelVars(ReadPrefix \/ ReadBody \/ GuestEof)
    /\ WF_channelVars(Arrive)

FairChannelSpec == ChannelSpec /\ ChannelFairness

-----------------------------------------------------------------------------
(***************************************************************************)
(* Properties.                                                             *)
(***************************************************************************)

\* Type correctness.
ChannelTypeOK ==
    /\ asked \in Seq(Questions) /\ Len(asked) <= MaxFrames
    /\ Len(answered) <= Len(asked) /\ Len(taken) <= Len(answered)
    /\ host.step \in {"ready", "prefix", "body", "closed"} /\ host.waited \in 0 .. ReadTimeout
    /\ guest.step \in {"prefix", "body", "handle", "exited"}
    /\ Len(host.buffer) <= MaxFrame /\ Len(guest.buffer) <= MaxFrame

\* The stream stays in step, however it is cut: a reader that begins a frame
\* has the first byte of the next one before it, and no byte is lost or read
\* twice.
FramesAligned ==
    /\ guest.step = "prefix" /\ ~Empty(down) =>
          LET byte == Head(down.here \o down.sent) IN
          byte.frame = Len(answered) + 1 /\ byte.at = 1
    /\ Receiving /\ ~Empty(up) =>
          LET byte == Head(host.buffer \o up.here \o up.sent) IN
          byte.frame = Len(taken) + 1 /\ byte.at = 1

\* Two ends with the same codec never refuse each other's frames, although
\* the bounds of encoding and decoding differ: what either end comes to
\* encode is something the other decodes.
FramesDecode ==
    /\ host.why \notin {"decode", "length"}
    /\ guest.why \notin {"decode", "length", "encode"}

\* The pieces add up to a session of whole frames, in which the host takes
\* the answer to what it asked last.
Session ==
    INSTANCE GuestSession WITH
        Messages <- Questions \cup UNION {Replies(m) : m \in Questions},
        requests <- asked, answers <- answered,
        taken <- [i \in DOMAIN taken |-> answered[taken[i].frame]],
        open <- host.step # "closed", serving <- guest.step # "exited"
ImplementsSession == Session!SessionSpec

\* A recv ends whatever the guest does, one that writes a byte now and then
\* included.
RecvEnds == Receiving ~> ~Receiving

\* When the host is gone, the agent does not wait for a frame for ever.
AgentNotLeftReading == host.step = "closed" ~> guest.step \in {"handle", "exited"}

\* "Reads one message frame and writes one response frame over a vsock
\* stream": a frame the host wrote in full is not refused for the way in
\* which the stream delivered it.
FrameIsRead == guest.why # "truncated length prefix" \/ host.why = "write"

\* An input of up to MAX_INLINE_BYTES bytes can be sent.
InlineFits ==
    \A m \in Questions : m.type = "upload_input" /\ m.inline <= MaxInline /\ m.name = "plain"
        => Encodes(m)
=============================================================================
