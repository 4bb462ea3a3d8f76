-------------------------- MODULE VmmStreamsProofs --------------------------
(***************************************************************************)
(* Proofs about the streams to a VMM: for every set of questions and of    *)
(* responses, every way in which the streams are cut, and every bound.     *)
(***************************************************************************)
EXTENDS VmmStreams, SequenceTheorems, TLAPS

(***************************************************************************)
(* The control API.                                                        *)
(***************************************************************************)

\* What request has read of a response is within what the VMM sent, and the
\* head is complete before the body is read.
CallAgrees ==
    /\ call.read <= vmm.sent
    /\ ~Reading => call.read = 0 \/ call.step = "failed"
    /\ call.step = "head" => call.read <= MaxHead
    /\ call.step \in {"connect", "write"} => vmm.response = << >> /\ vmm.sent = 0
    /\ vmm.response = << >> => vmm.sent = 0 /\ call.step # "body"
    /\ vmm.response # << >> =>
          /\ \E r \in Responses : vmm.response = <<r>>
          /\ vmm.sent <= vmm.response[1].head + vmm.response[1].body
          /\ call.step = "head" => call.read < vmm.response[1].head
          /\ call.step = "body" =>
                LET r == vmm.response[1] IN
                /\ r.declared \in Nat \ {0} /\ r.declared # Undeclared
                /\ call.read < r.head + r.declared /\ r.head + r.declared <= MaxApiBody

\* A response that was accepted.
InFull(entry) ==
    LET r == entry.response IN
    /\ r.status \in 200 .. 299
    /\ entry.read = r.head + (IF r.declared = Undeclared THEN 0 ELSE r.declared)
    /\ entry.read <= r.head + r.body

Calls == [step : {"connect", "write", "head", "body", "done", "failed"},
          read : 0 .. MaxApiBody, waited : 0 .. ApiTimeout,
          why : {"none", "connect", "write", "status", "content-length", "headers",
                 "eof", "timeout"}]
VmmSides == [response : Seq(Responses), sent : Nat, closed : BOOLEAN]

ApiInv ==
    /\ call \in Calls /\ vmm \in VmmSides
    /\ accepted \in Seq([response : Responses, read : Nat])
    /\ Len(accepted) <= Requests
    /\ call.step \notin {"done", "failed"} => Len(accepted) < Requests
    /\ CallAgrees
    /\ AcceptedInFull

(***************************************************************************)
(* The guest channel.  A byte knows its frame and its place in it, so the  *)
(* pieces of a frame are in order when each continues the one before it.   *)
(***************************************************************************)

Bytes == [frame : Nat, at : Nat, length : Nat]
Streams == [sent : Seq(Bytes), here : Seq(Bytes)]

\* These are the bytes of frame n, of this length, that follow the first ones.
Piece(bytes, first, n, length) ==
    \A i \in 1 .. Len(bytes) : bytes[i] = [frame |-> n, at |-> first + i, length |-> length]

\* What a reader has, what arrived and what is on the way is the beginning of
\* one frame.
Flow(buffer, stream, n, length) ==
    /\ Piece(buffer, 0, n, length)
    /\ Piece(stream.here, Len(buffer), n, length)
    /\ Piece(stream.sent, Len(buffer) + Len(stream.here), n, length)
    /\ Len(buffer) + Len(stream.here) + Len(stream.sent) <= Prefix + length

Total(buffer, stream) == Len(buffer) + Len(stream.here) + Len(stream.sent)

HostSessions == [step : {"ready", "prefix", "body", "closed"}, buffer : Seq(Bytes),
                 waited : 0 .. ReadTimeout,
                 why : {"none", "encode", "write", "timeout", "eof", "end"}]
GuestSessions == [step : {"prefix", "body", "handle", "exited"}, buffer : Seq(Bytes),
                  why : {"none", "truncated length prefix", "error", "clean", "body"}]
AllReplies == UNION {Replies(m) : m \in Questions}

\* The frame that the guest reads, or handles, is the one after those that it
\* answered; if it is there in full, the host has written it.
GuestReads ==
    LET n == Len(answered) + 1 IN
    /\ guest.step = "prefix" => guest.buffer = << >>
    /\ guest.step = "body" => Prefix <= Len(guest.buffer)
    /\ guest.step \in {"prefix", "body"} =>
          \/ Total(guest.buffer, down) = 0
          \/ \E m \in Questions :
                /\ Encodes(m) /\ Flow(guest.buffer, down, n, Body(m))
                /\ Len(guest.buffer) < Prefix + Body(m)
                /\ Total(guest.buffer, down) = Prefix + Body(m) => Len(asked) = n /\ asked[n] = m
    /\ guest.step = "handle" =>
          /\ Len(asked) = n /\ guest.buffer[1].frame = n
          /\ Empty(down)

\* The host waits for the answer to its last frame: none of it is written, or
\* all of it, and the host has the beginning.
NoAnswerYet ==
    /\ Len(answered) = Len(taken) /\ Empty(up)
    /\ host.step = "prefix" /\ host.buffer = << >>
HasAnswer ==
    LET n == Len(asked)
        length == Body(answered[n]) IN
    /\ Len(answered) = n /\ guest.step = "prefix" /\ Empty(down)
    /\ Flow(host.buffer, up, n, length)
    /\ Total(host.buffer, up) = Prefix + length
    /\ host.step = "prefix" => Len(host.buffer) < Prefix
    /\ host.step = "body" => Prefix <= Len(host.buffer) /\ Len(host.buffer) < Prefix + length
HostReads ==
    /\ host.step = "ready" =>
          /\ Len(answered) = Len(asked) /\ Len(taken) = Len(asked)
          /\ Empty(down) /\ Empty(up) /\ guest.step = "prefix"
    /\ Receiving => Len(asked) = Len(taken) + 1 /\ (NoAnswerYet \/ HasAnswer)

\* The questions fit into a frame, the answers are those of the questions, and
\* the host took them in their order.
AnswersFit ==
    /\ \A i \in 1 .. Len(asked) : asked[i] \in Questions /\ Encodes(asked[i])
    /\ \A i \in 1 .. Len(answered) : answered[i] \in Replies(asked[i])
    /\ \A i \in 1 .. Len(taken) : taken[i].question = i /\ taken[i].frame = i

ChannelTypes ==
    /\ host \in HostSessions /\ guest \in GuestSessions
    /\ down \in Streams /\ up \in Streams
    /\ asked \in Seq(Questions) /\ answered \in Seq(AllReplies)
    /\ taken \in Seq([question : Nat, frame : Nat])
    /\ Len(asked) <= MaxFrames
    /\ Len(answered) <= Len(asked) /\ Len(taken) <= Len(answered)
    /\ Len(host.buffer) <= MaxFrame /\ Len(guest.buffer) <= MaxFrame

ChannelInv == ChannelTypes /\ GuestReads /\ HostReads /\ AnswersFit
-----------------------------------------------------------------------------
(***************************************************************************)
(* The proof for the control API.                                          *)
(***************************************************************************)

LEMMA ApiStarts ==
    ApiInit => ApiInv
<1> SUFFICES ASSUME ApiInit PROVE ApiInv
    OBVIOUS
<1>1. call \in Calls
    BY ControlApiAssumption DEF ApiInit, NewCall, Calls
<1>2. vmm \in VmmSides
    BY DEF ApiInit, Silent, VmmSides
<1>3. accepted \in Seq([response : Responses, read : Nat]) /\ Len(accepted) = 0
    BY DEF ApiInit
<1>4. CallAgrees
    BY DEF ApiInit, NewCall, Silent, CallAgrees, Reading
<1>5. AcceptedInFull
    BY DEF ApiInit, AcceptedInFull
<1> QED
    BY <1>1, <1>2, <1>3, <1>4, <1>5, ControlApiAssumption DEF ApiInv

\* A step of the VMM, which request does not see yet.
LEMMA VmmSteps ==
    ASSUME ApiInv, (\E r \in Responses : VmmAnswers(r)) \/ VmmSends \/ VmmCloses
    PROVE  ApiInv'
<1>1. UNCHANGED <<call, accepted>>
    BY DEF VmmAnswers, VmmSends, VmmCloses
<1>2. vmm' \in VmmSides /\ CallAgrees'
  <2>1. ASSUME NEW r \in Responses, VmmAnswers(r)
        PROVE  vmm' \in VmmSides /\ CallAgrees'
    <3>1. vmm.response = << >> /\ vmm.sent = 0 /\ vmm.closed = FALSE /\ Reading
        BY <2>1 DEF VmmAnswers, Silent
    <3>2. <<r>> \in Seq(Responses) /\ <<r>> # << >> /\ <<r>>[1] = r
        OBVIOUS
    <3>3. vmm'.response = <<r>> /\ vmm'.sent = 0 /\ vmm' \in VmmSides
        BY <2>1, <3>1, <3>2 DEF VmmAnswers, ApiInv, VmmSides
    <3>4. call.read = 0 /\ call.step = "head"
        BY <3>1 DEF ApiInv, CallAgrees, Calls, VmmSides, Reading
    <3>5. \E q \in Responses : vmm'.response = <<q>>
        BY <3>3
    <3>6. vmm'.response[1] = r /\ r.head \in Nat \ {0} /\ r.body \in Nat
        BY <3>2, <3>3, ControlApiAssumption
    <3>7. vmm'.response # << >>
        BY <3>2, <3>3
    <3> HIDE <2>1
    <3>8. call' = call /\ MaxHead \in Nat
        BY <1>1, ControlApiAssumption
    <3> QED
        BY <3>8, <3>3, <3>4, <3>5, <3>6, <3>7 DEF CallAgrees, Reading
  <2>2. ASSUME VmmSends
        PROVE  vmm' \in VmmSides /\ CallAgrees'
    <3>1. vmm.sent \in Nat /\ vmm.response # << >> /\ vmm.response[1] \in Responses
        BY <2>2 DEF VmmSends, Answering, ApiInv, VmmSides
    <3>2. vmm'.response = vmm.response /\ vmm'.sent = vmm.sent + 1 /\ vmm' \in VmmSides
        BY <2>2, <3>1 DEF VmmSends, ApiInv, VmmSides
    <3>3. call' = call /\ call.read \in Nat
        BY <1>1 DEF ApiInv, Calls
    <3>4. vmm.sent + 1 <= vmm.response[1].head + vmm.response[1].body
      <4>1. vmm.response[1].head \in Nat /\ vmm.response[1].body \in Nat
          BY <3>1, ControlApiAssumption
      <4>2. vmm.sent < vmm.response[1].head + vmm.response[1].body
          BY <2>2 DEF VmmSends
      <4>3. \A k, h, b \in Nat : k < h + b => k + 1 <= h + b
          OBVIOUS
      <4> HIDE <2>2
      <4> QED
          BY <3>1, <4>1, <4>2, <4>3
    <3>5. CallAgrees /\ (call.read <= vmm.sent => call.read <= vmm.sent + 1)
        BY <3>1, <3>3 DEF ApiInv
    <3> HIDE <2>2
    <3> QED
        BY <3>1, <3>2, <3>3, <3>4, <3>5 DEF CallAgrees, Reading
  <2>3. ASSUME VmmCloses
        PROVE  vmm' \in VmmSides /\ CallAgrees'
    <3>1. vmm'.response = vmm.response /\ vmm'.sent = vmm.sent /\ vmm' \in VmmSides
        BY <2>3 DEF VmmCloses, ApiInv, VmmSides
    <3> QED
        BY <1>1, <3>1 DEF ApiInv, CallAgrees, Reading
  <2> QED
    BY <2>1, <2>2, <2>3
<1> QED
    BY <1>1, <1>2 DEF ApiInv, AcceptedInFull

\* A request that fails leaves the rest as it is.
LEMMA FailedCall ==
    ASSUME ApiInv, NEW why \in {"connect", "write", "status", "content-length", "headers",
                                "eof", "timeout"},
           CallFails(why)
    PROVE  ApiInv'
<1>1. call' \in Calls /\ call'.step = "failed" /\ call'.read = call.read
    BY DEF CallFails, ApiInv, Calls
<1>2. UNCHANGED <<vmm, accepted>>
    BY DEF CallFails
<1>3. CallAgrees'
    BY <1>1, <1>2 DEF ApiInv, CallAgrees, Reading
<1> QED
    BY <1>1, <1>2, <1>3 DEF ApiInv, AcceptedInFull

\* request returns a response that it has read in full.
LEMMA FinishedCall ==
    ASSUME ApiInv, NEW read \in Nat, Finish(read), Reading,
           vmm.response # << >>, read <= vmm.sent,
           LET r == vmm.response[1] IN
           read = r.head + (IF r.declared = Undeclared THEN 0 ELSE r.declared)
    PROVE  ApiInv'
<1> DEFINE r == vmm.response[1]
           entry == [response |-> r, read |-> read]
<1>1. CASE r.status \notin 200 .. 299
    BY <1>1, FailedCall DEF Finish
<1>2. CASE r.status \in 200 .. 299
  <2>1. r \in Responses /\ vmm.sent \in Nat /\ vmm.sent <= r.head + r.body
      BY DEF ApiInv, CallAgrees, VmmSides
  <2>2. entry \in [response : Responses, read : Nat] /\ entry.response = r /\ entry.read = read
      BY <2>1
  <2>3. accepted' = Append(accepted, entry) /\ vmm' = Silent
      BY <1>2 DEF Finish
  <2> HIDE DEF entry
  <2>4. /\ accepted' \in Seq([response : Responses, read : Nat])
        /\ Len(accepted') = Len(accepted) + 1 /\ Len(accepted) \in Nat
        /\ \A i \in 1 .. Len(accepted) : accepted'[i] = accepted[i]
        /\ accepted'[Len(accepted) + 1] = entry
      BY <2>2, <2>3, AppendProperties DEF ApiInv
  <2>5. Len(accepted) < Requests
      BY DEF ApiInv, Reading
  <2>6. \/ call' = NewCall /\ Len(accepted) + 1 # Requests
        \/ call' = [NewCall EXCEPT !.step = "done"]
      BY <1>2 DEF Finish
  <2>7. call' \in Calls /\ call'.read = 0 /\ call'.step \in {"connect", "done"}
        /\ (call'.step = "connect" => Len(accepted) + 1 # Requests)
      BY <2>6, ControlApiAssumption DEF NewCall, Calls
  <2>8. vmm' \in VmmSides /\ vmm'.response = << >> /\ vmm'.sent = 0
      BY <2>3 DEF Silent, VmmSides
  <2>9. CallAgrees'
      BY <2>7, <2>8 DEF CallAgrees, Reading
  <2>10. AcceptedInFull'
    <3>1. DOMAIN accepted = 1 .. Len(accepted) /\ DOMAIN accepted' = 1 .. (Len(accepted) + 1)
        BY <2>4, LenProperties DEF ApiInv
    <3>2. /\ r.head \in Nat /\ r.body \in Nat /\ read <= r.head + r.body
        BY <2>1, ControlApiAssumption
    <3>3. ASSUME NEW i \in DOMAIN accepted' PROVE InFull(accepted'[i])
      <4>1. CASE i = Len(accepted) + 1
          BY <4>1, <1>2, <2>2, <2>4, <3>2 DEF InFull
      <4>2. CASE i \in DOMAIN accepted
          BY <4>2, <2>4, <3>1 DEF ApiInv, AcceptedInFull, InFull
      <4> QED
          BY <4>1, <4>2, <2>4, <3>1
    <3> QED
        BY <3>3 DEF AcceptedInFull, InFull
  <2> QED
      BY <2>4, <2>5, <2>7, <2>8, <2>9, <2>10, ControlApiAssumption DEF ApiInv
<1> QED
    BY <1>1, <1>2


\* A byte is read: of the head, and request goes on, fails or returns; or of
\* the body, and request goes on or returns.
LEMMA ByteIsRead ==
    ASSUME ApiInv, ReadByte
    PROVE  ApiInv'
<1> DEFINE r == vmm.response[1]
           read == call.read + 1
<1>1. Reading /\ call.read < vmm.sent /\ vmm.sent \in Nat
    BY DEF ReadByte, ApiInv, VmmSides
<1>2. call.read \in Nat /\ read \in Nat /\ read <= vmm.sent /\ call.read <= MaxApiBody
    BY <1>1 DEF ApiInv, Calls
<1>3. vmm.response # << >>
    BY <1>1, <1>2 DEF ApiInv, CallAgrees
<1>4. /\ r \in Responses /\ vmm.sent <= r.head + r.body
      /\ call.step = "head" => call.read < r.head /\ call.read <= MaxHead
      /\ call.step = "body" => /\ r.declared \in Nat \ {0} /\ r.declared # Undeclared
                               /\ call.read < r.head + r.declared
                               /\ r.head + r.declared <= MaxApiBody
    BY <1>3 DEF ApiInv, CallAgrees
<1>5. r.head \in Nat \ {0} /\ r.body \in Nat /\ r.declared \in Nat \cup {Undeclared}
    BY <1>4, ControlApiAssumption
<1>6. ~(call.read >= MaxApiBody) /\ read \in 0 .. MaxApiBody
    BY <1>1, <1>2, <1>4, <1>5, ControlApiAssumption DEF Reading
\* The head or the body goes on.
<1>7. ASSUME NEW step \in {"head", "body"},
             call' = [call EXCEPT !.step = step, !.read = read], UNCHANGED <<vmm, accepted>>,
             step = "head" => read <= MaxHead /\ read < r.head,
             step = "body" => /\ r.declared \in Nat \ {0} /\ r.declared # Undeclared
                              /\ read < r.head + r.declared /\ r.head + r.declared <= MaxApiBody
      PROVE  ApiInv'
  <2>1. call' \in Calls /\ call'.step = step /\ call'.read = read
      BY <1>6, <1>7 DEF ApiInv, Calls
  <2>2. CallAgrees'
      BY <1>2, <1>3, <1>7, <2>1 DEF ApiInv, CallAgrees, Reading
  <2> QED
      BY <1>1, <1>7, <2>1, <2>2 DEF ApiInv, AcceptedInFull, Reading
<1>8. CASE call.step = "head"
  <2>1. \/ read = r.head /\ HeadRead(read)
        \/ CallFails("headers")
        \/ /\ read # r.head /\ ~(read > MaxHead)
           /\ call' = [call EXCEPT !.read = read] /\ UNCHANGED <<vmm, accepted>>
      BY <1>6, <1>8, "head" # "body", Zenon DEF ReadByte
  <2>2. CASE read = r.head /\ HeadRead(read)
    <3>1. CASE r.declared \in {Undeclared, 0}
      <4>1. Finish(read) /\ read = r.head + (IF r.declared = Undeclared THEN 0 ELSE r.declared)
          BY <1>5, <2>2, <3>1 DEF HeadRead
      <4> HIDE DEF read
      <4> QED
          BY <1>1, <1>2, <1>3, <4>1, FinishedCall
    <3>2. CASE r.declared \notin {Undeclared, 0} /\ ~Fits(r.declared, read)
        BY <2>2, <3>2, FailedCall DEF HeadRead
    <3>3. CASE r.declared \notin {Undeclared, 0} /\ Fits(r.declared, read)
      <4>1. call' = [call EXCEPT !.step = "body", !.read = read] /\ UNCHANGED <<vmm, accepted>>
          BY <2>2, <3>3 DEF HeadRead
      <4>2. /\ r.declared \in Nat \ {0} /\ r.declared # Undeclared
            /\ read < r.head + r.declared /\ r.head + r.declared <= MaxApiBody
          BY <1>2, <1>5, <1>6, <2>2, <3>3, ControlApiAssumption DEF Fits
      <4> QED
          BY <1>7, <4>1, <4>2
    <3> QED
        BY <3>1, <3>2, <3>3
  <2>3. CASE CallFails("headers")
      BY <2>3, FailedCall
  <2>4. CASE /\ read # r.head /\ ~(read > MaxHead)
             /\ call' = [call EXCEPT !.read = read] /\ UNCHANGED <<vmm, accepted>>
    <3>1. read <= MaxHead /\ read < r.head
        BY <1>2, <1>4, <1>5, <1>8, <2>4, ControlApiAssumption
    <3>2. call' = [call EXCEPT !.step = "head", !.read = read]
        BY <1>8, <2>4 DEF ApiInv, Calls
    <3> QED
        BY <1>7, <2>4, <3>1, <3>2
  <2> QED
      BY <2>1, <2>2, <2>3, <2>4
<1>9. CASE call.step = "body"
  <2>1. \/ read = r.head + r.declared /\ Finish(read)
        \/ /\ read # r.head + r.declared
           /\ call' = [call EXCEPT !.read = read] /\ UNCHANGED <<vmm, accepted>>
      BY <1>6, <1>9, "head" # "body", Zenon DEF ReadByte
  <2>2. CASE read = r.head + r.declared /\ Finish(read)
    <3>1. Finish(read) /\ read = r.head + (IF r.declared = Undeclared THEN 0 ELSE r.declared)
        BY <1>4, <1>9, <2>2
    <3> HIDE DEF read
    <3> QED
        BY <1>1, <1>2, <1>3, <3>1, FinishedCall
  <2>3. CASE /\ read # r.head + r.declared
             /\ call' = [call EXCEPT !.read = read] /\ UNCHANGED <<vmm, accepted>>
    <3>1. read < r.head + r.declared
        BY <1>2, <1>4, <1>5, <1>9, <2>3
    <3>2. call' = [call EXCEPT !.step = "body", !.read = read]
        BY <1>9, <2>3 DEF ApiInv, Calls
    <3> QED
        BY <1>4, <1>7, <1>9, <2>3, <3>1, <3>2
  <2> QED
      BY <2>1, <2>2, <2>3
<1> QED
    BY <1>1, <1>8, <1>9 DEF Reading

LEMMA ApiSteps ==
    ASSUME ApiInv, ApiNext
    PROVE  ApiInv'
<1>1. CASE (\E r \in Responses : VmmAnswers(r)) \/ VmmSends \/ VmmCloses
    BY <1>1, VmmSteps
<1>2. CASE Connect
  <2>1. CASE CallFails("connect")
      BY <2>1, FailedCall
  <2>2. CASE call' = [call EXCEPT !.step = "write"] /\ UNCHANGED <<vmm, accepted>>
    <3>1. call' \in Calls /\ call'.step = "write" /\ call'.read = call.read
        BY <2>2 DEF ApiInv, Calls
    <3>2. call.step = "connect"
        BY <1>2 DEF Connect
    <3>3. CallAgrees'
        BY <2>2, <3>1, <3>2 DEF ApiInv, CallAgrees, Reading
    <3> QED
        BY <2>2, <3>1, <3>2, <3>3 DEF ApiInv, AcceptedInFull
  <2> QED
      BY <1>2, <2>1, <2>2 DEF Connect
<1>3. CASE Write
  <2>1. CASE CallFails("write")
      BY <2>1, FailedCall
  <2>2. CASE call' = [call EXCEPT !.step = "head"] /\ UNCHANGED <<vmm, accepted>>
    <3>1. call' \in Calls /\ call'.step = "head" /\ call'.read = call.read
        BY <2>2 DEF ApiInv, Calls
    <3>2. call.step = "write" /\ call.read = 0 /\ vmm.response = << >>
        BY <1>3 DEF Write, ApiInv, CallAgrees, Reading
    <3>3. CallAgrees'
        BY <2>2, <3>1, <3>2, ControlApiAssumption DEF ApiInv, CallAgrees, Reading
    <3> QED
        BY <2>2, <3>1, <3>2, <3>3 DEF ApiInv, AcceptedInFull
  <2> QED
      BY <1>3, <2>1, <2>2 DEF Write
<1>4. CASE ReadByte
    BY <1>4, ByteIsRead
<1>5. CASE ApiEof
    BY <1>5, FailedCall DEF ApiEof
<1>6. CASE ApiTick
  <2>1. call' \in Calls /\ call'.step = call.step /\ call'.read = call.read
    <3>1. call.waited + 1 \in 0 .. ApiTimeout
        BY <1>6, ControlApiAssumption DEF ApiTick, ApiInv, Calls
    <3> QED
        BY <1>6, <3>1 DEF ApiTick, ApiInv, Calls
  <2>2. UNCHANGED <<vmm, accepted>>
      BY <1>6 DEF ApiTick
  <2>3. CallAgrees'
      BY <2>1, <2>2 DEF ApiInv, CallAgrees, Reading
  <2> QED
      BY <2>1, <2>2, <2>3 DEF ApiInv, AcceptedInFull
<1>7. CASE ApiTimesOut
    BY <1>7, FailedCall DEF ApiTimesOut
<1> QED
    BY <1>1, <1>2, <1>3, <1>4, <1>5, <1>6, <1>7 DEF ApiNext


-----------------------------------------------------------------------------
(***************************************************************************)
(* The codec: an end refuses what the other end's decoder would refuse.    *)
(***************************************************************************)

\* A question that the host can encode has a body and decodes.
LEMMA QuestionsDecode ==
    ASSUME NEW m \in Questions, Encodes(m)
    PROVE  Body(m) \in Nat \ {0} /\ Decodes(m) /\ Prefix + Body(m) <= MaxFrame
<1>1. Body(m) \in Nat \ {0}
    BY ChannelAssumption DEF Body
<1>2. Decodes(m)
    BY ChannelAssumption DEF Encodes, WriteFields, Decodes, CheckName
<1> QED
    BY <1>1, <1>2 DEF Encodes

\* The answers to a question are small, and what makes them decode is what
\* made the question encode.
LEMMA RepliesDecode ==
    ASSUME NEW m \in Questions, Encodes(m), NEW reply \in Replies(m)
    PROVE  Body(reply) \in Nat \ {0} /\ Encodes(reply) /\ Decodes(reply)
<1>1. \/ reply.type \in {"negotiated", "cancelled", "ack"}
      \/ reply.type = "upload_ack" /\ reply.name = m.name /\ m.type = "upload_input"
      \/ reply.type = "stage_output" /\ reply.diagnostic \in 0 .. MaxDiagnostic
      \/ reply.type = "evidence_ack" /\ reply.kind = m.kind /\ m.type = "stage_evidence"
  <2>1. CASE m.type = "negotiate"
      BY <2>1 DEF Replies
  <2>2. CASE m.type = "upload_input"
      BY <2>2 DEF Replies
  <2>3. CASE m.type \in {"build", "run"}
    <3>1. PICK line \in 0 .. LongestLine :
             reply = [type |-> "stage_output", stage |-> m.type, diagnostic |-> Truncated(line)]
        BY <2>3 DEF Replies
    <3>2. Truncated(line) \in 0 .. MaxDiagnostic
        BY ChannelAssumption DEF Truncated
    <3> QED
        BY <3>1, <3>2
  <2>4. CASE m.type = "stage_evidence"
      BY <2>4 DEF Replies
  <2>5. CASE m.type = "cancel"
      BY <2>5 DEF Replies
  <2>6. CASE m.type = "heartbeat"
      BY <2>6 DEF Replies
  <2>7. CASE m.type \notin {"negotiate", "upload_input", "build", "run", "stage_evidence",
                            "cancel", "heartbeat"}
      BY <2>7 DEF Replies
  <2> QED
      BY <2>1, <2>2, <2>3, <2>4, <2>5, <2>6, <2>7
<1>2. CASE reply.type \in {"negotiated", "cancelled", "ack"}
    BY <1>2, ChannelAssumption DEF Body, Encodes, WriteFields, Decodes
<1>3. CASE reply.type = "upload_ack" /\ reply.name = m.name /\ m.type = "upload_input"
  <2>1. m.name = "plain"
      BY <1>3 DEF Encodes, WriteFields, CheckName
  <2> QED
      BY <1>3, <2>1, ChannelAssumption DEF Body, Encodes, WriteFields, Decodes, CheckName
<1>4. CASE reply.type = "stage_output" /\ reply.diagnostic \in 0 .. MaxDiagnostic
    BY <1>4, ChannelAssumption DEF Body, Encodes, WriteFields, Decodes, DiagnosticsFrom
<1>5. CASE reply.type = "evidence_ack" /\ reply.kind = m.kind /\ m.type = "stage_evidence"
  <2>1. m.kind <= MaxKind
      BY <1>5 DEF Encodes, WriteFields
  <2> QED
      BY <1>5, <2>1, ChannelAssumption DEF Body, Encodes, WriteFields, Decodes
<1> QED
    BY <1>1, <1>2, <1>3, <1>4, <1>5

(***************************************************************************)
(* Pieces of a frame.                                                      *)
(***************************************************************************)

\* A frame is one piece, from its first byte.
LEMMA FrameIsPiece ==
    ASSUME NEW n \in Nat, NEW m, Body(m) \in Nat \ {0}
    PROVE  /\ Frame(n, m) \in Seq(Bytes) /\ Len(Frame(n, m)) = Prefix + Body(m)
           /\ Piece(Frame(n, m), 0, n, Body(m))
<1> DEFINE size == Prefix + Body(m)
           Byte(i) == [frame |-> n, at |-> i, length |-> Body(m)]
<1>1. size \in Nat
    BY ChannelAssumption
<1>2. \A i \in 1 .. size : Byte(i) \in Bytes
    BY <1>1 DEF Bytes
<1>3. Frame(n, m) = [i \in 1 .. size |-> Byte(i)]
    BY DEF Frame
<1>4. \A i \in 1 .. size : 0 + i = i
    BY <1>1
<1> HIDE DEF size, Byte
<1>5. Frame(n, m) \in Seq(Bytes)
    BY <1>1, <1>2, <1>3
<1>6. Len(Frame(n, m)) = size
    BY <1>1, <1>3
<1>7. \A i \in 1 .. size : Frame(n, m)[i] = Byte(i)
    BY <1>3
<1> QED
    BY <1>4, <1>5, <1>6, <1>7 DEF Piece, size, Byte

\* The beginning and the rest of a piece.
LEMMA PieceCut ==
    ASSUME NEW s \in Seq(Bytes), NEW first \in Nat, NEW n, NEW length,
           Piece(s, first, n, length), NEW k \in 0 .. Len(s)
    PROVE  /\ SubSeq(s, 1, k) \in Seq(Bytes) /\ Len(SubSeq(s, 1, k)) = k
           /\ Piece(SubSeq(s, 1, k), first, n, length)
           /\ SubSeq(s, k + 1, Len(s)) \in Seq(Bytes)
           /\ Len(SubSeq(s, k + 1, Len(s))) = Len(s) - k
           /\ Piece(SubSeq(s, k + 1, Len(s)), first + k, n, length)
<1>1. Len(s) \in Nat /\ k \in Nat /\ k <= Len(s)
    BY LenProperties
<1>2. \A i \in 1 .. Len(s) : s[i] \in Bytes
    BY ElementOfSeq
<1> DEFINE front == SubSeq(s, 1, k)
           rest == SubSeq(s, k + 1, Len(s))
<1>3. front \in Seq(Bytes) /\ Len(front) = k /\ \A i \in 1 .. k : front[i] = s[i]
  <2>1. \A i \in 1 .. k : s[i] \in Bytes
      BY <1>1, <1>2
  <2>2. /\ front \in Seq(Bytes) /\ Len(front) = IF 1 <= k THEN k - 1 + 1 ELSE 0
        /\ \A i \in 1 .. k - 1 + 1 : front[i] = s[1 + i - 1]
      BY <1>1, <2>1, SubSeqProperties
  <2> QED
      BY <1>1, <2>2
<1>4. /\ rest \in Seq(Bytes) /\ Len(rest) = Len(s) - k
      /\ \A i \in 1 .. Len(s) - k : rest[i] = s[k + i]
  <2>1. \A i \in k + 1 .. Len(s) : s[i] \in Bytes
      BY <1>1, <1>2
  <2>2. /\ rest \in Seq(Bytes) /\ Len(rest) = IF k + 1 <= Len(s) THEN Len(s) - (k + 1) + 1 ELSE 0
        /\ \A i \in 1 .. Len(s) - (k + 1) + 1 : rest[i] = s[(k + 1) + i - 1]
      BY <1>1, <2>1, SubSeqProperties
  <2> QED
      BY <1>1, <2>2
<1> HIDE DEF front, rest
<1>5. Piece(front, first, n, length)
  <2>1. \A i \in 1 .. Len(front) : i \in 1 .. Len(s) /\ front[i] = s[i]
      BY <1>1, <1>3
  <2> QED
      BY <2>1 DEF Piece
<1>6. Piece(rest, first + k, n, length)
  <2>1. \A i \in 1 .. Len(rest) : k + i \in 1 .. Len(s) /\ first + k + i = first + (k + i)
      BY <1>1, <1>4
  <2> QED
      BY <1>1, <1>4, <2>1 DEF Piece
<1> QED
    BY <1>3, <1>4, <1>5, <1>6 DEF front, rest

\* A piece, and one that continues it.
LEMMA PieceConcat ==
    ASSUME NEW s \in Seq(Bytes), NEW t \in Seq(Bytes), NEW first \in Nat, NEW n, NEW length,
           Piece(s, first, n, length), Piece(t, first + Len(s), n, length)
    PROVE  /\ s \o t \in Seq(Bytes) /\ Len(s \o t) = Len(s) + Len(t)
           /\ Piece(s \o t, first, n, length)
<1>1. Len(s) \in Nat /\ Len(t) \in Nat
    BY LenProperties
<1>2. /\ s \o t \in Seq(Bytes) /\ Len(s \o t) = Len(s) + Len(t)
      /\ \A i \in 1 .. Len(s) + Len(t) : (s \o t)[i] =
             IF i <= Len(s) THEN s[i] ELSE t[i - Len(s)]
    BY ConcatProperties
<1>3. ASSUME NEW i \in 1 .. Len(s) + Len(t)
      PROVE  (s \o t)[i] = [frame |-> n, at |-> first + i, length |-> length]
  <2>1. CASE i <= Len(s)
      BY <1>1, <1>2, <2>1 DEF Piece
  <2>2. CASE ~(i <= Len(s))
    <3>1. i - Len(s) \in 1 .. Len(t) /\ first + Len(s) + (i - Len(s)) = first + i
        BY <1>1, <2>2
    <3>2. t[i - Len(s)] = [frame |-> n, at |-> first + Len(s) + (i - Len(s)), length |-> length]
        BY <3>1 DEF Piece
    <3> QED
        BY <1>2, <2>2, <3>1, <3>2
  <2> QED
      BY <2>1, <2>2
<1> QED
    BY <1>2, <1>3 DEF Piece


\* A byte is not lost on the way: it is the first of those that were sent, and
\* the last of those that arrived.
LEMMA FlowArrives ==
    ASSUME NEW buffer \in Seq(Bytes), NEW stream \in Streams, NEW n, NEW length,
           Flow(buffer, stream, n, length), stream.sent # << >>
    PROVE  /\ Flow(buffer, Arrived(stream), n, length)
           /\ Total(buffer, Arrived(stream)) = Total(buffer, stream)
<1> DEFINE rest == Tail(stream.sent)
           byte == Head(stream.sent)
           here == Append(stream.here, byte)
<1>1. stream.sent \in Seq(Bytes) /\ stream.here \in Seq(Bytes)
    BY DEF Streams
<1>2. /\ Len(buffer) \in Nat /\ Len(stream.sent) \in Nat \ {0} /\ Len(stream.here) \in Nat
      /\ DOMAIN stream.sent = 1 .. Len(stream.sent)
    BY <1>1, LenProperties, EmptySeq
<1>3. /\ byte \in Bytes /\ rest \in Seq(Bytes) /\ Len(rest) = Len(stream.sent) - 1
      /\ \A i \in 1 .. Len(rest) : rest[i] = stream.sent[i + 1]
    BY <1>1, HeadTailProperties
<1>4. byte = stream.sent[1]
    BY <1>1
<1>5. /\ here \in Seq(Bytes) /\ Len(here) = Len(stream.here) + 1
      /\ \A i \in 1 .. Len(stream.here) : here[i] = stream.here[i]
      /\ here[Len(stream.here) + 1] = byte
    BY <1>1, <1>3, AppendProperties
<1>6. Arrived(stream).sent = rest /\ Arrived(stream).here = here
    BY DEF Arrived
<1> HIDE DEF rest, byte, here
<1>7. Piece(here, Len(buffer), n, length)
  <2>1. \A i \in 1 .. Len(stream.here) :
            stream.here[i] = [frame |-> n, at |-> Len(buffer) + i, length |-> length]
      BY DEF Flow, Piece
  <2>2. stream.sent[1] = [frame |-> n, at |-> Len(buffer) + Len(stream.here) + 1, length |-> length]
      BY <1>2 DEF Flow, Piece
  <2>3. Len(buffer) + Len(stream.here) + 1 = Len(buffer) + (Len(stream.here) + 1)
      BY <1>2
  <2>4. \A i \in 1 .. Len(here) : i \in 1 .. Len(stream.here) \/ i = Len(stream.here) + 1
      BY <1>2, <1>5
  <2> QED
      BY <1>4, <1>5, <2>1, <2>2, <2>3, <2>4 DEF Piece
<1> DEFINE b == Len(buffer)
           h == Len(stream.here)
           q == Len(stream.sent)
<1>sizes. b \in Nat /\ h \in Nat /\ q \in Nat \ {0} /\ Len(rest) = q - 1 /\ Len(here) = h + 1
    BY <1>2, <1>3, <1>5
<1> HIDE DEF b, h, q
<1>8. Piece(rest, Len(buffer) + Len(here), n, length)
  <2>1. \A i \in 1 .. Len(rest) : /\ i + 1 \in 1 .. q
                                  /\ b + h + (i + 1) = b + Len(here) + i
      BY <1>sizes
  <2>2. \A i \in 1 .. Len(stream.sent) : stream.sent[i] =
            [frame |-> n, at |-> Len(buffer) + Len(stream.here) + i, length |-> length]
      BY DEF Flow, Piece
  <2> QED
      BY <1>3, <2>1, <2>2 DEF Piece, b, h, q
<1>9. Total(buffer, Arrived(stream)) = Total(buffer, stream)
  <2>1. b + Len(here) + Len(rest) = b + h + q
      BY <1>sizes
  <2> QED
      BY <1>6, <2>1 DEF Total, b, h, q
<1> QED
    BY <1>6, <1>7, <1>8, <1>9 DEF Flow, Total

\* A read takes the bytes that follow those the reader has.
LEMMA FlowRead ==
    ASSUME NEW buffer \in Seq(Bytes), NEW stream \in Streams, NEW n, NEW length,
           Flow(buffer, stream, n, length), stream.here # << >>, NEW room \in Nat \ {0}
    PROVE  LET all == buffer \o Read(stream, room) IN
           /\ all \in Seq(Bytes) /\ After(stream, room) \in Streams
           /\ Flow(all, After(stream, room), n, length)
           /\ Total(all, After(stream, room)) = Total(buffer, stream)
           /\ Len(Read(stream, room)) \in 1 .. room /\ Read(stream, room) \in Seq(Bytes)
           /\ Len(all) = Len(buffer) + Len(Read(stream, room))
<1> DEFINE k == Available(stream, room)
           bytes == SubSeq(stream.here, 1, k)
           rest == SubSeq(stream.here, k + 1, Len(stream.here))
           all == buffer \o bytes
<1>1. stream.sent \in Seq(Bytes) /\ stream.here \in Seq(Bytes)
    BY DEF Streams
<1>2. Len(buffer) \in Nat /\ Len(stream.sent) \in Nat /\ Len(stream.here) \in Nat \ {0}
    BY <1>1, LenProperties, EmptySeq
<1>3. k \in 1 .. room /\ k \in 0 .. Len(stream.here) /\ k \in Nat
    BY <1>2 DEF Available
<1>4. Read(stream, room) = bytes
    BY DEF Read
<1>5. After(stream, room) \in Streams /\ After(stream, room).sent = stream.sent
      /\ After(stream, room).here = rest
  <2>1. rest \in Seq(Bytes)
      BY <1>1, <1>2, <1>3, PieceCut DEF Flow
  <2>2. stream = [sent |-> stream.sent, here |-> stream.here]
      BY DEF Streams
  <2>3. After(stream, room) = [stream EXCEPT !.here = rest]
      BY DEF After
  <2> HIDE DEF rest
  <2> QED
      BY <2>1, <2>2, <2>3 DEF Streams
<1> HIDE DEF k
<1>6. /\ bytes \in Seq(Bytes) /\ Len(bytes) = k /\ Piece(bytes, Len(buffer), n, length)
      /\ Len(rest) = Len(stream.here) - k /\ Piece(rest, Len(buffer) + k, n, length)
    BY <1>1, <1>2, <1>3, PieceCut DEF Flow
<1> HIDE DEF bytes, rest
<1>7. 0 + Len(buffer) = Len(buffer)
    BY <1>2
<1>8. all \in Seq(Bytes) /\ Len(all) = Len(buffer) + k /\ Piece(all, 0, n, length)
    BY <1>6, <1>7, PieceConcat DEF Flow
<1> HIDE DEF all
<1>9. Len(all) + Len(rest) = Len(buffer) + Len(stream.here)
  <2>1. PICK b \in Nat, h \in Nat, c \in Nat : b = Len(buffer) /\ h = Len(stream.here) /\ c = k
      BY <1>2, <1>3
  <2>2. Len(all) = b + c /\ Len(rest) = h - c
      BY <1>6, <1>8, <2>1
  <2>3. (b + c) + (h - c) = b + h
      OBVIOUS
  <2> QED
      BY <2>1, <2>2, <2>3
<1>10. Total(all, After(stream, room)) = Total(buffer, stream)
    BY <1>5, <1>9 DEF Total
<1>11. Flow(all, After(stream, room), n, length)
    BY <1>5, <1>6, <1>8, <1>9 DEF Flow
<1> QED
    BY <1>3, <1>4, <1>5, <1>6, <1>8, <1>10, <1>11 DEF all

\* What the beginning of a frame says of it.
LEMMA LengthIsRead ==
    ASSUME NEW bytes \in Seq(Bytes), NEW n, NEW length, Piece(bytes, 0, n, length),
           bytes # << >>
    PROVE  /\ InStep(bytes) /\ bytes[1].frame = n /\ bytes[1].at = 1 /\ bytes[1].length = length
           /\ Lengths(bytes) = {length}
<1>1. Len(bytes) \in Nat \ {0} /\ DOMAIN bytes = 1 .. Len(bytes)
    BY LenProperties, EmptySeq
<1>2. \A i \in 1 .. Len(bytes) :
          bytes[i].frame = n /\ bytes[i].at = i /\ bytes[i].length = length
    BY <1>1 DEF Piece
<1>3. 1 \in 1 .. Len(bytes)
    BY <1>1
<1>4. InStep(bytes)
    BY <1>1, <1>2, <1>3 DEF InStep
<1> QED
    BY <1>2, <1>3, <1>4 DEF Lengths


\* The first bytes of a frame, written to a stream that is empty.
LEMMA FlowWritten ==
    ASSUME NEW stream \in Streams, Empty(stream), NEW n \in Nat, NEW m, Body(m) \in Nat \ {0},
           NEW k \in 0 .. Prefix + Body(m)
    PROVE  LET after == Written(stream, SubSeq(Frame(n, m), 1, k)) IN
           /\ after \in Streams /\ Flow(<< >>, after, n, Body(m))
           /\ Total(<< >>, after) = k
<1> DEFINE bytes == SubSeq(Frame(n, m), 1, k)
           after == Written(stream, bytes)
<1>1. bytes \in Seq(Bytes) /\ Len(bytes) = k /\ Piece(bytes, 0, n, Body(m))
    BY FrameIsPiece, PieceCut
<1>2. k \in Nat /\ k <= Prefix + Body(m)
    BY ChannelAssumption
<1> HIDE DEF bytes
<1>3. << >> \o bytes = bytes
    BY <1>1, ConcatEmptySeq
<1>4. << >> \in Seq(Bytes) /\ Len(<< >>) = 0
    BY EmptySeq
<1>5. after \in Streams /\ after.sent = bytes /\ after.here = << >>
  <2>1. stream.sent \o bytes = bytes /\ stream.here = << >>
      BY <1>3 DEF Empty
  <2>2. after = [stream EXCEPT !.sent = bytes]
      BY <2>1 DEF Written
  <2> HIDE DEF after
  <2> QED
      BY <1>1, <1>4, <2>1, <2>2 DEF Streams
<1> HIDE DEF after
<1>6. Piece(<< >>, 0, n, Body(m))
    BY <1>4 DEF Piece
<1>7. 0 + 0 = 0 /\ 0 + 0 + k = k
    BY <1>2
<1> QED
    BY <1>1, <1>2, <1>4, <1>5, <1>6, <1>7 DEF Flow, Total, after, bytes

\* A whole frame.
LEMMA FrameWritten ==
    ASSUME NEW stream \in Streams, Empty(stream), NEW n \in Nat, NEW m, Body(m) \in Nat \ {0}
    PROVE  LET after == Written(stream, Frame(n, m)) IN
           /\ after \in Streams /\ Flow(<< >>, after, n, Body(m))
           /\ Total(<< >>, after) = Prefix + Body(m)
<1> DEFINE k == Prefix + Body(m)
<1>1. Frame(n, m) \in Seq(Bytes) /\ Len(Frame(n, m)) = k
    BY FrameIsPiece
<1>2. k \in 0 .. Prefix + Body(m)
    BY ChannelAssumption
<1> HIDE DEF k
<1>3. SubSeq(Frame(n, m), 1, k) = Frame(n, m)
    BY <1>1, SubSeqFull
<1>4. LET after == Written(stream, SubSeq(Frame(n, m), 1, k)) IN
      after \in Streams /\ Flow(<< >>, after, n, Body(m)) /\ Total(<< >>, after) = k
    BY <1>2, FlowWritten
<1> QED
    BY <1>3, <1>4 DEF k

\* All of what was written has been read.
LEMMA NothingOnTheWay ==
    ASSUME NEW stream \in Streams, NEW buffer \in Seq(Bytes), Total(buffer, stream) <= Len(buffer)
    PROVE  Empty(stream)
<1>1. stream.sent \in Seq(Bytes) /\ stream.here \in Seq(Bytes)
    BY DEF Streams
<1>2. Len(stream.sent) \in Nat /\ Len(stream.here) \in Nat /\ Len(buffer) \in Nat
    BY <1>1, LenProperties
<1>3. \A a, b, c \in Nat : a + b + c <= a => b = 0 /\ c = 0
    OBVIOUS
<1>4. Len(stream.sent) = 0 /\ Len(stream.here) = 0
    BY <1>2, <1>3 DEF Total
<1> QED
    BY <1>1, <1>4, EmptySeq DEF Empty

-----------------------------------------------------------------------------
(***************************************************************************)
(* The proof for the guest channel: the steps of the host.                 *)
(***************************************************************************)

LEMMA ChannelStarts ==
    ChannelInit => ChannelInv
<1> SUFFICES ASSUME ChannelInit PROVE ChannelInv
    OBVIOUS
<1>1. << >> \in Seq(Bytes) /\ Len(<< >>) = 0
    BY EmptySeq
<1>2. host \in HostSessions /\ guest \in GuestSessions
    BY <1>1, ChannelAssumption DEF ChannelInit, HostSessions, GuestSessions
<1>3. down \in Streams /\ up \in Streams /\ Empty(down) /\ Empty(up)
    BY <1>1 DEF ChannelInit, Quiet, Streams, Empty
<1>4. asked \in Seq(Questions) /\ answered \in Seq(AllReplies)
      /\ taken \in Seq([question : Nat, frame : Nat])
    BY EmptySeq DEF ChannelInit
<1>5. asked = << >> /\ answered = << >> /\ taken = << >>
      /\ host.buffer = << >> /\ guest.buffer = << >> /\ host.step = "ready" /\ guest.step = "prefix"
    BY DEF ChannelInit
<1>6. ChannelTypes
    BY <1>1, <1>2, <1>3, <1>4, <1>5, ChannelAssumption DEF ChannelTypes
<1>7. GuestReads
  <2>1. Total(guest.buffer, down) = 0
      BY <1>1, <1>3, <1>5 DEF Total, Empty
  <2> QED
      BY <1>5, <2>1 DEF GuestReads
<1>8. HostReads
    BY <1>1, <1>3, <1>5 DEF HostReads, Receiving
<1>9. AnswersFit
    BY <1>1, <1>5 DEF AnswersFit
<1> QED
    BY <1>6, <1>7, <1>8, <1>9 DEF ChannelInv

\* The session of the executor ends, whatever the reason.
LEMMA SessionEnds ==
    ASSUME ChannelInv, NEW why \in {"encode", "write", "timeout", "eof", "end"}, Teardown(why),
           UNCHANGED <<asked, answered, taken, up, guest>>, down' \in Streams, GuestReads'
    PROVE  ChannelInv'
<1>1. host' \in HostSessions /\ host'.step = "closed" /\ host'.buffer = host.buffer
    BY DEF Teardown, ChannelInv, ChannelTypes, HostSessions
<1>2. ChannelTypes'
    BY <1>1 DEF ChannelInv, ChannelTypes
<1>3. HostReads'
    BY <1>1 DEF HostReads, Receiving
<1>4. AnswersFit'
    BY DEF ChannelInv, AnswersFit
<1> QED
    BY <1>2, <1>3, <1>4 DEF ChannelInv

LEMMA HostSends ==
    ASSUME ChannelInv, NEW m \in Questions, Send(m)
    PROVE  ChannelInv'
<1> DEFINE n == Len(asked)
<1>1. /\ host.step = "ready" /\ n < MaxFrames /\ n \in Nat
      /\ Len(answered) = n /\ Len(taken) = n
      /\ Empty(down) /\ Empty(up) /\ guest.step = "prefix" /\ guest.buffer = << >>
      /\ down \in Streams
    BY LenProperties DEF Send, ChannelInv, ChannelTypes, GuestReads, HostReads
<1>2. UNCHANGED <<answered, taken, up, guest>>
    BY DEF Send
<1>3. CASE Teardown("encode") /\ UNCHANGED <<asked, down>>
  <2>1. GuestReads'
      BY <1>2, <1>3 DEF ChannelInv, GuestReads
  <2> QED
      BY <1>1, <1>2, <1>3, <2>1, SessionEnds
<1>4. ASSUME Encodes(m)
      PROVE  Body(m) \in Nat \ {0} /\ Prefix + Body(m) <= MaxFrame
    BY <1>4, QuestionsDecode
<1>5. << >> \in Seq(Bytes) /\ Len(<< >>) = 0
    BY EmptySeq
<1>6. CASE /\ Encodes(m)
           /\ asked' = Append(asked, m)
           /\ down' = Written(down, Frame(Len(asked) + 1, m))
           /\ host' = [step |-> "prefix", buffer |-> << >>, waited |-> 0, why |-> "none"]
  <2>1. /\ asked' \in Seq(Questions) /\ Len(asked') = n + 1 /\ asked'[n + 1] = m
        /\ \A i \in 1 .. n : asked'[i] = asked[i]
      BY <1>6, AppendProperties DEF ChannelInv, ChannelTypes
  <2>2. host' \in HostSessions /\ host'.step = "prefix" /\ host'.buffer = << >>
      BY <1>5, <1>6, ChannelAssumption DEF HostSessions
  <2>3. /\ down' \in Streams /\ Flow(<< >>, down', n + 1, Body(m))
        /\ Total(<< >>, down') = Prefix + Body(m)
      BY <1>1, <1>4, <1>6, FrameWritten
  <2> HIDE DEF n
  <2>4. ChannelTypes'
    <3>1. n + 1 <= MaxFrames /\ n <= n + 1 /\ 0 <= MaxFrame
        BY <1>1, ChannelAssumption
    <3> QED
        BY <1>1, <1>2, <1>5, <2>1, <2>2, <2>3, <3>1 DEF ChannelInv, ChannelTypes
  <2>5. GuestReads'
    <3>1. guest'.buffer = << >> /\ guest'.step = "prefix" /\ Len(answered') + 1 = n + 1
        BY <1>1, <1>2
    <3>2. Len(<< >>) < Prefix + Body(m)
        BY <1>4, <1>5, <1>6, ChannelAssumption
    <3> QED
        BY <1>6, <2>1, <2>3, <3>1, <3>2 DEF GuestReads
  <2>6. HostReads'
    <3>1. NoAnswerYet'
        BY <1>1, <1>2, <2>2 DEF NoAnswerYet, Empty
    <3> QED
        BY <1>1, <1>2, <2>1, <2>2, <3>1 DEF HostReads, Receiving
  <2>7. AnswersFit'
    <3>1. \A i \in 1 .. n + 1 : i \in 1 .. n \/ i = n + 1
        BY <1>1
    <3> QED
        BY <1>1, <1>2, <1>6, <2>1, <3>1 DEF ChannelInv, AnswersFit, n
  <2> QED
      BY <2>4, <2>5, <2>6, <2>7 DEF ChannelInv
<1>7. CASE /\ Encodes(m)
           /\ \E written \in 0 .. (Prefix + Body(m) - 1) :
                down' = Written(down, SubSeq(Frame(Len(asked) + 1, m), 1, written))
           /\ Teardown("write") /\ UNCHANGED asked
  <2>1. PICK written \in 0 .. (Prefix + Body(m) - 1) :
                down' = Written(down, SubSeq(Frame(Len(asked) + 1, m), 1, written))
      BY <1>7
  <2>size. Body(m) \in Nat \ {0} /\ Prefix \in Nat
      BY <1>4, <1>7, ChannelAssumption
  <2>2. written \in 0 .. Prefix + Body(m) /\ written < Prefix + Body(m)
    <3>1. \A p, b \in Nat : \A w \in 0 .. (p + b - 1) : w \in 0 .. p + b /\ w < p + b
        OBVIOUS
    <3> QED
        BY <2>size, <3>1
  <2>3. down' \in Streams /\ Flow(<< >>, down', n + 1, Body(m)) /\ Total(<< >>, down') = written
    <3>1. n + 1 \in Nat /\ down \in Streams /\ Empty(down)
        BY <1>1
    <3>2. down' = Written(down, SubSeq(Frame(n + 1, m), 1, written))
        BY <2>1
    <3> HIDE DEF n
    <3> QED
        BY <2>size, <2>2, <3>1, <3>2, FlowWritten
  <2>4. GuestReads'
    <3>1. guest'.buffer = << >> /\ guest'.step = "prefix" /\ Len(answered') + 1 = n + 1
        BY <1>1, <1>2
    <3>2. Len(<< >>) < Prefix + Body(m) /\ written # Prefix + Body(m)
      <4>1. \A p \in Nat, b \in Nat \ {0} : 0 < p + b
          OBVIOUS
      <4>2. \A p, b \in Nat : \A w \in 0 .. p + b : w < p + b => w # p + b
          OBVIOUS
      <4> QED
          BY <1>5, <2>size, <2>2, <4>1, <4>2
    <3> QED
        BY <1>7, <2>3, <3>1, <3>2 DEF GuestReads
  <2> QED
      BY <1>2, <1>7, <2>3, <2>4, SessionEnds
<1> QED
    BY <1>3, <1>6, <1>7 DEF Send


\* A read of recv: the host has the beginning of the answer to its last frame,
\* and stays within it until it has all of it.
LEMMA HostReceives ==
    ASSUME ChannelInv, Receive
    PROVE  ChannelInv'
<1> DEFINE n == Len(asked)
           L == Body(answered[n])
<1>1. Receiving /\ up.here # << >> /\ UNCHANGED <<asked, answered, down, guest>>
    BY DEF Receive
<1>2. HasAnswer /\ n = Len(taken) + 1
    BY <1>1 DEF ChannelInv, HostReads, NoAnswerYet, Empty
<1>3. /\ n \in Nat \ {0} /\ Len(taken) \in Nat /\ Len(answered) = n
      /\ host.buffer \in Seq(Bytes) /\ Len(host.buffer) \in Nat /\ up \in Streams
      /\ taken \in Seq([question : Nat, frame : Nat])
  <2>1. host.buffer \in Seq(Bytes) /\ up \in Streams /\ taken \in Seq([question : Nat, frame : Nat])
      BY DEF ChannelInv, ChannelTypes, HostSessions
  <2>2. Len(taken) \in Nat /\ Len(host.buffer) \in Nat
      BY <2>1, LenProperties
  <2> QED
      BY <1>2, <2>1, <2>2 DEF HasAnswer
<1>4. Encodes(answered[n]) /\ Decodes(answered[n]) /\ L \in Nat \ {0} /\ Prefix + L <= MaxFrame
  <2>1. n \in 1 .. Len(answered) /\ n \in 1 .. Len(asked)
      BY <1>3
  <2>2. asked[n] \in Questions /\ answered[n] \in Replies(asked[n]) /\ Encodes(asked[n])
      BY <2>1 DEF ChannelInv, AnswersFit
  <2> QED
      BY <2>2, RepliesDecode DEF Encodes
<1> HIDE DEF L
<1>5. /\ Flow(host.buffer, up, n, L) /\ Total(host.buffer, up) = Prefix + L
      /\ host.step = "prefix" => Len(host.buffer) < Prefix
      /\ host.step = "body" => Prefix <= Len(host.buffer) /\ Len(host.buffer) < Prefix + L
      /\ guest.step = "prefix" /\ Empty(down)
    BY <1>2 DEF HasAnswer, L
<1> DEFINE lengths == IF host.step = "prefix" THEN {0} ELSE Lengths(SubSeq(host.buffer, 1, Prefix))
<1>6. lengths = {IF host.step = "prefix" THEN 0 ELSE L}
  <2>1. CASE host.step = "prefix"
      BY <2>1
  <2>2. CASE host.step = "body"
    <3>1. Prefix \in 0 .. Len(host.buffer) /\ Prefix \in Nat \ {0} /\ 0 \in Nat
        BY <1>3, <1>5, <2>2, ChannelAssumption
    <3>2. LET bytes == SubSeq(host.buffer, 1, Prefix) IN
          bytes \in Seq(Bytes) /\ Len(bytes) = Prefix /\ Piece(bytes, 0, n, L)
        BY <1>3, <1>5, <3>1, PieceCut DEF Flow
    <3>3. SubSeq(host.buffer, 1, Prefix) # << >>
        BY <3>1, <3>2, EmptySeq
    <3> QED
        BY <2>2, <3>2, <3>3, LengthIsRead
  <2> QED
      BY <1>1, <2>1, <2>2 DEF Receiving
<1>7. PICK length \in lengths :
         LET buffer == host.buffer \o Read(up, Missing(length)) IN
         /\ up' = After(up, Missing(length))
         /\ \/ /\ Len(buffer) < Prefix + length
               /\ host' = [host EXCEPT !.buffer = buffer, !.waited = 0]
               /\ UNCHANGED taken
            \/ /\ Len(buffer) = Prefix + length /\ host.step = "prefix"
               /\ \E declared \in Lengths(buffer) :
                     IF declared > MaxFrame - Prefix THEN Teardown("length") ELSE
                     host' = [host EXCEPT !.step = "body", !.buffer = buffer, !.waited = 0]
               /\ UNCHANGED taken
            \/ /\ Len(buffer) = Prefix + length /\ host.step = "body"
               /\ IF DecodesIn(buffer, answered)
                  THEN /\ host' = [host EXCEPT !.step = "ready", !.buffer = << >>, !.waited = 0]
                       /\ taken' = Append(taken, [question |-> Len(asked), frame |-> buffer[1].frame])
                  ELSE Teardown("decode") /\ UNCHANGED taken
    BY DEF Receive
<1>8. length = IF host.step = "prefix" THEN 0 ELSE L
    BY <1>6, <1>7
<1> HIDE DEF lengths
<1> DEFINE room == Missing(length)
           buffer == host.buffer \o Read(up, room)
<1>9. room \in Nat \ {0} /\ length \in Nat /\ Len(host.buffer) + room = Prefix + length
  <2>1. length \in Nat /\ Len(host.buffer) < Prefix + length /\ Prefix \in Nat
    <3>1. CASE host.step = "prefix"
        BY <1>3, <1>5, <1>8, <3>1, ChannelAssumption
    <3>2. CASE host.step = "body"
        BY <1>3, <1>4, <1>5, <1>8, <3>2, ChannelAssumption
    <3> QED
        BY <1>1, <3>1, <3>2 DEF Receiving
  <2>2. \A a, b \in Nat : b < a => a - b \in Nat \ {0} /\ b + (a - b) = a
      OBVIOUS
  <2>3. Prefix + length \in Nat
      BY <2>1
  <2> QED
      BY <1>3, <2>1, <2>2, <2>3 DEF Missing
<1> HIDE DEF room
<1>10. /\ buffer \in Seq(Bytes) /\ After(up, room) \in Streams
       /\ Flow(buffer, After(up, room), n, L)
       /\ Total(buffer, After(up, room)) = Total(host.buffer, up)
       /\ Len(Read(up, room)) \in 1 .. room
       /\ Len(buffer) = Len(host.buffer) + Len(Read(up, room))
    BY <1>1, <1>3, <1>5, <1>9, FlowRead
<1>11. up' = After(up, room)
    BY <1>7 DEF room
<1>12. /\ up' \in Streams /\ Flow(buffer, up', n, L) /\ Total(buffer, up') = Prefix + L
       /\ Len(buffer) \in Nat \ {0} /\ Len(host.buffer) < Len(buffer)
       /\ Len(buffer) <= Prefix + length
  <2>1. \A b, p, k, r \in Nat : p = b + k /\ r >= k /\ k >= 1 => p \in Nat \ {0} /\ b < p /\ p <= b + r
      OBVIOUS
  <2>2. Len(Read(up, room)) \in Nat /\ Len(Read(up, room)) >= 1 /\ room >= Len(Read(up, room))
      BY <1>9, <1>10
  <2>3. Len(buffer) \in Nat
      BY <1>10, LenProperties
  <2> HIDE DEF buffer
  <2>4. /\ Len(buffer) \in Nat \ {0} /\ Len(host.buffer) < Len(buffer)
        /\ Len(buffer) <= Len(host.buffer) + room
      BY <1>3, <1>9, <1>10, <2>1, <2>2, <2>3
  <2> QED
      BY <1>5, <1>9, <1>10, <1>11, <2>4
<1>13. Prefix + length <= MaxFrame /\ Len(buffer) <= MaxFrame
  <2>1. Prefix + length <= MaxFrame
    <3>1. length <= L
        BY <1>4, <1>8
    <3> QED
        BY <1>4, <1>9, <3>1, ChannelAssumption
  <2> HIDE DEF buffer
  <2>2. \A p, a \in Nat : p <= a /\ a <= MaxFrame => p <= MaxFrame
      BY ChannelAssumption
  <2>3. Prefix + length \in Nat
      BY <1>9, ChannelAssumption
  <2> QED
      BY <1>12, <2>1, <2>2, <2>3
<1> HIDE DEF buffer
<1>zero. 0 \in 0 .. ReadTimeout
    BY ChannelAssumption
<1>14. InStep(buffer) /\ buffer[1].frame = n /\ buffer[1].length = L /\ Lengths(buffer) = {L}
    BY <1>10, <1>12, EmptySeq, LengthIsRead DEF Flow
<1>15. GuestReads'
    BY <1>1 DEF ChannelInv, GuestReads
\* More of the prefix or of the body.
<1>16. ASSUME NEW step \in {"prefix", "body"}, UNCHANGED taken,
              host' = [host EXCEPT !.step = step, !.buffer = buffer, !.waited = 0],
              step = "prefix" => Len(buffer) < Prefix,
              step = "body" => Prefix <= Len(buffer) /\ Len(buffer) < Prefix + L
       PROVE  ChannelInv'
  <2>1. host' \in HostSessions /\ host'.step = step /\ host'.buffer = buffer
      BY <1>10, <1>16, <1>zero DEF ChannelInv, ChannelTypes, HostSessions
  <2>2. ChannelTypes'
      BY <1>1, <1>12, <1>13, <1>16, <2>1 DEF ChannelInv, ChannelTypes
  <2>3. HasAnswer'
      BY <1>1, <1>3, <1>5, <1>12, <1>16, <2>1 DEF HasAnswer, Empty, L
  <2>4. HostReads'
      BY <1>1, <1>2, <1>16, <2>1, <2>3 DEF HostReads, Receiving
  <2>5. AnswersFit'
      BY <1>1, <1>16 DEF ChannelInv, AnswersFit
  <2> QED
      BY <1>15, <2>2, <2>4, <2>5 DEF ChannelInv
<1>17. CASE /\ Len(buffer) < Prefix + length
            /\ host' = [host EXCEPT !.buffer = buffer, !.waited = 0]
            /\ UNCHANGED taken
  <2>1. host' = [host EXCEPT !.step = host.step, !.buffer = buffer, !.waited = 0]
      BY <1>17 DEF ChannelInv, ChannelTypes, HostSessions
  <2>2. /\ host.step = "prefix" => Len(buffer) < Prefix
        /\ host.step = "body" => Prefix <= Len(buffer) /\ Len(buffer) < Prefix + L
    <3>1. Len(buffer) \in Nat /\ Len(host.buffer) \in Nat /\ Prefix \in Nat
        BY <1>3, <1>12, ChannelAssumption
    <3>2. Len(buffer) < Prefix + length /\ Len(host.buffer) < Len(buffer)
        BY <1>12, <1>17
    <3>3. /\ host.step = "prefix" => length = 0
          /\ host.step = "body" => length = L /\ Prefix <= Len(host.buffer)
        BY <1>5, <1>8
    <3> HIDE DEF buffer, L
    <3> HIDE <1>17
    <3> QED
        BY <3>1, <3>2, <3>3
  <2>3. host.step \in {"prefix", "body"} /\ UNCHANGED taken
      BY <1>1, <1>17 DEF Receiving
  <2> QED
      BY <1>16, <2>1, <2>2, <2>3
<1>18. CASE /\ Len(buffer) = Prefix + length /\ host.step = "prefix"
            /\ \E declared \in Lengths(buffer) :
                  IF declared > MaxFrame - Prefix THEN Teardown("length") ELSE
                  host' = [host EXCEPT !.step = "body", !.buffer = buffer, !.waited = 0]
            /\ UNCHANGED taken
  <2>1. ~(L > MaxFrame - Prefix)
      BY <1>4, ChannelAssumption
  <2>2. host' = [host EXCEPT !.step = "body", !.buffer = buffer, !.waited = 0]
      BY <1>14, <1>18, <2>1
  <2>3. Prefix <= Len(buffer) /\ Len(buffer) < Prefix + L
      BY <1>4, <1>8, <1>12, <1>18, ChannelAssumption
  <2> QED
      BY <1>16, <1>18, <2>2, <2>3
<1>19. CASE /\ Len(buffer) = Prefix + length /\ host.step = "body"
            /\ IF DecodesIn(buffer, answered)
               THEN /\ host' = [host EXCEPT !.step = "ready", !.buffer = << >>, !.waited = 0]
                    /\ taken' = Append(taken, [question |-> Len(asked), frame |-> buffer[1].frame])
               ELSE Teardown("decode") /\ UNCHANGED taken
  <2>1. DecodesIn(buffer, answered)
      BY <1>4, <1>8, <1>14, <1>19 DEF DecodesIn
  <2>2. << >> \in Seq(Bytes) /\ Len(<< >>) = 0
      BY EmptySeq
  <2>3. host' \in HostSessions /\ host'.step = "ready" /\ host'.buffer = << >>
    <3>1. host' = [host EXCEPT !.step = "ready", !.buffer = << >>, !.waited = 0]
        BY <1>19, <2>1
    <3> QED
        BY <2>2, <3>1, <1>zero DEF ChannelInv, ChannelTypes, HostSessions
  <2> DEFINE entry == [question |-> n, frame |-> n]
  <2>4. taken' = Append(taken, entry)
      BY <1>14, <1>19, <2>1
  <2>5. entry \in [question : Nat, frame : Nat] /\ entry.question = n /\ entry.frame = n
      BY <1>3
  <2> HIDE DEF entry
  <2>6. /\ taken' \in Seq([question : Nat, frame : Nat]) /\ Len(taken') = n
        /\ \A i \in 1 .. Len(taken) : taken'[i] = taken[i]
        /\ taken'[n] = entry
      BY <1>2, <1>3, <2>4, <2>5, AppendProperties
  <2>7. Empty(up')
    <3>1. Total(buffer, up') <= Len(buffer)
        BY <1>8, <1>12, <1>19
    <3> QED
        BY <1>10, <1>12, <3>1, NothingOnTheWay
  <2>8. ChannelTypes'
    <3>1. 0 <= MaxFrame /\ n <= n
        BY <1>3, ChannelAssumption
    <3> QED
        BY <1>1, <1>3, <1>12, <2>2, <2>3, <2>6, <3>1 DEF ChannelInv, ChannelTypes
  <2>9. HostReads'
      BY <1>1, <1>3, <1>5, <2>3, <2>6, <2>7 DEF HostReads, Receiving, Empty
  <2>10. AnswersFit'
    <3>1. \A i \in 1 .. Len(taken') : i \in 1 .. Len(taken) \/ i = n
        BY <1>2, <1>3, <2>6
    <3>2. \A i \in 1 .. Len(taken') : taken'[i].question = i /\ taken'[i].frame = i
        BY <2>5, <2>6, <3>1 DEF ChannelInv, AnswersFit
    <3> QED
        BY <1>1, <3>2 DEF ChannelInv, AnswersFit
  <2> QED
      BY <1>15, <2>8, <2>9, <2>10 DEF ChannelInv
<1> QED
    BY <1>7, <1>17, <1>18, <1>19 DEF buffer, room

LEMMA HostSteps ==
    ASSUME ChannelInv, HostNext
    PROVE  ChannelInv'
<1>1. CASE \E m \in Questions : Send(m)
    BY <1>1, HostSends
<1>2. CASE Receive
    BY <1>2, HostReceives
<1>3. CASE Tick
  <2>1. host' \in HostSessions /\ host'.step = host.step /\ host'.buffer = host.buffer
    <3>1. host.waited + 1 \in 0 .. ReadTimeout
      <4>1. host.waited \in 0 .. ReadTimeout /\ host.waited < ReadTimeout
          BY <1>3 DEF Tick, ChannelInv, ChannelTypes, HostSessions
      <4>2. \A k \in Nat : \A w \in 0 .. k : w < k => w + 1 \in 0 .. k
          OBVIOUS
      <4>3. ReadTimeout \in Nat
          BY ChannelAssumption
      <4> HIDE <1>3
      <4> QED
          BY <4>1, <4>2, <4>3
    <3>2. host' = [host EXCEPT !.waited = host.waited + 1] /\ host \in HostSessions
        BY <1>3 DEF Tick, ChannelInv, ChannelTypes
    <3> QED
        BY <3>1, <3>2 DEF HostSessions
  <2>2. UNCHANGED <<asked, answered, taken, down, up, guest>>
      BY <1>3 DEF Tick
  <2>3. ChannelTypes' /\ GuestReads' /\ AnswersFit'
      BY <2>1, <2>2 DEF ChannelInv, ChannelTypes, GuestReads, AnswersFit
  <2>4. HostReads'
      BY <2>1, <2>2 DEF ChannelInv, HostReads, NoAnswerYet, HasAnswer, Receiving, Empty
  <2> QED
      BY <2>3, <2>4 DEF ChannelInv
<1>4. ASSUME UNCHANGED <<asked, answered, taken, down, up, guest>>,
             NEW why \in {"timeout", "eof", "end"}, Teardown(why)
      PROVE  ChannelInv'
  <2>1. GuestReads' /\ down' \in Streams
      BY <1>4 DEF ChannelInv, ChannelTypes, GuestReads
  <2> QED
      BY <1>4, <2>1, SessionEnds
<1>5. CASE Timeout
    BY <1>4, <1>5 DEF Timeout
<1>6. CASE HostEof
    BY <1>4, <1>6 DEF HostEof
<1>7. CASE Close
    BY <1>4, <1>7 DEF Close
<1> QED
    BY <1>1, <1>2, <1>3, <1>5, <1>6, <1>7 DEF HostNext


-----------------------------------------------------------------------------
(***************************************************************************)
(* The steps of the guest and of the stream.                               *)
(***************************************************************************)

\* While a frame is on its way to the guest or is being handled, the host has
\* nothing to read: a step of the guest alone does not concern it.
LEMMA GuestMoves ==
    ASSUME ChannelInv, UNCHANGED <<asked, answered, taken, up, host>>,
           ~Empty(down) \/ guest.step # "prefix" \/ host.step = "closed",
           guest' \in GuestSessions, Len(guest'.buffer) <= MaxFrame, down' \in Streams, GuestReads'
    PROVE  ChannelInv'
<1>1. ChannelTypes' /\ AnswersFit'
    BY DEF ChannelInv, ChannelTypes, AnswersFit
<1>2. HostReads'
  <2>1. host.step # "ready"
      BY DEF ChannelInv, HostReads
  <2>2. Receiving => NoAnswerYet
      BY DEF ChannelInv, HostReads, HasAnswer, Receiving
  <2>3. NoAnswerYet => NoAnswerYet'
      BY DEF NoAnswerYet, Empty
  <2> QED
      BY <2>1, <2>2, <2>3 DEF ChannelInv, HostReads, Receiving
<1> QED
    BY <1>1, <1>2 DEF ChannelInv

\* The agent ends.
LEMMA AgentEnds ==
    ASSUME ChannelInv, UNCHANGED <<asked, answered, taken, up, host>>, down' \in Streams,
           ~Empty(down) \/ guest.step # "prefix" \/ host.step = "closed",
           NEW why \in {"truncated length prefix", "error", "clean", "body"}, Exit(why)
    PROVE  ChannelInv'
<1>1. guest' \in GuestSessions /\ guest'.step = "exited" /\ guest'.buffer = guest.buffer
    BY DEF Exit, ChannelInv, ChannelTypes, GuestSessions
<1>2. GuestReads'
    BY <1>1 DEF GuestReads
<1> QED
    BY <1>1, <1>2, GuestMoves DEF ChannelInv, ChannelTypes

\* The frame that the guest is reading.
LEMMA FrameBeforeGuest ==
    ASSUME ChannelInv, guest.step \in {"prefix", "body"}, ~Empty(down)
    PROVE  \E m \in Questions :
              /\ Encodes(m) /\ Flow(guest.buffer, down, Len(answered) + 1, Body(m))
              /\ Len(guest.buffer) < Prefix + Body(m)
              /\ Total(guest.buffer, down) = Prefix + Body(m) =>
                    Len(asked) = Len(answered) + 1 /\ asked[Len(answered) + 1] = m
<1>1. down \in Streams /\ guest.buffer \in Seq(Bytes)
    BY DEF ChannelInv, ChannelTypes, GuestSessions
<1>2. Len(guest.buffer) \in Nat
    BY <1>1, LenProperties
<1>3. Total(guest.buffer, down) # 0
  <2>1. Total(guest.buffer, down) = 0 => Total(guest.buffer, down) <= Len(guest.buffer)
      BY <1>2
  <2> QED
      BY <1>1, <2>1, NothingOnTheWay
<1> QED
    BY <1>3 DEF ChannelInv, GuestReads

LEMMA GuestReadsPrefix ==
    ASSUME ChannelInv, ReadPrefix
    PROVE  ChannelInv'
<1> DEFINE n == Len(answered) + 1
           bytes == Read(down, Prefix)
<1>1. /\ guest.step = "prefix" /\ down.here # << >> /\ ~Empty(down) /\ guest.buffer = << >>
      /\ down' = After(down, Prefix) /\ UNCHANGED <<asked, answered, taken, up, host>>
      /\ \/ Len(bytes) < Prefix /\ Exit("truncated length prefix")
         \/ /\ Len(bytes) = Prefix
            /\ \E length \in Lengths(bytes) :
                  IF length > MaxFrame THEN Exit("length") ELSE
                  guest' = [guest EXCEPT !.step = "body", !.buffer = bytes]
    BY DEF ReadPrefix, ChannelInv, GuestReads, Empty
<1>2. down \in Streams /\ guest \in GuestSessions /\ << >> \in Seq(Bytes) /\ Len(<< >>) = 0
    BY EmptySeq DEF ChannelInv, ChannelTypes
<1>3. PICK m \in Questions :
              /\ Encodes(m) /\ Flow(<< >>, down, n, Body(m))
              /\ Total(<< >>, down) = Prefix + Body(m) => Len(asked) = n /\ asked[n] = m
    BY <1>1, FrameBeforeGuest
<1>4. Body(m) \in Nat \ {0} /\ Prefix + Body(m) <= MaxFrame /\ Prefix \in Nat \ {0} /\ MaxFrame \in Nat
    BY <1>3, QuestionsDecode, ChannelAssumption
<1>5. LET all == << >> \o bytes IN
      /\ all \in Seq(Bytes) /\ After(down, Prefix) \in Streams
      /\ Flow(all, After(down, Prefix), n, Body(m))
      /\ Total(all, After(down, Prefix)) = Total(<< >>, down)
      /\ bytes \in Seq(Bytes)
    BY <1>1, <1>2, <1>3, <1>4, FlowRead
<1> HIDE DEF bytes
<1>6. /\ bytes \in Seq(Bytes) /\ down' \in Streams
      /\ Flow(bytes, down', n, Body(m))
      /\ Total(bytes, down') = Total(<< >>, down)
    BY <1>1, <1>5, ConcatEmptySeq
<1>7. CASE Exit("truncated length prefix")
    BY <1>1, <1>6, <1>7, AgentEnds
<1>8. CASE /\ Len(bytes) = Prefix
           /\ \E length \in Lengths(bytes) :
                 IF length > MaxFrame THEN Exit("length") ELSE
                 guest' = [guest EXCEPT !.step = "body", !.buffer = bytes]
  <2>1. Lengths(bytes) = {Body(m)}
      BY <1>4, <1>6, <1>8, EmptySeq, LengthIsRead DEF Flow
  <2>2. ~(Body(m) > MaxFrame)
      BY <1>4
  <2>3. guest' = [guest EXCEPT !.step = "body", !.buffer = bytes]
      BY <1>8, <2>1, <2>2
  <2>4. guest' \in GuestSessions /\ guest'.step = "body" /\ guest'.buffer = bytes
      BY <1>2, <1>6, <2>3 DEF GuestSessions
  <2>5. Prefix <= Len(bytes) /\ Len(bytes) < Prefix + Body(m) /\ Len(bytes) <= MaxFrame
      BY <1>4, <1>8
  <2>6. GuestReads'
      BY <1>1, <1>3, <1>6, <2>4, <2>5 DEF GuestReads
  <2> QED
      BY <1>1, <1>6, <2>4, <2>5, <2>6, GuestMoves
<1> QED
    BY <1>1, <1>7, <1>8

LEMMA GuestReadsBody ==
    ASSUME ChannelInv, ReadBody
    PROVE  ChannelInv'
<1> DEFINE n == Len(answered) + 1
<1>1. /\ guest.step = "body" /\ down.here # << >> /\ ~Empty(down)
      /\ UNCHANGED <<asked, answered, taken, up, host>>
      /\ Prefix <= Len(guest.buffer)
    BY DEF ReadBody, ChannelInv, GuestReads, Empty
<1>2. /\ down \in Streams /\ guest \in GuestSessions /\ guest.buffer \in Seq(Bytes)
      /\ Len(guest.buffer) \in Nat
    BY LenProperties DEF ChannelInv, ChannelTypes, GuestSessions
<1>3. PICK m \in Questions :
              /\ Encodes(m) /\ Flow(guest.buffer, down, n, Body(m))
              /\ Len(guest.buffer) < Prefix + Body(m)
              /\ Total(guest.buffer, down) = Prefix + Body(m) => Len(asked) = n /\ asked[n] = m
    BY <1>1, FrameBeforeGuest
<1> DEFINE L == Body(m)
<1>4. /\ L \in Nat \ {0} /\ Prefix + L <= MaxFrame /\ Prefix \in Nat \ {0} /\ MaxFrame \in Nat
      /\ Decodes(m) /\ Prefix + L \in Nat
    BY <1>3, QuestionsDecode, ChannelAssumption
<1> HIDE DEF L
<1>5. Lengths(SubSeq(guest.buffer, 1, Prefix)) = {L}
  <2>1. Prefix \in 0 .. Len(guest.buffer) /\ 0 \in Nat
      BY <1>1, <1>2, <1>4
  <2>2. LET bytes == SubSeq(guest.buffer, 1, Prefix) IN
        bytes \in Seq(Bytes) /\ Len(bytes) = Prefix /\ Piece(bytes, 0, n, L)
      BY <1>2, <1>3, <2>1, PieceCut DEF Flow, L
  <2>3. SubSeq(guest.buffer, 1, Prefix) # << >>
      BY <1>4, <2>2, EmptySeq
  <2> QED
      BY <2>2, <2>3, LengthIsRead
<1> DEFINE room == Prefix + L - Len(guest.buffer)
           buffer == guest.buffer \o Read(down, room)
<1>6. /\ down' = After(down, room)
      /\ guest' = IF Len(buffer) < Prefix + L THEN [guest EXCEPT !.buffer = buffer] ELSE
                  IF DecodesIn(buffer, asked)
                  THEN [guest EXCEPT !.step = "handle", !.buffer = buffer]
                  ELSE [guest EXCEPT !.step = "exited", !.why = "decode"]
    BY <1>5 DEF ReadBody
<1>7. room \in Nat \ {0} /\ Len(guest.buffer) + room = Prefix + L
  <2>1. \A a, b \in Nat : b < a => a - b \in Nat \ {0} /\ b + (a - b) = a
      OBVIOUS
  <2> QED
      BY <1>2, <1>3, <1>4, <2>1 DEF L
<1> HIDE DEF room
<1>8. /\ buffer \in Seq(Bytes) /\ After(down, room) \in Streams
      /\ Flow(buffer, After(down, room), n, L)
      /\ Total(buffer, After(down, room)) = Total(guest.buffer, down)
      /\ Len(Read(down, room)) \in 1 .. room
      /\ Len(buffer) = Len(guest.buffer) + Len(Read(down, room))
    BY <1>1, <1>2, <1>3, <1>7, FlowRead DEF L
<1>9. Len(buffer) \in Nat /\ Prefix <= Len(buffer) /\ Len(buffer) <= Prefix + L
  <2>1. \A a, r, k, p \in Nat : p <= a /\ k \in 1 .. r => p <= a + k /\ a + k <= a + r /\ a + k \in Nat
      OBVIOUS
  <2>2. Len(Read(down, room)) \in Nat /\ room \in Nat
      BY <1>7, <1>8
  <2> HIDE DEF buffer
  <2> QED
      BY <1>1, <1>2, <1>4, <1>7, <1>8, <2>1, <2>2
<1> HIDE DEF buffer
<1>10. Len(buffer) <= MaxFrame
  <2>1. \A a, b \in Nat : a <= b /\ b <= MaxFrame => a <= MaxFrame
      BY <1>4
  <2> QED
      BY <1>4, <1>9, <2>1
<1>11. InStep(buffer) /\ buffer[1].frame = n /\ buffer[1].length = L
    BY <1>4, <1>8, <1>9, EmptySeq, LengthIsRead DEF Flow
<1>12. down' \in Streams /\ Flow(buffer, down', n, L) /\ Total(buffer, down') = Total(guest.buffer, down)
    BY <1>6, <1>8
<1>13. CASE Len(buffer) < Prefix + L
  <2>1. guest' \in GuestSessions /\ guest'.step = "body" /\ guest'.buffer = buffer
      BY <1>1, <1>2, <1>6, <1>8, <1>13 DEF GuestSessions
  <2>2. GuestReads'
      BY <1>1, <1>3, <1>9, <1>12, <1>13, <2>1 DEF GuestReads, L
  <2> QED
      BY <1>1, <1>10, <1>12, <2>1, <2>2, GuestMoves
<1>14. CASE ~(Len(buffer) < Prefix + L)
  <2>1. Len(buffer) = Prefix + L
      BY <1>4, <1>9, <1>14
  <2>2. Total(guest.buffer, down) = Prefix + L /\ Empty(down')
    <3>1. /\ Total(buffer, down') <= Prefix + L /\ Total(buffer, down') \in Nat
          /\ Len(buffer) <= Total(buffer, down')
      <4>1. down'.sent \in Seq(Bytes) /\ down'.here \in Seq(Bytes)
          BY <1>12 DEF Streams
      <4>2. Len(down'.sent) \in Nat /\ Len(down'.here) \in Nat
          BY <4>1, LenProperties
      <4>3. \A a, b, c \in Nat : a + b + c \in Nat /\ a <= a + b + c
          OBVIOUS
      <4> QED
          BY <1>9, <1>12, <4>2, <4>3 DEF Flow, Total
    <3>2. Total(buffer, down') = Prefix + L
        BY <1>4, <2>1, <3>1
    <3>3. Total(buffer, down') <= Len(buffer)
        BY <1>4, <2>1, <3>2
    <3> QED
        BY <1>8, <1>12, <3>2, <3>3, NothingOnTheWay
  <2>3. Len(asked) = n /\ asked[n] = m
      BY <1>3, <2>2 DEF L
  <2>4. DecodesIn(buffer, asked)
      BY <1>4, <1>11, <2>1, <2>3 DEF DecodesIn
  <2>5. guest' \in GuestSessions /\ guest'.step = "handle" /\ guest'.buffer = buffer
      BY <1>2, <1>6, <1>8, <1>14, <2>4 DEF GuestSessions
  <2>6. GuestReads'
      BY <1>1, <1>11, <2>2, <2>3, <2>5 DEF GuestReads, Empty
  <2> QED
      BY <1>1, <1>10, <1>12, <2>5, <2>6, GuestMoves
<1> QED
    BY <1>13, <1>14


\* The answer goes to a host that has read all before it, if there is one.
LEMMA GuestHandles ==
    ASSUME ChannelInv, Handle
    PROVE  ChannelInv'
<1> DEFINE n == Len(answered) + 1
<1>1. /\ guest.step = "handle" /\ UNCHANGED <<asked, taken, down, host>>
      /\ Len(asked) = n /\ guest.buffer[1].frame = n /\ Empty(down)
    BY DEF Handle, ChannelInv, GuestReads
<1>2. /\ answered \in Seq(AllReplies) /\ Len(answered) \in Nat /\ n \in Nat
      /\ down \in Streams /\ up \in Streams /\ guest \in GuestSessions
    BY LenProperties DEF ChannelInv, ChannelTypes
<1>3. asked[n] \in Questions /\ Encodes(asked[n])
  <2>1. n \in 1 .. Len(asked)
      BY <1>1, <1>2
  <2> QED
      BY <2>1 DEF ChannelInv, AnswersFit
<1>4. CASE Exit("error") /\ UNCHANGED <<answered, up>>
    BY <1>1, <1>2, <1>4, AgentEnds
<1>5. ASSUME NEW reply \in Replies(asked[n]),
             IF Encodes(reply)
             THEN /\ answered' = Append(answered, reply)
                  /\ up' = Written(up, Frame(n, reply))
                  /\ guest' = [guest EXCEPT !.step = "prefix", !.buffer = << >>]
             ELSE Exit("encode") /\ UNCHANGED <<answered, up>>
      PROVE  ChannelInv'
  <2>1. Body(reply) \in Nat \ {0} /\ Encodes(reply)
      BY <1>3, RepliesDecode
  <2>2. /\ answered' = Append(answered, reply) /\ up' = Written(up, Frame(n, reply))
        /\ guest' = [guest EXCEPT !.step = "prefix", !.buffer = << >>]
      BY <1>5, <2>1
  <2>3. reply \in AllReplies
      BY <1>3 DEF AllReplies
  <2>4. /\ answered' \in Seq(AllReplies) /\ Len(answered') = n /\ answered'[n] = reply
        /\ \A i \in 1 .. Len(answered) : answered'[i] = answered[i]
      BY <1>2, <2>2, <2>3, AppendProperties
  <2>5. << >> \in Seq(Bytes) /\ Len(<< >>) = 0
      BY EmptySeq
  <2>6. guest' \in GuestSessions /\ guest'.step = "prefix" /\ guest'.buffer = << >>
      BY <1>2, <2>2, <2>5 DEF GuestSessions
  <2>7. up' \in Streams
    <3>1. Frame(n, reply) \in Seq(Bytes) /\ up.sent \in Seq(Bytes)
        BY <1>2, <2>1, FrameIsPiece DEF Streams
    <3>2. up.sent \o Frame(n, reply) \in Seq(Bytes)
        BY <3>1, ConcatProperties
    <3> QED
        BY <1>2, <2>2, <3>2 DEF Streams, Written
  <2>8. ChannelTypes'
    <3>1. Len(taken) \in Nat /\ 0 <= MaxFrame /\ n <= n
        BY <1>2, LenProperties, ChannelAssumption DEF ChannelInv, ChannelTypes
    <3>2. Len(taken) <= n
        BY <1>2, <3>1 DEF ChannelInv, ChannelTypes
    <3> QED
        BY <1>1, <2>4, <2>5, <2>6, <2>7, <3>1, <3>2 DEF ChannelInv, ChannelTypes
  <2>9. GuestReads'
    <3>1. Total(guest'.buffer, down') = 0
        BY <1>1, <2>5, <2>6 DEF Total, Empty
    <3> QED
        BY <2>6, <3>1 DEF GuestReads
  <2>10. HostReads'
    <3>1. host.step # "ready"
        BY <1>1 DEF ChannelInv, HostReads
    <3>2. ASSUME Receiving PROVE HasAnswer'
      <4>1. Empty(up) /\ host.step = "prefix" /\ host.buffer = << >>
          BY <1>1, <3>2 DEF ChannelInv, HostReads, HasAnswer, NoAnswerYet
      <4>2. Flow(<< >>, up', n, Body(reply)) /\ Total(<< >>, up') = Prefix + Body(reply)
          BY <1>2, <2>1, <2>2, <4>1, FrameWritten
      <4>3. Len(<< >>) < Prefix
          BY <2>5, ChannelAssumption
      <4> QED
          BY <1>1, <2>4, <2>6, <4>1, <4>2, <4>3 DEF HasAnswer, Empty
    <3> QED
        BY <1>1, <3>1, <3>2 DEF ChannelInv, HostReads, Receiving
  <2>11. AnswersFit'
    <3>1. \A i \in 1 .. Len(answered') : i \in 1 .. Len(answered) \/ i = n
        BY <1>2, <2>4
    <3> QED
        BY <1>1, <2>4, <3>1 DEF ChannelInv, AnswersFit
  <2> QED
      BY <2>8, <2>9, <2>10, <2>11 DEF ChannelInv
<1> QED
    BY <1>1, <1>4, <1>5 DEF Handle

LEMMA GuestSteps ==
    ASSUME ChannelInv, GuestNext
    PROVE  ChannelInv'
<1>1. CASE ReadPrefix
    BY <1>1, GuestReadsPrefix
<1>2. CASE ReadBody
    BY <1>2, GuestReadsBody
<1>3. CASE Handle
    BY <1>3, GuestHandles
<1>4. CASE GuestEof
  <2>1. /\ host.step = "closed" /\ UNCHANGED <<asked, answered, taken, up, host>>
        /\ down' \in Streams
        /\ \E why \in {"clean", "body"} : Exit(why)
      BY <1>4 DEF GuestEof, ChannelInv, ChannelTypes
  <2> QED
      BY <2>1, AgentEnds
<1> QED
    BY <1>1, <1>2, <1>3, <1>4 DEF GuestNext

LEMMA BytesArrive ==
    ASSUME ChannelInv, Arrive
    PROVE  ChannelInv'
<1>1. UNCHANGED <<asked, answered, taken, host, guest>>
    BY DEF Arrive
<1>2. down \in Streams /\ up \in Streams
      /\ host.buffer \in Seq(Bytes) /\ guest.buffer \in Seq(Bytes)
    BY DEF ChannelInv, ChannelTypes, HostSessions, GuestSessions
<1>3. ASSUME NEW stream \in Streams, stream.sent # << >> PROVE Arrived(stream) \in Streams
  <2>1. stream.sent \in Seq(Bytes) /\ stream.here \in Seq(Bytes)
      BY DEF Streams
  <2>2. Tail(stream.sent) \in Seq(Bytes) /\ Head(stream.sent) \in Bytes
      BY <1>3, <2>1, HeadTailProperties
  <2>3. Append(stream.here, Head(stream.sent)) \in Seq(Bytes)
      BY <2>1, <2>2, AppendProperties
  <2> QED
      BY <2>2, <2>3 DEF Arrived, Streams
<1>4. CASE down.sent # << >> /\ down' = Arrived(down) /\ UNCHANGED up
  <2>1. down' \in Streams /\ ~Empty(down)
      BY <1>2, <1>3, <1>4 DEF Empty
  <2>2. GuestReads'
    <3>1. guest.step # "handle"
        BY <2>1 DEF ChannelInv, GuestReads
    <3>2. ASSUME guest.step \in {"prefix", "body"}
          PROVE  \E m \in Questions :
                    /\ Encodes(m) /\ Flow(guest.buffer, down', Len(answered) + 1, Body(m))
                    /\ Len(guest.buffer) < Prefix + Body(m)
                    /\ Total(guest.buffer, down') = Prefix + Body(m) =>
                          Len(asked) = Len(answered) + 1 /\ asked[Len(answered) + 1] = m
        BY <1>2, <1>4, <2>1, <3>2, FrameBeforeGuest, FlowArrives
    <3> QED
        BY <1>1, <3>1, <3>2 DEF ChannelInv, GuestReads
  <2> QED
      BY <1>1, <1>4, <2>1, <2>2, GuestMoves DEF ChannelInv, ChannelTypes
<1>5. CASE up.sent # << >> /\ up' = Arrived(up) /\ UNCHANGED down
  <2>1. up' \in Streams /\ ~Empty(up)
      BY <1>2, <1>3, <1>5 DEF Empty
  <2>2. ChannelTypes' /\ GuestReads' /\ AnswersFit'
      BY <1>1, <1>5, <2>1 DEF ChannelInv, ChannelTypes, GuestReads, AnswersFit
  <2>3. HostReads'
    <3>1. host.step # "ready"
        BY <2>1 DEF ChannelInv, HostReads
    <3>2. ASSUME Receiving PROVE HasAnswer'
      <4>1. HasAnswer
          BY <2>1, <3>2 DEF ChannelInv, HostReads, NoAnswerYet
      <4>2. LET length == Body(answered[Len(asked)]) IN
            Flow(host.buffer, up', Len(asked), length) /\ Total(host.buffer, up') = Prefix + length
          BY <1>2, <1>5, <4>1, FlowArrives DEF HasAnswer
      <4> QED
          BY <1>1, <1>5, <4>1, <4>2 DEF HasAnswer, Empty
    <3> QED
        BY <1>1, <3>1, <3>2 DEF ChannelInv, HostReads, Receiving
  <2> QED
      BY <2>2, <2>3 DEF ChannelInv
<1> QED
    BY <1>4, <1>5 DEF Arrive


-----------------------------------------------------------------------------
(***************************************************************************)
(* Both streams.                                                           *)
(***************************************************************************)

LEMMA StreamsStep ==
    ASSUME ApiInv /\ ChannelInv, [StreamsNext]_<<channelVars, apiVars>>
    PROVE  ApiInv' /\ ChannelInv'
<1>1. ASSUME UNCHANGED channelVars PROVE ChannelInv'
  <2>1. UNCHANGED <<asked, answered, taken, down, up, host, guest>>
      BY <1>1 DEF channelVars
  <2> QED
      BY <2>1 DEF ChannelInv, ChannelTypes, GuestReads, HostReads, NoAnswerYet, HasAnswer,
                  AnswersFit, Receiving, Empty
<1>2. ASSUME UNCHANGED apiVars PROVE ApiInv'
    BY <1>2 DEF apiVars, ApiInv, CallAgrees, Reading, AcceptedInFull
<1>3. CASE ApiNext /\ UNCHANGED channelVars
    BY <1>1, <1>3, ApiSteps
<1>4. CASE ChannelNext /\ UNCHANGED apiVars
    BY <1>2, <1>4, HostSteps, GuestSteps, BytesArrive DEF ChannelNext
<1>5. CASE UNCHANGED <<channelVars, apiVars>>
    BY <1>1, <1>2, <1>5
<1> QED
    BY <1>3, <1>4, <1>5 DEF StreamsNext

\* The inductive invariant of the control API (request) and of the guest
\* channel (recv, send and serve_frame).
THEOREM StreamsInvariance == StreamsSpec => [](ApiInv /\ ChannelInv)
<1>1. StreamsInit => ApiInv /\ ChannelInv
    BY ApiStarts, ChannelStarts DEF StreamsInit
<1>2. (ApiInv /\ ChannelInv) /\ [StreamsNext]_<<channelVars, apiVars>> => (ApiInv /\ ChannelInv)'
    BY StreamsStep
<1> QED
    BY <1>1, <1>2, PTL DEF StreamsSpec

\* Type correctness of both streams; in particular, the BoundedReader of
\* request is never asked for more than it holds.
THEOREM StreamsTyped == StreamsSpec => []StreamsTypeOK
<1>1. ApiInv => ApiTypeOK
  <2> SUFFICES ASSUME ApiInv PROVE ApiTypeOK
      OBVIOUS
  <2>1. call.step \in {"connect", "write", "head", "body", "done", "failed"}
        /\ call.read \in 0 .. MaxApiBody /\ call.why # "bound" /\ call.waited \in 0 .. ApiTimeout
      BY DEF ApiInv, Calls
  <2> QED
      BY <2>1 DEF ApiInv, VmmSides, ApiTypeOK
<1>2. ChannelInv => ChannelTypeOK
    BY DEF ChannelInv, ChannelTypes, HostSessions, GuestSessions, ChannelTypeOK
<1>3. ApiInv /\ ChannelInv => StreamsTypeOK
    BY <1>1, <1>2 DEF StreamsTypeOK
<1> QED
    BY <1>3, StreamsInvariance, PTL

\* request accepts a response of the VMM only when it says that the request was
\* done and was read to the last byte that it declared, whatever the VMM
\* answers and however the stream is cut.
THEOREM ResponsesReadInFull == StreamsSpec => []AcceptedInFull
<1>1. ApiInv => AcceptedInFull
    BY DEF ApiInv
<1> QED
    BY <1>1, StreamsInvariance, PTL

\* recv and serve_frame never refuse a frame that the other end encoded: for
\* every set of messages whose bounds are those of the codec.
THEOREM NoFrameIsRefused == StreamsSpec => []FramesDecode
<1>1. ChannelInv => FramesDecode
    BY DEF ChannelInv, ChannelTypes, HostSessions, GuestSessions, FramesDecode
<1> QED
    BY <1>1, StreamsInvariance, PTL

\* The first byte of what a reader has and of what is before it.
LEMMA FirstByte ==
    ASSUME NEW buffer \in Seq(Bytes), NEW stream \in Streams, NEW n, NEW length,
           Flow(buffer, stream, n, length), ~Empty(stream)
    PROVE  LET byte == Head(buffer \o stream.here \o stream.sent) IN
           byte.frame = n /\ byte.at = 1
<1>1. stream.sent \in Seq(Bytes) /\ stream.here \in Seq(Bytes)
    BY DEF Streams
<1>2. Len(buffer) \in Nat /\ Len(stream.here) \in Nat /\ Len(stream.sent) \in Nat
    BY <1>1, LenProperties
<1>3. 0 + Len(buffer) = Len(buffer) /\ 0 \in Nat
    BY <1>2
<1> DEFINE front == buffer \o stream.here
           all == front \o stream.sent
<1>4. front \in Seq(Bytes) /\ Len(front) = Len(buffer) + Len(stream.here) /\ Piece(front, 0, n, length)
    BY <1>1, <1>3, PieceConcat DEF Flow
<1> HIDE DEF front
<1>5. 0 + Len(front) = Len(front)
    BY <1>2, <1>4
<1>6. all \in Seq(Bytes) /\ Len(all) = Len(front) + Len(stream.sent) /\ Piece(all, 0, n, length)
    BY <1>1, <1>3, <1>4, <1>5, PieceConcat DEF Flow
<1> HIDE DEF all
<1>7. all # << >>
  <2>1. stream.sent # << >> \/ stream.here # << >>
      BY DEF Empty
  <2>2. Len(stream.sent) # 0 \/ Len(stream.here) # 0
      BY <1>1, <2>1, EmptySeq
  <2>3. \A a, b, c \in Nat : b # 0 \/ c # 0 => a + b + c # 0
      OBVIOUS
  <2>4. Len(all) # 0
      BY <1>2, <1>4, <1>6, <2>2, <2>3
  <2> QED
      BY <2>4, EmptySeq
<1>8. Head(all) = all[1]
    BY <1>6, <1>7
<1> QED
    BY <1>6, <1>7, <1>8, LengthIsRead DEF all, front

\* However the stream is cut, a reader that begins a frame has the first byte
\* of the next one before it: recv and serve_frame lose no byte and read none
\* twice.
THEOREM StreamStaysInStep == StreamsSpec => []FramesAligned
<1>1. ChannelInv => FramesAligned
  <2> SUFFICES ASSUME ChannelInv PROVE FramesAligned
      OBVIOUS
  <2>1. down \in Streams /\ up \in Streams
        /\ host.buffer \in Seq(Bytes) /\ guest.buffer \in Seq(Bytes)
      BY DEF ChannelInv, ChannelTypes, HostSessions, GuestSessions
  <2>2. ASSUME guest.step = "prefix", ~Empty(down)
        PROVE  LET byte == Head(down.here \o down.sent) IN
               byte.frame = Len(answered) + 1 /\ byte.at = 1
    <3>1. guest.buffer = << >> /\ << >> \in Seq(Bytes)
        BY <2>2, EmptySeq DEF ChannelInv, GuestReads
    <3>2. PICK m \in Questions : Flow(<< >>, down, Len(answered) + 1, Body(m))
        BY <2>2, <3>1, FrameBeforeGuest
    <3>3. << >> \o down.here = down.here
        BY <2>1, ConcatEmptySeq DEF Streams
    <3>4. LET byte == Head(<< >> \o down.here \o down.sent) IN
          byte.frame = Len(answered) + 1 /\ byte.at = 1
        BY <2>1, <2>2, <3>1, <3>2, FirstByte
    <3> QED
        BY <3>3, <3>4
  <2>3. ASSUME Receiving, ~Empty(up)
        PROVE  LET byte == Head(host.buffer \o up.here \o up.sent) IN
               byte.frame = Len(taken) + 1 /\ byte.at = 1
    <3>1. HasAnswer /\ Len(asked) = Len(taken) + 1
        BY <2>3 DEF ChannelInv, HostReads, NoAnswerYet
    <3>2. Flow(host.buffer, up, Len(asked), Body(answered[Len(asked)]))
        BY <3>1 DEF HasAnswer
    <3> QED
        BY <2>1, <2>3, <3>1, <3>2, FirstByte
  <2> QED
      BY <2>2, <2>3 DEF FramesAligned
<1> QED
    BY <1>1, StreamsInvariance, PTL


-----------------------------------------------------------------------------
(***************************************************************************)
(* The session: the pieces add up to whole frames.                         *)
(***************************************************************************)

\* The answers that the host took.
Took == [i \in DOMAIN taken |-> answered[taken[i].frame]]

\* They are the first answers, in their order.
LEMMA TookInOrder ==
    ASSUME ChannelInv
    PROVE  /\ DOMAIN taken = 1 .. Len(taken) /\ Len(taken) \in Nat /\ Len(answered) \in Nat
           /\ Took \in Seq(AllReplies) /\ Len(Took) = Len(taken)
           /\ \A i \in 1 .. Len(taken) : i \in 1 .. Len(answered) /\ Took[i] = answered[i]
<1>1. /\ DOMAIN taken = 1 .. Len(taken) /\ Len(taken) \in Nat /\ Len(answered) \in Nat
      /\ Len(taken) <= Len(answered) /\ answered \in Seq(AllReplies)
    BY LenProperties DEF ChannelInv, ChannelTypes
<1>2. \A i \in 1 .. Len(taken) : i \in 1 .. Len(answered)
    BY <1>1
<1>3. \A i \in 1 .. Len(taken) : Took[i] = answered[i] /\ answered[i] \in AllReplies
    BY <1>1, <1>2, ElementOfSeq DEF Took, ChannelInv, AnswersFit
<1>4. Took \in [1 .. Len(taken) -> AllReplies]
    BY <1>1, <1>3 DEF Took
<1>5. Took \in Seq(AllReplies) /\ Len(Took) = Len(taken)
    BY <1>1, <1>4
<1> QED
    BY <1>1, <1>2, <1>3, <1>5

\* An answer more does not change what was taken.
LEMMA TookUnchanged ==
    ASSUME ChannelInv, taken' = taken,
           \A i \in 1 .. Len(answered) : answered'[i] = answered[i]
    PROVE  Took' = Took
<1>1. \A i \in DOMAIN taken : taken[i].frame = i /\ i \in 1 .. Len(answered)
    BY TookInOrder DEF ChannelInv, AnswersFit
<1>2. Took' = [i \in DOMAIN taken |-> answered'[taken[i].frame]]
    BY DEF Took
<1> QED
    BY <1>1, <1>2 DEF Took

\* A step of neither end that the session can see.
LEMMA SessionStutters ==
    ASSUME ChannelInv, UNCHANGED <<asked, answered, taken>>,
           (host'.step = "closed") = (host.step = "closed"),
           (guest'.step = "exited") = (guest.step = "exited")
    PROVE  UNCHANGED Session!sessionVars
<1>1. Took' = Took
    BY TookUnchanged
<1> QED
    BY <1>1 DEF Session!sessionVars, Took

LEMMA SessionLeft ==
    ASSUME ChannelInv, UNCHANGED <<asked, answered, taken, guest>>, NEW why, Teardown(why)
    PROVE  Session!HostLeaves
<1>1. Took' = Took
    BY TookUnchanged
<1>2. host'.step = "closed"
    BY DEF Teardown, ChannelInv, ChannelTypes, HostSessions
<1> QED
    BY <1>1, <1>2 DEF Session!HostLeaves, Took

LEMMA AgentLeft ==
    ASSUME ChannelInv, UNCHANGED <<asked, answered, taken, host>>, NEW why, Exit(why)
    PROVE  Session!AgentLeaves
<1>1. Took' = Took
    BY TookUnchanged
<1>2. guest'.step = "exited"
    BY DEF Exit, ChannelInv, ChannelTypes, GuestSessions
<1> QED
    BY <1>1, <1>2 DEF Session!AgentLeaves, Took


\* recv returns a frame: the host takes the next answer.
LEMMA ReceiveTakes ==
    ASSUME ChannelInv, AnswersFit', UNCHANGED <<asked, answered, guest>>,
           Receiving, up.here # << >>, NEW entry \in [question : Nat, frame : Nat],
           taken' = Append(taken, entry), host'.step = "ready"
    PROVE  Session!Take
<1> DEFINE k == Len(taken) + 1
<1>1. /\ Len(taken) \in Nat /\ Took \in Seq(AllReplies) /\ Len(Took) = Len(taken)
      /\ \A i \in 1 .. Len(taken) : Took[i] = answered[i]
    BY TookInOrder
<1>2. HasAnswer /\ Len(asked) = k /\ Len(answered) = k
    BY DEF ChannelInv, HostReads, NoAnswerYet, HasAnswer, Empty
<1>3. answered \in Seq(AllReplies) /\ answered[k] \in AllReplies
    BY <1>1, <1>2, ElementOfSeq DEF ChannelInv, ChannelTypes
<1>4. Len(taken') = k /\ DOMAIN taken' = 1 .. k
    BY <1>1, AppendProperties, LenProperties DEF ChannelInv, ChannelTypes
<1>5. \A i \in 1 .. k : Took'[i] = answered[i] /\ answered[i] \in AllReplies
    BY <1>1, <1>2, <1>3, <1>4, ElementOfSeq DEF AnswersFit, Took
<1>6. Took' \in Seq(AllReplies) /\ Len(Took') = k
  <2>1. Took' = [i \in 1 .. k |-> Took'[i]]
      BY <1>4 DEF Took
  <2>2. Took' \in [1 .. k -> AllReplies]
      BY <1>5, <2>1
  <2> QED
      BY <1>1, <2>2
<1> DEFINE longer == Append(Took, answered[k])
<1>7. /\ longer \in Seq(AllReplies) /\ Len(longer) = k /\ longer[k] = answered[k]
      /\ \A i \in 1 .. Len(taken) : longer[i] = Took[i]
    BY <1>1, <1>3, AppendProperties
<1> HIDE DEF longer
<1>8. \A i \in 1 .. k : i \in 1 .. Len(taken) \/ i = k
    BY <1>1
<1>9. Took' = longer
    BY <1>1, <1>5, <1>6, <1>7, <1>8, SeqEqual
<1>10. Len(Took) < Len(answered) /\ k = Len(Took) + 1
    BY <1>1, <1>2
<1>11. host.step # "closed" /\ host'.step # "closed"
    BY DEF Receiving
<1> QED
    BY <1>9, <1>10, <1>11 DEF Session!Take, Took, longer

LEMMA ChannelStepMaps ==
    ASSUME ChannelInv, ChannelInv', ChannelNext
    PROVE  [Session!SessionNext]_(Session!sessionVars)
<1>1. ASSUME NEW m \in Questions, Send(m) PROVE Session!SessionNext
  <2>1. UNCHANGED <<answered, taken, up, guest>> /\ host.step = "ready"
      BY <1>1 DEF Send
  <2>2. ASSUME UNCHANGED asked, NEW why, Teardown(why) PROVE Session!SessionNext
    <3>1. Session!HostLeaves
        BY <2>1, <2>2, SessionLeft
    <3> QED
        BY <3>1 DEF Session!SessionNext
  <2>3. CASE /\ asked' = Append(asked, m)
             /\ host' = [step |-> "prefix", buffer |-> << >>, waited |-> 0, why |-> "none"]
    <3>1. Took' = Took /\ Len(Took) = Len(asked)
        BY <2>1, TookUnchanged, TookInOrder DEF ChannelInv, HostReads
    <3>2. host'.step # "closed" /\ host.step # "closed"
        BY <2>1, <2>3
    <3>3. Session!Ask(m)
        BY <2>1, <2>3, <3>1, <3>2 DEF Session!Ask, Took
    <3> QED
        BY <3>3 DEF Session!SessionNext
  <2> QED
      BY <1>1, <2>2, <2>3 DEF Send
<1>2. CASE Receive
  <2>1. Receiving /\ up.here # << >> /\ UNCHANGED <<asked, answered, down, guest>>
      BY <1>2 DEF Receive
  <2>2. \/ UNCHANGED taken /\ host'.step \in {"prefix", "body"}
        \/ UNCHANGED taken /\ \E why \in {"length", "decode"} : Teardown(why)
        \/ /\ \E frame : taken' = Append(taken, [question |-> Len(asked), frame |-> frame])
           /\ host'.step = "ready"
      BY <1>2 DEF Receive, Receiving, ChannelInv, ChannelTypes, HostSessions
  <2>3. CASE UNCHANGED taken /\ host'.step \in {"prefix", "body"}
      BY <2>1, <2>3, SessionStutters DEF Receiving
  <2>4. CASE UNCHANGED taken /\ \E why \in {"length", "decode"} : Teardown(why)
      BY <2>1, <2>4, SessionLeft DEF Session!SessionNext
  <2>5. CASE /\ \E frame : taken' = Append(taken, [question |-> Len(asked), frame |-> frame])
             /\ host'.step = "ready"
    <3>1. PICK frame : taken' = Append(taken, [question |-> Len(asked), frame |-> frame])
        BY <2>5
    <3> DEFINE entry == [question |-> Len(asked), frame |-> frame]
    <3>2. entry \in [question : Nat, frame : Nat]
      <4>1. Len(taken) \in Nat /\ taken' \in Seq([question : Nat, frame : Nat])
          BY TookInOrder DEF ChannelInv, ChannelTypes
      <4>2. Len(taken') = Len(taken) + 1 /\ taken'[Len(taken) + 1] = entry
          BY <3>1 DEF ChannelInv, ChannelTypes
      <4>3. Len(taken) + 1 \in 1 .. Len(taken')
          BY <4>1, <4>2
      <4> QED
          BY <4>1, <4>2, <4>3, ElementOfSeq
    <3> HIDE DEF entry
    <3>3. AnswersFit' /\ taken' = Append(taken, entry)
        BY <3>1 DEF ChannelInv, entry
    <3>4. Session!Take
        BY <2>1, <2>5, <3>2, <3>3, ReceiveTakes
    <3> QED
        BY <3>4 DEF Session!SessionNext
  <2> QED
      BY <2>2, <2>3, <2>4, <2>5
<1>3. CASE Tick
  <2>1. UNCHANGED <<asked, answered, taken, guest>> /\ host'.step = host.step
      BY <1>3 DEF Tick, ChannelInv, ChannelTypes, HostSessions
  <2> QED
      BY <2>1, SessionStutters
<1>4. CASE Timeout \/ HostEof \/ Close
    BY <1>4, SessionLeft DEF Timeout, HostEof, Close, Session!SessionNext
<1>5. CASE ReadPrefix
  <2>1. UNCHANGED <<asked, answered, taken, host>>
      BY <1>5 DEF ReadPrefix
  <2>2. (\E why \in {"truncated length prefix", "length"} : Exit(why)) \/ guest'.step = "body"
      BY <1>5 DEF ReadPrefix, ChannelInv, ChannelTypes, GuestSessions
  <2>3. CASE guest'.step = "body"
      BY <1>5, <2>1, <2>3, SessionStutters DEF ReadPrefix
  <2> QED
      BY <2>1, <2>2, <2>3, AgentLeft DEF Session!SessionNext
<1>6. CASE ReadBody
  <2>1. UNCHANGED <<asked, answered, taken, host>> /\ guest.step = "body"
      BY <1>6 DEF ReadBody
  <2>2. guest'.step \in {"body", "handle"} \/ Exit("decode")
      BY <1>6 DEF ReadBody, Exit, ChannelInv, ChannelTypes, GuestSessions
  <2>3. CASE guest'.step \in {"body", "handle"}
      BY <2>1, <2>3, SessionStutters
  <2> QED
      BY <2>1, <2>2, <2>3, AgentLeft DEF Session!SessionNext
<1>7. CASE Handle
  <2>1. UNCHANGED <<asked, taken, down, host>> /\ guest.step = "handle"
      BY <1>7 DEF Handle
  <2>2. CASE UNCHANGED answered /\ \E why \in {"encode", "error"} : Exit(why)
      BY <2>1, <2>2, AgentLeft DEF Session!SessionNext
  <2>3. ASSUME NEW reply \in Replies(asked[guest.buffer[1].frame]),
               answered' = Append(answered, reply), guest'.step = "prefix"
        PROVE  Session!SessionNext
    <3>1. /\ guest.buffer[1].frame = Len(answered) + 1 /\ Len(asked) = Len(answered) + 1
        BY <2>1 DEF ChannelInv, GuestReads
    <3>2. Len(answered) \in Nat /\ Len(answered) < Len(asked)
        BY <3>1, TookInOrder
    <3>3. Took' = Took
      <4>1. answered \in Seq(AllReplies) /\ reply \in AllReplies
        <5>1. Len(answered) + 1 \in 1 .. Len(asked)
            BY <3>1, <3>2
        <5>2. asked[Len(answered) + 1] \in Questions
            BY <5>1 DEF ChannelInv, AnswersFit
        <5> QED
            BY <2>3, <3>1, <5>2 DEF ChannelInv, ChannelTypes, AllReplies
      <4>2. \A i \in 1 .. Len(answered) : answered'[i] = answered[i]
          BY <2>3, <4>1, AppendProperties
      <4> QED
          BY <2>1, <4>2, TookUnchanged
    <3>4. Session!Reply(reply)
        BY <2>1, <2>3, <3>1, <3>2, <3>3 DEF Session!Reply, Took
    <3>5. reply \in Questions \cup UNION {Replies(m) : m \in Questions}
      <4>1. Len(answered) + 1 \in 1 .. Len(asked)
          BY <3>1, <3>2
      <4>2. asked[Len(answered) + 1] \in Questions
          BY <4>1 DEF ChannelInv, AnswersFit
      <4> QED
          BY <2>3, <3>1, <4>2
    <3> QED
        BY <3>4, <3>5 DEF Session!SessionNext
  <2>4. \/ UNCHANGED answered /\ \E why \in {"encode", "error"} : Exit(why)
        \/ \E reply \in Replies(asked[guest.buffer[1].frame]) :
              answered' = Append(answered, reply) /\ guest'.step = "prefix"
      BY <1>7 DEF Handle, ChannelInv, ChannelTypes, GuestSessions
  <2> QED
      BY <2>2, <2>3, <2>4
<1>8. CASE GuestEof
    BY <1>8, AgentLeft DEF GuestEof, Session!SessionNext
<1>9. CASE Arrive
    BY <1>9, SessionStutters DEF Arrive
<1> QED
    BY <1>1, <1>2, <1>3, <1>4, <1>5, <1>6, <1>7, <1>8, <1>9 DEF ChannelNext, HostNext, GuestNext

\* The bytes of GuestChannel and serve_frame implement a session of whole
\* frames, in which each end sees the frames of the other in their order and
\* the host takes the answer to what it asked last.
THEOREM BytesImplementSession == StreamsSpec => ImplementsSession
<1>1. StreamsInit => Session!SessionInit
  <2> SUFFICES ASSUME StreamsInit PROVE Session!SessionInit
      OBVIOUS
  <2>1. /\ asked = << >> /\ answered = << >> /\ taken = << >>
        /\ host.step = "ready" /\ guest.step = "prefix"
      BY DEF StreamsInit, ChannelInit
  <2>2. Took = << >>
      BY <2>1 DEF Took
  <2> QED
      BY <2>1, <2>2 DEF Session!SessionInit, Took
<1>2. (ApiInv /\ ChannelInv) /\ (ApiInv /\ ChannelInv)' /\ [StreamsNext]_<<channelVars, apiVars>>
      => [Session!SessionNext]_(Session!sessionVars)
  <2> SUFFICES ASSUME ChannelInv, ChannelInv', [StreamsNext]_<<channelVars, apiVars>>
               PROVE  [Session!SessionNext]_(Session!sessionVars)
      OBVIOUS
  <2>1. CASE ChannelNext
      BY <2>1, ChannelStepMaps
  <2>2. CASE UNCHANGED channelVars
    <3>1. UNCHANGED <<asked, answered, taken, host, guest>>
        BY <2>2 DEF channelVars
    <3> QED
        BY <3>1, SessionStutters
  <2> QED
      BY <2>1, <2>2 DEF StreamsNext
<1> QED
    BY <1>1, <1>2, StreamsInvariance, PTL DEF StreamsSpec, ImplementsSession, Session!SessionSpec

=============================================================================
