----------------------------- MODULE ControlApi -----------------------------
(***************************************************************************)
(* request of crates/openoj-firecracker/src/api.rs: one HTTP request per   *)
(* connection to the control API of a VMM, for the requests that           *)
(* FirecrackerVm makes in their order while it configures and starts a VM. *)
(*                                                                         *)
(* A response is known by its status, the length of its head, the length   *)
(* it declares for its body and the bytes of body that follow.  The VMM is *)
(* external: it answers anything, at any pace, and closes at any time.     *)
(***************************************************************************)
EXTENDS Naturals, Sequences

CONSTANTS
    Responses,      \* what the VMM may answer
    Undeclared,     \* a head without a usable content-length
    Requests,       \* requests until the VM is started
    MaxApiBody,     \* MAX_API_BODY
    MaxHead,        \* 16 * 1024
    ApiTimeout      \* API_TIMEOUT

ASSUME ControlApiAssumption ==
    /\ Requests \in Nat \ {0} /\ {MaxApiBody, MaxHead, ApiTimeout} \subseteq Nat
    /\ MaxHead < MaxApiBody     \* 16 * 1024 and 64 * 1024
    /\ \A r \in Responses :
          /\ r.status \in Nat /\ r.head \in Nat \ {0} /\ r.body \in Nat
          /\ r.declared \in Nat \cup {Undeclared}

VARIABLES
    call,       \* the request that is being made: its step, the bytes that
                \* BoundedReader holds, the time waited, and why it failed
    vmm,        \* the VMM on this connection: the response, the bytes sent
    accepted    \* the responses that request returned

apiVars == <<call, vmm, accepted>>

NewCall == [step |-> "connect", read |-> 0, waited |-> 0, why |-> "none"]
Silent == [response |-> << >>, sent |-> 0, closed |-> FALSE]

ApiInit == call = NewCall /\ vmm = Silent /\ accepted = << >>

Calling == call.step \in {"connect", "write", "head", "body"}
Reading == call.step \in {"head", "body"}
Configured == call.step = "done"

-----------------------------------------------------------------------------
(***************************************************************************)
(* The VMM.                                                                *)
(***************************************************************************)

Answering == \E r \in Responses : vmm.response = <<r>>

VmmAnswers(r) ==
    /\ Reading /\ vmm = Silent
    /\ vmm' = [vmm EXCEPT !.response = <<r>>]
    /\ UNCHANGED <<call, accepted>>

VmmSends ==
    /\ Answering /\ ~vmm.closed
    /\ vmm.sent < vmm.response[1].head + vmm.response[1].body
    /\ vmm' = [vmm EXCEPT !.sent = @ + 1]
    /\ UNCHANGED <<call, accepted>>

VmmCloses ==
    /\ Calling /\ call.step # "connect" /\ ~vmm.closed
    /\ vmm' = [vmm EXCEPT !.closed = TRUE]
    /\ UNCHANGED <<call, accepted>>

-----------------------------------------------------------------------------
(***************************************************************************)
(* request.                                                                *)
(***************************************************************************)

\* inspect_err: the lifecycle fails, and bootstrap with it.
CallFails(why) ==
    /\ call' = [call EXCEPT !.step = "failed", !.why = why]
    /\ UNCHANGED <<vmm, accepted>>

Connect ==
    /\ call.step = "connect"
    /\ \/ call' = [call EXCEPT !.step = "write"] /\ UNCHANGED <<vmm, accepted>>
       \/ CallFails("connect")

\* The two writes.  They have no timeout: a request is smaller than the
\* socket's buffer.
Write ==
    /\ call.step = "write"
    /\ \/ call' = [call EXCEPT !.step = "head"] /\ UNCHANGED <<vmm, accepted>>
       \/ vmm.closed /\ CallFails("write")

\* finish, and the check of the status.
Finish(read) ==
    LET r == vmm.response[1]
        last == Len(accepted) + 1 = Requests IN
    IF r.status \notin 200 .. 299 THEN CallFails("status") ELSE
    /\ accepted' = Append(accepted, [response |-> r, read |-> read])
    /\ call' = IF last THEN [NewCall EXCEPT !.step = "done"] ELSE NewCall
    /\ vmm' = Silent

\* Fault: the declared length is not looked at.
FitsAlways(declared, read) == TRUE

\* The content-length against what is left of the buffer.
Fits(declared, read) == declared <= MaxApiBody - read

\* The end of the head.
HeadRead(read) ==
    LET declared == vmm.response[1].declared IN
    IF declared \in {Undeclared, 0} THEN Finish(read) ELSE
    IF ~Fits(declared, read) THEN CallFails("content-length") ELSE
    /\ call' = [call EXCEPT !.step = "body", !.read = read]
    /\ UNCHANGED <<vmm, accepted>>

\* A byte of read_response, pushed to the BoundedReader.
ReadByte ==
    LET r == vmm.response[1]
        read == call.read + 1
        keep == call' = [call EXCEPT !.read = read] /\ UNCHANGED <<vmm, accepted>> IN
    /\ Reading /\ call.read < vmm.sent
    /\ IF call.read >= MaxApiBody THEN CallFails("bound") ELSE
       \/ /\ call.step = "head"
          /\ IF read = r.head THEN HeadRead(read) ELSE
             IF read > MaxHead THEN CallFails("headers") ELSE keep
       \/ /\ call.step = "body"
          /\ IF read = r.head + r.declared THEN Finish(read) ELSE keep

\* Fault: the end of the stream ends the body.
EofEndsBody ==
    /\ Reading /\ call.read = vmm.sent /\ vmm.closed
    /\ IF call.step = "body" THEN Finish(call.read) ELSE CallFails("eof")

\* read_exact: the end of the stream is an error wherever it comes.
ApiEof ==
    /\ Reading /\ call.read = vmm.sent /\ vmm.closed
    /\ CallFails("eof")

\* The timeout is for the whole response.
ApiTick ==
    /\ Reading /\ call.waited < ApiTimeout
    /\ call' = [call EXCEPT !.waited = @ + 1]
    /\ UNCHANGED <<vmm, accepted>>

\* Fault: only the connection has a timeout.
NeverTimesOut == FALSE /\ UNCHANGED apiVars

ApiTimesOut ==
    /\ Reading /\ call.waited = ApiTimeout /\ call.read = vmm.sent
    /\ CallFails("timeout")

ApiNext ==
    \/ (\E r \in Responses : VmmAnswers(r)) \/ VmmSends \/ VmmCloses
    \/ Connect \/ Write \/ ReadByte \/ ApiEof \/ ApiTick \/ ApiTimesOut

\* The node runs on, and time passes.  Nothing is assumed of the VMM.
ApiFairness ==
    WF_apiVars(Connect \/ Write \/ ReadByte \/ ApiEof \/ ApiTick \/ ApiTimesOut)

-----------------------------------------------------------------------------
(***************************************************************************)
(* Properties.                                                             *)
(***************************************************************************)

\* Type correctness.  The BoundedReader is never asked for more than it
\* holds: the checks of the head and of the declared length come before it.
ApiTypeOK ==
    /\ call.step \in {"connect", "write", "head", "body", "done", "failed"}
    /\ call.read \in 0 .. MaxApiBody /\ call.why # "bound"
    /\ call.waited \in 0 .. ApiTimeout
    /\ vmm.sent \in Nat /\ Len(accepted) <= Requests

\* A VM is configured by requests that the VMM did: each response that was
\* accepted says so and was read to the last byte that it declared, however
\* the stream was cut.
AcceptedInFull ==
    \A i \in DOMAIN accepted :
        LET r == accepted[i].response IN
        /\ r.status \in 200 .. 299
        /\ accepted[i].read = r.head + (IF r.declared = Undeclared THEN 0 ELSE r.declared)
        /\ accepted[i].read <= r.head + r.body

\* A request ends, whatever the VMM does.
RequestEnds == \A n \in 0 .. Requests : Calling /\ Len(accepted) = n ~> Len(accepted) # n \/ ~Calling
=============================================================================
