----------------------------- MODULE GuestAgent -----------------------------
(***************************************************************************)
(* The in-guest command agent (crates/openoj-guest-agent).  It            *)
(* serves one control session, one frame at a time: a build or run spawns  *)
(* a command, polls it against a wall-clock budget and, once it exited,    *)
(* reads what is left in its output pipe.  The command and whatever it     *)
(* forks run beside the agent.                                             *)
(*                                                                         *)
(* stdout and stderr are read the same way, one after the other: they are  *)
(* one pipe here.  Output and time are counted in units.                   *)
(***************************************************************************)
EXTENDS Naturals, Sequences

CONSTANTS
    PipeCapacity,   \* what the kernel buffers for a reader that does not read
    OutputLimit,    \* BOOT_OUTPUT_LIMIT
    MaxOutput,      \* bound on what a command writes
    Budget,         \* wall_time_ms of a stage
    MaxRequests     \* bound on the frames the host sends

ASSUME GuestAssumption ==
    /\ {PipeCapacity, OutputLimit, Budget} \subseteq Nat \ {0}
    /\ {MaxOutput, MaxRequests} \subseteq Nat

VARIABLES
    agent,      \* what the agent is doing
    requests,   \* the frames the host sent
    answers,    \* the frames the agent answered with
    closed,     \* the host closed the session
    child,      \* the command: none, running, exited
    pipe,       \* its output: still to be written, in the pipe, read
    held,       \* a process the command forked has the pipe's write end
    elapsed     \* time since the command was spawned

guestVars == <<agent, requests, answers, closed, child, pipe, held, elapsed>>

\* Frames: what the agent's decisions tell apart.  A malformed frame does not
\* decode; "guest_message" is a frame only a guest may send.
HostFrames ==
    [type : {"negotiate"}, known : BOOLEAN]
    \cup [type : {"upload_input"}, safe : BOOLEAN, intact : BOOLEAN]
    \cup [type : {"build", "run"}, argv : {"empty", "missing", "command"}]
    \cup [type : {"stage_evidence", "cancel", "heartbeat", "guest_message", "malformed"}]

StageFrame(frame) == frame.type \in {"build", "run"}
TimeoutExitCode == 124
NoChild == [state |-> "none"]
EmptyPipe == [unwritten |-> 0, full |-> 0, read |-> 0]

GuestInit ==
    /\ agent = "listening"
    /\ requests = << >> /\ answers = << >> /\ closed = FALSE
    /\ child = NoChild /\ pipe = EmptyPipe /\ held = FALSE /\ elapsed = 0

GuestTypeOK ==
    /\ agent \in {"listening", "waiting", "polling", "reading", "exited"}
    /\ requests \in Seq(HostFrames) /\ Len(requests) <= MaxRequests
    /\ Len(answers) <= Len(requests)
    /\ closed \in BOOLEAN /\ held \in BOOLEAN
    /\ child \in {NoChild} \cup [state : {"running"}] \cup [state : {"exited"}, code : {0, 1}]
    /\ pipe \in [unwritten : 0 .. MaxOutput, full : 0 .. PipeCapacity, read : 0 .. OutputLimit]
    /\ elapsed \in 0 .. Budget

-----------------------------------------------------------------------------
(***************************************************************************)
(* The host, and the command.                                              *)
(***************************************************************************)

HostSends(frame) ==
    /\ ~closed /\ Len(requests) < MaxRequests
    /\ requests' = Append(requests, frame)
    /\ UNCHANGED <<agent, answers, closed, child, pipe, held, elapsed>>

HostCloses ==
    /\ ~closed /\ closed' = TRUE
    /\ UNCHANGED <<agent, requests, answers, child, pipe, held, elapsed>>

\* A write blocks while the pipe is full.
ChildWrites ==
    /\ child.state = "running" /\ pipe.unwritten > 0 /\ pipe.full < PipeCapacity
    /\ pipe' = [pipe EXCEPT !.unwritten = @ - 1, !.full = @ + 1]
    /\ UNCHANGED <<agent, requests, answers, closed, child, held, elapsed>>

\* It ends when it has written everything, or dies before.
ChildExits ==
    /\ child.state = "running"
    /\ \/ pipe.unwritten = 0 /\ child' = [state |-> "exited", code |-> 0]
       \/ child' = [state |-> "exited", code |-> 1]
    /\ pipe' = [pipe EXCEPT !.unwritten = 0]
    /\ UNCHANGED <<agent, requests, answers, closed, held, elapsed>>

ChildForks ==
    /\ child.state = "running" /\ ~held
    /\ held' = TRUE
    /\ UNCHANGED <<agent, requests, answers, closed, child, pipe, elapsed>>

ForkedWrites ==
    /\ held /\ pipe.full < PipeCapacity
    /\ pipe' = [pipe EXCEPT !.full = @ + 1]
    /\ UNCHANGED <<agent, requests, answers, closed, child, held, elapsed>>

ForkedExits ==
    /\ held /\ held' = FALSE
    /\ UNCHANGED <<agent, requests, answers, closed, child, pipe, elapsed>>

Tick ==
    /\ agent = "polling" /\ elapsed < Budget
    /\ elapsed' = elapsed + 1
    /\ UNCHANGED <<agent, requests, answers, closed, child, pipe, held>>

-----------------------------------------------------------------------------
(***************************************************************************)
(* The agent.                                                              *)
(***************************************************************************)

Accept ==
    /\ agent = "listening" /\ agent' = "waiting"
    /\ UNCHANGED <<requests, answers, closed, child, pipe, held, elapsed>>

\* Fault: a frame that is still unread is passed over for a later one.
LatestRequest == requests[Len(requests)]

Request == requests[Len(answers) + 1]

Answer(answer) ==
    /\ answers' = Append(answers, answer)
    /\ UNCHANGED <<agent, child, pipe, held, elapsed>>

\* An AgentError ends serve_frame, and with it the agent.
Abort == agent' = "exited" /\ UNCHANGED <<answers, child, pipe, held, elapsed>>

\* run_command up to its first poll: the command has some output to write.
Spawn(output) ==
    /\ agent' = "polling"
    /\ child' = [state |-> "running"]
    /\ pipe' = [EmptyPipe EXCEPT !.unwritten = output]
    /\ held' = FALSE /\ elapsed' = 0
    /\ UNCHANGED answers

\* serve_frame and handle
ServeFrame(output) ==
    /\ agent = "waiting" /\ Len(answers) < Len(requests)
    /\ \/ /\ Request.type = "negotiate"
          /\ Answer([type |-> "negotiated", supported |-> Request.known])
       \/ /\ Request.type = "upload_input" /\ Request.safe
          /\ Answer([type |-> "upload_ack", accepted |-> Request.intact])
       \/ /\ Request.type = "stage_evidence" /\ Answer([type |-> "evidence_ack"])
       \/ /\ Request.type = "cancel" /\ Answer([type |-> "cancelled"])
       \/ /\ Request.type = "heartbeat" /\ Answer([type |-> "ack"])
       \/ /\ StageFrame(Request) /\ Request.argv = "command" /\ Spawn(output)
       \/ /\ \/ Request.type \in {"guest_message", "malformed"}
             \/ Request.type = "upload_input" /\ ~Request.safe
             \/ StageFrame(Request) /\ Request.argv # "command"
          /\ Abort
    /\ UNCHANGED <<requests, closed>>

\* A clean end of the session: nothing is left to read.
SessionEnds ==
    /\ agent = "waiting" /\ closed /\ Len(answers) = Len(requests)
    /\ Abort
    /\ UNCHANGED <<requests, closed>>

\* The answer of a stage; the command and its pipe are gone.
AnswerStage(code, bytes) ==
    /\ agent' = "waiting"
    /\ answers' = Append(answers, [type |-> "stage_output", stage |-> Request.type,
                                   exit_code |-> code, output_bytes |-> bytes])
    /\ pipe' = EmptyPipe /\ held' = FALSE
    /\ UNCHANGED <<requests, closed, elapsed>>

\* Faults: there is no budget; the command is not killed.
WaitForever == FALSE /\ UNCHANGED guestVars

AbandonCommand ==
    /\ agent = "polling" /\ child.state = "running" /\ elapsed = Budget
    /\ AnswerStage(TimeoutExitCode, 1)
    /\ UNCHANGED child

\* wait_with_timeout: the command did not exit within its budget.
Timeout ==
    /\ agent = "polling" /\ child.state = "running" /\ elapsed = Budget
    /\ AnswerStage(TimeoutExitCode, 1)
    /\ child' = NoChild

SeeExit ==
    /\ agent = "polling" /\ child.state = "exited"
    /\ agent' = "reading"
    /\ UNCHANGED <<requests, answers, closed, child, pipe, held, elapsed>>

\* read_pipe takes what is in the pipe, up to the limit.
ReadPipe ==
    /\ agent = "reading" /\ pipe.full > 0 /\ pipe.read < OutputLimit
    /\ pipe' = [pipe EXCEPT !.full = 0,
                            !.read = IF @ + pipe.full <= OutputLimit THEN @ + pipe.full
                                     ELSE OutputLimit]
    /\ UNCHANGED <<agent, requests, answers, closed, child, held, elapsed>>

\* It ends at the limit, or when no process has the pipe open any more.
EndOfPipe ==
    /\ agent = "reading"
    /\ \/ pipe.full = 0 /\ ~held
       \/ pipe.full > 0 /\ pipe.read = OutputLimit
    /\ AnswerStage(child.code, pipe.read)
    /\ child' = NoChild

AgentStep ==
    \/ Accept \/ SessionEnds \/ Timeout \/ SeeExit \/ ReadPipe \/ EndOfPipe
    \/ \E output \in 0 .. MaxOutput : ServeFrame(output)

GuestNext ==
    \/ \E frame \in HostFrames : HostSends(frame)
    \/ HostCloses
    \/ ChildWrites \/ ChildExits \/ ChildForks \/ ForkedWrites \/ ForkedExits
    \/ Tick
    \/ AgentStep

\* The guest's kernel runs the agent, and time passes.  Nothing obliges a
\* command or what it forked to end.
GuestSpec ==
    /\ GuestInit /\ [][GuestNext]_guestVars
    /\ WF_guestVars(AgentStep)
    /\ WF_guestVars(Tick)

-----------------------------------------------------------------------------
(***************************************************************************)
(* Properties.                                                             *)
(***************************************************************************)

AnswerTypes == [negotiate |-> "negotiated", upload_input |-> "upload_ack",
                stage_evidence |-> "evidence_ack", cancel |-> "cancelled",
                heartbeat |-> "ack", build |-> "stage_output", run |-> "stage_output"]

\* Whatever the host sends ahead, the n-th answer answers the n-th request:
\* the host, which does not compare the stage of an output, takes no other
\* stage's output for the one it asked for.
AnswersInOrder ==
    \A i \in DOMAIN answers :
        /\ requests[i].type \in DOMAIN AnswerTypes
        /\ answers[i].type = AnswerTypes[requests[i].type]
        /\ StageFrame(requests[i]) => answers[i].stage = requests[i].type

\* No command of a stage is left running beside the next one, however the
\* stage ended.
OneCommandAtATime ==
    agent \in {"waiting", "exited"} => child = NoChild

\* A stage is answered: its command exits or runs out of its budget.  Only a
\* process it forked, holding its pipe, can keep the agent reading.
StageEndsUnlessHeld ==
    agent \in {"polling", "reading"} ~> (agent \notin {"polling", "reading"} \/ held)

-----------------------------------------------------------------------------
(***************************************************************************)
(* What the code's comments and the protocol say.                          *)
(***************************************************************************)

\* "Runs a validated command with a wall-clock budget": every stage is
\* answered in the end.
StageEnds == agent \in {"polling", "reading"} ~> agent \notin {"polling", "reading"}

\* "... and captures bounded output": a command whose output is within the
\* limit is not stopped because nobody takes it.
FullPipeIsDrained ==
    [][Timeout => ~(pipe.full = PipeCapacity /\ pipe.unwritten > 0
                    /\ pipe.full + pipe.unwritten <= OutputLimit)]_guestVars

\* "cancel: cancels the current stage": a stage that ends after the host's
\* cancel has arrived does not end with its ordinary output.
CancelEndsStage ==
    [][Len(answers') > Len(answers) /\ answers'[Len(answers')].type = "stage_output"
         => \A i \in (Len(answers) + 2) .. Len(requests) : requests[i].type # "cancel"]_guestVars
=============================================================================
