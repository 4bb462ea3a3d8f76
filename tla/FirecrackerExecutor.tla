------------------------ MODULE FirecrackerExecutor -------------------------
(***************************************************************************)
(* The executor of a judge node (apps/openoj-judge-node,                   *)
(* firecracker_executor.rs): it runs the stage plan of every attempt in a  *)
(* microVM of its own, boots the VM when the first guest stage needs it,   *)
(* and reclaims it when a stage fails and when the attempt ends.  The node *)
(* process may crash at any point and be started again; the VMM processes, *)
(* the socket paths and the guests do not stop with it.                    *)
(***************************************************************************)
EXTENDS MicroVm, StagePipeline

CONSTANTS
    ReadTimeout,        \* DEFAULT_READ_TIMEOUT
    BuildBudget,        \* BUILD_WALL_MS
    RunBudget,          \* RUN_WALL_MS
    GuestDiagnostic,    \* the guest protocol's bound on a diagnostic
    DomainDiagnostic,   \* MAX_DIAGNOSTIC_MESSAGE_LENGTH
    MaxAttempts,        \* bound on the attempts the node executes
    MaxCrashes          \* bound on the crashes of the node process

ASSUME ExecutorAssumption ==
    /\ {ReadTimeout, BuildBudget, RunBudget} \subseteq Nat \ {0}
    /\ {GuestDiagnostic, DomainDiagnostic, MaxAttempts, MaxCrashes} \subseteq Nat
    /\ MaxScore >= 1            \* host_check_decision awards one point
    /\ None \notin {0, 1, 124}  \* no exit code is taken for the lack of one

VARIABLES
    executor,   \* FirecrackerExecutor, and where its execute is
    guests,     \* the guest agent in each VM, and the session with it
    owner,      \* history: the attempt and the node process that spawned a VMM
    attempt,    \* the attempt in execution, counted
    crashes     \* how often the node process crashed

executorVars == <<vmVars, pipelineVars, executor, guests, owner, attempt, crashes>>

\* try_new
NewExecutor == [step |-> "idle", session |-> None, negotiated |-> FALSE,
                last_run_exit |-> None, terminated |-> FALSE, waited |-> 0]

\* An agent serves one session and exits when it ends.
NewGuest == [agent |-> "booting", negotiated |-> FALSE, inbox |-> << >>, outbox |-> << >>]

ExecutorInit ==
    /\ VmInit /\ PipelineInit
    /\ executor = NewExecutor
    /\ guests = [v \in Vmms |-> NewGuest]
    /\ owner = [v \in Vmms |-> None]
    /\ attempt = 0
    /\ crashes = 0

At(step) == executor.step = step
Stage == Stages[Len(reports) + 1]

\* The executor changes, the rest of the node and the guests do not.
Executor(new) == executor' = new /\ UNCHANGED <<owner, attempt, crashes>>

-----------------------------------------------------------------------------
(***************************************************************************)
(* The guest.  It answers the frames of its session in their order, after  *)
(* any time, or not at all.                                                *)
(***************************************************************************)

GuestBoots(v) ==
    /\ processes[v] = "booted" /\ guests[v].agent = "booting"
    /\ guests' = [guests EXCEPT ![v].agent = "listening"]
    /\ UNCHANGED <<vmVars, pipelineVars, executor, owner, attempt, crashes>>

\* The answer to a frame.  for names the request it answers.
Answers(frame) ==
    IF frame.type = "negotiate"
    THEN [type : {"negotiated"}, supported : BOOLEAN, for : {frame}]
    ELSE [type : {"stage_output"}, exit_code : {0, 1, 124},
          diagnostic : 0 .. GuestDiagnostic, for : {frame}]

GuestAnswers(v) ==
    /\ processes[v] = "booted" /\ guests[v].agent = "serving" /\ guests[v].inbox # << >>
    /\ \E answer \in Answers(Head(guests[v].inbox)) :
          guests' = [guests EXCEPT ![v].inbox = Tail(@), ![v].outbox = Append(@, answer)]
    /\ UNCHANGED <<vmVars, pipelineVars, executor, owner, attempt, crashes>>

\* The host dropped the stream: what was in it is gone, and the agent exits.
SessionDropped(v) == [guests EXCEPT ![v] = [NewGuest EXCEPT !.agent = "ended"]]

Drop(session) == guests' = IF session = None THEN guests ELSE SessionDropped(session)

-----------------------------------------------------------------------------
(***************************************************************************)
(* JudgeExecutor::execute and evaluate's loop                              *)
(***************************************************************************)

\* Fault: an executor that was torn down keeps what it knew.
KeepsState(e) == [e EXCEPT !.terminated = FALSE]

\* begin_attempt
Renewed(e) ==
    IF e.terminated
    THEN [e EXCEPT !.negotiated = FALSE, !.last_run_exit = None, !.terminated = FALSE]
    ELSE e

BeginAttempt(supported) ==
    /\ At("idle") /\ attempt < MaxAttempts
    /\ attempt' = attempt + 1
    /\ Begin(supported, "firecracker", FALSE, TRUE)
    /\ executor' = [Renewed(executor) EXCEPT !.step = IF supported THEN "stage" ELSE "end"]
    /\ UNCHANGED <<vmVars, guests, owner, crashes>>

Execution(kind, verdict, d) ==
    [kind |-> kind, verdict |-> verdict, usage |-> NoUsage, fits |-> TRUE, decision |-> d]

StageFailed == Execution("Failed", "none", NoDecision)

\* The stage returned execution to evaluate, which goes on or is done.
Return(execution, e) ==
    /\ Record(execution)
    /\ Executor([e EXCEPT !.step = IF outcome'.state = "running" THEN "stage" ELSE "end"])

\* The host's own stages; an executor that is not torn down reaches them, and
\* check only after a run.  host_check_decision forms the verdict from the exit
\* code of the run.
HostStage ==
    /\ At("stage")
    /\ \/ /\ Stage \in {"prepare", "aggregate"}
          /\ Return(Execution("Succeeded", "none", NoDecision), executor)
       \/ /\ Stage = "check" /\ executor.last_run_exit # None
          /\ Return(Execution("Succeeded", "none",
                       IF executor.last_run_exit = 0 THEN [verdict |-> "accepted", earned |-> 1]
                       ELSE [verdict |-> "wrong_answer", earned |-> 0]), executor)
    /\ UNCHANGED <<vmVars, guests>>

\* run_guest_stage: ensure_session, ensure_negotiated, then the stage.
GuestStage ==
    /\ At("stage") /\ Stage \in {"build", "run"}
    /\ \/ /\ executor.session = None
          /\ vm' = NewVm
          /\ Executor([executor EXCEPT !.step = "boot"])
       \/ /\ executor.session # None
          /\ Executor([executor EXCEPT !.step = "ask"])
          /\ UNCHANGED vm
    /\ UNCHANGED <<hostVars, pipelineVars, guests>>

\* bootstrap, up to the point where the guest's channel can be opened.
Boot ==
    /\ At("boot")
    /\ \/ /\ \E v \in Vmms :
                /\ Launch(v)
                /\ owner' = [owner EXCEPT ![v] = [attempt |-> attempt, node |-> crashes]]
          /\ UNCHANGED executor
       \/ /\ WaitForSocket \/ Put
          /\ UNCHANGED <<executor, owner>>
       \/ /\ vm.failed
          /\ executor' = [executor EXCEPT !.step = "fail"]
          /\ UNCHANGED <<vmVars, owner>>
       \/ /\ vm.phase = "Started"
          /\ executor' = [executor EXCEPT !.step = "connect"]
          /\ UNCHANGED <<vmVars, owner>>
    /\ UNCHANGED <<pipelineVars, guests, attempt, crashes>>

\* open_guest_channel: CONNECT is tried until the guest listens.  A try that
\* the guest accepts after the host gave it up uses up the agent's session.
Connect ==
    /\ At("connect")
    /\ \/ /\ uds # None /\ processes[uds] = "booted" /\ guests[uds].agent = "listening"
          /\ \/ /\ guests' = [guests EXCEPT ![uds].agent = "serving"]
                /\ Executor([executor EXCEPT !.step = "ask", !.session = uds])
             \/ /\ guests' = SessionDropped(uds)
                /\ Executor(executor)
       \/ /\ Executor([executor EXCEPT !.step = "fail"])
          /\ UNCHANGED guests
    /\ UNCHANGED <<vmVars, pipelineVars>>

\* The next frame: a negotiation if there was none, then the stage.
Ask ==
    LET frame == [type |-> IF executor.negotiated THEN Stage ELSE "negotiate", attempt |-> attempt]
    IN
    /\ At("ask")
    /\ \/ /\ guests' = [guests EXCEPT ![executor.session].inbox = Append(@, frame)]
          /\ Executor([executor EXCEPT !.step = "wait", !.waited = 0])
       \/ /\ Executor([executor EXCEPT !.step = "fail"])
          /\ UNCHANGED guests
    /\ UNCHANGED <<vmVars, pipelineVars>>

\* execution_for_stage_output.  Nothing the domain refuses reaches it.
StageExecution(stage, exit) ==
    IF exit = 0 THEN Execution("Succeeded", "none", NoDecision) ELSE
    Execution("Rejected", IF stage = "build" THEN "compile_error" ELSE
                          IF exit = 124 THEN "time_limit_exceeded" ELSE "runtime_error",
              NoDecision)

\* The frame that recv returns, and what becomes of it.
TakeOutput(output) ==
    LET e == IF Stage = "run" THEN [executor EXCEPT !.last_run_exit = output.exit_code]
             ELSE executor IN
    IF output.diagnostic > DomainDiagnostic
    THEN Executor([e EXCEPT !.step = "fail"]) /\ UNCHANGED pipelineVars
    ELSE Return(StageExecution(Stage, output.exit_code), e)

Receive ==
    LET session == executor.session
        answer == Head(guests[session].outbox) IN
    /\ At("wait") /\ guests[session].outbox # << >>
    /\ guests' = [guests EXCEPT ![session].outbox = Tail(@),
                                ![session].negotiated = @ \/ answer.type = "negotiated"]
    /\ \/ /\ ~executor.negotiated
          /\ IF answer.type = "negotiated" /\ answer.supported
             THEN Executor([executor EXCEPT !.step = "ask", !.negotiated = TRUE])
             ELSE Executor([executor EXCEPT !.step = "fail"])
          /\ UNCHANGED pipelineVars
       \/ /\ executor.negotiated /\ answer.type = "stage_output"
          /\ TakeOutput(answer)
       \/ /\ executor.negotiated /\ answer.type # "stage_output"
          /\ Executor([executor EXCEPT !.step = "fail"]) /\ UNCHANGED pipelineVars
    /\ UNCHANGED vmVars

Wait ==
    /\ At("wait") /\ executor.waited < ReadTimeout
    /\ Executor([executor EXCEPT !.waited = @ + 1])
    /\ UNCHANGED <<vmVars, pipelineVars, guests>>

\* Fault: the stream keeps no read timeout.
NeverTimedOut == FALSE

TimedOut == executor.waited = ReadTimeout

\* recv fails: its timeout passed, or the VMM died and closed the stream.
ReceiveFails ==
    /\ At("wait") /\ guests[executor.session].outbox = << >>
    /\ TimedOut \/ processes[executor.session] = "dead"
    /\ Executor([executor EXCEPT !.step = "fail"])
    /\ UNCHANGED <<vmVars, pipelineVars, guests>>

-----------------------------------------------------------------------------
(***************************************************************************)
(* teardown, after a stage that failed and at the end of every attempt     *)
(***************************************************************************)

\* Fault: only the VM of a failed stage is reclaimed.
TearingDownFailed == At("fail")

TearingDown == At("fail") \/ At("end")

\* Fault: the VM is terminated and its session kept.
SessionKept == TRUE

SessionTaken == executor.session = None

\* The session is dropped first, then the VM is terminated.
DropSession ==
    /\ TearingDown /\ executor.session # None
    /\ Drop(executor.session)
    /\ Executor([executor EXCEPT !.session = None])
    /\ UNCHANGED <<vmVars, pipelineVars>>

Terminate ==
    /\ TearingDown /\ SessionTaken
    /\ Kill \/ Reclaim
    /\ UNCHANGED <<pipelineVars, executor, guests, owner, attempt, crashes>>

TornDown ==
    /\ SessionTaken /\ vm.phase = "Terminated"
    /\ \/ /\ At("fail")
          /\ Return(StageFailed, [executor EXCEPT !.terminated = TRUE])
       \/ /\ At("end")
          /\ Executor([executor EXCEPT !.terminated = TRUE, !.step = "idle"])
          /\ UNCHANGED pipelineVars
    /\ UNCHANGED <<vmVars, guests>>

-----------------------------------------------------------------------------
\* The node process is killed: its handles are gone, and its session closed.
CrashNode ==
    /\ ~At("down") /\ crashes < MaxCrashes
    /\ crashes' = crashes + 1
    /\ Drop(executor.session)
    /\ executor' = [NewExecutor EXCEPT !.step = "down"]
    /\ vm' = NoVm
    /\ outcome' = Idle /\ reports' = << >> /\ usage' = NoUsage /\ decision' = NoDecision
    /\ UNCHANGED <<hostVars, owner, attempt>>

RestartNode ==
    /\ At("down")
    /\ Executor(NewExecutor)
    /\ UNCHANGED <<vmVars, pipelineVars, guests>>

ExecutorStep ==
    \/ HostStage \/ GuestStage \/ Boot \/ Connect \/ Ask \/ Receive \/ Wait \/ ReceiveFails
    \/ DropSession \/ Terminate \/ TornDown

ExecutorNext ==
    \/ \E supported \in BOOLEAN : BeginAttempt(supported)
    \/ ExecutorStep
    \/ \E v \in Vmms :
          \/ GuestBoots(v) \/ GuestAnswers(v)
          \/ /\ OpenApi(v) \/ VmmDies(v)
             /\ UNCHANGED <<pipelineVars, executor, guests, owner, attempt, crashes>>
    \/ CrashNode \/ RestartNode

\* Only the executor itself is scheduled: no VMM has to start, no guest to
\* boot or to answer.
ExecutorSpec ==
    /\ ExecutorInit /\ [][ExecutorNext]_executorVars
    /\ WF_executorVars(ExecutorStep)

-----------------------------------------------------------------------------
(***************************************************************************)
(* Properties.                                                             *)
(***************************************************************************)

\* The VM of an attempt is reclaimed before the attempt returns: between two
\* attempts no VMM that this node process spawned is alive, and no path it
\* bound is left, wherever boot, channel or stage failed.
NothingLeftBehind ==
    At("idle") =>
        /\ \A v \in Vmms : Alive(v) => owner[v].node < crashes
        /\ \A v \in {api, uds} : v # None => owner[v].node < crashes

\* Unless the node crashed, an attempt asks the guest of the VM that it booted
\* itself, though the paths are shared by all VMs of the node.
SessionOnOwnVm ==
    crashes = 0 /\ (At("ask") \/ At("wait")) =>
        executor.session = vm.child /\ owner[executor.session].attempt = attempt

\* Guest stages run after a negotiation with this very guest, and the output
\* that is taken for a stage is that of this stage of this attempt, although
\* the stage that the output names is not compared.
OutputIsOwn ==
    At("wait") =>
        LET guest == guests[executor.session] IN
        /\ executor.negotiated => guest.negotiated
        /\ \A i \in DOMAIN guest.outbox :
              guest.outbox[i].for = [type |-> IF executor.negotiated THEN Stage ELSE "negotiate",
                                     attempt |-> attempt]

\* Every attempt returns, whatever the VMM and the guest do or do not do.
AttemptReturns == ~At("idle") ~> (At("idle") \/ At("down"))

-----------------------------------------------------------------------------
(***************************************************************************)
(* What the documents and comments say and the code does not do.           *)
(***************************************************************************)

\* p0d-execution-plane-design.md:60 has a reconciler clean up what a restart
\* leaves.  A node that is up and idle would then have no VMM beside it;
\* RestartNode runs none (firecracker_executor.rs, ensure_session).
RestartReconciles == At("idle") => \A v \in Vmms : ~Alive(v)

\* firecracker_executor.rs:27 gives a build "wall-clock budget" that the host
\* sends to the guest.  The host would then not give up on a stage that still
\* has time; recv gives up after DEFAULT_READ_TIMEOUT, half of the budget.
BudgetIsGranted ==
    [][At("wait") /\ executor'.step = "fail" /\ guests' = guests
         /\ executor.negotiated /\ Alive(executor.session)
         => executor.waited >= (IF Stage = "build" THEN BuildBudget ELSE RunBudget)]_executorVars

\* guest-vsock-v0alpha1.md:27 admits diagnostics of up to 4096 bytes and has
\* longer ones truncated.  An output within that bound would then be judged;
\* the domain refuses a diagnostic above 2048 characters, and the attempt ends
\* in a failure of the system.
OutputIsJudged ==
    [][Receive /\ executor.negotiated => executor'.step # "fail"]_executorVars
=============================================================================
