--------------------------- MODULE StagePipeline ----------------------------
(***************************************************************************)
(* evaluate of crates/openoj-application: the canonical stage plan, run    *)
(* through an executor that is only known by its interface, and the result *)
(* it builds, which crates/openoj-domain validates again on its own terms  *)
(* (EvaluationResult::new).  Here the executor may return anything its     *)
(* type allows; FirecrackerExecutor is one executor.                       *)
(*                                                                         *)
(* The cumulative counters of ResourceUsage are one counter, spent, and    *)
(* the memory peak is peak.  fits says whether an outcome keeps to the     *)
(* number of diagnostics and evidence that a StageReport may carry.        *)
(***************************************************************************)
EXTENDS Naturals, Sequences, SequencesExt

CONSTANTS
    MaxUsage,   \* the hard limit of the usage counters
    MaxScore    \* the largest score a decision is worth

ASSUME PipelineAssumption == MaxUsage \in Nat /\ MaxScore \in Nat

Stages == <<"prepare", "build", "run", "check", "aggregate">>

Rejections == {"compile_error", "runtime_error", "time_limit_exceeded",
               "memory_limit_exceeded", "output_limit_exceeded"}
Verdicts == {"accepted", "wrong_answer", "system_error", "cancelled"} \cup Rejections
StageStatuses == {"succeeded", "failed", "cancelled", "skipped"}

Usages == [spent : 0 .. MaxUsage, peak : 0 .. MaxUsage]
NoUsage == [spent |-> 0, peak |-> 0]

\* Decision::new: a checker accepts or finds the answer wrong.
Decisions == [verdict : {"accepted", "wrong_answer"}, earned : 0 .. MaxScore]
NoDecision == [verdict |-> "none", earned |-> 0]

\* StageExecution.  verdict is the rejection's, decision the success's.
Executions ==
    [kind : {"Succeeded"}, verdict : {"none"}, usage : Usages, fits : BOOLEAN,
     decision : Decisions \cup {NoDecision}]
    \cup [kind : {"Rejected"}, verdict : Verdicts, usage : Usages, fits : BOOLEAN,
          decision : {NoDecision}]
    \cup [kind : {"Failed", "Cancelled"}, verdict : {"none"}, usage : Usages,
          fits : BOOLEAN, decision : {NoDecision}]

Reports == [stage : Range(Stages), status : StageStatuses, usage : Usages]

VARIABLES
    reports,    \* EvaluationRun::reports
    usage,      \* EvaluationRun::usage
    decision,   \* EvaluationRun::decision
    outcome     \* what evaluate returned, or that it has not

pipelineVars == <<reports, usage, decision, outcome>>

Idle == [state |-> "idle"]
Running == [state |-> "running"]
Error(error) == [state |-> "error", error |-> error]
Result(terminal) == [state |-> "result", status |-> terminal.status,
                     verdict |-> terminal.verdict, earned |-> terminal.earned]

PipelineTypeOK ==
    /\ reports \in Seq(Reports) /\ Len(reports) <= Len(Stages)
    /\ usage \in Usages
    /\ decision \in Decisions \cup {NoDecision}
    /\ outcome \in {Idle, Running} \cup [state : {"error"},
                       error : {"UnsupportedCapability", "InvalidExecutorOutput", "Domain"}]
                   \cup [state : {"result"}, status : {"completed", "failed", "cancelled"},
                         verdict : Verdicts, earned : 0 .. MaxScore]

PipelineInit ==
    /\ reports = << >>
    /\ usage = NoUsage
    /\ decision = NoDecision
    /\ outcome = Idle

-----------------------------------------------------------------------------
(***************************************************************************)
(* EvaluationResult::new                                                   *)
(***************************************************************************)

\* Stage i of rs has this status, after succeeded and before skipped stages.
EndsAt(rs, i, status) ==
    /\ rs[i].status = status
    /\ \A j \in 1 .. (i - 1) : rs[j].status = "succeeded"
    /\ \A j \in (i + 1) .. Len(rs) : rs[j].status = "skipped"

\* validate_terminal_stage_pattern
TerminalPattern(rs, status) == \E i \in DOMAIN rs : EndsAt(rs, i, status)

\* validate_rejected_stage
RejectedStage(rs, stage) == \E i \in DOMAIN rs : rs[i].stage = stage /\ EndsAt(rs, i, "failed")

\* validate_terminal_semantics
ValidTerminal(terminal, rs) ==
    CASE terminal.status = "completed" ->
            \/ /\ terminal.verdict \in {"accepted", "wrong_answer"}
               /\ \A i \in DOMAIN rs : rs[i].status = "succeeded"
            \/ /\ terminal.verdict = "compile_error"
               /\ RejectedStage(rs, "build") /\ terminal.earned = 0
            \/ /\ terminal.verdict \in Rejections \ {"compile_error"}
               /\ RejectedStage(rs, "run") /\ terminal.earned = 0
      [] terminal.status = "failed" ->
            /\ terminal.verdict = "system_error" /\ terminal.earned = 0
            /\ TerminalPattern(rs, "failed")
      [] terminal.status = "cancelled" ->
            /\ terminal.verdict = "cancelled" /\ terminal.earned = 0
            /\ TerminalPattern(rs, "cancelled")

\* Fault: the score of the check is kept whatever comes after it.
BuildsWithScore(terminal, rs) == [Result(terminal) EXCEPT !.earned = decision.earned]

\* build_result
BuildResult(terminal, rs) ==
    IF /\ [i \in DOMAIN rs |-> rs[i].stage] = Stages
       /\ ValidTerminal(terminal, rs)
    THEN Result(terminal) ELSE Error("Domain")

-----------------------------------------------------------------------------
(***************************************************************************)
(* EvaluationRun                                                           *)
(***************************************************************************)

\* Fault: a check may reject as well.
RejectsAnywhere(stage, verdict) ==
    \/ stage = "build" /\ verdict = "compile_error"
    \/ stage \in {"run", "check"} /\ verdict \in Rejections \ {"compile_error"}

\* validate_rejection
ValidRejection(stage, verdict) ==
    \/ stage = "build" /\ verdict = "compile_error"
    \/ stage = "run" /\ verdict \in Rejections \ {"compile_error"}

\* validate_decision_location
ValidDecision(stage, d) == (stage = "check") <=> (d # NoDecision)

\* Fault: the limit is not applied to the sum.
UsageUnchecked(total) == TRUE

\* ResourceUsage::checked_add, with the limits of ResourceUsage::new.
UsageFits(total) == total.spent <= MaxUsage /\ total.peak <= MaxUsage

\* Fault: the peaks are added up like the counters.
PeaksAdded(u, v) == [spent |-> u.spent + v.spent, peak |-> u.peak + v.peak]

Added(u, v) == [spent |-> u.spent + v.spent,
                peak |-> IF u.peak >= v.peak THEN u.peak ELSE v.peak]

\* The end that an execution other than a success brings.
Terminal(execution) ==
    CASE execution.kind = "Rejected" ->
            [status |-> "completed", verdict |-> execution.verdict, earned |-> 0]
      [] execution.kind = "Failed" ->
            [status |-> "failed", verdict |-> "system_error", earned |-> 0]
      [] execution.kind = "Cancelled" ->
            [status |-> "cancelled", verdict |-> "cancelled", earned |-> 0]

StatusOf(execution) ==
    CASE execution.kind = "Succeeded" -> "succeeded"
      [] execution.kind \in {"Rejected", "Failed"} -> "failed"
      [] execution.kind = "Cancelled" -> "cancelled"

\* append_skipped_reports: the stages after those reported in rs.
Skipped(rs) ==
    [i \in 1 .. (Len(Stages) - Len(rs)) |->
        [stage |-> Stages[Len(rs) + i], status |-> "skipped", usage |-> NoUsage]]

Fail(error) == outcome' = Error(error) /\ UNCHANGED <<reports, usage, decision>>

\* The report is pushed, and the run goes on, or ends with the last stage or
\* with an execution that is no success.
Push(stage, execution) ==
    LET report == [stage |-> stage, status |-> StatusOf(execution), usage |-> execution.usage]
        pushed == Append(reports, report)
        decided == IF stage = "check" THEN execution.decision ELSE decision IN
    /\ usage' = Added(usage, execution.usage)
    /\ decision' = decided
    /\ \/ /\ execution.kind # "Succeeded"
          /\ reports' = pushed \o Skipped(pushed)
          /\ outcome' = BuildResult(Terminal(execution), reports')
       \/ /\ execution.kind = "Succeeded"
          /\ reports' = pushed
          /\ outcome' =
                IF Len(pushed) < Len(Stages) THEN Running ELSE
                IF decided = NoDecision THEN Error("InvalidExecutorOutput") ELSE
                BuildResult([status |-> "completed", verdict |-> decided.verdict,
                             earned |-> decided.earned], pushed)

\* One turn of evaluate's loop: the executor returned execution for the next
\* stage, and the run records it.
Record(execution) ==
    LET stage == Stages[Len(reports) + 1] IN
    /\ outcome = Running
    /\ \/ /\ execution.kind = "Succeeded" /\ ~ValidDecision(stage, execution.decision)
          /\ Fail("InvalidExecutorOutput")
       \/ /\ execution.kind = "Rejected" /\ ~ValidRejection(stage, execution.verdict)
          /\ Fail("InvalidExecutorOutput")
       \/ /\ execution.kind = "Succeeded" => ValidDecision(stage, execution.decision)
          /\ execution.kind = "Rejected" => ValidRejection(stage, execution.verdict)
          /\ \/ /\ ~(UsageFits(Added(usage, execution.usage)) /\ execution.fits)
                /\ Fail("Domain")
             \/ /\ UsageFits(Added(usage, execution.usage)) /\ execution.fits
                /\ Push(stage, execution)

\* ExecutionProvenance::new
ValidProvenance(kind, eligible, named) ==
    /\ kind = "development_mock" => ~eligible
    /\ eligible => named

\* evaluate up to its loop: capabilities, then provenance, then a new run.
Begin(supported, kind, eligible, named) ==
    /\ outcome.state \in {"idle", "error", "result"}
    /\ reports' = << >> /\ usage' = NoUsage /\ decision' = NoDecision
    /\ outcome' = IF ~supported THEN Error("UnsupportedCapability") ELSE
                  IF ~ValidProvenance(kind, eligible, named) THEN Error("Domain") ELSE Running

PipelineNext ==
    \/ \E supported, eligible, named \in BOOLEAN, kind \in {"development_mock", "firecracker"} :
          Begin(supported, kind, eligible, named)
    \/ \E execution \in Executions : Record(execution)

PipelineSpec == PipelineInit /\ [][PipelineNext]_pipelineVars

-----------------------------------------------------------------------------
(***************************************************************************)
(* Properties.                                                             *)
(***************************************************************************)

HasResult == outcome.state = "result"

\* The run and the domain agree: whatever an executor returns, once record
\* has let it pass, the result it leads to is one the domain accepts.  The
\* only domain error is that of a bound on usage, diagnostics or evidence.
DomainAcceptsRun ==
    [][outcome'.state = "error" /\ outcome'.error = "Domain"
         => reports' \in {reports, << >>}]_pipelineVars

\* "A stage failure never fabricates a later success": a run that ends well
\* scored what its own check decided, and every stage of it succeeded; any
\* other end scores nothing.
NoFabricatedSuccess ==
    HasResult =>
        \/ /\ outcome.verdict = decision.verdict /\ outcome.earned = decision.earned
           /\ \A i \in DOMAIN reports : reports[i].status = "succeeded"
        \/ /\ outcome.verdict \notin {"accepted", "wrong_answer"} /\ outcome.earned = 0
           /\ \E i \in DOMAIN reports : reports[i].status \in {"failed", "cancelled"}
=============================================================================
