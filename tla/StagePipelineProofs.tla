------------------------ MODULE StagePipelineProofs -------------------------
(***************************************************************************)
(* Proofs about evaluate, for every executor its interface admits and for  *)
(* every limit on usage and score.                                         *)
(***************************************************************************)
EXTENDS StagePipeline, SequenceTheorems, TLAPS

\* The reports are those of the first stages of the plan, in its order.
FollowsPlan(rs) == \A i \in 1 .. Len(rs) : rs[i].stage = Stages[i]

\* While evaluate goes on, every stage so far has succeeded, and the check
\* has left its decision.
GoesOn ==
    outcome = Running =>
        /\ Len(reports) < 5
        /\ \A i \in 1 .. Len(reports) : reports[i].status = "succeeded"
        /\ Len(reports) = 4 => decision \in Decisions

(***************************************************************************)
(* The inductive invariant.  NoFabricatedSuccess says nothing of a run     *)
(* that is not over; GoesOn is what a run may count on when its last stage *)
(* ends.                                                                   *)
(***************************************************************************)
PipelineInv ==
    /\ PipelineTypeOK
    /\ FollowsPlan(reports)
    /\ GoesOn
    /\ NoFabricatedSuccess

-----------------------------------------------------------------------------
LEMMA ThePlan ==
    /\ Len(Stages) = 5 /\ DOMAIN Stages = 1 .. 5
    /\ Stages[1] = "prepare" /\ Stages[2] = "build" /\ Stages[3] = "run"
    /\ Stages[4] = "check" /\ Stages[5] = "aggregate"
BY DEF Stages

LEMMA StageNames ==
    ASSUME NEW i \in 1 .. 5
    PROVE  /\ Stages[i] \in Range(Stages)
           /\ Stages[i] = "check" <=> i = 4
<1>1. Stages[i] \in Range(Stages)
  BY ThePlan DEF Range
<1>2. i = 1 \/ i = 2 \/ i = 3 \/ i = 4 \/ i = 5
  OBVIOUS
<1>3. Stages[i] = "check" <=> i = 4
  BY <1>2, ThePlan
<1> QED BY <1>1, <1>3

LEMMA OutcomeStates ==
    /\ Idle.state = "idle" /\ Running.state = "running"
    /\ \A error : Error(error).state = "error" /\ Error(error).error = error
    /\ \A terminal : /\ Result(terminal).state = "result"
                     /\ Result(terminal).status = terminal.status
                     /\ Result(terminal).verdict = terminal.verdict
                     /\ Result(terminal).earned = terminal.earned
BY DEF Idle, Running, Error, Result

LEMMA SkippedReports ==
    ASSUME NEW rs \in Seq(Reports), Len(rs) <= 5
    PROVE  /\ Skipped(rs) \in Seq(Reports) /\ Len(Skipped(rs)) = 5 - Len(rs)
           /\ \A i \in 1 .. (5 - Len(rs)) : /\ Skipped(rs)[i].stage = Stages[Len(rs) + i]
                                            /\ Skipped(rs)[i].status = "skipped"
<1>1. 5 - Len(rs) \in Nat
  OBVIOUS
<1>2. Skipped(rs) = [i \in 1 .. (5 - Len(rs)) |->
         [stage |-> Stages[Len(rs) + i], status |-> "skipped", usage |-> NoUsage]]
  BY ThePlan DEF Skipped
<1>3. NoUsage \in Usages /\ "skipped" \in StageStatuses
  BY PipelineAssumption DEF NoUsage, Usages, StageStatuses
<1>4. \A i \in 1 .. (5 - Len(rs)) :
         [stage |-> Stages[Len(rs) + i], status |-> "skipped", usage |-> NoUsage] \in Reports
  <2> TAKE i \in 1 .. (5 - Len(rs))
  <2>1. Len(rs) + i \in 1 .. 5
    BY <1>1
  <2>2. Stages[Len(rs) + i] \in Range(Stages)
    BY <2>1, StageNames
  <2> QED BY <1>3, <2>2 DEF Reports
<1>5. Skipped(rs) \in [1 .. (5 - Len(rs)) -> Reports]
  BY <1>2, <1>4
<1>6. Skipped(rs) \in Seq(Reports) /\ Len(Skipped(rs)) = 5 - Len(rs)
  BY <1>1, <1>5
<1>7. \A i \in 1 .. (5 - Len(rs)) : /\ Skipped(rs)[i].stage = Stages[Len(rs) + i]
                                    /\ Skipped(rs)[i].status = "skipped"
  BY <1>2
<1> QED BY <1>6, <1>7

\* A run that ends before the plan does: its reports are completed to the
\* plan, and end at the stage that ended it.
LEMMA EndedReports ==
    ASSUME NEW rs \in Seq(Reports), NEW report \in Reports, Len(rs) < 5, FollowsPlan(rs),
           \A i \in 1 .. Len(rs) : rs[i].status = "succeeded",
           report.stage = Stages[Len(rs) + 1]
    PROVE  LET pushed == Append(rs, report)
               all == pushed \o Skipped(pushed) IN
           /\ all \in Seq(Reports) /\ Len(all) = 5 /\ FollowsPlan(all)
           /\ EndsAt(all, Len(rs) + 1, report.status)
           /\ all[Len(rs) + 1] = report
<1> DEFINE pushed == Append(rs, report)
           all == pushed \o Skipped(pushed)
           n == Len(rs) + 1
<1>1. /\ pushed \in Seq(Reports) /\ Len(pushed) = n /\ n \in 1 .. 5 /\ pushed[n] = report
      /\ \A i \in 1 .. (n - 1) : pushed[i] = rs[i]
  OBVIOUS
<1> HIDE DEF pushed
<1>2. /\ Skipped(pushed) \in Seq(Reports) /\ Len(Skipped(pushed)) = 5 - n
      /\ \A i \in 1 .. (5 - n) : /\ Skipped(pushed)[i].stage = Stages[n + i]
                                 /\ Skipped(pushed)[i].status = "skipped"
  BY <1>1, SkippedReports
<1>3. /\ all \in Seq(Reports) /\ Len(all) = Len(pushed) + Len(Skipped(pushed))
      /\ \A i \in 1 .. (Len(pushed) + Len(Skipped(pushed))) :
            all[i] = IF i <= Len(pushed) THEN pushed[i] ELSE Skipped(pushed)[i - Len(pushed)]
  <2>1. pushed \in Seq(Reports) /\ Skipped(pushed) \in Seq(Reports)
    BY <1>1, <1>2
  <2> QED BY <2>1, ConcatProperties
<1> HIDE DEF all
<1>4. Len(all) = 5 /\ Len(rs) \in Nat
  BY <1>1, <1>2, <1>3
<1>5. all[n] = report
  BY <1>1, <1>2, <1>3
<1>6. ASSUME NEW i \in 1 .. (n - 1) PROVE all[i] = rs[i]
  BY <1>1, <1>2, <1>3
<1>7. ASSUME NEW i \in (n + 1) .. 5
      PROVE  all[i].stage = Stages[i] /\ all[i].status = "skipped"
  <2>1. i - n \in 1 .. (5 - n) /\ i \in 1 .. 5 /\ ~(i <= n) /\ n + (i - n) = i
    BY <1>1
  <2>2. all[i] = Skipped(pushed)[i - n]
    BY <1>1, <1>2, <1>3, <2>1
  <2> QED BY <1>2, <2>1, <2>2
<1>8. FollowsPlan(all)
  <2> SUFFICES ASSUME NEW i \in 1 .. 5 PROVE all[i].stage = Stages[i]
    BY <1>4 DEF FollowsPlan
  <2>1. i \in 1 .. (n - 1) \/ i = n \/ i \in (n + 1) .. 5
    BY <1>1
  <2>2. CASE i \in 1 .. (n - 1)
    BY <1>6, <2>2 DEF FollowsPlan
  <2> QED BY <1>5, <1>7, <2>1, <2>2
<1>9. EndsAt(all, n, report.status)
  BY <1>4, <1>5, <1>6, <1>7 DEF EndsAt
<1> QED BY <1>3, <1>4, <1>5, <1>8, <1>9 DEF all, pushed

\* The domain finds the stages of the plan in the reports.
LEMMA PlanIsComplete ==
    ASSUME NEW rs \in Seq(Reports), Len(rs) = 5, FollowsPlan(rs)
    PROVE  [i \in DOMAIN rs |-> rs[i].stage] = Stages
<1>1. DOMAIN rs = 1 .. 5
  OBVIOUS
<1>2. Stages = [i \in 1 .. 5 |-> Stages[i]]
  BY DEF Stages
<1> QED BY <1>1, <1>2 DEF FollowsPlan

-----------------------------------------------------------------------------
(***************************************************************************)
(* One turn of the loop.                                                   *)
(***************************************************************************)

LEMMA ExecutionTypes ==
    ASSUME NEW x \in Executions
    PROVE  /\ x.kind \in {"Succeeded", "Rejected", "Failed", "Cancelled"}
           /\ x.usage \in Usages
           /\ x.decision \in Decisions \cup {NoDecision}
           /\ x.kind # "Succeeded" => x.decision = NoDecision
           /\ x.kind = "Rejected" => x.verdict \in Verdicts
BY DEF Executions

LEMMA UsageAdded ==
    ASSUME NEW u \in Usages, NEW v \in Usages, UsageFits(Added(u, v))
    PROVE  Added(u, v) \in Usages
<1>1. /\ u.spent \in Nat /\ v.spent \in Nat /\ u.peak \in 0 .. MaxUsage
      /\ v.peak \in 0 .. MaxUsage
  BY PipelineAssumption DEF Usages
<1>2. u.spent + v.spent <= MaxUsage
  BY DEF UsageFits, Added
<1>3. u.spent + v.spent \in 0 .. MaxUsage
  BY <1>1, <1>2, PipelineAssumption
<1>4. (IF u.peak >= v.peak THEN u.peak ELSE v.peak) \in 0 .. MaxUsage
  BY <1>1
<1> QED BY <1>3, <1>4 DEF Added, Usages

\* The report of a stage.
LEMMA ReportMade ==
    ASSUME NEW x \in Executions, NEW i \in 1 .. 5
    PROVE  LET report == [stage |-> Stages[i], status |-> StatusOf(x), usage |-> x.usage] IN
           report \in Reports /\ report.stage = Stages[i] /\ report.status = StatusOf(x)
<1>1. StatusOf(x) \in StageStatuses
  BY ExecutionTypes DEF StatusOf, StageStatuses
<1>2. x.usage \in Usages /\ Stages[i] \in Range(Stages)
  BY ExecutionTypes, StageNames
<1> QED BY <1>1, <1>2 DEF Reports

\* An end before the plan's is one that the domain accepts, and scores nothing.
LEMMA EarlyEndIsValid ==
    ASSUME NEW x \in Executions, x.kind # "Succeeded", NEW n \in 1 .. 5,
           x.kind = "Rejected" => ValidRejection(Stages[n], x.verdict),
           NEW all \in Seq(Reports), Len(all) = 5, FollowsPlan(all),
           EndsAt(all, n, StatusOf(x))
    PROVE  /\ BuildResult(Terminal(x), all) = Result(Terminal(x))
           /\ Terminal(x).verdict \in Verdicts \ {"accepted", "wrong_answer"}
           /\ Terminal(x).status \in {"completed", "failed", "cancelled"}
           /\ Terminal(x).earned = 0
           /\ all[n].status \in {"failed", "cancelled"}
<1>1. DOMAIN all = 1 .. 5 /\ n \in DOMAIN all /\ all[n].stage = Stages[n]
  BY DEF FollowsPlan
<1>2. [i \in DOMAIN all |-> all[i].stage] = Stages
  BY PlanIsComplete
<1>3. CASE x.kind = "Rejected"
  <2>1. Terminal(x) = [status |-> "completed", verdict |-> x.verdict, earned |-> 0]
    BY <1>3 DEF Terminal
  <2>2. StatusOf(x) = "failed"
    BY <1>3 DEF StatusOf
  <2>3. \/ x.verdict = "compile_error" /\ RejectedStage(all, "build")
        \/ x.verdict \in Rejections \ {"compile_error"} /\ RejectedStage(all, "run")
    BY <1>1, <1>3, <2>2 DEF ValidRejection, RejectedStage
  <2>4. ValidTerminal(Terminal(x), all)
    BY <2>1, <2>3 DEF ValidTerminal
  <2>5. x.verdict \in Verdicts \ {"accepted", "wrong_answer"}
    BY <2>3 DEF Verdicts, Rejections
  <2>6. all[n].status = "failed"
    BY <2>2 DEF EndsAt
  <2> QED BY <1>2, <2>1, <2>4, <2>5, <2>6 DEF BuildResult
<1>4. CASE x.kind = "Failed"
  <2>1. Terminal(x) = [status |-> "failed", verdict |-> "system_error", earned |-> 0]
    BY <1>4 DEF Terminal
  <2>2. StatusOf(x) = "failed"
    BY <1>4 DEF StatusOf
  <2>3. ValidTerminal(Terminal(x), all)
    BY <1>1, <2>1, <2>2 DEF ValidTerminal, TerminalPattern
  <2>4. all[n].status = "failed"
    BY <2>2 DEF EndsAt
  <2> QED BY <1>2, <2>1, <2>3, <2>4 DEF BuildResult, Verdicts
<1>5. CASE x.kind = "Cancelled"
  <2>1. Terminal(x) = [status |-> "cancelled", verdict |-> "cancelled", earned |-> 0]
    BY <1>5 DEF Terminal
  <2>2. StatusOf(x) = "cancelled"
    BY <1>5 DEF StatusOf
  <2>3. ValidTerminal(Terminal(x), all)
    BY <1>1, <2>1, <2>2 DEF ValidTerminal, TerminalPattern
  <2>4. all[n].status = "cancelled"
    BY <2>2 DEF EndsAt
  <2> QED BY <1>2, <2>1, <2>3, <2>4 DEF BuildResult, Verdicts
<1> QED BY <1>3, <1>4, <1>5, ExecutionTypes

\* A run all of whose stages succeeded is one that the domain accepts.
LEMMA FullRunIsValid ==
    ASSUME NEW d \in Decisions, NEW all \in Seq(Reports), Len(all) = 5, FollowsPlan(all),
           \A i \in 1 .. 5 : all[i].status = "succeeded"
    PROVE  LET terminal == [status |-> "completed", verdict |-> d.verdict, earned |-> d.earned] IN
           BuildResult(terminal, all) = Result(terminal)
<1>1. DOMAIN all = 1 .. 5 /\ d.verdict \in {"accepted", "wrong_answer"}
  BY DEF Decisions
<1> DEFINE terminal == [status |-> "completed", verdict |-> d.verdict, earned |-> d.earned]
<1>2. ValidTerminal(terminal, all)
  BY <1>1 DEF ValidTerminal
<1> QED BY <1>2, PlanIsComplete DEF BuildResult

LEMMA ErrorIsOutcome ==
    ASSUME PipelineInv, NEW error \in {"UnsupportedCapability", "InvalidExecutorOutput", "Domain"},
           Fail(error)
    PROVE  PipelineInv'
<1>1. /\ outcome' = Error(error) /\ reports' = reports /\ usage' = usage /\ decision' = decision
  BY DEF Fail
<1>2. outcome'.state = "error" /\ outcome' # Running
  BY <1>1, OutcomeStates
<1>3. PipelineTypeOK'
  BY <1>1 DEF PipelineInv, PipelineTypeOK, Error
<1>4. FollowsPlan(reports)'
  BY <1>1 DEF PipelineInv, FollowsPlan
<1> QED BY <1>2, <1>3, <1>4 DEF PipelineInv, GoesOn, NoFabricatedSuccess, HasResult


\* No error arises from a report that was pushed.
NoError == outcome.state # "error"

LEMMA PushKeepsInv ==
    ASSUME PipelineInv, outcome = Running, NEW x \in Executions,
           UsageFits(Added(usage, x.usage)), Push(Stages[Len(reports) + 1], x),
           x.kind = "Succeeded" => ValidDecision(Stages[Len(reports) + 1], x.decision),
           x.kind = "Rejected" => ValidRejection(Stages[Len(reports) + 1], x.verdict)
    PROVE  PipelineInv' /\ NoError'
<1> DEFINE n == Len(reports) + 1
           report == [stage |-> Stages[n], status |-> StatusOf(x), usage |-> x.usage]
           pushed == Append(reports, report)
           all == pushed \o Skipped(pushed)
           decided == IF Stages[n] = "check" THEN x.decision ELSE decision
<1>1. /\ reports \in Seq(Reports) /\ Len(reports) < 5 /\ usage \in Usages
      /\ decision \in Decisions \cup {NoDecision} /\ FollowsPlan(reports)
      /\ \A i \in 1 .. Len(reports) : reports[i].status = "succeeded"
      /\ Len(reports) = 4 => decision \in Decisions
  BY DEF PipelineInv, PipelineTypeOK, GoesOn
<1>2. n \in 1 .. 5 /\ Len(reports) = n - 1
  BY <1>1
<1>3. report \in Reports /\ report.stage = Stages[n] /\ report.status = StatusOf(x)
  BY <1>2, ReportMade
<1>4. usage' \in Usages
  BY <1>1, ExecutionTypes, UsageAdded DEF Push
<1>5. decision' = decided /\ decided \in Decisions \cup {NoDecision}
  BY <1>1, ExecutionTypes DEF Push
<1>6. CASE x.kind # "Succeeded"
  <2>1. /\ all \in Seq(Reports) /\ Len(all) = 5 /\ FollowsPlan(all)
        /\ EndsAt(all, n, StatusOf(x))
    <3> HIDE DEF report
    <3> QED BY <1>1, <1>3, EndedReports
  <2>2. /\ reports' = all /\ outcome' = BuildResult(Terminal(x), all)
    BY <1>6 DEF Push
  <2> HIDE DEF all
  <2>3. /\ outcome' = Result(Terminal(x)) /\ Terminal(x).earned = 0
        /\ Terminal(x).verdict \in Verdicts \ {"accepted", "wrong_answer"}
        /\ Terminal(x).status \in {"completed", "failed", "cancelled"}
        /\ all[n].status \in {"failed", "cancelled"}
    BY <1>2, <1>6, <2>1, <2>2, EarlyEndIsValid
  <2>4. /\ outcome'.state = "result" /\ outcome'.earned = 0 /\ outcome' # Running
        /\ outcome'.verdict \notin {"accepted", "wrong_answer"}
    BY <2>3, OutcomeStates
  <2>5. NoFabricatedSuccess'
    BY <1>2, <2>1, <2>2, <2>3, <2>4 DEF NoFabricatedSuccess
  <2>6. 0 \in 0 .. MaxScore
    BY PipelineAssumption
  <2>7. outcome' \in [state : {"result"}, status : {"completed", "failed", "cancelled"},
                      verdict : Verdicts, earned : 0 .. MaxScore]
    BY <2>3, <2>6 DEF Result
  <2>8. PipelineTypeOK'
    <3>1. Len(Stages) = 5 /\ reports' \in Seq(Reports) /\ Len(reports') = 5
      BY <2>1, <2>2, ThePlan, Zenon
    <3>2. reports' \in Seq(Reports) /\ Len(reports') <= Len(Stages)
      BY <3>1
    <3>3. decision' \in Decisions \cup {NoDecision}
      BY <1>5
    <3> QED BY <1>4, <2>7, <3>2, <3>3 DEF PipelineTypeOK
  <2>9. FollowsPlan(reports)'
    BY <2>1, <2>2 DEF FollowsPlan
  <2> QED BY <2>4, <2>5, <2>8, <2>9 DEF PipelineInv, GoesOn, NoError
<1>7. CASE x.kind = "Succeeded"
  <2>1. StatusOf(x) = "succeeded"
    BY <1>7 DEF StatusOf
  <2>2. /\ reports' = pushed
        /\ outcome' = IF Len(pushed) < 5 THEN Running ELSE
                      IF decided = NoDecision THEN Error("InvalidExecutorOutput") ELSE
                      BuildResult([status |-> "completed", verdict |-> decided.verdict,
                                   earned |-> decided.earned], pushed)
    BY <1>7, ThePlan DEF Push
  <2>3. /\ pushed \in Seq(Reports) /\ Len(pushed) = n
        /\ \A i \in 1 .. n : pushed[i].stage = Stages[i] /\ pushed[i].status = "succeeded"
    <3> HIDE DEF report
    <3>1. /\ pushed \in Seq(Reports) /\ Len(pushed) = n /\ pushed[n] = report
          /\ \A i \in 1 .. (n - 1) : pushed[i] = reports[i]
      BY <1>1, <1>2, <1>3
    <3>2. \A i \in 1 .. n : i = n \/ i \in 1 .. (n - 1)
      BY <1>2
    <3>3. \A i \in 1 .. (n - 1) : reports[i].stage = Stages[i] /\ reports[i].status = "succeeded"
      BY <1>1, <1>2 DEF FollowsPlan
    <3> HIDE DEF pushed, n
    <3> QED BY <1>3, <2>1, <3>1, <3>2, <3>3
  <2>4. NoDecision \notin Decisions
    BY DEF NoDecision, Decisions
  <2> HIDE DEF pushed
  <2>5. FollowsPlan(reports)'
    BY <2>2, <2>3 DEF FollowsPlan
  <2>6. CASE n < 5
    <3>1. outcome' = Running
      BY <2>2, <2>3, <2>6
    <3>2. n = 4 => decided \in Decisions
      BY <1>2, <1>5, <1>7, StageNames DEF ValidDecision
    <3>3. GoesOn'
      BY <1>5, <2>2, <2>3, <2>6, <3>2 DEF GoesOn
    <3>4. ~HasResult' /\ NoError'
      BY <3>1, OutcomeStates DEF HasResult, NoError
    <3>5. PipelineTypeOK'
      BY <1>4, <1>5, <2>2, <2>3, <2>6, <3>1, ThePlan DEF PipelineTypeOK
    <3> QED BY <2>5, <3>3, <3>4, <3>5 DEF PipelineInv, NoFabricatedSuccess
  <2>7. CASE n = 5
    <3>1. decided = decision /\ decided \in Decisions /\ decided # NoDecision
      BY <1>1, <1>2, <2>4, <2>7, StageNames
    <3> DEFINE terminal == [status |-> "completed", verdict |-> decided.verdict,
                            earned |-> decided.earned]
    <3>2. outcome' = BuildResult(terminal, pushed)
      BY <2>2, <2>3, <2>7, <3>1
    <3>3. FollowsPlan(pushed)
      BY <2>3 DEF FollowsPlan
    <3> HIDE DEF decided
    <3>4. outcome' = Result(terminal)
      BY <2>3, <2>7, <3>1, <3>2, <3>3, FullRunIsValid
    <3>5. /\ outcome'.state = "result" /\ outcome' # Running
          /\ outcome'.verdict = decided.verdict /\ outcome'.earned = decided.earned
      BY <3>4, OutcomeStates
    <3>6. NoFabricatedSuccess'
      BY <1>5, <2>2, <2>3, <3>5 DEF NoFabricatedSuccess
    <3>7. decided.verdict \in Verdicts /\ decided.earned \in 0 .. MaxScore
      BY <3>1 DEF Decisions, Verdicts
    <3>8. outcome' \in [state : {"result"}, status : {"completed", "failed", "cancelled"},
                        verdict : Verdicts, earned : 0 .. MaxScore]
      BY <3>4, <3>7 DEF Result
    <3>9. PipelineTypeOK'
      BY <1>4, <1>5, <2>2, <2>3, <2>7, <3>8, ThePlan DEF PipelineTypeOK
    <3> QED BY <2>5, <3>5, <3>6, <3>9 DEF PipelineInv, GoesOn, NoError
  <2> QED BY <1>2, <2>6, <2>7
<1> QED BY <1>6, <1>7

\* A turn of evaluate's loop, whatever the executor returned.
LEMMA RecordKeepsInv ==
    ASSUME PipelineInv, NEW x \in Executions, Record(x)
    PROVE  PipelineInv' /\ (NoError' \/ reports' = reports)
<1>1. CASE Fail("InvalidExecutorOutput") \/ Fail("Domain")
  BY <1>1, ErrorIsOutcome DEF Fail
<1>2. CASE /\ x.kind = "Succeeded" => ValidDecision(Stages[Len(reports) + 1], x.decision)
           /\ x.kind = "Rejected" => ValidRejection(Stages[Len(reports) + 1], x.verdict)
           /\ UsageFits(Added(usage, x.usage)) /\ x.fits
           /\ Push(Stages[Len(reports) + 1], x)
  BY <1>2, PushKeepsInv DEF Record
<1> QED BY <1>1, <1>2 DEF Record

LEMMA NewRunIsEmpty ==
    ASSUME reports' = << >>, usage' = NoUsage, decision' = NoDecision,
           outcome' \in {Idle, Running, Error("UnsupportedCapability"), Error("Domain")}
    PROVE  PipelineInv'
<1>1. reports' \in Seq(Reports) /\ Len(reports') = 0
  OBVIOUS
<1>2. usage' \in Usages
  BY PipelineAssumption DEF NoUsage, Usages
<1>3. outcome' \in {Idle, Running} \cup [state : {"error"},
                       error : {"UnsupportedCapability", "InvalidExecutorOutput", "Domain"}]
  BY DEF Error
<1>4. PipelineTypeOK'
  BY <1>1, <1>2, <1>3, ThePlan DEF PipelineTypeOK
<1>5. outcome'.state # "result"
  BY OutcomeStates
<1>6. FollowsPlan(reports)' /\ GoesOn'
  BY <1>1 DEF FollowsPlan, GoesOn
<1> QED BY <1>4, <1>5, <1>6 DEF PipelineInv, NoFabricatedSuccess, HasResult

LEMMA BeginKeepsInv ==
    ASSUME NEW supported, NEW kind, NEW eligible, NEW named,
           Begin(supported, kind, eligible, named)
    PROVE  PipelineInv' /\ reports' = << >>
<1>1. outcome' \in {Idle, Running, Error("UnsupportedCapability"), Error("Domain")}
  BY DEF Begin
<1> QED BY <1>1, NewRunIsEmpty DEF Begin

LEMMA PipelineInitInv == PipelineInit => PipelineInv
<1> SUFFICES ASSUME PipelineInit PROVE PipelineInv
  OBVIOUS
<1>1. reports \in Seq(Reports) /\ Len(reports) = 0
  BY DEF PipelineInit
<1>2. usage \in Usages
  BY PipelineAssumption DEF PipelineInit, NoUsage, Usages
<1>3. PipelineTypeOK
  BY <1>1, <1>2, ThePlan DEF PipelineInit, PipelineTypeOK
<1>4. outcome.state # "result" /\ outcome # Running
  BY OutcomeStates DEF PipelineInit
<1> QED BY <1>1, <1>3, <1>4 DEF PipelineInv, NoFabricatedSuccess, HasResult, FollowsPlan, GoesOn

LEMMA PipelineNextInv ==
    ASSUME PipelineInv, [PipelineNext]_pipelineVars
    PROVE  PipelineInv' /\ (NoError' \/ reports' \in {reports, << >>})
<1>1. CASE UNCHANGED pipelineVars
  BY <1>1 DEF pipelineVars, PipelineInv, PipelineTypeOK, GoesOn, FollowsPlan,
              NoFabricatedSuccess, HasResult
<1>2. ASSUME NEW supported \in BOOLEAN, NEW eligible \in BOOLEAN, NEW named \in BOOLEAN,
             NEW kind \in {"development_mock", "firecracker"},
             Begin(supported, kind, eligible, named)
      PROVE  PipelineInv' /\ reports' = << >>
  BY <1>2, BeginKeepsInv
<1>3. ASSUME NEW x \in Executions, Record(x)
      PROVE  PipelineInv' /\ (NoError' \/ reports' = reports)
  BY <1>3, RecordKeepsInv
<1> QED BY <1>1, <1>2, <1>3 DEF PipelineNext

-----------------------------------------------------------------------------
(***************************************************************************)
(* What every run keeps, whatever the executor returns.                    *)
(***************************************************************************)

\* evaluate and the executor it calls keep the inductive invariant, run after
\* run.
THEOREM PipelineInvariance == PipelineSpec => []PipelineInv
<1>1. PipelineInv /\ [PipelineNext]_pipelineVars => PipelineInv'
  BY PipelineNextInv
<1> QED BY <1>1, PipelineInitInv, PTL DEF PipelineSpec

\* Whatever an executor returns, EvaluationRun::record and finish give an
\* accepted or wrong answer only when all stages succeeded, with the verdict
\* and the score of the run's own check; every other end scores nothing.
THEOREM SuccessIsNotFabricated == PipelineSpec => []NoFabricatedSuccess
<1>1. PipelineInv => NoFabricatedSuccess
  BY DEF PipelineInv
<1> QED BY <1>1, PipelineInvariance, PTL

\* What record lets pass, EvaluationResult::new accepts: the two validate the
\* same run by different code, and no executor can make them disagree.
THEOREM DomainAgreesWithRun == PipelineSpec => DomainAcceptsRun
<1>1. PipelineInv /\ [PipelineNext]_pipelineVars =>
         [outcome'.state = "error" /\ outcome'.error = "Domain"
            => reports' \in {reports, << >>}]_pipelineVars
  BY PipelineNextInv DEF NoError
<1> QED BY <1>1, PipelineInvariance, PTL DEF PipelineSpec, DomainAcceptsRun

=============================================================================
