-------------------------- MODULE GuestAgentProofs --------------------------
(***************************************************************************)
(* Proofs about the agent in the guest, for every capacity of the pipe,    *)
(* limit of the output, budget and number of frames.                       *)
(***************************************************************************)
EXTENDS GuestAgent, TLAPS

AnswerFrames ==
    [type : {"negotiated"}, supported : BOOLEAN]
    \cup [type : {"upload_ack"}, accepted : BOOLEAN]
    \cup [type : {"stage_output"}, stage : {"build", "run"}, exit_code : {0, 1, 124},
          output_bytes : Nat]
    \cup [type : {"evidence_ack", "cancelled", "ack"}]

\* The answer answers the request.
Matches(request, answer) ==
    /\ request.type \in DOMAIN AnswerTypes
    /\ answer.type = AnswerTypes[request.type]
    /\ StageFrame(request) => answer.stage = request.type

\* While a stage is on, its request is the one that the agent answers next.
StageInProgress ==
    /\ agent \in {"polling", "reading"} =>
          Len(answers) < Len(requests) /\ StageFrame(Request)
    /\ agent = "polling" => child.state \in {"running", "exited"}
    /\ agent = "reading" => child.state = "exited"
    /\ agent \notin {"polling", "reading"} => child = NoChild

(***************************************************************************)
(* The inductive invariant: the agent's state says whether there is a      *)
(* command, and for which request.                                         *)
(***************************************************************************)
GuestInv ==
    /\ GuestTypeOK /\ answers \in Seq(AnswerFrames)
    /\ StageInProgress
    /\ \A i \in 1 .. Len(answers) : Matches(requests[i], answers[i])

LEMMA MatchesAll == GuestInv => AnswersInOrder
BY DEF GuestInv, AnswersInOrder, Matches

LEMMA HostFrameTypes ==
    ASSUME NEW frame \in HostFrames
    PROVE  /\ frame.type \in {"negotiate", "upload_input", "build", "run", "stage_evidence",
                              "cancel", "heartbeat", "guest_message", "malformed"}
           /\ frame.type = "negotiate" => frame.known \in BOOLEAN
           /\ frame.type = "upload_input" => frame.intact \in BOOLEAN
BY DEF HostFrames

\* The answer to the next request joins the others.
LEMMA AnswerAppended ==
    ASSUME GuestInv, NEW answer \in AnswerFrames, answers' = Append(answers, answer),
           Len(answers) < Len(requests), requests' = requests, Matches(Request, answer)
    PROVE  /\ answers' \in Seq(AnswerFrames) /\ Len(answers') = Len(answers) + 1
           /\ Len(answers') <= Len(requests')
           /\ \A i \in 1 .. Len(answers') : Matches(requests'[i], answers'[i])
<1>1. answers \in Seq(AnswerFrames) /\ requests \in Seq(HostFrames)
  BY DEF GuestInv, GuestTypeOK
<1>2. /\ answers' \in Seq(AnswerFrames) /\ Len(answers') = Len(answers) + 1
      /\ answers'[Len(answers) + 1] = answer
      /\ \A i \in 1 .. Len(answers) : answers'[i] = answers[i]
  BY <1>1
<1>3. \A i \in 1 .. Len(answers) : Matches(requests[i], answers[i])
  BY DEF GuestInv
<1>4. Matches(requests[Len(answers) + 1], answer)
  BY DEF Request
<1>5. \A i \in 1 .. Len(answers') : i \in 1 .. Len(answers) \/ i = Len(answers) + 1
  BY <1>1, <1>2
<1> QED BY <1>1, <1>2, <1>3, <1>4, <1>5

\* The requests and answers stay, or a request is added.
LEMMA AnswersKept ==
    ASSUME GuestInv, answers' = answers,
           requests' = requests \/ \E frame \in HostFrames : requests' = Append(requests, frame)
    PROVE  /\ answers' \in Seq(AnswerFrames)
           /\ requests' \in Seq(HostFrames) /\ Len(answers') <= Len(requests')
           /\ \A i \in 1 .. Len(answers') : Matches(requests'[i], answers'[i])
           /\ Len(answers) < Len(requests) => Len(answers') < Len(requests') /\ Request' = Request
<1>1. /\ answers \in Seq(AnswerFrames) /\ requests \in Seq(HostFrames)
      /\ Len(answers) <= Len(requests)
      /\ \A i \in 1 .. Len(answers) : Matches(requests[i], answers[i])
  BY DEF GuestInv, GuestTypeOK
<1>2. CASE requests' = requests
  BY <1>1, <1>2 DEF Request
<1>3. ASSUME NEW frame \in HostFrames, requests' = Append(requests, frame)
      PROVE  /\ requests' \in Seq(HostFrames) /\ Len(answers') <= Len(requests')
             /\ \A i \in 1 .. Len(answers') : requests'[i] = requests[i]
             /\ Len(answers) < Len(requests) => Len(answers') < Len(requests') /\ Request' = Request
  BY <1>1, <1>3 DEF Request
<1> QED BY <1>1, <1>2, <1>3

LEMMA GuestInitInv == GuestInit => GuestInv
<1> SUFFICES ASSUME GuestInit PROVE GuestInv
  OBVIOUS
<1>1. {PipeCapacity, OutputLimit, Budget, MaxOutput, MaxRequests} \subseteq Nat
  BY GuestAssumption
<1>2. /\ requests \in Seq(HostFrames) /\ answers \in Seq(AnswerFrames)
      /\ Len(requests) = 0 /\ Len(answers) = 0
  BY DEF GuestInit
<1>3. pipe \in [unwritten : 0 .. MaxOutput, full : 0 .. PipeCapacity, read : 0 .. OutputLimit]
  BY <1>1 DEF GuestInit, EmptyPipe
<1>4. closed \in BOOLEAN /\ held \in BOOLEAN
  BY DEF GuestInit
<1>5. Len(answers) <= Len(requests) /\ Len(requests) <= MaxRequests /\ elapsed \in 0 .. Budget
  BY <1>1, <1>2 DEF GuestInit
<1>6. agent \in {"listening", "waiting", "polling", "reading", "exited"}
  BY DEF GuestInit
<1>7. child \in {NoChild} \cup [state : {"running"}] \cup [state : {"exited"}, code : {0, 1}]
  BY DEF GuestInit
<1>8. GuestTypeOK
  BY <1>2, <1>3, <1>4, <1>5, <1>6, <1>7 DEF GuestTypeOK
<1>9. StageInProgress
  BY DEF GuestInit, StageInProgress
<1> QED BY <1>2, <1>8, <1>9 DEF GuestInv

-----------------------------------------------------------------------------
(***************************************************************************)
(* One lemma for each group of steps.                                      *)
(***************************************************************************)

\* Where the child is, and what its states look like.
Children == {NoChild} \cup [state : {"running"}] \cup [state : {"exited"}, code : {0, 1}]
Pipes == [unwritten : 0 .. MaxOutput, full : 0 .. PipeCapacity, read : 0 .. OutputLimit]

LEMMA ConstantsAreNat ==
    /\ PipeCapacity \in Nat /\ OutputLimit \in Nat /\ Budget \in Nat
    /\ MaxOutput \in Nat /\ MaxRequests \in Nat
BY GuestAssumption

LEMMA ChildStates ==
    ASSUME NEW c \in Children
    PROVE  /\ c.state \in {"none", "running", "exited"}
           /\ c.state = "none" <=> c = NoChild
           /\ c.state = "exited" => c.code \in {0, 1}
BY DEF Children, NoChild

LEMMA NewChildren ==
    /\ NoChild \in Children
    /\ [state |-> "running"] \in Children
    /\ [state |-> "exited", code |-> 0] \in Children
    /\ [state |-> "exited", code |-> 1] \in Children
BY DEF Children

\* What is written, and what is read, stays within the bounds of the pipe.
LEMMA PipeChanged ==
    ASSUME NEW p \in Pipes
    PROVE  /\ p.unwritten > 0 /\ p.full < PipeCapacity =>
                 [p EXCEPT !.unwritten = @ - 1, !.full = @ + 1] \in Pipes
           /\ [p EXCEPT !.full = 0,
                        !.read = IF @ + p.full <= OutputLimit THEN @ + p.full
                                 ELSE OutputLimit] \in Pipes
<1>1. /\ p.unwritten \in 0 .. MaxOutput /\ p.full \in 0 .. PipeCapacity
      /\ p.read \in 0 .. OutputLimit
  BY DEF Pipes
<1>2. ASSUME NEW u \in 0 .. MaxOutput, NEW f \in 0 .. PipeCapacity
      PROVE  [p EXCEPT !.unwritten = u, !.full = f] \in Pipes
  BY DEF Pipes
<1>3. ASSUME NEW f \in 0 .. PipeCapacity, NEW r \in 0 .. OutputLimit
      PROVE  [p EXCEPT !.full = f, !.read = r] \in Pipes
  BY DEF Pipes
<1>4. ASSUME p.unwritten > 0, p.full < PipeCapacity
      PROVE  p.unwritten - 1 \in 0 .. MaxOutput /\ p.full + 1 \in 0 .. PipeCapacity
  BY <1>1, <1>4, ConstantsAreNat
<1> DEFINE all == IF p.read + p.full <= OutputLimit THEN p.read + p.full ELSE OutputLimit
<1>5. all \in 0 .. OutputLimit /\ 0 \in 0 .. PipeCapacity
  BY <1>1, ConstantsAreNat
<1>6. [p EXCEPT !.full = 0, !.read = all] \in Pipes
  <2> HIDE DEF all
  <2> QED BY <1>3, <1>5
<1>7. ASSUME p.unwritten > 0, p.full < PipeCapacity
      PROVE  [p EXCEPT !.unwritten = p.unwritten - 1, !.full = p.full + 1] \in Pipes
  BY <1>2, <1>4, <1>7
<1> QED BY <1>6, <1>7

\* Steps of the host, the command and what it forked: the agent stays where it is.
LEMMA EnvironmentKeepsInv ==
    ASSUME GuestInv, agent' = agent, answers' = answers,
           requests' = requests \/ \E frame \in HostFrames : requests' = Append(requests, frame),
           Len(requests') <= MaxRequests,
           closed' \in BOOLEAN, held' \in BOOLEAN, pipe' \in Pipes, elapsed' \in 0 .. Budget,
           \/ child' = child
           \/ child.state = "running" /\ child' \in Children /\ child'.state = "exited"
    PROVE  GuestInv'
<1>1. child \in Children /\ StageInProgress
  BY DEF GuestInv, GuestTypeOK, Children
<1>2. child' \in Children
  BY <1>1
<1>3. GuestTypeOK'
  BY <1>2, AnswersKept DEF GuestInv, GuestTypeOK, Children, Pipes
<1>4. StageInProgress'
  <2>1. agent' \in {"polling", "reading"} => Len(answers') < Len(requests') /\ StageFrame(Request)'
    BY <1>1, AnswersKept DEF StageInProgress, StageFrame
  <2>2. CASE child' = child
    BY <1>1, <2>1, <2>2 DEF StageInProgress
  <2>3. CASE child.state = "running" /\ child'.state = "exited"
    <3>1. agent = "polling"
      BY <1>1, <2>3, ChildStates DEF StageInProgress
    <3> QED BY <2>1, <2>3, <3>1 DEF StageInProgress
  <2> QED BY <2>2, <2>3
<1> QED BY <1>3, <1>4, AnswersKept DEF GuestInv

LEMMA EnvironmentSteps ==
    ASSUME GuestInv,
           \/ \E frame \in HostFrames : HostSends(frame)
           \/ HostCloses \/ ChildWrites \/ ChildExits \/ ChildForks
           \/ ForkedWrites \/ ForkedExits \/ Tick
    PROVE  GuestInv'
<1>1. /\ requests \in Seq(HostFrames) /\ Len(requests) <= MaxRequests
      /\ closed \in BOOLEAN /\ held \in BOOLEAN /\ child \in Children
      /\ pipe \in Pipes /\ elapsed \in 0 .. Budget
  BY DEF GuestInv, GuestTypeOK, Children, Pipes
<1>2. ASSUME NEW frame \in HostFrames, HostSends(frame) PROVE GuestInv'
  <2>1. Len(requests') <= MaxRequests
    BY <1>1, <1>2, ConstantsAreNat DEF HostSends
  <2> QED BY <1>1, <1>2, <2>1, EnvironmentKeepsInv DEF HostSends
<1>3. CASE HostCloses
  BY <1>1, <1>3, EnvironmentKeepsInv DEF HostCloses
<1>4. CASE ChildWrites
  <2>1. pipe' \in Pipes
    BY <1>1, <1>4, PipeChanged DEF ChildWrites
  <2> QED BY <1>1, <1>4, <2>1, EnvironmentKeepsInv DEF ChildWrites
<1>5. CASE ChildExits
  <2>1. pipe' \in Pipes
    BY <1>1, <1>5, ConstantsAreNat DEF ChildExits, Pipes
  <2>2. child' \in Children /\ child'.state = "exited"
    BY <1>5, NewChildren DEF ChildExits
  <2> QED BY <1>1, <1>5, <2>1, <2>2, EnvironmentKeepsInv DEF ChildExits
<1>6. CASE ChildForks
  BY <1>1, <1>6, EnvironmentKeepsInv DEF ChildForks
<1>7. CASE ForkedWrites
  <2>1. pipe' \in Pipes
    BY <1>1, <1>7, ConstantsAreNat DEF ForkedWrites, Pipes
  <2> QED BY <1>1, <1>7, <2>1, EnvironmentKeepsInv DEF ForkedWrites
<1>8. CASE ForkedExits
  BY <1>1, <1>8, EnvironmentKeepsInv DEF ForkedExits
<1>9. CASE Tick
  <2>1. elapsed' \in 0 .. Budget
    BY <1>1, <1>9, ConstantsAreNat DEF Tick
  <2> QED BY <1>1, <1>9, <2>1, EnvironmentKeepsInv DEF Tick
<1> QED BY <1>2, <1>3, <1>4, <1>5, <1>6, <1>7, <1>8, <1>9

\* A step of the agent that leaves no command behind.
LEMMA IdleKeepsInv ==
    ASSUME GuestInv, agent' \in {"listening", "waiting", "exited"}, child' = NoChild,
           requests' = requests, closed' = closed, held' \in BOOLEAN,
           pipe' \in Pipes, elapsed' = elapsed,
           \/ answers' = answers
           \/ \E answer \in AnswerFrames :
                 /\ answers' = Append(answers, answer) /\ Len(answers) < Len(requests)
                 /\ Matches(Request, answer)
    PROVE  GuestInv'
<1>1. /\ answers' \in Seq(AnswerFrames) /\ Len(answers') <= Len(requests')
      /\ \A i \in 1 .. Len(answers') : Matches(requests'[i], answers'[i])
  <2>1. CASE answers' = answers
    BY <2>1, AnswersKept
  <2>2. CASE \E answer \in AnswerFrames :
                 /\ answers' = Append(answers, answer) /\ Len(answers) < Len(requests)
                 /\ Matches(Request, answer)
    BY <2>2, AnswerAppended
  <2> QED BY <2>1, <2>2
<1>2. /\ requests \in Seq(HostFrames) /\ Len(requests) <= MaxRequests
      /\ closed \in BOOLEAN /\ elapsed \in 0 .. Budget
  BY DEF GuestInv, GuestTypeOK
<1>3. GuestTypeOK'
  BY <1>1, <1>2, NewChildren DEF GuestTypeOK, Children, Pipes
<1>4. StageInProgress'
  BY DEF StageInProgress
<1> QED BY <1>1, <1>3, <1>4 DEF GuestInv

LEMMA EmptyPipeIsPipe == EmptyPipe \in Pipes
BY ConstantsAreNat DEF EmptyPipe, Pipes

\* The command of a stage is spawned for the next request.
LEMMA SpawnKeepsInv ==
    ASSUME GuestInv, agent = "waiting", Len(answers) < Len(requests), StageFrame(Request),
           NEW output \in 0 .. MaxOutput, Spawn(output), UNCHANGED <<requests, closed>>
    PROVE  GuestInv'
<1>1. pipe' \in Pipes /\ elapsed' \in 0 .. Budget /\ held' \in BOOLEAN /\ child' \in Children
  <2>1. pipe' \in Pipes
    BY ConstantsAreNat DEF Spawn, EmptyPipe, Pipes
  <2>2. elapsed' \in 0 .. Budget
    BY ConstantsAreNat DEF Spawn
  <2>3. held' \in BOOLEAN /\ child' \in Children
    BY NewChildren DEF Spawn
  <2> QED BY <2>1, <2>2, <2>3
<1>2. /\ requests \in Seq(HostFrames) /\ Len(requests) <= MaxRequests /\ closed \in BOOLEAN
  BY DEF GuestInv, GuestTypeOK
<1>3. answers' = answers /\ requests' = requests
  BY DEF Spawn
<1>4. GuestTypeOK'
  BY <1>1, <1>2, <1>3, AnswersKept DEF GuestTypeOK, Children, Pipes, Spawn
<1>5. StageInProgress'
  <2>1. Len(answers') < Len(requests') /\ StageFrame(Request)'
    BY <1>3 DEF StageFrame, Request
  <2>2. agent' = "polling" /\ child'.state = "running"
    BY DEF Spawn
  <2> QED BY <2>1, <2>2 DEF StageInProgress
<1> QED BY <1>3, <1>4, <1>5, AnswersKept DEF GuestInv

LEMMA ServeFrameKeepsInv ==
    ASSUME GuestInv, NEW output \in 0 .. MaxOutput, ServeFrame(output)
    PROVE  GuestInv'
<1>1. /\ agent = "waiting" /\ Len(answers) < Len(requests) /\ child = NoChild
      /\ pipe \in Pipes /\ held \in BOOLEAN /\ Request \in HostFrames
  <2>1. agent = "waiting" /\ Len(answers) < Len(requests)
    BY DEF ServeFrame
  <2>2. child = NoChild /\ pipe \in Pipes /\ held \in BOOLEAN
    BY <2>1 DEF GuestInv, GuestTypeOK, StageInProgress, Pipes
  <2>3. requests \in Seq(HostFrames) /\ answers \in Seq(AnswerFrames)
    BY DEF GuestInv, GuestTypeOK
  <2>4. Request \in HostFrames
    BY <2>1, <2>3 DEF Request
  <2> QED BY <2>1, <2>2, <2>4
<1>2. ASSUME NEW answer \in AnswerFrames, Answer(answer), Matches(Request, answer),
             UNCHANGED <<requests, closed>>
      PROVE  GuestInv'
  BY <1>1, <1>2, IdleKeepsInv DEF Answer
<1>3. CASE Request.type = "negotiate" /\ Answer([type |-> "negotiated", supported |-> Request.known])
  <2>1. [type |-> "negotiated", supported |-> Request.known] \in AnswerFrames
    BY <1>1, <1>3, HostFrameTypes DEF AnswerFrames
  <2>2. Matches(Request, [type |-> "negotiated", supported |-> Request.known])
    BY <1>3 DEF Matches, AnswerTypes, StageFrame
  <2> QED BY <1>2, <1>3, <2>1, <2>2 DEF ServeFrame
<1>4. CASE /\ Request.type = "upload_input" /\ Request.safe
           /\ Answer([type |-> "upload_ack", accepted |-> Request.intact])
  <2>1. [type |-> "upload_ack", accepted |-> Request.intact] \in AnswerFrames
    BY <1>1, <1>4, HostFrameTypes DEF AnswerFrames
  <2>2. Matches(Request, [type |-> "upload_ack", accepted |-> Request.intact])
    BY <1>4 DEF Matches, AnswerTypes, StageFrame
  <2> QED BY <1>2, <1>4, <2>1, <2>2 DEF ServeFrame
<1>5. CASE Request.type = "stage_evidence" /\ Answer([type |-> "evidence_ack"])
  <2>1. [type |-> "evidence_ack"] \in AnswerFrames
    BY DEF AnswerFrames
  <2>2. Matches(Request, [type |-> "evidence_ack"])
    BY <1>5 DEF Matches, AnswerTypes, StageFrame
  <2> QED BY <1>2, <1>5, <2>1, <2>2 DEF ServeFrame
<1>6. CASE Request.type = "cancel" /\ Answer([type |-> "cancelled"])
  <2>1. [type |-> "cancelled"] \in AnswerFrames
    BY DEF AnswerFrames
  <2>2. Matches(Request, [type |-> "cancelled"])
    BY <1>6 DEF Matches, AnswerTypes, StageFrame
  <2> QED BY <1>2, <1>6, <2>1, <2>2 DEF ServeFrame
<1>7. CASE Request.type = "heartbeat" /\ Answer([type |-> "ack"])
  <2>1. [type |-> "ack"] \in AnswerFrames
    BY DEF AnswerFrames
  <2>2. Matches(Request, [type |-> "ack"])
    BY <1>7 DEF Matches, AnswerTypes, StageFrame
  <2> QED BY <1>2, <1>7, <2>1, <2>2 DEF ServeFrame
<1>8. CASE StageFrame(Request) /\ Request.argv = "command" /\ Spawn(output)
  BY <1>1, <1>8, SpawnKeepsInv DEF ServeFrame
<1>9. CASE Abort
  BY <1>1, <1>9, IdleKeepsInv DEF Abort, ServeFrame
<1> QED BY <1>3, <1>4, <1>5, <1>6, <1>7, <1>8, <1>9 DEF ServeFrame

\* The answer of a stage is one, and answers the request of the stage.
LEMMA StageAnswered ==
    ASSUME GuestInv, agent \in {"polling", "reading"},
           NEW code \in {0, 1, 124}, NEW bytes \in Nat,
           AnswerStage(code, bytes), child' = NoChild
    PROVE  GuestInv'
<1> DEFINE answer == [type |-> "stage_output", stage |-> Request.type,
                      exit_code |-> code, output_bytes |-> bytes]
<1>1. Len(answers) < Len(requests) /\ StageFrame(Request)
  BY DEF GuestInv, StageInProgress
<1>2. answer \in AnswerFrames
  BY <1>1 DEF StageFrame, AnswerFrames
<1>3. Matches(Request, answer)
  BY <1>1 DEF Matches, AnswerTypes, StageFrame
<1>4. /\ agent' = "waiting" /\ answers' = Append(answers, answer) /\ requests' = requests
      /\ closed' = closed /\ held' \in BOOLEAN /\ pipe' \in Pipes /\ elapsed' = elapsed
  BY EmptyPipeIsPipe DEF AnswerStage
<1> HIDE DEF answer
<1> QED BY <1>1, <1>2, <1>3, <1>4, IdleKeepsInv

LEMMA AgentSteps ==
    ASSUME GuestInv, AgentStep
    PROVE  GuestInv'
<1>1. /\ child \in Children /\ pipe \in Pipes /\ held \in BOOLEAN /\ closed \in BOOLEAN
      /\ requests \in Seq(HostFrames) /\ Len(requests) <= MaxRequests /\ elapsed \in 0 .. Budget
      /\ StageInProgress
  BY DEF GuestInv, GuestTypeOK, Children, Pipes
<1>2. CASE Accept
  BY <1>1, <1>2, IdleKeepsInv DEF Accept, StageInProgress
<1>3. CASE SessionEnds
  BY <1>1, <1>3, IdleKeepsInv DEF SessionEnds, Abort, StageInProgress
<1>4. CASE Timeout
  BY <1>4, StageAnswered DEF Timeout, TimeoutExitCode
<1>5. CASE SeeExit
  <2>1. GuestTypeOK'
    BY <1>5 DEF SeeExit, GuestInv, GuestTypeOK
  <2>2. StageInProgress'
    BY <1>1, <1>5 DEF SeeExit, StageInProgress, StageFrame, Request
  <2> QED BY <1>5, <2>1, <2>2, AnswersKept DEF SeeExit, GuestInv
<1>6. CASE ReadPipe
  <2>1. pipe' \in Pipes
    BY <1>1, <1>6, PipeChanged DEF ReadPipe
  <2> QED BY <1>1, <1>6, <2>1, EnvironmentKeepsInv DEF ReadPipe
<1>7. CASE EndOfPipe
  <2>1. child.code \in {0, 1, 124}
    BY <1>1, <1>7, ChildStates DEF EndOfPipe, StageInProgress
  <2>2. pipe.read \in Nat
    BY <1>1, ConstantsAreNat DEF Pipes
  <2> QED BY <1>7, <2>1, <2>2, StageAnswered DEF EndOfPipe
<1>8. ASSUME NEW output \in 0 .. MaxOutput, ServeFrame(output) PROVE GuestInv'
  BY <1>8, ServeFrameKeepsInv
<1> QED BY <1>2, <1>3, <1>4, <1>5, <1>6, <1>7, <1>8 DEF AgentStep

LEMMA GuestNextInv == GuestInv /\ [GuestNext]_guestVars => GuestInv'
<1> SUFFICES ASSUME GuestInv, [GuestNext]_guestVars PROVE GuestInv'
  OBVIOUS
<1>1. CASE UNCHANGED guestVars
  BY <1>1 DEF guestVars, GuestInv, GuestTypeOK, StageInProgress, Request
<1>2. CASE AgentStep
  BY <1>2, AgentSteps
<1>3. CASE \/ \E frame \in HostFrames : HostSends(frame)
           \/ HostCloses \/ ChildWrites \/ ChildExits \/ ChildForks
           \/ ForkedWrites \/ ForkedExits \/ Tick
  BY <1>3, EnvironmentSteps
<1> QED BY <1>1, <1>2, <1>3 DEF GuestNext

-----------------------------------------------------------------------------
(***************************************************************************)
(* What the agent keeps.                                                   *)
(***************************************************************************)

\* serve_session's loop, with the command of a stage and what it forked
\* running beside it, keeps the inductive invariant.
THEOREM GuestInvariance == GuestSpec => []GuestInv
BY GuestInitInv, GuestNextInv, PTL DEF GuestSpec

\* However far ahead the host sends, and however the stages end, the n-th
\* answer of serve_session answers the n-th frame it read, and an output
\* names the stage that was asked for.
THEOREM AnswersStayInOrder == GuestSpec => []AnswersInOrder
<1>1. GuestInv => AnswersInOrder
  BY MatchesAll
<1> QED BY <1>1, GuestInvariance, PTL

\* Whenever the agent takes the next frame, or has ended, run_command has
\* reaped the command of the stage before: two commands never run at once.
THEOREM CommandsDoNotOverlap == GuestSpec => []OneCommandAtATime
<1>1. GuestInv => OneCommandAtATime
  BY DEF GuestInv, StageInProgress, OneCommandAtATime
<1> QED BY <1>1, GuestInvariance, PTL

\* Whatever the command writes, at most BOOT_OUTPUT_LIMIT of it is read, the
\* pipe's capacity is respected and no frame is answered twice.
THEOREM GuestTyped == GuestSpec => []GuestTypeOK
<1>1. GuestInv => GuestTypeOK
  BY DEF GuestInv
<1> QED BY <1>1, GuestInvariance, PTL

=============================================================================
