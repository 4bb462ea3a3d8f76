--------------------- MODULE FirecrackerExecutorProofs ----------------------
(***************************************************************************)
(* Proofs about the executor of a judge node, for any number of VMMs,      *)
(* attempts and crashes of the node, and any timeout and bound.            *)
(***************************************************************************)
EXTENDS FirecrackerExecutor, StagePipelineProofs

Steps == {"idle", "stage", "boot", "connect", "ask", "wait", "fail", "end", "down"}

\* The attempt goes on: no stage of it has failed.
InStage == executor.step \in {"stage", "boot", "connect", "ask", "wait"}

Executors == [step : Steps, session : Vmms \cup {None}, negotiated : BOOLEAN,
              last_run_exit : {None, 0, 1, 124}, terminated : BOOLEAN, waited : 0 .. ReadTimeout]
Frames == [type : {"negotiate"} \cup Range(Stages), attempt : Nat]
GuestFrames ==
    [type : {"negotiated"}, supported : BOOLEAN, for : Frames]
    \cup [type : {"stage_output"}, exit_code : {0, 1, 124},
          diagnostic : 0 .. GuestDiagnostic, for : Frames]
Guests == [agent : {"booting", "listening", "serving", "ended"}, negotiated : BOOLEAN,
           inbox : Seq(Frames), outbox : Seq(GuestFrames)]
Owners == [attempt : Nat, node : Nat]

\* A handle has a child from the spawn until terminate took it.
HandleHasChild ==
    /\ vm.phase \in {"Idle", "Terminating", "Terminated"} => vm.child = None
    /\ vm.phase \in {"Configuring", "Started"} => vm.child # None
    /\ vm.phase = "Launching" /\ ~vm.failed => vm.child # None
    /\ vm.phase \in {"Idle", "Launching"} => vm.puts = 0
    /\ vm.phase = "Configuring" => vm.puts < 5
    /\ vm.child # None => owner[vm.child] = [attempt |-> attempt, node |-> crashes]
                          /\ processes[vm.child] # "unused"

\* Only the child of the handle is alive among the processes that this node
\* process spawned; the others are of node processes that crashed.
ChildAlone ==
    \A v \in Vmms :
        processes[v] # "unused" =>
            /\ owner[v] \in Owners /\ owner[v].node <= crashes
            /\ Alive(v) /\ owner[v].node = crashes => v = vm.child

\* A path that a VMM of this node process bound is its child's, and is removed
\* before the handle lets go.
PathIsChilds(path) ==
    path # None =>
        /\ processes[path] # "unused"
        /\ owner[path].node = crashes =>
              /\ vm.phase \notin {"Idle", "Terminated"}
              /\ vm.phase # "Terminating" => path = vm.child

(***************************************************************************)
(* The VMs of the node: what the handle knows of the processes and paths   *)
(* of the host, and what is left from node processes before this one.      *)
(***************************************************************************)
VmInv ==
    /\ VmTypeOK
    /\ owner \in [Vmms -> Owners \cup {None}] /\ attempt \in Nat /\ crashes \in Nat
    /\ HandleHasChild
    /\ ChildAlone
    /\ PathIsChilds(api)
    /\ PathIsChilds(uds)

\* Where execute is says how far the handle and the session have come.
StepAgrees ==
    /\ executor.step \in {"idle", "down"} => vm.phase = "Terminated" /\ executor.session = None
    /\ executor.step = "stage" =>
          vm.phase = IF executor.session = None THEN "Terminated" ELSE "Started"
    /\ executor.step = "boot" =>
          /\ executor.session = None
          /\ vm.phase \notin {"Terminating", "Terminated"}
    /\ executor.step = "connect" => executor.session = None /\ vm.phase = "Started"
    /\ executor.step \in {"ask", "wait"} => executor.session # None /\ vm.phase = "Started"
    /\ InStage \/ executor.step = "fail" => outcome = Running
    /\ InStage => ~executor.terminated
    /\ ~InStage => outcome # Running \/ executor.step = "fail"
    /\ executor.step \in {"boot", "connect", "ask", "wait"} => Stage \in {"build", "run"}

\* The session is with a guest that serves it; unless an earlier node process
\* left that guest, it is in the VM of this attempt.
SessionAgrees ==
    executor.session # None =>
        /\ guests[executor.session].agent = "serving"
        /\ processes[executor.session] # "unused"
        /\ InStage /\ owner[executor.session].node = crashes => executor.session = vm.child

\* What the executor knows of the guest is what it learned from this guest.
KnowledgeIsOwn ==
    /\ executor.step \in {"idle", "down"} =>
          executor.terminated \/ (~executor.negotiated /\ executor.last_run_exit = None)
    /\ InStage =>
          /\ executor.negotiated =>
                executor.session # None /\ guests[executor.session].negotiated
          /\ executor.last_run_exit = None <=> Len(reports) < 3
          /\ Len(reports) >= 3 => executor.last_run_exit = 0

\* The frame that the executor asks, or has asked.
Asked == [type |-> IF executor.negotiated THEN Stage ELSE "negotiate", attempt |-> attempt]

\* One frame at a time is under way, and only while the executor waits.
OneInFlight ==
    /\ \A v \in Vmms : guests[v].agent # "serving" =>
          guests[v].inbox = << >> /\ guests[v].outbox = << >>
    /\ InStage /\ executor.session # None =>
          LET guest == guests[executor.session] IN
          IF executor.step = "wait"
          THEN \/ guest.inbox = <<Asked>> /\ guest.outbox = << >>
               \/ /\ guest.inbox = << >>
                  /\ \E answer \in Answers(Asked) : guest.outbox = <<answer>>
          ELSE guest.inbox = << >> /\ guest.outbox = << >>

\* evaluate never finds that the executor broke the contract of a stage.
ContractKept == outcome.state = "error" => outcome.error # "InvalidExecutorOutput"

(***************************************************************************)
(* The inductive invariant.                                                *)
(***************************************************************************)
ExecutorInv ==
    /\ executor \in Executors /\ guests \in [Vmms -> Guests]
    /\ VmInv
    /\ PipelineInv
    /\ StepAgrees
    /\ SessionAgrees
    /\ KnowledgeIsOwn
    /\ OneInFlight
    /\ ContractKept

-----------------------------------------------------------------------------
(***************************************************************************)
(* The steps of the VMs.                                                   *)
(***************************************************************************)

\* A process that was spawned stays spawned, and stays whose it is.
UsedStays ==
    \A v \in Vmms : processes[v] # "unused" =>
        processes'[v] # "unused" /\ owner'[v] = owner[v]

LEMMA PutNames ==
    ASSUME NEW n \in 0 .. 4
    PROVE  Puts[n + 1] = "actions" <=> n = 4
<1>1. n = 0 \/ n = 1 \/ n = 2 \/ n = 3 \/ n = 4
  OBVIOUS
<1> QED BY <1>1 DEF Puts

LEMMA LaunchKeepsVm ==
    ASSUME VmInv, NEW v \in Vmms, Launch(v),
           owner' = [owner EXCEPT ![v] = [attempt |-> attempt, node |-> crashes]],
           UNCHANGED <<attempt, crashes>>
    PROVE  VmInv' /\ UsedStays /\ vm'.phase = "Launching"
<1>1. /\ VmTypeOK /\ owner \in [Vmms -> Owners \cup {None}] /\ attempt \in Nat /\ crashes \in Nat
      /\ vm.phase = "Idle" /\ vm.child = None /\ vm.puts = 0 /\ processes[v] = "unused"
      /\ api' = api /\ uds' = uds
  BY DEF VmInv, HandleHasChild, Launch
<1>2. [attempt |-> attempt, node |-> crashes] \in Owners
  BY <1>1 DEF Owners
<1>3. /\ owner' \in [Vmms -> Owners \cup {None}]
      /\ owner'[v] = [attempt |-> attempt, node |-> crashes]
      /\ \A w \in Vmms \ {v} : owner'[w] = owner[w]
  BY <1>1, <1>2
<1>4. /\ vm' \in [phase : VmPhases, child : Vmms \cup {None}, puts : 0 .. 5, failed : BOOLEAN]
      /\ vm'.phase = "Launching" /\ vm'.child \in {None, v} /\ vm'.puts = 0
      /\ ~vm'.failed => vm'.child = v
      /\ vm'.child = v => processes' = [processes EXCEPT ![v] = "starting"]
      /\ vm'.child = None => processes' = processes
  BY <1>1, VmmAssumption DEF Launch, VmTypeOK, VmPhases
<1>5. /\ processes' \in [Vmms -> {"unused", "starting", "preboot", "booted", "dead"}]
      /\ \A w \in Vmms \ {v} : processes'[w] = processes[w]
      /\ vm'.child = v => processes'[v] = "starting"
      /\ vm'.child # v => processes'[v] = "unused"
  BY <1>1, <1>4, VmmAssumption DEF VmTypeOK
<1>6. UsedStays
  BY <1>1, <1>3, <1>5 DEF UsedStays
<1>7. VmTypeOK'
  BY <1>1, <1>4, <1>5 DEF VmTypeOK
<1>8. HandleHasChild'
  <2>1. vm'.child # None => vm'.child = v
    BY <1>4
  <2>2. vm'.child # None => /\ owner'[vm'.child] = [attempt |-> attempt', node |-> crashes']
                            /\ processes'[vm'.child] # "unused"
    BY <1>3, <1>5, <2>1
  <2> QED BY <1>4, <2>1, <2>2, VmmAssumption DEF HandleHasChild
<1>9. ChildAlone'
  <2> SUFFICES ASSUME NEW w \in Vmms, processes'[w] # "unused"
               PROVE  /\ owner'[w] \in Owners /\ owner'[w].node <= crashes'
                      /\ Alive(w)' /\ owner'[w].node = crashes' => w = vm'.child
    BY DEF ChildAlone
  <2>1. CASE w = v
    <3>1. owner'[w] \in Owners /\ owner'[w].node = crashes /\ crashes <= crashes
      BY <1>1, <1>2, <1>3, <2>1
    <3> QED BY <1>5, <2>1, <3>1
  <2>2. CASE w # v
    <3>1. processes[w] # "unused" /\ Alive(w)' = Alive(w) /\ owner'[w] = owner[w]
      BY <1>3, <1>5, <2>2 DEF Alive
    <3>2. ~(Alive(w) /\ owner[w].node = crashes)
      BY <1>1, <3>1, VmmAssumption DEF VmInv, ChildAlone
    <3> QED BY <3>1, <3>2 DEF VmInv, ChildAlone
  <2> QED BY <2>1, <2>2
<1>10. ASSUME NEW path \in {api, uds} PROVE path # None => /\ processes'[path] # "unused"
                                                           /\ owner'[path].node # crashes
  BY <1>1, <1>3, <1>5 DEF VmInv, VmTypeOK, PathIsChilds
<1>11. PathIsChilds(api)' /\ PathIsChilds(uds)'
  BY <1>1, <1>10 DEF PathIsChilds
<1> QED BY <1>1, <1>3, <1>4, <1>6, <1>7, <1>8, <1>9, <1>11 DEF VmInv

\* Steps that spawn nothing: the handle keeps its child or gives it up dead,
\* and no process comes back to life.
LEMMA NothingSpawned ==
    ASSUME VmInv, UNCHANGED <<owner, attempt, crashes>>, VmTypeOK',
           \A v \in Vmms : processes[v] # "unused" <=> processes'[v] # "unused",
           \A v \in Vmms : Alive(v)' => Alive(v),
           \/ vm'.child = vm.child
           \/ vm'.child = None /\ (vm.child # None => processes'[vm.child] = "dead")
    PROVE  ChildAlone' /\ UsedStays
<1>1. ChildAlone
  BY DEF VmInv
<1>2. UsedStays
  BY DEF UsedStays
<1>3. ASSUME NEW v \in Vmms, processes'[v] # "unused"
      PROVE  /\ owner'[v] \in Owners /\ owner'[v].node <= crashes'
             /\ Alive(v)' /\ owner'[v].node = crashes' => v = vm'.child
  BY <1>1, <1>3, VmmAssumption DEF ChildAlone, Alive
<1> QED BY <1>2, <1>3 DEF ChildAlone

LEMMA VmFields ==
    ASSUME VmTypeOK
    PROVE  /\ vm.phase \in VmPhases /\ vm.child \in Vmms \cup {None}
           /\ vm.puts \in 0 .. 5 /\ vm.failed \in BOOLEAN
           /\ \A v \in Vmms : processes[v] \in {"unused", "starting", "preboot", "booted", "dead"}
BY DEF VmTypeOK

LEMMA NewHandles ==
    /\ NewVm \in [phase : VmPhases, child : Vmms \cup {None}, puts : 0 .. 5, failed : BOOLEAN]
    /\ NewVm.phase = "Idle" /\ NewVm.child = None /\ NewVm.puts = 0
    /\ NoVm \in [phase : VmPhases, child : Vmms \cup {None}, puts : 0 .. 5, failed : BOOLEAN]
    /\ NoVm.phase = "Terminated" /\ NoVm.child = None
<1>1. "Idle" \in VmPhases /\ "Terminated" \in VmPhases
  BY DEF VmPhases
<1>2. NewVm = [phase |-> "Idle", child |-> None, puts |-> 0, failed |-> FALSE]
  BY DEF NewVm
<1>3. /\ NewVm \in [phase : VmPhases, child : Vmms \cup {None}, puts : 0 .. 5, failed : BOOLEAN]
      /\ NewVm.phase = "Idle" /\ NewVm.child = None /\ NewVm.puts = 0
  BY <1>1, <1>2
<1> QED BY <1>1, <1>3 DEF NoVm

LEMMA WaitForSocketKeepsVm ==
    ASSUME VmInv, WaitForSocket, UNCHANGED <<owner, attempt, crashes>>
    PROVE  VmInv' /\ UsedStays /\ vm'.phase \in {"Configuring", "Failed"} /\ vm'.child = vm.child
<1>1. /\ VmTypeOK /\ vm.phase = "Launching" /\ vm.child # None /\ vm.puts = 0
      /\ processes' = processes /\ api' = api /\ uds' = uds
  BY DEF VmInv, HandleHasChild, WaitForSocket, hostVars
<1>2. /\ vm' \in [phase : VmPhases, child : Vmms \cup {None}, puts : 0 .. 5, failed : BOOLEAN]
      /\ vm'.phase \in {"Configuring", "Failed"} /\ vm'.child = vm.child /\ vm'.puts = 0
  BY <1>1 DEF WaitForSocket, VmTypeOK, VmPhases
<1>3. VmTypeOK'
  BY <1>1, <1>2 DEF VmTypeOK
<1>4. ChildAlone' /\ UsedStays
  BY <1>1, <1>2, <1>3, NothingSpawned DEF Alive
<1>5. HandleHasChild'
  BY <1>1, <1>2 DEF VmInv, HandleHasChild
<1>6. PathIsChilds(api)' /\ PathIsChilds(uds)'
  BY <1>1, <1>2 DEF VmInv, PathIsChilds
<1> QED BY <1>2, <1>3, <1>4, <1>5, <1>6 DEF VmInv


LEMMA PutKeepsVm ==
    ASSUME VmInv, Put, UNCHANGED <<owner, attempt, crashes>>
    PROVE  /\ VmInv' /\ UsedStays /\ vm'.phase \in {"Configuring", "Started", "Failed"}
           /\ vm'.child = vm.child
<1> DEFINE put == Puts[vm.puts + 1]
<1>1. /\ VmTypeOK /\ vm.phase = "Configuring" /\ vm.child # None /\ vm.puts \in 0 .. 4
      /\ api' = api /\ vm.child \in Vmms
  BY VmFields DEF VmInv, HandleHasChild, Put
<1>2. put = "actions" <=> vm.puts = 4
  BY <1>1, PutNames
<1>3. \/ /\ vm' = [vm EXCEPT !.puts = @ + 1, !.phase = IF put = "actions" THEN "Started" ELSE @]
         /\ Accepts(put) /\ Effect(put)
      \/ /\ vm' = [vm EXCEPT !.phase = "Failed", !.failed = TRUE]
         /\ (Accepts(put) /\ Effect(put)) \/ UNCHANGED <<processes, uds>>
  BY DEF Put, StartedPhase
<1> HIDE DEF put
<1>4. /\ vm' \in [phase : VmPhases, child : Vmms \cup {None}, puts : 0 .. 5, failed : BOOLEAN]
      /\ vm'.phase \in {"Configuring", "Started", "Failed"} /\ vm'.child = vm.child
      /\ vm'.phase = "Configuring" => vm'.puts < 5
  <2>1. CASE vm' = [vm EXCEPT !.puts = @ + 1, !.phase = IF put = "actions" THEN "Started" ELSE @]
    <3>1. vm.puts + 1 \in 0 .. 5 /\ (vm.puts # 4 => vm.puts + 1 < 5)
      BY <1>1
    <3>2. CASE put = "actions"
      BY <1>1, <2>1, <3>1, <3>2 DEF VmTypeOK, VmPhases
    <3>3. CASE put # "actions"
      BY <1>1, <1>2, <2>1, <3>1, <3>3 DEF VmTypeOK, VmPhases
    <3> QED BY <3>2, <3>3
  <2>2. CASE vm' = [vm EXCEPT !.phase = "Failed", !.failed = TRUE]
    BY <1>1, <2>2 DEF VmTypeOK, VmPhases
  <2> QED BY <1>3, <2>1, <2>2
<1>5. /\ processes' \in [Vmms -> {"unused", "starting", "preboot", "booted", "dead"}]
      /\ \A v \in Vmms : processes[v] # "unused" <=> processes'[v] # "unused"
      /\ \A v \in Vmms : Alive(v)' => Alive(v)
      /\ uds' \in {uds, api} /\ (uds' # uds => api \in Vmms)
  <2>1. CASE Accepts(put) /\ Effect(put)
    <3>1. api \in Vmms /\ processes[api] = "preboot"
      BY <1>1, <2>1 DEF Accepts, VmTypeOK
    <3> QED BY <1>1, <2>1, <3>1 DEF Effect, Alive, VmTypeOK
  <2>2. CASE UNCHANGED <<processes, uds>>
    BY <1>1, <2>2 DEF Alive, VmTypeOK
  <2> QED BY <1>3, <2>1, <2>2
<1>6. VmTypeOK'
  BY <1>1, <1>4, <1>5 DEF VmTypeOK
<1>7. ChildAlone' /\ UsedStays
  BY <1>4, <1>5, <1>6, NothingSpawned
<1>8. HandleHasChild'
  BY <1>1, <1>4, <1>5 DEF VmInv, HandleHasChild
<1>9. ASSUME NEW path \in {api, uds}, path # None
      PROVE  /\ path \in Vmms /\ processes'[path] # "unused"
             /\ owner'[path].node = crashes' => path = vm'.child
  <2>1. path \in Vmms /\ PathIsChilds(path)
    BY <1>1, <1>9 DEF VmInv, VmTypeOK
  <2> QED BY <1>1, <1>4, <1>5, <1>9, <2>1 DEF PathIsChilds
<1>10. PathIsChilds(api)' /\ PathIsChilds(uds)'
  BY <1>1, <1>4, <1>5, <1>9 DEF PathIsChilds
<1> QED BY <1>4, <1>6, <1>7, <1>8, <1>10 DEF VmInv

LEMMA KillKeepsVm ==
    ASSUME VmInv, Kill, UNCHANGED <<owner, attempt, crashes>>
    PROVE  VmInv' /\ UsedStays /\ vm'.phase = "Terminating"
<1>1. VmTypeOK /\ vm.phase \notin {"Terminated", "Terminating"} /\ api' = api /\ uds' = uds
  BY DEF VmInv, Kill
<1>2. /\ vm' \in [phase : VmPhases, child : Vmms \cup {None}, puts : 0 .. 5, failed : BOOLEAN]
      /\ vm'.phase = "Terminating" /\ vm'.child = None
  BY <1>1 DEF Kill, VmTypeOK, VmPhases
<1>3. /\ processes' \in [Vmms -> {"unused", "starting", "preboot", "booted", "dead"}]
      /\ \A v \in Vmms : processes[v] # "unused" <=> processes'[v] # "unused"
      /\ \A v \in Vmms : Alive(v)' => Alive(v)
      /\ vm.child # None => processes'[vm.child] = "dead"
  <2>1. CASE vm.child = None
    BY <1>1, <2>1 DEF Kill, Alive, VmTypeOK
  <2>2. CASE vm.child # None
    <3>1. vm.child \in Vmms /\ processes[vm.child] # "unused"
      BY <1>1, <2>2, VmFields DEF VmInv, HandleHasChild
    <3>2. processes' = [processes EXCEPT ![vm.child] = "dead"]
      BY <2>2 DEF Kill
    <3> QED BY <1>1, <3>1, <3>2 DEF Alive, VmTypeOK
  <2> QED BY <2>1, <2>2
<1>4. VmTypeOK'
  BY <1>1, <1>2, <1>3 DEF VmTypeOK
<1>5. ChildAlone' /\ UsedStays
  BY <1>2, <1>3, <1>4, NothingSpawned
<1>6. HandleHasChild'
  BY <1>2 DEF HandleHasChild
<1>7. PathIsChilds(api)' /\ PathIsChilds(uds)'
  BY <1>1, <1>2, <1>3 DEF VmInv, PathIsChilds, VmTypeOK
<1> QED BY <1>2, <1>4, <1>5, <1>6, <1>7 DEF VmInv

LEMMA ReclaimKeepsVm ==
    ASSUME VmInv, Reclaim, UNCHANGED <<owner, attempt, crashes>>
    PROVE  VmInv' /\ UsedStays /\ vm'.phase = "Terminated"
<1>1. /\ VmTypeOK /\ vm.phase = "Terminating" /\ vm.child = None
      /\ processes' = processes /\ api' = None /\ uds' = None
  BY DEF VmInv, HandleHasChild, Reclaim
<1>2. /\ vm' \in [phase : VmPhases, child : Vmms \cup {None}, puts : 0 .. 5, failed : BOOLEAN]
      /\ vm'.phase = "Terminated" /\ vm'.child = None
  BY <1>1 DEF Reclaim, VmTypeOK, VmPhases
<1>3. VmTypeOK'
  BY <1>1, <1>2 DEF VmTypeOK
<1>4. ChildAlone' /\ UsedStays
  BY <1>1, <1>2, <1>3, NothingSpawned DEF Alive
<1>5. HandleHasChild'
  BY <1>2 DEF HandleHasChild
<1>6. PathIsChilds(api)' /\ PathIsChilds(uds)'
  BY <1>1 DEF PathIsChilds
<1> QED BY <1>2, <1>3, <1>4, <1>5, <1>6 DEF VmInv

LEMMA VmmStepKeepsVm ==
    ASSUME VmInv, NEW v \in Vmms, OpenApi(v) \/ VmmDies(v), UNCHANGED <<owner, attempt, crashes>>
    PROVE  VmInv' /\ UsedStays /\ vm' = vm
<1>1. VmTypeOK /\ vm' = vm /\ uds' = uds /\ Alive(v) /\ processes[v] # "unused"
  BY DEF VmInv, OpenApi, VmmDies, Alive
<1>2. /\ processes' \in [Vmms -> {"unused", "starting", "preboot", "booted", "dead"}]
      /\ \A w \in Vmms : processes[w] # "unused" <=> processes'[w] # "unused"
      /\ \A w \in Vmms : Alive(w)' => Alive(w)
      /\ api' = api \/ api' = v
  BY <1>1 DEF OpenApi, VmmDies, Alive, VmTypeOK
<1>3. VmTypeOK'
  BY <1>1, <1>2 DEF VmTypeOK
<1>4. ChildAlone' /\ UsedStays
  BY <1>1, <1>2, <1>3, NothingSpawned
<1>5. HandleHasChild'
  BY <1>1, <1>2, VmFields DEF VmInv, HandleHasChild
<1>6. PathIsChilds(uds)'
  BY <1>1, <1>2 DEF VmInv, PathIsChilds, VmTypeOK
<1>7. PathIsChilds(api)'
  <2>1. CASE api' = api
    BY <1>1, <1>2, <2>1 DEF VmInv, PathIsChilds, VmTypeOK
  <2>2. CASE api' = v
    <3>1. owner[v].node = crashes => v = vm.child
      BY <1>1 DEF VmInv, ChildAlone
    <3>2. v = vm.child => vm.phase \notin {"Idle", "Terminated"}
      BY VmmAssumption DEF VmInv, HandleHasChild
    <3> QED BY <1>1, <1>2, <2>2, <3>1, <3>2 DEF PathIsChilds
  <2> QED BY <1>2, <2>1, <2>2
<1> QED BY <1>1, <1>3, <1>4, <1>5, <1>6, <1>7 DEF VmInv

\* A new handle, or none, where the last one let go of everything.
LEMMA NewHandleKeepsVm ==
    ASSUME VmInv, vm.phase = "Terminated", vm' \in {NewVm, vm}, UNCHANGED hostVars,
           UNCHANGED <<owner, crashes>>, attempt' \in Nat
    PROVE  VmInv' /\ UsedStays
<1>1. VmTypeOK /\ vm.child = None /\ processes' = processes /\ api' = api /\ uds' = uds
  BY DEF VmInv, HandleHasChild, hostVars
<1>2. /\ vm' \in [phase : VmPhases, child : Vmms \cup {None}, puts : 0 .. 5, failed : BOOLEAN]
      /\ vm'.phase \in {"Idle", "Terminated"} /\ vm'.child = None
      /\ vm'.phase = "Idle" => vm'.puts = 0
  BY <1>1, NewHandles DEF VmTypeOK
<1>3. VmTypeOK'
  BY <1>1, <1>2 DEF VmTypeOK
<1>4. ChildAlone' /\ UsedStays
  BY <1>1, <1>2 DEF VmInv, ChildAlone, UsedStays, Alive
<1>5. HandleHasChild'
  BY <1>2 DEF HandleHasChild
<1>6. PathIsChilds(api)' /\ PathIsChilds(uds)'
  BY <1>1, <1>2 DEF VmInv, PathIsChilds
<1> QED BY <1>3, <1>4, <1>5, <1>6 DEF VmInv

\* After a crash everything on the host is of an earlier node process.
LEMMA CrashKeepsVm ==
    ASSUME VmInv, vm' = NoVm, UNCHANGED hostVars, UNCHANGED <<owner, attempt>>,
           crashes' = crashes + 1
    PROVE  VmInv' /\ UsedStays
<1>1. VmTypeOK /\ crashes \in Nat /\ processes' = processes /\ api' = api /\ uds' = uds
  BY DEF VmInv, hostVars
<1>2. /\ vm' \in [phase : VmPhases, child : Vmms \cup {None}, puts : 0 .. 5, failed : BOOLEAN]
      /\ vm'.phase = "Terminated" /\ vm'.child = None
  BY NewHandles
<1>3. VmTypeOK'
  BY <1>1, <1>2 DEF VmTypeOK
<1>4. \A v \in Vmms : processes[v] # "unused" =>
         /\ owner[v] \in Owners /\ owner[v].node <= crashes' /\ owner[v].node # crashes'
  BY <1>1 DEF VmInv, ChildAlone, Owners
<1>5. ChildAlone' /\ UsedStays
  BY <1>1, <1>4 DEF ChildAlone, UsedStays
<1>6. HandleHasChild'
  BY <1>2 DEF HandleHasChild
<1>7. PathIsChilds(api)' /\ PathIsChilds(uds)'
  BY <1>1, <1>4 DEF VmInv, PathIsChilds, VmTypeOK
<1> QED BY <1>1, <1>3, <1>5, <1>6, <1>7 DEF VmInv


-----------------------------------------------------------------------------
(***************************************************************************)
(* What most steps leave alone.                                            *)
(***************************************************************************)

LEMMA VmUntouched ==
    ASSUME VmInv, UNCHANGED <<vmVars, owner, attempt, crashes>>
    PROVE  VmInv' /\ UsedStays
<1>1. /\ processes' = processes /\ api' = api /\ uds' = uds /\ vm' = vm
      /\ owner' = owner /\ attempt' = attempt /\ crashes' = crashes
  BY DEF vmVars
<1> QED BY <1>1 DEF VmInv, VmTypeOK, HandleHasChild, ChildAlone, Alive, PathIsChilds, UsedStays

LEMMA PipelineUntouched ==
    ASSUME PipelineInv, ContractKept, UNCHANGED pipelineVars
    PROVE  /\ PipelineInv' /\ ContractKept' /\ outcome' = outcome /\ reports' = reports
           /\ Stage' = Stage
<1>1. reports' = reports /\ usage' = usage /\ decision' = decision /\ outcome' = outcome
  BY DEF pipelineVars
<1>2. PipelineInv'
  BY <1>1 DEF PipelineInv, PipelineTypeOK, GoesOn, FollowsPlan, NoFabricatedSuccess, HasResult
<1> QED BY <1>1, <1>2 DEF ContractKept, Stage

LEMMA ExecutorFields ==
    ASSUME NEW e \in Executors
    PROVE  /\ e.step \in Steps /\ e.session \in Vmms \cup {None}
           /\ e.negotiated \in BOOLEAN /\ e.terminated \in BOOLEAN
           /\ e.last_run_exit \in {None, 0, 1, 124} /\ e.waited \in 0 .. ReadTimeout
BY DEF Executors

LEMMA GuestFields ==
    ASSUME NEW g \in Guests
    PROVE  /\ g.agent \in {"booting", "listening", "serving", "ended"}
           /\ g.negotiated \in BOOLEAN /\ g.inbox \in Seq(Frames) /\ g.outbox \in Seq(GuestFrames)
BY DEF Guests

\* The executor and the run stay where they are, and the session's guest keeps
\* what is in flight.
LEMMA NodeUntouched ==
    ASSUME ExecutorInv, VmInv', UsedStays, vm'.phase = vm.phase, vm'.child = vm.child,
           guests' \in [Vmms -> Guests], UNCHANGED <<pipelineVars, executor, attempt, crashes>>,
           OneInFlight',
           executor.session # None =>
              /\ guests'[executor.session].agent = "serving"
              /\ guests'[executor.session].negotiated = guests[executor.session].negotiated
    PROVE  ExecutorInv'
<1>1. /\ PipelineInv' /\ ContractKept' /\ outcome' = outcome /\ reports' = reports
      /\ Stage' = Stage /\ executor' = executor /\ crashes' = crashes /\ InStage' = InStage
  BY PipelineUntouched DEF ExecutorInv, InStage
<1>2. executor \in Executors /\ executor.session \in Vmms \cup {None}
  BY ExecutorFields DEF ExecutorInv
<1>3. StepAgrees'
  BY <1>1 DEF ExecutorInv, StepAgrees
<1>4. SessionAgrees'
  BY <1>1, <1>2 DEF ExecutorInv, SessionAgrees, UsedStays
<1>5. KnowledgeIsOwn'
  BY <1>1 DEF ExecutorInv, KnowledgeIsOwn
<1> QED BY <1>1, <1>2, <1>3, <1>4, <1>5 DEF ExecutorInv

LEMMA VmmStepKeepsInv ==
    ASSUME ExecutorInv, NEW v \in Vmms, OpenApi(v) \/ VmmDies(v),
           UNCHANGED <<pipelineVars, executor, guests, owner, attempt, crashes>>
    PROVE  ExecutorInv'
<1>1. VmInv' /\ UsedStays /\ vm' = vm
  BY VmmStepKeepsVm DEF ExecutorInv
<1>2. /\ guests' = guests /\ executor' = executor /\ attempt' = attempt
      /\ reports' = reports
  BY DEF pipelineVars
<1>3. OneInFlight'
  BY <1>2 DEF ExecutorInv, OneInFlight, InStage, Asked, Stage
<1> QED BY <1>1, <1>2, <1>3, NodeUntouched DEF ExecutorInv, SessionAgrees

LEMMA GuestBootsKeepsInv ==
    ASSUME ExecutorInv, NEW v \in Vmms, GuestBoots(v)
    PROVE  ExecutorInv'
<1>1. VmInv' /\ UsedStays /\ vm' = vm
  BY VmUntouched DEF ExecutorInv, GuestBoots, vmVars
<1>2. /\ guests \in [Vmms -> Guests] /\ guests[v].agent = "booting"
      /\ guests' = [guests EXCEPT ![v].agent = "listening"]
      /\ executor' = executor /\ attempt' = attempt /\ reports' = reports
  BY DEF ExecutorInv, GuestBoots, pipelineVars
<1>3. /\ guests' \in [Vmms -> Guests]
      /\ guests'[v].inbox = guests[v].inbox /\ guests'[v].outbox = guests[v].outbox
      /\ \A w \in Vmms \ {v} : guests'[w] = guests[w]
  BY <1>2 DEF Guests
<1>4. executor.session # v /\ executor.session \in Vmms \cup {None}
  BY <1>2, VmmAssumption, ExecutorFields DEF ExecutorInv, SessionAgrees
<1>5. OneInFlight'
  <2>1. \A w \in Vmms : guests'[w].agent # "serving" =>
           guests'[w].inbox = << >> /\ guests'[w].outbox = << >>
    BY <1>2, <1>3 DEF ExecutorInv, OneInFlight
  <2>2. executor.session # None => guests'[executor.session] = guests[executor.session]
    BY <1>3, <1>4
  <2> QED BY <1>2, <2>1, <2>2 DEF ExecutorInv, OneInFlight, InStage, Asked, Stage
<1> QED BY <1>1, <1>2, <1>3, <1>4, <1>5, NodeUntouched DEF ExecutorInv, SessionAgrees, GuestBoots

LEMMA AnswersAreFrames ==
    ASSUME NEW frame \in Frames, NEW answer \in Answers(frame)
    PROVE  /\ answer \in GuestFrames /\ answer.for = frame
           /\ frame.type = "negotiate" <=> answer.type = "negotiated"
           /\ frame.type # "negotiate" => /\ answer.type = "stage_output"
                                          /\ answer.exit_code \in {0, 1, 124}
BY DEF Answers, GuestFrames

LEMMA GuestAnswersKeepsInv ==
    ASSUME ExecutorInv, NEW v \in Vmms, GuestAnswers(v)
    PROVE  ExecutorInv'
<1>1. VmInv' /\ UsedStays /\ vm' = vm
  BY VmUntouched DEF ExecutorInv, GuestAnswers, vmVars
<1>2. PICK answer \in Answers(Head(guests[v].inbox)) :
         guests' = [guests EXCEPT ![v].inbox = Tail(@), ![v].outbox = Append(@, answer)]
  BY DEF GuestAnswers
<1>3. /\ guests \in [Vmms -> Guests] /\ guests[v].agent = "serving" /\ guests[v].inbox # << >>
      /\ executor' = executor /\ attempt' = attempt /\ reports' = reports
  BY DEF ExecutorInv, GuestAnswers, pipelineVars
<1>4. /\ guests[v].inbox \in Seq(Frames) /\ guests[v].outbox \in Seq(GuestFrames)
      /\ Head(guests[v].inbox) \in Frames
  BY <1>3 DEF Guests
<1>5. answer \in GuestFrames
  BY <1>4, AnswersAreFrames
<1>6. /\ Tail(guests[v].inbox) \in Seq(Frames)
      /\ Append(guests[v].outbox, answer) \in Seq(GuestFrames)
  BY <1>3, <1>4, <1>5
<1>7. /\ guests' \in [Vmms -> Guests]
      /\ guests'[v].inbox = Tail(guests[v].inbox)
      /\ guests'[v].outbox = Append(guests[v].outbox, answer)
      /\ guests'[v].agent = "serving" /\ guests'[v].negotiated = guests[v].negotiated
      /\ \A w \in Vmms \ {v} : guests'[w] = guests[w]
  BY <1>2, <1>3, <1>6 DEF Guests
<1>8. executor.session \in Vmms \cup {None}
  BY ExecutorFields DEF ExecutorInv
<1>9. OneInFlight'
  <2>1. \A w \in Vmms : guests'[w].agent # "serving" =>
           guests'[w].inbox = << >> /\ guests'[w].outbox = << >>
    BY <1>7 DEF ExecutorInv, OneInFlight
  <2>2. CASE executor.session # v
    <3>1. executor.session # None => guests'[executor.session] = guests[executor.session]
      BY <1>7, <1>8, <2>2
    <3> QED BY <1>3, <2>1, <3>1 DEF ExecutorInv, OneInFlight, InStage, Asked, Stage
  <2>3. CASE executor.session = v /\ ~InStage
    BY <1>3, <2>1, <2>3 DEF OneInFlight, InStage
  <2>4. CASE executor.session = v /\ InStage
    <3>1. executor.step = "wait" /\ guests[v].inbox = <<Asked>> /\ guests[v].outbox = << >>
      BY <1>3, <2>4, VmmAssumption DEF ExecutorInv, OneInFlight
    <3>2. answer \in Answers(Asked) /\ guests'[v].inbox = << >> /\ guests'[v].outbox = <<answer>>
      BY <1>7, <3>1
    <3>3. Asked' = Asked
      BY <1>3 DEF Asked, Stage
    <3> QED BY <1>3, <2>1, <2>4, <3>1, <3>2, <3>3 DEF OneInFlight
  <2> QED BY <2>2, <2>3, <2>4
<1> QED BY <1>1, <1>3, <1>7, <1>8, <1>9, NodeUntouched DEF ExecutorInv, SessionAgrees, GuestAnswers


-----------------------------------------------------------------------------
(***************************************************************************)
(* The steps of execute.                                                   *)
(***************************************************************************)

\* A stage fails: the handle and the session are left to teardown.
LEMMA FailKeepsInv ==
    ASSUME ExecutorInv, InStage, UNCHANGED <<vmVars, pipelineVars, owner, attempt, crashes>>,
           executor' \in Executors, executor'.step = "fail",
           executor'.session = executor.session, guests' \in [Vmms -> Guests],
           \A v \in Vmms : guests'[v].agent = guests[v].agent,
           \A v \in Vmms : guests[v].agent # "serving" => guests'[v] = guests[v]
    PROVE  ExecutorInv'
<1>1. VmInv' /\ UsedStays
  BY VmUntouched DEF ExecutorInv
<1>2. PipelineInv' /\ ContractKept' /\ outcome' = outcome
  BY PipelineUntouched DEF ExecutorInv
<1>3. ~InStage'
  BY DEF InStage
<1>4. StepAgrees'
  BY <1>2, <1>3 DEF ExecutorInv, StepAgrees
<1>5. executor.session \in Vmms \cup {None}
  BY ExecutorFields DEF ExecutorInv
<1>6. SessionAgrees'
  BY <1>1, <1>3, <1>5 DEF ExecutorInv, SessionAgrees, UsedStays
<1>7. KnowledgeIsOwn'
  BY <1>3 DEF KnowledgeIsOwn
<1>8. OneInFlight'
  BY <1>3 DEF ExecutorInv, OneInFlight
<1> QED BY <1>1, <1>2, <1>4, <1>6, <1>7, <1>8 DEF ExecutorInv

LEMMA StepsTyped ==
    ASSUME NEW e \in Executors, NEW s \in Steps
    PROVE  /\ [e EXCEPT !.step = s] \in Executors
           /\ [e EXCEPT !.step = s].step = s
           /\ [e EXCEPT !.step = s].session = e.session
           /\ [e EXCEPT !.step = s].negotiated = e.negotiated
           /\ [e EXCEPT !.step = s].terminated = e.terminated
           /\ [e EXCEPT !.step = s].last_run_exit = e.last_run_exit
BY DEF Executors

LEMMA WaitKeepsInv ==
    ASSUME ExecutorInv, Wait
    PROVE  ExecutorInv'
<1>1. VmInv' /\ UsedStays /\ vm' = vm
  BY VmUntouched DEF ExecutorInv, Wait, Executor, vmVars
<1>2. /\ PipelineInv' /\ ContractKept' /\ outcome' = outcome /\ reports' = reports
      /\ Stage' = Stage
  BY PipelineUntouched DEF ExecutorInv, Wait
<1>3. executor \in Executors /\ executor.waited < ReadTimeout /\ ReadTimeout \in Nat
  BY ExecutorAssumption DEF ExecutorInv, Wait
<1>4. executor.waited + 1 \in 0 .. ReadTimeout
  BY <1>3, ExecutorFields
<1>5. /\ executor' \in Executors
      /\ executor'.step = executor.step /\ executor'.session = executor.session
      /\ executor'.negotiated = executor.negotiated
      /\ executor'.terminated = executor.terminated
      /\ executor'.last_run_exit = executor.last_run_exit
  BY <1>3, <1>4 DEF Wait, Executor, Executors
<1>6. guests' = guests /\ attempt' = attempt /\ crashes' = crashes /\ owner' = owner
  BY DEF Wait, Executor
<1>7. InStage' = InStage /\ Asked' = Asked
  BY <1>2, <1>5, <1>6 DEF InStage, Asked
<1>8. StepAgrees'
  BY <1>1, <1>2, <1>5, <1>7 DEF ExecutorInv, StepAgrees
<1>9. SessionAgrees'
  BY <1>1, <1>3, <1>5, <1>6, <1>7, ExecutorFields DEF ExecutorInv, SessionAgrees, UsedStays
<1>10. KnowledgeIsOwn'
  BY <1>2, <1>5, <1>6, <1>7 DEF ExecutorInv, KnowledgeIsOwn
<1>11. OneInFlight'
  BY <1>5, <1>6, <1>7 DEF ExecutorInv, OneInFlight
<1> QED BY <1>1, <1>2, <1>5, <1>6, <1>8, <1>9, <1>10, <1>11 DEF ExecutorInv

LEMMA ReceiveFailsKeepsInv ==
    ASSUME ExecutorInv, ReceiveFails
    PROVE  ExecutorInv'
<1>1. executor \in Executors /\ executor' = [executor EXCEPT !.step = "fail"] /\ InStage
  BY DEF ExecutorInv, ReceiveFails, Executor, At, InStage
<1>2. /\ executor' \in Executors /\ executor'.step = "fail"
      /\ executor'.session = executor.session
  BY <1>1, StepsTyped DEF Steps
<1> QED BY <1>1, <1>2, FailKeepsInv DEF ExecutorInv, ReceiveFails, Executor

\* A step towards the guest of a stage: boot to connect to ask, all with the
\* same knowledge, the same run and no frame under way.
LEMMA AdvanceKeepsInv ==
    ASSUME ExecutorInv, InStage, executor.step # "wait", Stage \in {"build", "run"},
           VmInv', UsedStays, UNCHANGED <<pipelineVars, attempt, crashes>>,
           executor' \in Executors, executor'.step \in {"boot", "connect", "ask"},
           executor'.negotiated = executor.negotiated, executor'.terminated = executor.terminated,
           executor'.last_run_exit = executor.last_run_exit,
           executor'.session = executor.session, guests' = guests,
           executor'.step = "boot" => /\ executor.session = None
                                      /\ vm'.phase \notin {"Terminating", "Terminated"},
           executor'.step = "connect" => executor.session = None /\ vm'.phase = "Started",
           executor'.step = "ask" => executor.session # None /\ vm'.phase = "Started"
                                     /\ vm'.child = vm.child
    PROVE  ExecutorInv'
<1>1. /\ PipelineInv' /\ ContractKept' /\ outcome' = outcome /\ reports' = reports
      /\ Stage' = Stage
  BY PipelineUntouched DEF ExecutorInv
<1>2. InStage' /\ crashes' = crashes /\ attempt' = attempt /\ executor'.step # "wait"
  BY DEF InStage
<1>3. StepAgrees'
  BY <1>1, <1>2 DEF ExecutorInv, StepAgrees
<1>4. executor.session \in Vmms \cup {None}
  BY ExecutorFields DEF ExecutorInv
<1>5. SessionAgrees'
  <2>1. CASE executor.session = None
    BY <2>1 DEF SessionAgrees
  <2>2. CASE executor.session # None
    BY <1>2, <1>4, <2>2 DEF ExecutorInv, SessionAgrees, UsedStays
  <2> QED BY <2>1, <2>2
<1>6. KnowledgeIsOwn'
  BY <1>1, <1>2 DEF ExecutorInv, KnowledgeIsOwn, InStage
<1>7. OneInFlight'
  BY <1>2 DEF ExecutorInv, OneInFlight
<1> QED BY <1>1, <1>3, <1>5, <1>6, <1>7 DEF ExecutorInv

LEMMA GuestStageKeepsInv ==
    ASSUME ExecutorInv, GuestStage
    PROVE  ExecutorInv'
<1>1. /\ executor.step = "stage" /\ Stage \in {"build", "run"} /\ executor \in Executors
      /\ InStage /\ guests' = guests /\ UNCHANGED <<hostVars, pipelineVars, owner, attempt, crashes>>
      /\ VmInv /\ attempt \in Nat
  BY DEF ExecutorInv, GuestStage, At, InStage, Executor, VmInv
<1>2. CASE executor.session = None
  <2>1. vm' = NewVm /\ executor' = [executor EXCEPT !.step = "boot"]
    BY <1>2 DEF GuestStage, Executor
  <2>2. vm.phase = "Terminated"
    BY <1>1, <1>2 DEF ExecutorInv, StepAgrees
  <2>3. VmInv' /\ UsedStays
    BY <1>1, <2>1, <2>2, NewHandleKeepsVm
  <2>4. vm'.phase = "Idle"
    BY <2>1, NewHandles
  <2> QED BY <1>1, <1>2, <2>1, <2>3, <2>4, StepsTyped, AdvanceKeepsInv DEF Steps
<1>3. CASE executor.session # None
  <2>1. vm' = vm /\ executor' = [executor EXCEPT !.step = "ask"]
    BY <1>3 DEF GuestStage, Executor
  <2>2. vm.phase = "Started"
    BY <1>1, <1>3 DEF ExecutorInv, StepAgrees
  <2>3. VmInv' /\ UsedStays
    BY <1>1, <2>1, VmUntouched DEF vmVars, hostVars
  <2> QED BY <1>1, <1>3, <2>1, <2>2, <2>3, StepsTyped, AdvanceKeepsInv DEF Steps
<1> QED BY <1>2, <1>3

LEMMA BootKeepsInv ==
    ASSUME ExecutorInv, Boot
    PROVE  ExecutorInv'
<1>1. /\ executor.step = "boot" /\ executor \in Executors /\ InStage /\ guests' = guests
      /\ UNCHANGED <<pipelineVars, attempt, crashes>> /\ VmInv
  BY DEF ExecutorInv, Boot, At, InStage
<1>2. executor.session = None /\ Stage \in {"build", "run"}
  BY <1>1 DEF ExecutorInv, StepAgrees
<1>3. ASSUME VmInv', UsedStays, executor' = executor, vm'.phase \notin {"Terminating", "Terminated"}
      PROVE  ExecutorInv'
  BY <1>1, <1>2, <1>3, AdvanceKeepsInv
<1>4. ASSUME NEW v \in Vmms, Launch(v), executor' = executor,
             owner' = [owner EXCEPT ![v] = [attempt |-> attempt, node |-> crashes]]
      PROVE  ExecutorInv'
  BY <1>1, <1>3, <1>4, LaunchKeepsVm
<1>5. CASE WaitForSocket /\ UNCHANGED <<executor, owner>>
  BY <1>1, <1>3, <1>5, WaitForSocketKeepsVm
<1>6. CASE Put /\ UNCHANGED <<executor, owner>>
  BY <1>1, <1>3, <1>6, PutKeepsVm
<1>7. CASE executor' = [executor EXCEPT !.step = "fail"] /\ UNCHANGED <<vmVars, owner>>
  <2>1. /\ executor' \in Executors /\ executor'.step = "fail"
        /\ executor'.session = executor.session
    BY <1>1, <1>7, StepsTyped DEF Steps
  <2> QED BY <1>1, <1>7, <2>1, FailKeepsInv DEF ExecutorInv
<1>8. CASE /\ vm.phase = "Started" /\ executor' = [executor EXCEPT !.step = "connect"]
           /\ UNCHANGED <<vmVars, owner>>
  <2>1. VmInv' /\ UsedStays /\ vm' = vm
    BY <1>1, <1>8, VmUntouched DEF vmVars
  <2> QED BY <1>1, <1>2, <1>8, <2>1, StepsTyped, AdvanceKeepsInv DEF Steps
<1> QED BY <1>4, <1>5, <1>6, <1>7, <1>8 DEF Boot


\* The guest's side of a session that is opened, or given up at once.
LEMMA SessionChanges ==
    ASSUME guests \in [Vmms -> Guests], NEW v \in Vmms,
           \/ guests' = [guests EXCEPT ![v].agent = "serving"]
           \/ guests' = SessionDropped(v)
    PROVE  /\ guests' \in [Vmms -> Guests]
           /\ \A w \in Vmms \ {v} : guests'[w] = guests[w]
           /\ guests' = SessionDropped(v) => /\ guests'[v].agent = "ended"
                                             /\ guests'[v].inbox = << >>
                                             /\ guests'[v].outbox = << >>
           /\ guests' # SessionDropped(v) => /\ guests'[v].agent = "serving"
                                             /\ guests'[v].inbox = guests[v].inbox
                                             /\ guests'[v].outbox = guests[v].outbox
<1>1. /\ << >> \in Seq(Frames) /\ << >> \in Seq(GuestFrames) /\ FALSE \in BOOLEAN
  OBVIOUS
<1>2. /\ NewGuest \in Guests
      /\ NewGuest.inbox = << >> /\ NewGuest.outbox = << >>
  BY <1>1 DEF NewGuest, Guests
<1> DEFINE ended == [NewGuest EXCEPT !.agent = "ended"]
<1>3. ended \in Guests /\ ended.agent = "ended" /\ ended.inbox = << >> /\ ended.outbox = << >>
  BY <1>2 DEF Guests
<1>4. SessionDropped(v) = [guests EXCEPT ![v] = ended]
  BY DEF SessionDropped
<1> HIDE DEF ended
<1>5. CASE guests' = [guests EXCEPT ![v] = ended]
  BY <1>3, <1>4, <1>5
<1>6. CASE guests' = [guests EXCEPT ![v].agent = "serving"] /\ guests' # [guests EXCEPT ![v] = ended]
  <2>1. PICK g : g = [guests[v] EXCEPT !.agent = "serving"]
    OBVIOUS
  <2>2. guests[v] \in Guests
    OBVIOUS
  <2>3. /\ g \in Guests /\ g.agent = "serving"
        /\ g.inbox = guests[v].inbox /\ g.outbox = guests[v].outbox
    BY <2>1, <2>2 DEF Guests
  <2>4. guests' = [guests EXCEPT ![v] = g]
    BY <1>6, <2>1
  <2> QED BY <1>4, <1>6, <2>3, <2>4
<1> QED BY <1>4, <1>5, <1>6

\* A guest whose session is dropped has no frame any more.
LEMMA DropEmpties ==
    ASSUME ExecutorInv, NEW v \in Vmms, guests' = SessionDropped(v)
    PROVE  /\ guests' \in [Vmms -> Guests]
           /\ \A w \in Vmms : guests'[w].agent # "serving" =>
                 guests'[w].inbox = << >> /\ guests'[w].outbox = << >>
<1>1. guests \in [Vmms -> Guests]
  BY DEF ExecutorInv
<1>2. /\ guests' \in [Vmms -> Guests]
      /\ \A w \in Vmms \ {v} : guests'[w] = guests[w]
      /\ guests'[v].inbox = << >> /\ guests'[v].outbox = << >>
  BY <1>1, SessionChanges
<1> QED BY <1>2 DEF ExecutorInv, OneInFlight

LEMMA ConnectKeepsInv ==
    ASSUME ExecutorInv, Connect
    PROVE  ExecutorInv'
<1>1. /\ executor.step = "connect" /\ executor \in Executors /\ InStage /\ VmInv
      /\ UNCHANGED <<vmVars, pipelineVars, owner, attempt, crashes>>
      /\ guests \in [Vmms -> Guests]
  BY DEF ExecutorInv, Connect, At, InStage, Executor
<1>2. /\ executor.session = None /\ vm.phase = "Started" /\ outcome = Running
      /\ ~executor.terminated /\ Stage \in {"build", "run"} /\ ~executor.negotiated
      /\ (executor.last_run_exit = None <=> Len(reports) < 3)
      /\ (Len(reports) >= 3 => executor.last_run_exit = 0)
  BY <1>1 DEF ExecutorInv, StepAgrees, KnowledgeIsOwn
<1>3. VmInv' /\ UsedStays /\ vm' = vm /\ owner' = owner /\ crashes' = crashes
  BY <1>1, VmUntouched DEF vmVars
<1>4. /\ PipelineInv' /\ ContractKept' /\ outcome' = outcome /\ reports' = reports
      /\ Stage' = Stage
  BY <1>1, PipelineUntouched DEF ExecutorInv
<1>5. CASE executor' = [executor EXCEPT !.step = "fail"] /\ UNCHANGED guests
  <2>1. /\ executor' \in Executors /\ executor'.step = "fail"
        /\ executor'.session = executor.session
    BY <1>1, <1>5, StepsTyped DEF Steps
  <2> QED BY <1>1, <1>5, <2>1, FailKeepsInv
<1>6. ASSUME uds # None, guests[uds].agent = "listening",
             guests' = [guests EXCEPT ![uds].agent = "serving"],
             executor' = [executor EXCEPT !.step = "ask", !.session = uds]
      PROVE  ExecutorInv'
  <2>1. uds \in Vmms /\ processes[uds] # "unused" /\ (owner[uds].node = crashes => uds = vm.child)
    BY <1>1, <1>2, <1>6 DEF VmInv, VmTypeOK, PathIsChilds
  <2>2. guests[uds].inbox = << >> /\ guests[uds].outbox = << >>
    BY <1>6, <2>1 DEF ExecutorInv, OneInFlight
  <2>3. /\ guests' \in [Vmms -> Guests]
        /\ \A w \in Vmms \ {uds} : guests'[w] = guests[w]
        /\ guests'[uds].inbox = << >> /\ guests'[uds].outbox = << >>
    BY <1>1, <1>6, <2>1, <2>2, SessionChanges
  <2>4. guests'[uds].agent = "serving"
    BY <1>1, <1>6, <2>1 DEF Guests
  <2>5. /\ executor' \in Executors /\ executor'.step = "ask" /\ executor'.session = uds
        /\ executor'.negotiated = executor.negotiated
        /\ executor'.terminated = executor.terminated
        /\ executor'.last_run_exit = executor.last_run_exit
    BY <1>1, <1>6, <2>1 DEF Executors, Steps
  <2>6. InStage' /\ executor'.session # None
    BY <1>6, <2>5 DEF InStage
  <2>7. StepAgrees'
    BY <1>2, <1>3, <1>4, <2>5, <2>6 DEF StepAgrees
  <2>8. SessionAgrees'
    BY <1>3, <2>1, <2>4, <2>5 DEF SessionAgrees, UsedStays
  <2>9. KnowledgeIsOwn'
    BY <1>2, <1>4, <2>5 DEF KnowledgeIsOwn
  <2>10. OneInFlight'
    <3>1. \A w \in Vmms : guests'[w].agent # "serving" =>
             guests'[w].inbox = << >> /\ guests'[w].outbox = << >>
      BY <2>3 DEF ExecutorInv, OneInFlight
    <3> QED BY <2>3, <2>5, <3>1 DEF OneInFlight
  <2> QED BY <1>3, <1>4, <2>3, <2>5, <2>7, <2>8, <2>9, <2>10 DEF ExecutorInv
<1>7. ASSUME uds # None, guests' = SessionDropped(uds), executor' = executor
      PROVE  ExecutorInv'
  <2>1. uds \in Vmms
    BY <1>1, <1>7 DEF VmInv, VmTypeOK
  <2>2. /\ guests' \in [Vmms -> Guests]
        /\ \A w \in Vmms \ {uds} : guests'[w] = guests[w]
        /\ guests'[uds].inbox = << >> /\ guests'[uds].outbox = << >>
    BY <1>1, <1>7, <2>1, SessionChanges
  <2>3. OneInFlight'
    <3>1. \A w \in Vmms : guests'[w].agent # "serving" =>
             guests'[w].inbox = << >> /\ guests'[w].outbox = << >>
      BY <2>2 DEF ExecutorInv, OneInFlight
    <3> QED BY <1>2, <1>7, <3>1 DEF OneInFlight
  <2> QED BY <1>1, <1>2, <1>3, <1>7, <2>2, <2>3, NodeUntouched
<1> QED BY <1>5, <1>6, <1>7 DEF Connect, Executor

LEMMA AskKeepsInv ==
    ASSUME ExecutorInv, Ask
    PROVE  ExecutorInv'
<1> DEFINE session == executor.session
<1>1. /\ executor.step = "ask" /\ executor \in Executors /\ InStage /\ VmInv
      /\ UNCHANGED <<vmVars, pipelineVars, owner, attempt, crashes>>
      /\ guests \in [Vmms -> Guests] /\ attempt \in Nat
  BY DEF ExecutorInv, Ask, At, InStage, Executor, VmInv
<1>2. /\ session # None /\ vm.phase = "Started" /\ outcome = Running
      /\ ~executor.terminated /\ Stage \in {"build", "run"}
      /\ guests[session].inbox = << >> /\ guests[session].outbox = << >>
      /\ guests[session].agent = "serving" /\ processes[session] # "unused"
      /\ owner[session].node = crashes => session = vm.child
  BY <1>1 DEF ExecutorInv, StepAgrees, SessionAgrees, OneInFlight
<1>3. session \in Vmms
  BY <1>1, <1>2, ExecutorFields
<1>4. VmInv' /\ UsedStays /\ vm' = vm /\ owner' = owner /\ crashes' = crashes /\ attempt' = attempt
  BY <1>1, VmUntouched DEF vmVars
<1>5. /\ PipelineInv' /\ ContractKept' /\ outcome' = outcome /\ reports' = reports
      /\ Stage' = Stage
  BY <1>1, PipelineUntouched DEF ExecutorInv
<1>6. CASE executor' = [executor EXCEPT !.step = "fail"] /\ UNCHANGED guests
  <2>1. /\ executor' \in Executors /\ executor'.step = "fail"
        /\ executor'.session = executor.session
    BY <1>1, <1>6, StepsTyped DEF Steps
  <2> QED BY <1>1, <1>6, <2>1, FailKeepsInv
<1>7. CASE /\ guests' = [guests EXCEPT ![session].inbox = Append(@, Asked)]
           /\ executor' = [executor EXCEPT !.step = "wait", !.waited = 0]
  <2>1. Asked \in Frames
    <3>1. "build" \in Range(Stages) /\ "run" \in Range(Stages)
      BY ThePlan DEF Range
    <3> QED BY <1>1, <1>2, <3>1 DEF Asked, Frames
  <2>2. 0 \in 0 .. ReadTimeout
    BY ExecutorAssumption
  <2>3. /\ executor' \in Executors /\ executor'.step = "wait" /\ executor'.session = session
        /\ executor'.negotiated = executor.negotiated
        /\ executor'.terminated = executor.terminated
        /\ executor'.last_run_exit = executor.last_run_exit
    BY <1>1, <1>7, <2>2 DEF Executors, Steps
  <2>4. Append(guests[session].inbox, Asked) = <<Asked>> /\ <<Asked>> \in Seq(Frames)
    BY <1>2, <2>1
  <2>5. /\ guests' \in [Vmms -> Guests]
        /\ guests'[session].inbox = <<Asked>> /\ guests'[session].outbox = << >>
        /\ guests'[session].agent = "serving"
        /\ guests'[session].negotiated = guests[session].negotiated
        /\ \A w \in Vmms \ {session} : guests'[w] = guests[w]
    <3> HIDE DEF session
    <3> QED BY <1>1, <1>2, <1>3, <1>7, <2>4 DEF Guests
  <2>6. Asked' = Asked /\ InStage'
    BY <1>4, <1>5, <2>3 DEF Asked, InStage
  <2>7. StepAgrees'
    BY <1>2, <1>4, <1>5, <2>3, <2>6 DEF StepAgrees
  <2>8. SessionAgrees'
    BY <1>2, <1>3, <1>4, <2>3, <2>5 DEF SessionAgrees, UsedStays
  <2>9. KnowledgeIsOwn'
    BY <1>1, <1>5, <2>3, <2>5 DEF ExecutorInv, KnowledgeIsOwn
  <2>10. OneInFlight'
    <3>1. \A w \in Vmms : guests'[w].agent # "serving" =>
             guests'[w].inbox = << >> /\ guests'[w].outbox = << >>
      BY <2>5 DEF ExecutorInv, OneInFlight
    <3> QED BY <2>3, <2>5, <2>6, <3>1 DEF OneInFlight
  <2> QED BY <1>4, <1>5, <2>3, <2>5, <2>7, <2>8, <2>9, <2>10 DEF ExecutorInv
<1> QED BY <1>6, <1>7 DEF Ask, Executor, Asked

\* The run as record leaves it.
LEMMA RecordGoesOn ==
    ASSUME PipelineInv, NEW x \in Executions, Record(x)
    PROVE  /\ PipelineInv'
           /\ outcome'.state = "running" <=> outcome' = Running
           /\ outcome' = Running => /\ Len(reports') = Len(reports) + 1
                                    /\ x.kind = "Succeeded"
           /\ outcome'.state = "error" =>
                 \/ outcome'.error = "Domain"
                 \/ /\ outcome'.error = "InvalidExecutorOutput"
                    /\ \/ x.kind = "Succeeded" /\ ~ValidDecision(Stage, x.decision)
                       \/ x.kind = "Rejected" /\ ~ValidRejection(Stage, x.verdict)
<1>1. PipelineInv' /\ reports \in Seq(Reports)
  BY RecordKeepsInv DEF PipelineInv, PipelineTypeOK
<1>2. outcome'.state = "running" <=> outcome' = Running
  <2>1. outcome' \in {Idle, Running}
           \cup [state : {"error"},
                 error : {"UnsupportedCapability", "InvalidExecutorOutput", "Domain"}]
           \cup [state : {"result"}, status : {"completed", "failed", "cancelled"},
                 verdict : Verdicts, earned : 0 .. MaxScore]
    BY <1>1 DEF PipelineInv, PipelineTypeOK
  <2> QED BY <2>1, OutcomeStates
<1>3. CASE Fail("Domain")
  <2>1. outcome' = Error("Domain")
    BY <1>3 DEF Fail
  <2> QED BY <1>1, <1>2, <2>1, OutcomeStates
<1>4. CASE /\ Fail("InvalidExecutorOutput")
           /\ \/ x.kind = "Succeeded" /\ ~ValidDecision(Stage, x.decision)
              \/ x.kind = "Rejected" /\ ~ValidRejection(Stage, x.verdict)
  <2>1. outcome' = Error("InvalidExecutorOutput")
    BY <1>4 DEF Fail
  <2> QED BY <1>1, <1>2, <1>4, <2>1, OutcomeStates
<1>5. CASE /\ x.kind = "Succeeded" => ValidDecision(Stage, x.decision)
           /\ x.kind = "Rejected" => ValidRejection(Stage, x.verdict)
           /\ UsageFits(Added(usage, x.usage)) /\ Push(Stage, x)
  <2>1. outcome'.state # "error"
    BY <1>5, PushKeepsInv DEF Stage, Record, NoError
  <2>2. ASSUME outcome' = Running PROVE x.kind = "Succeeded"
    <3>1. \A rs : BuildResult(Terminal(x), rs) # Running
      BY OutcomeStates DEF BuildResult
    <3> QED BY <1>5, <2>2, <3>1 DEF Push
  <2>3. ASSUME x.kind = "Succeeded" PROVE Len(reports') = Len(reports) + 1
    <3>1. PICK report : reports' = Append(reports, report)
      BY <1>5, <2>3 DEF Push
    <3> QED BY <1>1, <3>1
  <2> QED BY <1>1, <1>2, <2>1, <2>2, <2>3
<1> QED BY <1>3, <1>4, <1>5 DEF Record, Stage


LEMMA ExecutionsMade ==
    /\ \A d \in Decisions \cup {NoDecision} : Execution("Succeeded", "none", d) \in Executions
    /\ \A verdict \in Verdicts : Execution("Rejected", verdict, NoDecision) \in Executions
    /\ StageFailed \in Executions
<1>1. NoUsage \in Usages
  BY PipelineAssumption DEF NoUsage, Usages
<1>2. TRUE \in BOOLEAN
  OBVIOUS
<1> QED BY <1>1, <1>2 DEF Execution, StageFailed, Executions

LEMMA ExecutionFields ==
    \A kind, verdict, d : /\ Execution(kind, verdict, d).kind = kind
                          /\ Execution(kind, verdict, d).verdict = verdict
                          /\ Execution(kind, verdict, d).decision = d
BY DEF Execution

\* A stage returns, and evaluate goes on to the next or is done.
LEMMA ReturnKeepsInv ==
    ASSUME ExecutorInv, executor.step \in {"stage", "wait"}, NEW x \in Executions, Record(x),
           x.kind = "Succeeded" => ValidDecision(Stage, x.decision),
           x.kind = "Rejected" => ValidRejection(Stage, x.verdict),
           UNCHANGED <<vmVars, owner, attempt, crashes>>,
           NEW e \in Executors, e.session = executor.session,
           e.negotiated = executor.negotiated, e.terminated = executor.terminated,
           executor' = [e EXCEPT !.step = IF outcome'.state = "running" THEN "stage" ELSE "end"],
           x.kind = "Succeeded" => /\ e.last_run_exit = None <=> Len(reports) + 1 < 3
                                   /\ Len(reports) + 1 >= 3 => e.last_run_exit = 0,
           guests' \in [Vmms -> Guests],
           \A v \in Vmms : guests'[v].agent # "serving" =>
              guests'[v].inbox = << >> /\ guests'[v].outbox = << >>,
           executor.session # None =>
              /\ guests'[executor.session].agent = "serving"
              /\ guests[executor.session].negotiated => guests'[executor.session].negotiated
              /\ guests'[executor.session].inbox = << >>
              /\ guests'[executor.session].outbox = << >>
    PROVE  ExecutorInv'
<1>1. VmInv' /\ UsedStays /\ vm' = vm /\ owner' = owner /\ crashes' = crashes
  BY VmUntouched DEF ExecutorInv, vmVars
<1>2. /\ PipelineInv'
      /\ outcome'.state = "running" <=> outcome' = Running
      /\ outcome' = Running => Len(reports') = Len(reports) + 1 /\ x.kind = "Succeeded"
      /\ outcome'.state = "error" => outcome'.error = "Domain"
  BY RecordGoesOn DEF ExecutorInv
<1>3. ContractKept'
  BY <1>2 DEF ContractKept
<1>4. /\ executor' \in Executors /\ executor'.session = executor.session
      /\ executor'.negotiated = executor.negotiated
      /\ executor'.terminated = executor.terminated
      /\ executor'.last_run_exit = e.last_run_exit
      /\ executor'.step \in {"stage", "end"}
      /\ executor'.step = "stage" <=> outcome' = Running
  <2>1. "stage" \in Steps /\ "end" \in Steps
    BY DEF Steps
  <2> QED BY <1>2, <2>1, StepsTyped
<1>5. /\ executor.session \in Vmms \cup {None}
      /\ vm.phase = (IF executor.session = None THEN "Terminated" ELSE "Started")
      /\ ~executor.terminated
  BY ExecutorFields DEF ExecutorInv, StepAgrees, InStage
<1>6. InStage' <=> outcome' = Running
  BY <1>4 DEF InStage
<1>7. StepAgrees'
  BY <1>1, <1>4, <1>5, <1>6 DEF StepAgrees
<1>8. SessionAgrees'
  BY <1>1, <1>4, <1>5 DEF ExecutorInv, SessionAgrees, UsedStays, InStage
<1>9. KnowledgeIsOwn'
  <2>1. InStage
    BY DEF InStage
  <2>2. executor.negotiated => executor.session # None /\ guests[executor.session].negotiated
    BY <2>1 DEF ExecutorInv, KnowledgeIsOwn
  <2> QED BY <1>2, <1>4, <1>6, <2>2 DEF KnowledgeIsOwn
<1>10. OneInFlight'
  BY <1>4 DEF OneInFlight
<1> QED BY <1>1, <1>2, <1>3, <1>4, <1>7, <1>8, <1>9, <1>10 DEF ExecutorInv

\* Which stage it is says how many are behind.
LEMMA StageCounts ==
    ASSUME PipelineInv, outcome = Running
    PROVE  /\ Len(reports) \in 0 .. 4
           /\ Stage = "prepare" <=> Len(reports) = 0
           /\ Stage = "build" <=> Len(reports) = 1
           /\ Stage = "run" <=> Len(reports) = 2
           /\ Stage = "check" <=> Len(reports) = 3
           /\ Stage = "aggregate" <=> Len(reports) = 4
<1>1. reports \in Seq(Reports) /\ Len(reports) < 5
  BY DEF PipelineInv, PipelineTypeOK, GoesOn
<1>2. PICK n \in Nat : Len(reports) = n /\ n < 5
  BY <1>1
<1>3. n = 0 \/ n = 1 \/ n = 2 \/ n = 3 \/ n = 4
  BY <1>2
<1>4. Stage = Stages[n + 1]
  BY <1>2 DEF Stage
<1>5. /\ n = 0 => Stage = "prepare"
      /\ n = 1 => Stage = "build"
      /\ n = 2 => Stage = "run"
      /\ n = 3 => Stage = "check"
      /\ n = 4 => Stage = "aggregate"
  BY <1>4, ThePlan
<1> QED BY <1>2, <1>3, <1>5

LEMMA HostStageKeepsInv ==
    ASSUME ExecutorInv, HostStage
    PROVE  ExecutorInv'
<1>1. /\ executor.step = "stage" /\ executor \in Executors /\ InStage
      /\ guests' = guests /\ guests \in [Vmms -> Guests]
      /\ UNCHANGED <<vmVars, owner, attempt, crashes>>
      /\ PipelineInv
  BY DEF ExecutorInv, HostStage, At, InStage, Return, Executor
<1>2. /\ outcome = Running
      /\ executor.last_run_exit = None <=> Len(reports) < 3
      /\ Len(reports) >= 3 => executor.last_run_exit = 0
      /\ \A v \in Vmms : guests[v].agent # "serving" =>
            guests[v].inbox = << >> /\ guests[v].outbox = << >>
      /\ executor.session # None =>
            /\ guests[executor.session].agent = "serving"
            /\ guests[executor.session].inbox = << >>
            /\ guests[executor.session].outbox = << >>
  BY <1>1 DEF ExecutorInv, StepAgrees, KnowledgeIsOwn, OneInFlight, SessionAgrees
<1>3. ASSUME NEW d \in Decisions \cup {NoDecision}, Stage \notin {"build", "run"},
             Return(Execution("Succeeded", "none", d), executor), ValidDecision(Stage, d)
      PROVE  ExecutorInv'
  <2> DEFINE x == Execution("Succeeded", "none", d)
  <2>1. x \in Executions /\ x.kind = "Succeeded" /\ x.decision = d
    BY ExecutionsMade, ExecutionFields
  <2>2. /\ Record(x)
        /\ executor' = [executor EXCEPT !.step = IF outcome'.state = "running" THEN "stage" ELSE "end"]
    BY <1>3 DEF Return, Executor
  <2> HIDE DEF x
  <2>3. /\ executor.last_run_exit = None <=> Len(reports) + 1 < 3
        /\ Len(reports) + 1 >= 3 => executor.last_run_exit = 0
    <3>1. Len(reports) \in {0, 3, 4}
      BY <1>1, <1>2, <1>3, StageCounts
    <3> QED BY <1>2, <3>1
  <2> QED BY <1>1, <1>2, <1>3, <2>1, <2>2, <2>3, ReturnKeepsInv
<1>4. CASE /\ Stage \in {"prepare", "aggregate"}
           /\ Return(Execution("Succeeded", "none", NoDecision), executor)
  BY <1>3, <1>4 DEF ValidDecision
<1>5. ASSUME Stage = "check", NEW d, Return(Execution("Succeeded", "none", d), executor),
             d \in {[verdict |-> "accepted", earned |-> 1], [verdict |-> "wrong_answer", earned |-> 0]}
      PROVE  ExecutorInv'
  <2>1. 0 \in 0 .. MaxScore /\ 1 \in 0 .. MaxScore
    BY PipelineAssumption, ExecutorAssumption
  <2>2. d \in Decisions
    BY <1>5, <2>1 DEF Decisions
  <2>3. d # NoDecision
    BY <1>5 DEF NoDecision
  <2> QED BY <1>3, <1>5, <2>2, <2>3 DEF ValidDecision
<1> QED BY <1>4, <1>5 DEF HostStage


\* The guest after its answer was read.
LEMMA AnswerRead ==
    ASSUME ExecutorInv, Receive
    PROVE  /\ executor.session \in Vmms /\ executor.step = "wait" /\ InStage
           /\ Head(guests[executor.session].outbox) \in Answers(Asked) /\ Asked \in Frames
           /\ guests' \in [Vmms -> Guests]
           /\ guests'[executor.session].inbox = << >> /\ guests'[executor.session].outbox = << >>
           /\ \A v \in Vmms : guests'[v].agent = guests[v].agent
           /\ \A v \in Vmms : guests[v].agent # "serving" => guests'[v] = guests[v]
           /\ guests'[executor.session].negotiated =
                 (guests[executor.session].negotiated
                  \/ Head(guests[executor.session].outbox).type = "negotiated")
<1> DEFINE session == executor.session
           guest == guests[session]
<1>1. executor.step = "wait" /\ InStage /\ guest.outbox # << >> /\ guests \in [Vmms -> Guests]
  BY DEF Receive, At, InStage, ExecutorInv
<1>2. /\ session # None /\ Stage \in {"build", "run"} /\ guest.agent = "serving"
      /\ attempt \in Nat
  BY <1>1 DEF ExecutorInv, StepAgrees, SessionAgrees, VmInv
<1>3. session \in Vmms
  BY <1>2, ExecutorFields DEF ExecutorInv
<1>4. Asked \in Frames
  <2>1. "build" \in Range(Stages) /\ "run" \in Range(Stages)
    BY ThePlan DEF Range
  <2> QED BY <1>2, <2>1 DEF Asked, Frames
<1>5. PICK answer \in Answers(Asked) : guest.inbox = << >> /\ guest.outbox = <<answer>>
  BY <1>1, <1>2 DEF ExecutorInv, OneInFlight
<1>6. Head(guest.outbox) = answer /\ Tail(guest.outbox) = << >> /\ << >> \in Seq(GuestFrames)
  BY <1>5
<1>7. /\ guest \in Guests /\ guest.negotiated \in BOOLEAN
      /\ (guest.negotiated \/ answer.type = "negotiated") \in BOOLEAN
  BY <1>1, <1>3, GuestFields
<1>8. guests' = [guests EXCEPT ![session].outbox = << >>,
                               ![session].negotiated = @ \/ answer.type = "negotiated"]
  BY <1>6 DEF Receive
<1> HIDE DEF session, guest
<1>9. /\ guests' \in [Vmms -> Guests]
      /\ \A v \in Vmms \ {session} : guests'[v] = guests[v]
      /\ guests'[session].inbox = guests[session].inbox /\ guests'[session].outbox = << >>
      /\ guests'[session].agent = guests[session].agent
      /\ guests'[session].negotiated = (guests[session].negotiated \/ answer.type = "negotiated")
  BY <1>1, <1>3, <1>6, <1>7, <1>8 DEF Guests, guest
<1> QED BY <1>1, <1>2, <1>3, <1>4, <1>5, <1>6, <1>9 DEF session, guest

LEMMA ReceiveKeepsInv ==
    ASSUME ExecutorInv, Receive
    PROVE  ExecutorInv'
<1> DEFINE session == executor.session
           answer == Head(guests[session].outbox)
<1>1. /\ session \in Vmms /\ executor.step = "wait" /\ InStage
      /\ answer \in Answers(Asked) /\ Asked \in Frames
      /\ guests' \in [Vmms -> Guests]
      /\ guests'[session].inbox = << >> /\ guests'[session].outbox = << >>
      /\ \A v \in Vmms : guests'[v].agent = guests[v].agent
      /\ \A v \in Vmms : guests[v].agent # "serving" => guests'[v] = guests[v]
      /\ guests'[session].negotiated = (guests[session].negotiated \/ answer.type = "negotiated")
  BY AnswerRead
<1>2. /\ UNCHANGED <<vmVars, owner, attempt, crashes>> /\ executor \in Executors
      /\ session # None /\ vm.phase = "Started" /\ outcome = Running /\ PipelineInv
      /\ ~executor.terminated /\ Stage \in {"build", "run"}
      /\ guests[session].agent = "serving" /\ processes[session] # "unused"
      /\ owner[session].node = crashes => session = vm.child
      /\ executor.negotiated => guests[session].negotiated
      /\ executor.last_run_exit = None <=> Len(reports) < 3
      /\ Len(reports) >= 3 => executor.last_run_exit = 0
  <2>1. UNCHANGED <<vmVars, owner, attempt, crashes>>
    BY DEF Receive, Executor, TakeOutput, Return
  <2> QED BY <1>1, <2>1 DEF ExecutorInv, StepAgrees, SessionAgrees, KnowledgeIsOwn
<1>3. \A v \in Vmms : guests'[v].agent # "serving" =>
         guests'[v].inbox = << >> /\ guests'[v].outbox = << >>
  BY <1>1 DEF ExecutorInv, OneInFlight
<1>4. Asked.type = (IF executor.negotiated THEN Stage ELSE "negotiate")
  BY DEF Asked
<1> HIDE DEF session, answer
<1>5. ASSUME NEW e \in Executors, e.session = executor.session,
             executor' = [e EXCEPT !.step = "fail"], UNCHANGED pipelineVars
      PROVE  ExecutorInv'
  <2>1. /\ executor' \in Executors /\ executor'.step = "fail"
        /\ executor'.session = executor.session
    BY <1>5, StepsTyped DEF Steps
  <2> QED BY <1>1, <1>2, <1>5, <2>1, FailKeepsInv
<1>6. CASE ~executor.negotiated /\ UNCHANGED pipelineVars
  <2>1. answer.type = "negotiated"
    BY <1>1, <1>4, <1>6, AnswersAreFrames
  <2>2. CASE executor' = [executor EXCEPT !.step = "fail"]
    BY <1>2, <1>5, <1>6, <2>2
  <2>3. CASE executor' = [executor EXCEPT !.step = "ask", !.negotiated = TRUE]
    <3>1. /\ executor' \in Executors /\ executor'.step = "ask" /\ executor'.session = session
          /\ executor'.negotiated = TRUE /\ executor'.terminated = executor.terminated
          /\ executor'.last_run_exit = executor.last_run_exit
      BY <1>2, <2>3 DEF Executors, Steps, session
    <3>2. VmInv' /\ UsedStays /\ vm' = vm /\ owner' = owner /\ crashes' = crashes
      BY <1>2, VmUntouched DEF ExecutorInv, vmVars
    <3>3. /\ PipelineInv' /\ ContractKept' /\ outcome' = outcome /\ reports' = reports
          /\ Stage' = Stage
      BY <1>6, PipelineUntouched DEF ExecutorInv
    <3>4. InStage'
      BY <3>1 DEF InStage
    <3>5. StepAgrees'
      BY <1>2, <3>1, <3>2, <3>3, <3>4 DEF StepAgrees
    <3>6. SessionAgrees'
      BY <1>1, <1>2, <3>1, <3>2 DEF SessionAgrees, UsedStays
    <3>7. KnowledgeIsOwn'
      BY <1>1, <1>2, <2>1, <3>1, <3>3 DEF KnowledgeIsOwn
    <3>8. OneInFlight'
      BY <1>1, <1>3, <3>1 DEF OneInFlight
    <3> QED BY <1>1, <3>1, <3>2, <3>3, <3>5, <3>6, <3>7, <3>8 DEF ExecutorInv
  <2> QED BY <1>6, <2>2, <2>3 DEF Receive, Executor
<1>7. CASE executor.negotiated
  <2>1. answer.type = "stage_output" /\ answer.exit_code \in {0, 1, 124}
    BY <1>1, <1>2, <1>4, <1>7, AnswersAreFrames
  <2> DEFINE e == IF Stage = "run" THEN [executor EXCEPT !.last_run_exit = answer.exit_code]
                  ELSE executor
  <2>2. /\ e \in Executors /\ e.session = executor.session
        /\ e.negotiated = executor.negotiated /\ e.terminated = executor.terminated
        /\ e.last_run_exit = IF Stage = "run" THEN answer.exit_code ELSE executor.last_run_exit
    BY <1>2, <2>1 DEF Executors
  <2>3. TakeOutput(answer)
    BY <1>7, <2>1 DEF Receive, answer, session
  <2>4. CASE answer.diagnostic > DomainDiagnostic
    <3>1. executor' = [e EXCEPT !.step = "fail"] /\ UNCHANGED pipelineVars
      BY <2>3, <2>4 DEF TakeOutput, Executor
    <3> HIDE DEF e
    <3> QED BY <1>5, <2>2, <3>1
  <2>5. CASE ~(answer.diagnostic > DomainDiagnostic)
    <3> DEFINE x == StageExecution(Stage, answer.exit_code)
    <3>1. /\ Record(x)
          /\ executor' = [e EXCEPT !.step = IF outcome'.state = "running" THEN "stage" ELSE "end"]
      BY <2>3, <2>5 DEF TakeOutput, Return, Executor
    <3>2. /\ x \in Executions
          /\ x.kind \in {"Succeeded", "Rejected"}
          /\ x.kind = "Succeeded" => x.decision = NoDecision /\ answer.exit_code = 0
          /\ x.kind = "Rejected" => ValidRejection(Stage, x.verdict)
      <4>1. CASE answer.exit_code = 0
        <5>1. x = Execution("Succeeded", "none", NoDecision)
          BY <4>1 DEF StageExecution
        <5> QED BY <4>1, <5>1, ExecutionsMade, ExecutionFields
      <4>2. CASE answer.exit_code # 0
        <5> DEFINE verdict == IF Stage = "build" THEN "compile_error" ELSE
                              IF answer.exit_code = 124 THEN "time_limit_exceeded"
                              ELSE "runtime_error"
        <5>1. x = Execution("Rejected", verdict, NoDecision)
          BY <4>2 DEF StageExecution
        <5>2. verdict \in Verdicts /\ ValidRejection(Stage, verdict)
          BY <1>2 DEF Verdicts, Rejections, ValidRejection
        <5> HIDE DEF verdict
        <5> QED BY <5>1, <5>2, ExecutionsMade, ExecutionFields
      <4> QED BY <4>1, <4>2
    <3> HIDE DEF x, e
    <3>3. x.kind = "Succeeded" => ValidDecision(Stage, x.decision)
      BY <1>2, <3>2 DEF ValidDecision
    <3>4. x.kind = "Succeeded" => /\ e.last_run_exit = None <=> Len(reports) + 1 < 3
                                  /\ Len(reports) + 1 >= 3 => e.last_run_exit = 0
      <4>1. CASE Stage = "build"
        <5>1. Len(reports) = 1
          BY <1>2, <4>1, StageCounts
        <5> QED BY <1>2, <2>2, <4>1, <5>1
      <4>2. CASE Stage = "run"
        <5>1. Len(reports) = 2
          BY <1>2, <4>2, StageCounts
        <5> QED BY <2>2, <3>2, <4>2, <5>1, ExecutorAssumption
      <4> QED BY <1>2, <4>1, <4>2
    <3> QED BY <1>1, <1>2, <1>3, <2>2, <3>1, <3>2, <3>3, <3>4, ReturnKeepsInv DEF session
  <2> QED BY <2>4, <2>5
<1> QED BY <1>6, <1>7 DEF Receive


-----------------------------------------------------------------------------
(***************************************************************************)
(* teardown, and the life of the node process.                             *)
(***************************************************************************)

\* Steps of the teardown, which knows the guest no more.
LEMMA TeardownKeepsInv ==
    ASSUME ExecutorInv, executor.step \in {"fail", "end"}, VmInv', UsedStays,
           PipelineInv', ContractKept', executor' \in Executors,
           executor'.step \in {"fail", "end"},
           executor'.step = "fail" <=> outcome' = Running,
           executor'.session \in {executor.session, None},
           executor'.session # None => guests' = guests,
           guests' \in [Vmms -> Guests],
           \A v \in Vmms : guests'[v].agent # "serving" =>
              guests'[v].inbox = << >> /\ guests'[v].outbox = << >>
    PROVE  ExecutorInv'
<1>1. ~InStage'
  BY DEF InStage
<1>2. StepAgrees'
  BY <1>1 DEF StepAgrees
<1>3. executor.session \in Vmms \cup {None}
  BY ExecutorFields DEF ExecutorInv
<1>4. SessionAgrees'
  BY <1>1, <1>3 DEF ExecutorInv, SessionAgrees, UsedStays
<1>5. KnowledgeIsOwn'
  BY <1>1 DEF KnowledgeIsOwn
<1>6. OneInFlight'
  BY <1>1 DEF OneInFlight
<1> QED BY <1>2, <1>4, <1>5, <1>6 DEF ExecutorInv

LEMMA TeardownSteps ==
    ASSUME ExecutorInv, TearingDown
    PROVE  executor.step \in {"fail", "end"} /\ (executor.step = "fail" <=> outcome = Running)
<1>1. executor.step \in {"fail", "end"}
  BY DEF TearingDown, At
<1> QED BY <1>1 DEF ExecutorInv, StepAgrees, InStage

LEMMA DropSessionKeepsInv ==
    ASSUME ExecutorInv, DropSession
    PROVE  ExecutorInv'
<1>1. /\ executor.step \in {"fail", "end"} /\ (executor.step = "fail" <=> outcome = Running)
      /\ executor \in Executors /\ guests \in [Vmms -> Guests]
  BY TeardownSteps DEF DropSession, ExecutorInv
<1>2. VmInv' /\ UsedStays
  BY VmUntouched DEF ExecutorInv, DropSession, Executor
<1>3. PipelineInv' /\ ContractKept' /\ outcome' = outcome
  BY PipelineUntouched DEF ExecutorInv, DropSession
<1>4. /\ executor' \in Executors /\ executor'.step = executor.step /\ executor'.session = None
  BY <1>1 DEF DropSession, Executor, Executors
<1>5. executor.session \in Vmms /\ guests' = SessionDropped(executor.session)
  BY <1>1, ExecutorFields DEF DropSession, Drop
<1>6. /\ guests' \in [Vmms -> Guests]
      /\ \A v \in Vmms : guests'[v].agent # "serving" =>
            guests'[v].inbox = << >> /\ guests'[v].outbox = << >>
  BY <1>5, DropEmpties
<1> QED BY <1>1, <1>2, <1>3, <1>4, <1>6, TeardownKeepsInv

LEMMA TerminateKeepsInv ==
    ASSUME ExecutorInv, Terminate
    PROVE  ExecutorInv'
<1>1. /\ executor.step \in {"fail", "end"} /\ (executor.step = "fail" <=> outcome = Running)
      /\ executor' = executor /\ guests' = guests /\ UNCHANGED <<owner, attempt, crashes>>
  BY TeardownSteps DEF Terminate
<1>2. VmInv' /\ UsedStays
  BY <1>1, KillKeepsVm, ReclaimKeepsVm DEF ExecutorInv, Terminate
<1>3. PipelineInv' /\ ContractKept' /\ outcome' = outcome
  BY PipelineUntouched DEF ExecutorInv, Terminate
<1>4. guests' \in [Vmms -> Guests] /\ executor' \in Executors
  BY <1>1 DEF ExecutorInv
<1>5. \A v \in Vmms : guests'[v].agent # "serving" =>
         guests'[v].inbox = << >> /\ guests'[v].outbox = << >>
  BY <1>1 DEF ExecutorInv, OneInFlight
<1> QED BY <1>1, <1>2, <1>3, <1>4, <1>5, TeardownKeepsInv

\* The executor is idle or down, and holds nothing.
LEMMA IdleExecutor ==
    ASSUME ExecutorInv, VmInv', UsedStays, PipelineInv', ContractKept', executor' \in Executors,
           executor'.step \in {"idle", "down"}, executor'.session = None,
           vm'.phase = "Terminated", outcome' # Running,
           executor'.terminated \/ (~executor'.negotiated /\ executor'.last_run_exit = None),
           guests' \in [Vmms -> Guests],
           \A v \in Vmms : guests'[v].agent # "serving" =>
              guests'[v].inbox = << >> /\ guests'[v].outbox = << >>
    PROVE  ExecutorInv'
<1>1. ~InStage'
  BY DEF InStage
<1>2. StepAgrees'
  BY <1>1 DEF StepAgrees
<1>3. SessionAgrees' /\ KnowledgeIsOwn' /\ OneInFlight'
  BY <1>1 DEF SessionAgrees, KnowledgeIsOwn, OneInFlight
<1> QED BY <1>2, <1>3 DEF ExecutorInv

LEMMA NewExecutorTyped ==
    /\ NewExecutor \in Executors /\ NewExecutor.step = "idle" /\ NewExecutor.session = None
    /\ ~NewExecutor.negotiated /\ NewExecutor.last_run_exit = None
<1>1. 0 \in 0 .. ReadTimeout /\ "idle" \in Steps /\ FALSE \in BOOLEAN
  BY ExecutorAssumption DEF Steps
<1> QED BY <1>1 DEF NewExecutor, Executors

LEMMA TornDownKeepsInv ==
    ASSUME ExecutorInv, TornDown
    PROVE  ExecutorInv'
<1>1. /\ executor.session = None /\ vm.phase = "Terminated" /\ executor \in Executors
      /\ guests' = guests /\ guests \in [Vmms -> Guests]
      /\ UNCHANGED <<vmVars, owner, attempt, crashes>>
      /\ \A v \in Vmms : guests[v].agent # "serving" =>
            guests[v].inbox = << >> /\ guests[v].outbox = << >>
  BY DEF ExecutorInv, TornDown, SessionTaken, Return, Executor, OneInFlight
<1>2. VmInv' /\ UsedStays /\ vm' = vm
  BY <1>1, VmUntouched DEF ExecutorInv, vmVars
<1>3. CASE At("fail")
  <2> DEFINE e == [executor EXCEPT !.terminated = TRUE]
  <2>1. /\ Record(StageFailed) /\ executor.step = "fail"
        /\ executor' = [e EXCEPT !.step = IF outcome'.state = "running" THEN "stage" ELSE "end"]
    BY <1>3 DEF TornDown, Return, Executor, At
  <2>2. StageFailed \in Executions /\ StageFailed.kind = "Failed"
    BY ExecutionsMade, ExecutionFields DEF StageFailed
  <2>3. PipelineInv' /\ outcome'.state # "running" /\ outcome' # Running /\ ContractKept'
    BY <2>1, <2>2, RecordGoesOn DEF ExecutorInv, ContractKept
  <2>4. e \in Executors /\ e.session = None /\ "end" \in Steps
    BY <1>1 DEF Executors, Steps
  <2> HIDE DEF e
  <2>5. executor' \in Executors /\ executor'.step = "end" /\ executor'.session = None
    BY <2>1, <2>3, <2>4, StepsTyped
  <2> QED BY <1>1, <1>2, <2>1, <2>3, <2>5, TeardownKeepsInv
<1>4. CASE At("end") /\ ~At("fail")
  <2>1. /\ executor' = [executor EXCEPT !.terminated = TRUE, !.step = "idle"]
        /\ executor.step = "end" /\ UNCHANGED pipelineVars
    BY <1>4 DEF TornDown, Executor, At
  <2>2. /\ executor' \in Executors /\ executor'.step = "idle" /\ executor'.session = None
        /\ executor'.terminated
    BY <1>1, <2>1 DEF Executors, Steps
  <2>3. PipelineInv' /\ ContractKept' /\ outcome' = outcome
    BY <2>1, PipelineUntouched DEF ExecutorInv
  <2>4. outcome # Running
    BY <2>1 DEF ExecutorInv, StepAgrees, InStage
  <2> QED BY <1>1, <1>2, <2>2, <2>3, <2>4, IdleExecutor
<1> QED BY <1>3, <1>4 DEF TornDown

LEMMA CrashKeepsInv ==
    ASSUME ExecutorInv, CrashNode
    PROVE  ExecutorInv'
<1>1. VmInv' /\ UsedStays
  BY CrashKeepsVm DEF ExecutorInv, CrashNode
<1>2. PipelineInv' /\ ContractKept' /\ outcome' # Running
  BY NewRunIsEmpty, OutcomeStates DEF CrashNode, ContractKept
<1>3. /\ executor' \in Executors /\ executor'.step = "down" /\ executor'.session = None
      /\ ~executor'.negotiated /\ executor'.last_run_exit = None
  <2>1. executor' = [NewExecutor EXCEPT !.step = "down"] /\ "down" \in Steps
    BY DEF CrashNode, Steps
  <2> QED BY <2>1, NewExecutorTyped, StepsTyped
<1>4. vm'.phase = "Terminated"
  BY NewHandles DEF CrashNode
<1>5. /\ guests' \in [Vmms -> Guests]
      /\ \A v \in Vmms : guests'[v].agent # "serving" =>
            guests'[v].inbox = << >> /\ guests'[v].outbox = << >>
  <2>1. executor.session \in Vmms \cup {None} /\ guests \in [Vmms -> Guests]
    BY ExecutorFields DEF ExecutorInv
  <2>2. CASE executor.session = None
    BY <2>1, <2>2 DEF CrashNode, Drop, ExecutorInv, OneInFlight
  <2>3. CASE executor.session # None
    <3>1. guests' = SessionDropped(executor.session) /\ executor.session \in Vmms
      BY <2>1, <2>3 DEF CrashNode, Drop
    <3> QED BY <3>1, DropEmpties
  <2> QED BY <2>2, <2>3
<1> QED BY <1>1, <1>2, <1>3, <1>4, <1>5, IdleExecutor

LEMMA RestartKeepsInv ==
    ASSUME ExecutorInv, RestartNode
    PROVE  ExecutorInv'
<1>1. /\ executor.step = "down" /\ executor' = NewExecutor /\ guests' = guests
      /\ guests \in [Vmms -> Guests] /\ UNCHANGED pipelineVars
      /\ UNCHANGED <<vmVars, owner, attempt, crashes>>
  BY DEF ExecutorInv, RestartNode, At, Executor
<1>2. VmInv' /\ UsedStays /\ vm' = vm
  BY <1>1, VmUntouched DEF ExecutorInv, vmVars
<1>3. PipelineInv' /\ ContractKept' /\ outcome' = outcome
  BY <1>1, PipelineUntouched DEF ExecutorInv
<1>4. outcome # Running /\ vm.phase = "Terminated"
  BY <1>1 DEF ExecutorInv, StepAgrees, InStage
<1>5. \A v \in Vmms : guests'[v].agent # "serving" =>
         guests'[v].inbox = << >> /\ guests'[v].outbox = << >>
  BY <1>1 DEF ExecutorInv, OneInFlight
<1> QED BY <1>1, <1>2, <1>3, <1>4, <1>5, NewExecutorTyped, IdleExecutor

LEMMA BeginAttemptKeepsInv ==
    ASSUME ExecutorInv, NEW supported \in BOOLEAN, BeginAttempt(supported)
    PROVE  ExecutorInv'
<1>1. /\ executor.step = "idle" /\ executor \in Executors /\ attempt' = attempt + 1
      /\ attempt \in Nat /\ guests' = guests /\ guests \in [Vmms -> Guests]
      /\ UNCHANGED <<vmVars, owner, crashes>> /\ VmInv
  BY DEF ExecutorInv, BeginAttempt, At, VmInv
<1>2. /\ vm.phase = "Terminated" /\ executor.session = None
      /\ executor.terminated \/ (~executor.negotiated /\ executor.last_run_exit = None)
  BY <1>1 DEF ExecutorInv, StepAgrees, KnowledgeIsOwn
<1>3. attempt' \in Nat /\ vm' = vm
  BY <1>1 DEF vmVars
<1>4. VmInv' /\ UsedStays
  BY <1>1, <1>2, <1>3, NewHandleKeepsVm DEF vmVars, hostVars
<1>5. /\ PipelineInv' /\ reports' = << >>
      /\ outcome' = IF supported THEN Running ELSE Error("UnsupportedCapability")
  <2>1. Begin(supported, "firecracker", FALSE, TRUE)
    BY DEF BeginAttempt
  <2>2. ValidProvenance("firecracker", FALSE, TRUE)
    BY DEF ValidProvenance
  <2> QED BY <2>1, <2>2, BeginKeepsInv DEF Begin
<1>6. ContractKept' /\ (outcome' = Running <=> supported)
  BY <1>5, OutcomeStates DEF ContractKept
<1>7. /\ Renewed(executor) \in Executors /\ Renewed(executor).session = None
      /\ ~Renewed(executor).negotiated /\ Renewed(executor).last_run_exit = None
      /\ ~Renewed(executor).terminated
  <2>1. CASE executor.terminated
    BY <1>1, <1>2, <2>1 DEF Renewed, Executors
  <2>2. CASE ~executor.terminated
    BY <1>1, <1>2, <2>2 DEF Renewed
  <2> QED BY <2>1, <2>2
<1>8. /\ executor' \in Executors /\ executor'.session = None
      /\ ~executor'.negotiated /\ executor'.last_run_exit = None /\ ~executor'.terminated
      /\ executor'.step = IF supported THEN "stage" ELSE "end"
  <2>1. "stage" \in Steps /\ "end" \in Steps
    BY DEF Steps
  <2> QED BY <1>7, <2>1, StepsTyped DEF BeginAttempt
<1>9. InStage' <=> supported
  BY <1>8 DEF InStage
<1>10. StepAgrees'
  BY <1>2, <1>3, <1>6, <1>8, <1>9 DEF StepAgrees
<1>11. SessionAgrees'
  BY <1>8 DEF SessionAgrees
<1>12. KnowledgeIsOwn'
  <2>1. Len(reports') = 0
    BY <1>5
  <2> QED BY <1>8, <2>1 DEF KnowledgeIsOwn
<1>13. OneInFlight'
  BY <1>1, <1>8 DEF ExecutorInv, OneInFlight
<1> QED BY <1>1, <1>4, <1>5, <1>6, <1>8, <1>10, <1>11, <1>12, <1>13 DEF ExecutorInv

LEMMA ExecutorInitInv == ExecutorInit => ExecutorInv
<1> SUFFICES ASSUME ExecutorInit PROVE ExecutorInv
  OBVIOUS
<1>1. PipelineInv /\ outcome = Idle /\ outcome # Running /\ ContractKept
  BY PipelineInitInv, OutcomeStates DEF ExecutorInit, PipelineInit, ContractKept
<1>2. executor = NewExecutor /\ executor \in Executors
  BY NewExecutorTyped DEF ExecutorInit
<1>3. /\ << >> \in Seq(Frames) /\ << >> \in Seq(GuestFrames) /\ FALSE \in BOOLEAN
  OBVIOUS
<1>4. NewGuest \in Guests /\ NewGuest.inbox = << >> /\ NewGuest.outbox = << >>
  BY <1>3 DEF NewGuest, Guests
<1>5. guests \in [Vmms -> Guests] /\ \A v \in Vmms : guests[v] = NewGuest
  BY <1>4 DEF ExecutorInit
<1>6. /\ vm = NoVm /\ api = None /\ uds = None /\ processes = [v \in Vmms |-> "unused"]
      /\ owner = [v \in Vmms |-> None] /\ attempt = 0 /\ crashes = 0
  BY DEF ExecutorInit, VmInit
<1>7. VmTypeOK
  BY <1>6, NewHandles DEF VmTypeOK
<1>8. VmInv
  BY <1>6, <1>7, NewHandles DEF VmInv, HandleHasChild, ChildAlone, PathIsChilds
<1>9. StepAgrees
  BY <1>1, <1>2, <1>6, NewExecutorTyped, NewHandles DEF StepAgrees, InStage
<1>10. SessionAgrees /\ KnowledgeIsOwn
  BY <1>2, NewExecutorTyped DEF SessionAgrees, KnowledgeIsOwn, InStage
<1>11. OneInFlight
  BY <1>2, <1>4, <1>5, NewExecutorTyped DEF OneInFlight
<1> QED BY <1>1, <1>2, <1>5, <1>8, <1>9, <1>10, <1>11 DEF ExecutorInv

LEMMA ExecutorNextInv == ExecutorInv /\ [ExecutorNext]_executorVars => ExecutorInv'
<1> SUFFICES ASSUME ExecutorInv, [ExecutorNext]_executorVars PROVE ExecutorInv'
  OBVIOUS
<1>1. CASE UNCHANGED executorVars
  <2>1. /\ UNCHANGED <<vmVars, owner, attempt, crashes>> /\ UNCHANGED pipelineVars
        /\ executor' = executor /\ guests' = guests
    BY <1>1 DEF executorVars
  <2>2. VmInv' /\ UsedStays /\ vm' = vm
    BY <2>1, VmUntouched DEF ExecutorInv, vmVars
  <2>3. OneInFlight'
    BY <2>1 DEF ExecutorInv, OneInFlight, InStage, Asked, Stage, pipelineVars
  <2> QED BY <2>1, <2>2, <2>3, NodeUntouched DEF ExecutorInv, SessionAgrees
<1>2. CASE ExecutorStep
  BY <1>2, HostStageKeepsInv, GuestStageKeepsInv, BootKeepsInv, ConnectKeepsInv, AskKeepsInv,
     ReceiveKeepsInv, WaitKeepsInv, ReceiveFailsKeepsInv, DropSessionKeepsInv, TerminateKeepsInv,
     TornDownKeepsInv DEF ExecutorStep
<1>3. ASSUME NEW v \in Vmms,
             \/ GuestBoots(v) \/ GuestAnswers(v)
             \/ /\ OpenApi(v) \/ VmmDies(v)
                /\ UNCHANGED <<pipelineVars, executor, guests, owner, attempt, crashes>>
      PROVE  ExecutorInv'
  BY <1>3, GuestBootsKeepsInv, GuestAnswersKeepsInv, VmmStepKeepsInv
<1>4. ASSUME NEW supported \in BOOLEAN, BeginAttempt(supported) PROVE ExecutorInv'
  BY <1>4, BeginAttemptKeepsInv
<1>5. CASE CrashNode \/ RestartNode
  BY <1>5, CrashKeepsInv, RestartKeepsInv
<1> QED BY <1>1, <1>2, <1>3, <1>4, <1>5 DEF ExecutorNext

-----------------------------------------------------------------------------
(***************************************************************************)
(* What the executor keeps, through any number of attempts and crashes.    *)
(***************************************************************************)

\* The executor, the VMMs, the guests and the crashes of the node process keep
\* the inductive invariant.
THEOREM ExecutorInvariance == ExecutorSpec => []ExecutorInv
BY ExecutorInitInv, ExecutorNextInv, PTL DEF ExecutorSpec

\* Wherever bootstrap, the channel or a stage failed, and whenever a VMM died:
\* when execute has returned, teardown has killed the VMM of the attempt and
\* removed both of its paths.  What is left is of node processes that crashed.
THEOREM VmIsReclaimed == ExecutorSpec => []NothingLeftBehind
<1>1. ExecutorInv => NothingLeftBehind
  <2> SUFFICES ASSUME ExecutorInv, executor.step = "idle"
               PROVE  /\ \A v \in Vmms : Alive(v) => owner[v].node < crashes
                      /\ \A v \in {api, uds} : v # None => owner[v].node < crashes
    BY DEF NothingLeftBehind, At
  <2>1. vm.phase = "Terminated" /\ vm.child = None /\ crashes \in Nat
    BY DEF ExecutorInv, StepAgrees, VmInv, HandleHasChild
  <2>2. ASSUME NEW v \in Vmms, processes[v] # "unused", owner[v].node # crashes
        PROVE  owner[v].node < crashes
    BY <2>1, <2>2 DEF ExecutorInv, VmInv, ChildAlone, Owners
  <2>3. ASSUME NEW v \in Vmms, Alive(v) PROVE owner[v].node < crashes
    <3>1. processes[v] # "unused" /\ owner[v].node # crashes
      BY <2>1, <2>3, VmmAssumption DEF Alive, ExecutorInv, VmInv, ChildAlone
    <3> QED BY <2>2, <3>1
  <2>4. ASSUME NEW v \in {api, uds}, v # None PROVE owner[v].node < crashes
    <3>1. v \in Vmms /\ processes[v] # "unused" /\ owner[v].node # crashes
      BY <2>1, <2>4 DEF ExecutorInv, VmInv, VmTypeOK, PathIsChilds
    <3> QED BY <2>2, <3>1
  <2> QED BY <2>3, <2>4
<1> QED BY <1>1, ExecutorInvariance, PTL

\* As long as the node process has not crashed, the guest that an attempt asks
\* is the one in the VM it booted itself, though all VMs share their paths.
THEOREM SessionIsOwn == ExecutorSpec => []SessionOnOwnVm
<1>1. ExecutorInv => SessionOnOwnVm
  <2> SUFFICES ASSUME ExecutorInv, crashes = 0, executor.step \in {"ask", "wait"}
               PROVE  executor.session = vm.child /\ owner[executor.session].attempt = attempt
    BY DEF SessionOnOwnVm, At
  <2>1. /\ executor.session # None /\ processes[executor.session] # "unused"
        /\ executor.session \in Vmms
        /\ owner[executor.session].node = crashes => executor.session = vm.child
    BY ExecutorFields DEF ExecutorInv, StepAgrees, SessionAgrees, InStage
  <2>2. owner[executor.session].node = crashes
    BY <2>1 DEF ExecutorInv, VmInv, ChildAlone, Owners
  <2> QED BY <2>1, <2>2 DEF ExecutorInv, VmInv, HandleHasChild
<1> QED BY <1>1, ExecutorInvariance, PTL

\* run_guest_stage does not compare the stage that an output names.  It need
\* not: what it waits for is all there is in the stream, in every run, also
\* with a guest that an earlier node process left.
THEOREM OutputIsThatOfTheStage == ExecutorSpec => []OutputIsOwn
<1>1. ExecutorInv => OutputIsOwn
  <2> SUFFICES ASSUME ExecutorInv, executor.step = "wait"
               PROVE  LET guest == guests[executor.session] IN
                      /\ executor.negotiated => guest.negotiated
                      /\ \A i \in DOMAIN guest.outbox : guest.outbox[i].for = Asked
    BY DEF OutputIsOwn, At, Asked
  <2>1. InStage /\ executor.session # None /\ Stage \in {"build", "run"} /\ attempt \in Nat
    BY DEF ExecutorInv, InStage, StepAgrees, VmInv
  <2>2. executor.negotiated => guests[executor.session].negotiated
    BY <2>1 DEF ExecutorInv, KnowledgeIsOwn
  <2>3. Asked \in Frames
    <3>1. "build" \in Range(Stages) /\ "run" \in Range(Stages)
      BY ThePlan DEF Range
    <3> QED BY <2>1, <3>1 DEF Asked, Frames
  <2>4. CASE guests[executor.session].outbox = << >>
    BY <2>2, <2>4
  <2>5. ASSUME NEW answer \in Answers(Asked), guests[executor.session].outbox = <<answer>>
        PROVE  \A i \in DOMAIN guests[executor.session].outbox :
                  guests[executor.session].outbox[i].for = Asked
    BY <2>3, <2>5, AnswersAreFrames
  <2> QED BY <2>1, <2>2, <2>4, <2>5 DEF ExecutorInv, OneInFlight
<1> QED BY <1>1, ExecutorInvariance, PTL

\* Runs through microVMs, with crashes of the node process in between, end
\* well only as the run's own check decided.
THEOREM ExecutorFabricatesNothing == ExecutorSpec => []NoFabricatedSuccess
<1>1. ExecutorInv => NoFabricatedSuccess
  BY DEF ExecutorInv, PipelineInv
<1> QED BY <1>1, ExecutorInvariance, PTL

\* The arms of StageExecutor::execute that answer for a terminated executor and
\* for a check before a run are never taken, evaluate never finds that the
\* executor broke its contract, and a check always finds exit code 0.
NeverOutOfTurn ==
    /\ At("stage") => ~executor.terminated
    /\ At("stage") /\ Stage = "check" => executor.last_run_exit = 0
    /\ ContractKept

\* execute asks for stages in an order in which the executor's state is never
\* stale: what begin_attempt resets, and what it leaves, is enough.
THEOREM StagesInTurn == ExecutorSpec => []NeverOutOfTurn
<1>1. ExecutorInv => NeverOutOfTurn
  <2> SUFFICES ASSUME ExecutorInv PROVE NeverOutOfTurn
    OBVIOUS
  <2>1. At("stage") => InStage /\ ~executor.terminated /\ outcome = Running
    BY DEF ExecutorInv, StepAgrees, At, InStage
  <2>2. At("stage") /\ Stage = "check" => Len(reports) = 3
    BY <2>1, StageCounts DEF ExecutorInv
  <2>3. At("stage") /\ Stage = "check" => executor.last_run_exit = 0
    <3>1. InStage /\ Len(reports) >= 3 => executor.last_run_exit = 0
      BY DEF ExecutorInv, KnowledgeIsOwn
    <3> QED BY <2>1, <2>2, <3>1
  <2> QED BY <2>1, <2>3 DEF NeverOutOfTurn, ExecutorInv
<1> QED BY <1>1, ExecutorInvariance, PTL

=============================================================================
