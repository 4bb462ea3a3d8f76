------------------------------ MODULE MicroVm -------------------------------
(***************************************************************************)
(* One microVM of crates/openoj-firecracker: the handle FirecrackerVm with *)
(* its Lifecycle, and what it shares with the world outside the judge      *)
(* node: the VMM processes and the two socket paths on the host, the       *)
(* control API's and the vsock bridge's.  A path is named by the           *)
(* configuration, not by the VM, so a process and the paths it bound       *)
(* outlive a handle that was lost.                                         *)
(*                                                                         *)
(* The Firecracker binary is external: it binds the API path unless it     *)
(* exists, takes configuration until it booted, binds the vsock path when  *)
(* that device is configured, and may die at any time.                     *)
(***************************************************************************)
EXTENDS Naturals

CONSTANTS
    Vmms,   \* VMM processes that can be spawned
    None    \* no process, or a path that does not exist

ASSUME VmmAssumption == None \notin Vmms

VARIABLES
    processes,   \* the VMM processes of the host
    api,         \* the process that bound the control API path
    uds,         \* the process that bound the vsock path
    vm           \* the FirecrackerVm handle of the judge node

hostVars == <<processes, api, uds>>
vmVars == <<processes, api, uds, vm>>

\* The phases of a VM that the executor drives.
VmPhases == {"Idle", "Launching", "Configuring", "Started", "Terminating",
             "Terminated", "Failed"}

\* The requests of configure and start, in their order.
Puts == <<"boot-source", "drives", "machine-config", "vsock", "actions">>

\* The phase of a VM is one that bootstrap and terminate give it, and it never
\* has more requests behind it than there are.
VmTypeOK ==
    /\ processes \in [Vmms -> {"unused", "starting", "preboot", "booted", "dead"}]
    /\ api \in Vmms \cup {None} /\ uds \in Vmms \cup {None}
    /\ vm \in [phase : VmPhases, child : Vmms \cup {None}, puts : 0 .. 5, failed : BOOLEAN]

\* puts counts the requests that succeeded; failed says that bootstrap or the
\* guest channel returned an error.
NewVm == [phase |-> "Idle", child |-> None, puts |-> 0, failed |-> FALSE]

\* A handle that holds nothing any more.
NoVm == [NewVm EXCEPT !.phase = "Terminated"]

VmInit ==
    /\ processes = [v \in Vmms |-> "unused"]
    /\ api = None /\ uds = None
    /\ vm = NoVm

Alive(v) == processes[v] \in {"starting", "preboot", "booted"}

-----------------------------------------------------------------------------
(***************************************************************************)
(* The VMM processes.                                                      *)
(***************************************************************************)

\* The process binds the API path, or exits because it cannot.
OpenApi(v) ==
    /\ processes[v] = "starting"
    /\ \/ /\ api = None
          /\ api' = v /\ processes' = [processes EXCEPT ![v] = "preboot"]
       \/ /\ api # None
          /\ processes' = [processes EXCEPT ![v] = "dead"]
          /\ UNCHANGED api
    /\ UNCHANGED <<uds, vm>>

\* It dies; the paths it bound stay.
VmmDies(v) ==
    /\ Alive(v)
    /\ processes' = [processes EXCEPT ![v] = "dead"]
    /\ UNCHANGED <<api, uds, vm>>

-----------------------------------------------------------------------------
(***************************************************************************)
(* bootstrap                                                               *)
(***************************************************************************)

\* Lifecycle::launch and spawn_process, which may fail.  A failed spawn is not
\* recorded in the phase.
Launch(v) ==
    /\ vm.phase = "Idle" /\ ~vm.failed
    /\ processes[v] = "unused"
    /\ \/ /\ vm' = [vm EXCEPT !.phase = "Launching", !.child = v]
          /\ processes' = [processes EXCEPT ![v] = "starting"]
       \/ /\ vm' = [vm EXCEPT !.phase = "Launching", !.failed = TRUE]
          /\ UNCHANGED processes
    /\ UNCHANGED <<api, uds>>

\* wait_for_socket: the path exists, whoever bound it; else the child exited
\* or the deadline passed.
WaitForSocket ==
    /\ vm.phase = "Launching" /\ ~vm.failed
    /\ \/ /\ api # None
          /\ vm' = [vm EXCEPT !.phase = "Configuring"]
       \/ /\ api = None
          /\ vm' = [vm EXCEPT !.phase = "Failed", !.failed = TRUE]
    /\ UNCHANGED hostVars

\* Whether the VMM that listens on the API path can do the next request.
Accepts(put) ==
    /\ api # None
    /\ processes[api] = "preboot"
    /\ put = "vsock" => uds = None

\* What it does.
Effect(put) ==
    /\ uds' = IF put = "vsock" THEN api ELSE uds
    /\ processes' = IF put = "actions" THEN [processes EXCEPT ![api] = "booted"] ELSE processes

\* Lifecycle::start, after InstanceStart.  Nothing calls Lifecycle::running.
StartedPhase == "Started"

\* The next request of configure or start.  It fails when the VMM is not there
\* or refuses, or when its answer is late.
Put ==
    LET put == Puts[vm.puts + 1] IN
    /\ vm.phase = "Configuring" /\ ~vm.failed
    /\ \/ /\ Accepts(put) /\ Effect(put)
          /\ vm' = [vm EXCEPT !.puts = @ + 1,
                              !.phase = IF put = "actions" THEN StartedPhase ELSE @]
       \/ /\ vm' = [vm EXCEPT !.phase = "Failed", !.failed = TRUE]
          /\ (Accepts(put) /\ Effect(put)) \/ UNCHANGED <<processes, uds>>
    /\ UNCHANGED api

-----------------------------------------------------------------------------
(***************************************************************************)
(* terminate: the child is killed and waited for, then the paths are       *)
(* removed.                                                                *)
(***************************************************************************)

\* Fault: a VM that failed is taken for one that holds nothing.
KillUnlessFailed ==
    /\ vm.phase \notin {"Terminated", "Terminating"}
    /\ vm' = [vm EXCEPT !.phase = IF @ = "Failed" THEN "Terminated" ELSE "Terminating"]
    /\ processes' = IF vm.child = None \/ vm.phase = "Failed" THEN processes
                    ELSE [processes EXCEPT ![vm.child] = "dead"]
    /\ UNCHANGED <<api, uds>>

\* Lifecycle::teardown accepts every phase that a VM can be in once bootstrap
\* has been called, Failed included.
Kill ==
    /\ vm.phase \notin {"Terminated", "Terminating"}
    /\ vm' = [vm EXCEPT !.phase = "Terminating", !.child = None]
    /\ processes' = IF vm.child = None THEN processes
                    ELSE [processes EXCEPT ![vm.child] = "dead"]
    /\ UNCHANGED <<api, uds>>

Reclaim ==
    /\ vm.phase = "Terminating"
    /\ api' = None /\ uds' = None
    /\ vm' = [vm EXCEPT !.phase = "Terminated"]
    /\ UNCHANGED processes
=============================================================================
