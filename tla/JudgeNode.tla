----------------------------- MODULE JudgeNode ------------------------------
(***************************************************************************)
(* The closed system: Judge Node processes (apps/openoj-judge-node, with   *)
(* the worker of crates/openoj-judge-core) calling the Judge Control       *)
(* service.  A worker claims, renews once, executes and submits, and the   *)
(* process exits on the first error of any of them.  Its crash leaves the  *)
(* call it made in the service, to finish there or to be dropped.          *)
(***************************************************************************)
EXTENDS JudgeControl

CONSTANT MaxCrashes   \* bound on the crashes of node processes

VARIABLES
    workers,   \* the worker of each node process
    crashes    \* how many processes crashed

systemVars == <<controlVars, workers, crashes>>

Exited == [phase |-> "exited"]
Ready == [phase |-> "ready"]

SystemInit ==
    /\ ControlInit
    /\ workers = [n \in Nodes |-> Exited]
    /\ crashes = 0

WorkerBecomes(n, worker) == workers' = [workers EXCEPT ![n] = worker]

\* The worker that waits for call c, if its process is still alive.
Waiting(n, c) ==
    workers[n].phase \in {"claiming", "renewing", "submitting"} /\ workers[n].call = c

Orphan(c) == calls[c].phase # "idle" /\ \A n \in Nodes : ~Waiting(n, c)

-----------------------------------------------------------------------------
(***************************************************************************)
(* The process: connect, then run_once_async in a loop.                    *)
(***************************************************************************)

\* The node declares what it can run; negotiation fails unless the allowlist
\* covers all of it.  A process that exited is started again.
Connect(n, declared) ==
    /\ workers[n].phase = "exited"
    /\ Authorized(n, declared)
    /\ WorkerBecomes(n, Ready)
    /\ UNCHANGED <<controlVars, crashes>>

\* Ids of 24 random bytes: nobody else has them, so which ones is immaterial,
\* and so is the slot of a call.
AnyOf(S) == CHOOSE x \in S : TRUE

FreshOperations ==
    {op \in Operations :
        /\ \A a \in Attempts : attempts[a].operation # op
        /\ \A c \in Calls : calls[c].phase \in {"claim_replay", "claim"} => calls[c].op # op}

FreshResultKeys ==
    {key \in ResultKeys :
        /\ \A e \in Evaluations : evaluations[e].result_key # key
        /\ \A c \in Calls : calls[c].phase \in {"submit_owner", "submit"} => calls[c].key # key}

FreshTokens == {token \in Tokens : FreshToken(token)}
FreeCalls == {c \in Calls : Free(c)}

Claim(n) ==
    LET c == AnyOf(FreeCalls) IN
    /\ workers[n].phase = "ready"
    /\ FreeCalls # {} /\ FreshOperations # {} /\ FreshTokens # {}    \* the bounds
    /\ StartClaim(c, n, AnyOf(FreshOperations), Policy[n], AnyOf(FreshTokens))
    /\ WorkerBecomes(n, [phase |-> "claiming", call |-> c])
    /\ UNCHANGED crashes

\* The one renewal, before execution starts.
Renew(n) ==
    LET worker == workers[n]
        c == AnyOf(FreeCalls) IN
    /\ worker.phase = "leased"
    /\ FreeCalls # {}
    /\ StartRenew(c, n, attempts[worker.attempt].request.evaluation, worker.attempt, worker.token)
    /\ WorkerBecomes(n, [worker EXCEPT !.phase = "renewing", !.call = c])
    /\ UNCHANGED crashes

\* The executor returns, after however long, a result or an error.
Execute(n) ==
    LET worker == workers[n] IN
    /\ worker.phase = "executing"
    /\ \/ \E status \in {"completed", "failed"} :
             WorkerBecomes(n, [worker EXCEPT !.phase = "executed", !.status = status])
       \/ WorkerBecomes(n, Exited)
    /\ UNCHANGED <<controlVars, crashes>>

SubmitExecuted(n) ==
    LET worker == workers[n]
        c == AnyOf(FreeCalls) IN
    /\ worker.phase = "executed"
    /\ FreeCalls # {} /\ FreshResultKeys # {}
    /\ StartSubmit(c, n, n, AnyOf(FreshResultKeys), worker.token,
                   ResultOf(worker.attempt, worker.status))
    /\ WorkerBecomes(n, [worker EXCEPT !.phase = "submitting", !.call = c])
    /\ UNCHANGED crashes

\* What a worker does with the answer to its call: WorkerOutcome, or the error
\* that ends the process.
AfterAnswer(worker, answer, lease) ==
    CASE worker.phase = "claiming" /\ answer.outcome \in {"Ok", "Replayed"} ->
            [phase |-> "leased", call |-> worker.call, attempt |-> lease.attempt,
             token |-> lease.token, status |-> "absent"]
      [] worker.phase = "claiming" /\ answer.outcome = "NoTaskAvailable" -> Ready
      [] worker.phase = "renewing" /\ answer.outcome = "Continue" ->
            [worker EXCEPT !.phase = "executing"]
      [] worker.phase = "renewing" /\ answer.outcome = "Cancel" -> Ready
      [] worker.phase = "submitting" /\ answer.outcome \in {"Ok", "Replayed"} -> Ready
      [] OTHER -> Exited

\* A step of the service on call c.  Every transaction here is atomic, so no
\* task is locked by another session when the claim looks for one.
Serve(c) ==
    /\ \/ ReplayClaim(c)
       \/ FinishClaim(c, {})
       \/ FinishRenew(c)
       \/ ReadOwner(c)
       \/ FinishSubmit(c)
    /\ workers' = [n \in Nodes |->
          IF Waiting(n, c) /\ calls'[c].phase = "idle"
          THEN AfterAnswer(workers[n], reply', CHOOSE g \in granted' : g \notin granted)
          ELSE workers[n]]
    /\ UNCHANGED crashes

\* The process is killed, at any point of the loop.
Crash(n) ==
    /\ workers[n].phase # "exited"
    /\ crashes < MaxCrashes
    /\ crashes' = crashes + 1
    /\ WorkerBecomes(n, Exited)
    /\ UNCHANGED controlVars

\* The connection of a dead process is closed and its handler dropped; a
\* transaction it had open rolls back.
Abandon(c) ==
    /\ Orphan(c)
    /\ Becomes(c, Idle)
    /\ UNCHANGED <<vars, clock, sweeps, granted, workers, crashes>>

-----------------------------------------------------------------------------
\* Time passes while a lease runs; otherwise no guard depends on it, and the
\* clock waits (it is bounded).
LeaseTick ==
    /\ \E a \in Attempts : attempts[a].state = "leased" /\ attempts[a].expires >= clock
    /\ Tick

Environment ==
    /\ \/ \E r \in Submissions : ~Stored(r.evaluation) /\ Submit(r)
       \/ \E e \in Evaluations :
             /\ Stored(e) /\ evaluations[e].result = Null /\ FreshResultKeys # {}
             /\ Cancel(AnyOf(FreshResultKeys), e, ResultOf(evaluations[e].current, "cancelled"))
    /\ UNCHANGED <<workers, crashes>>

\* Without fresh ids (they are bounded) a scan only ends the pass.
ScanFresh(s) ==
    LET ids == {id \in Attempts \X Keys : FreshIds(id[1], id[2])} IN
    \E id \in IF ids = {} THEN Attempts \X Keys ELSE {AnyOf(ids)} : Scan(s, id[1], id[2])

\* A pass that would find nothing is left out: it changes nothing.
Sweep(s) ==
    /\ (StartSweep(s) /\ Expired(clock) # {}) \/ ScanFresh(s) \/ Retry(s)
    /\ UNCHANGED <<workers, crashes>>

WorkerStep(n) ==
    \/ \E declared \in SUBSET Capabilities : Connect(n, declared)
    \/ Claim(n) \/ Renew(n) \/ Execute(n) \/ SubmitExecuted(n)

SystemNext ==
    \/ LeaseTick /\ UNCHANGED <<workers, crashes>>
    \/ Environment
    \/ \E n \in Nodes : WorkerStep(n) \/ Crash(n)
    \/ \E c \in Calls : Serve(c) \/ Abandon(c)
    \/ \E s \in Sweepers : Sweep(s)

\* The runtime schedules every process, handler and sweeper, and time passes.
\* Nothing obliges a process to crash, a user to submit or to cancel.
SystemSpec ==
    /\ SystemInit /\ [][SystemNext]_systemVars
    /\ WF_systemVars(LeaseTick /\ UNCHANGED <<workers, crashes>>)
    /\ \A n \in Nodes : WF_systemVars(WorkerStep(n))
    /\ \A c \in Calls : WF_systemVars(Serve(c))
    /\ \A s \in Sweepers : WF_systemVars(Sweep(s))

-----------------------------------------------------------------------------
\* The bound on attempt ids stops the sweeper from replacing this attempt.
OutOfIds(e) ==
    /\ evaluations[e].state = "leased"
    /\ \A a \in Attempts : attempts[a].state # "absent"

\* Every evaluation gets a terminal result, although workers exit on every
\* error and crash at any point: the sweeper brings the work back and another
\* worker takes it, until the ids run out.
EvaluationEnds ==
    \A e \in Evaluations :
        Stored(e) ~> (evaluations[e].state \in TerminalStates \/ OutOfIds(e))

\* The sweeper frees every lease that runs out, so that no evaluation whose
\* attempts can still be counted stays leased to a dead worker.
ExpiredLeaseIsFreed ==
    \A e \in Evaluations :
        /\ e \in Expired(clock)
        /\ attempts[evaluations[e].current].request.number < MaxAttemptNumber
        ~> (e \notin Expired(clock) \/ OutOfIds(e))

\* "The worker runs a renew timer in parallel during execution": while a
\* worker executes, its attempt is not taken back as expired.
ExecutesUnderLease ==
    \A n \in Nodes : workers[n].phase = "executing" =>
        attempts[workers[n].attempt].state # "expired"
=============================================================================
