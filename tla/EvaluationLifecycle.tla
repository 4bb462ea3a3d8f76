------------------------ MODULE EvaluationLifecycle -------------------------
(***************************************************************************)
(* What the control spine promises the submitter of an Evaluation, stated  *)
(* with the lifecycle tables of the domain                                 *)
(* (crates/openoj-domain/src/control.rs).  The store's SQL never calls     *)
(* these tables; that it obeys them is what ControlSpine is checked for.   *)
(***************************************************************************)
CONSTANTS Evaluations, Attempts, Verdicts, Null

VARIABLES
    evaluationState,  \* EvaluationState, "absent" before it is created
    attemptState,     \* AttemptState, "absent" before it is created
    current,          \* the attempt an evaluation is judged by
    verdict           \* the terminal result, once there is one

lifecycleVars == <<evaluationState, attemptState, current, verdict>>

\* EvaluationState::transition_to
EvaluationTransitions ==
    ({"queued"} \X {"leased", "cancelled"})
    \cup ({"leased"} \X {"queued", "completed", "failed", "cancelled"})

\* AttemptState::transition_to
AttemptTransitions ==
    ({"queued"} \X {"leased", "cancelled"})
    \cup ({"leased"} \X {"completed", "failed", "cancelled", "expired"})

Init ==
    /\ evaluationState = [e \in Evaluations |-> "absent"]
    /\ attemptState = [a \in Attempts |-> "absent"]
    /\ current = [e \in Evaluations |-> Null]
    /\ verdict = [e \in Evaluations |-> Null]

\* A new evaluation starts queued, with a new attempt.
Create(e, a) ==
    /\ evaluationState[e] = "absent" /\ attemptState[a] = "absent"
    /\ evaluationState' = [evaluationState EXCEPT ![e] = "queued"]
    /\ attemptState' = [attemptState EXCEPT ![a] = "queued"]
    /\ current' = [current EXCEPT ![e] = a]
    /\ UNCHANGED verdict

\* The evaluation and its current attempt move together.
CanMove(e, s, t) ==
    /\ <<evaluationState[e], s>> \in EvaluationTransitions
    /\ <<attemptState[current[e]], t>> \in AttemptTransitions
    /\ evaluationState' = [evaluationState EXCEPT ![e] = s]

Lease(e) ==
    /\ CanMove(e, "leased", "leased")
    /\ attemptState' = [attemptState EXCEPT ![current[e]] = "leased"]
    /\ UNCHANGED <<current, verdict>>

\* An expired attempt is replaced by a fresh one, never revived.
Requeue(e, b) ==
    /\ CanMove(e, "queued", "expired")
    /\ attemptState[b] = "absent"
    /\ attemptState' = [attemptState EXCEPT ![current[e]] = "expired", ![b] = "queued"]
    /\ current' = [current EXCEPT ![e] = b]
    /\ UNCHANGED verdict

\* The only step that gives a verdict ends the evaluation.
Finish(e, s, v) ==
    /\ s \in {"completed", "failed", "cancelled"}
    /\ CanMove(e, s, s)
    /\ attemptState' = [attemptState EXCEPT ![current[e]] = s]
    /\ verdict[e] = Null
    /\ verdict' = [verdict EXCEPT ![e] = v]
    /\ UNCHANGED current

Next ==
    \E e \in Evaluations :
        \/ \E a \in Attempts : Create(e, a)
        \/ Lease(e)
        \/ \E b \in Attempts : Requeue(e, b)
        \/ \E s \in {"completed", "failed", "cancelled"}, v \in Verdicts : Finish(e, s, v)

Spec == Init /\ [][Next]_lifecycleVars
=============================================================================
