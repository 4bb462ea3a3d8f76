---------------------------- MODULE ControlSpine ----------------------------
(***************************************************************************)
(* The durable control spine of OpenOJ: the PostgreSQL store that owns     *)
(* every Evaluation, its Attempts and their tasks                          *)
(* (crates/openoj-storage/src).  Each action is one committed transaction  *)
(* of the store, with the early returns of the code in their order; the    *)
(* StoreError (or the success) that the caller sees is left in reply.      *)
(*                                                                         *)
(* The clock is not part of the store.  Every command carries the time its *)
(* caller read, and nothing orders the times of two commands, so "now" is  *)
(* an input of the actions that may go backwards.                          *)
(***************************************************************************)
EXTENDS Naturals, Sequences, Functions

CONSTANTS
    Evaluations,       \* evaluation ids
    Attempts,          \* attempt ids
    Keys,              \* idempotency keys of requests
    ResultKeys,        \* idempotency keys of results and cancellations
    Nodes,             \* judge node ids
    Tokens,            \* lease tokens
    Operations,        \* claim operation ids
    References,        \* ids of immutable references (problem version, runtime...)
    Digests,           \* what an immutable reference stands for
    CapabilityLists,   \* lists of required capabilities, each a naturals
    MaxAttemptNumber,  \* u32::MAX
    MaxTime,           \* MAX_UNIX_MILLIS
    LeaseDuration,     \* LeasePolicy::lease_duration
    Null               \* SQL NULL

Times == 0 .. MaxTime
AttemptNumbers == 1 .. MaxAttemptNumber

\* The capability lists a domain request may carry have no duplicates.
ASSUME CapabilityListsAssumption ==
    \A list \in CapabilityLists :
        /\ list \in Seq(Nat)
        /\ \A i, j \in DOMAIN list : i # j => list[i] # list[j]

ASSUME BoundsAssumption ==
    /\ MaxAttemptNumber \in Nat \ {0}
    /\ MaxTime \in Nat
    /\ LeaseDuration \in Nat \ {0}

-----------------------------------------------------------------------------
(***************************************************************************)
(* Rows.  A row that was never inserted has state "absent".  Columns that  *)
(* repeat a field of the canonical request payload are that field.         *)
(***************************************************************************)

\* EvaluationRequest: reference and digest stand for the four immutable
\* references, required for everything else that makes up its semantics.
Requests == [evaluation : Evaluations, attempt : Attempts,
             number : AttemptNumbers, key : Keys, reference : References,
             digest : Digests, required : CapabilityLists]

TerminalStates == {"completed", "failed", "cancelled"}
EvaluationStates == {"absent", "queued", "leased"} \cup TerminalStates
AttemptStates == EvaluationStates \cup {"expired"}
TaskStates == {"absent", "ready", "leased", "completed", "cancelled", "expired"}

\* EvaluationResult: the identity it carries and its canonical status.
Results == [evaluation : Evaluations, attempt : Attempts,
            reference : References, digest : Digests, status : TerminalStates]

EvaluationRows == [state : EvaluationStates, request : Requests \cup {Null},
                   current : Attempts \cup {Null}, result : Results \cup {Null},
                   result_key : ResultKeys \cup {Null}, created : Times]

AttemptRows == [state : AttemptStates, request : Requests \cup {Null},
                node : Nodes \cup {Null}, token : Tokens \cup {Null},
                expires : Times \cup {Null}, operation : Operations \cup {Null},
                created : Times]

\* NULL is none of the values a nullable column can hold.
ASSUME NullAssumption ==
    Null \notin Attempts \cup Nodes \cup Tokens \cup Operations \cup ResultKeys
                \cup Times \cup Digests \cup Requests \cup Results

Outcomes == {"Ok", "Replayed", "Continue", "Cancel", "InvalidTime",
             "IdempotencyConflict", "IdentityConflict",
             "ImmutableReferenceConflict", "NotFound", "NoTaskAvailable",
             "LeaseConflict", "StaleLease", "InvalidTransition",
             "TerminalConflict", "CorruptData", "Unavailable", "PermissionDenied"}

VARIABLES
    references,    \* artifacts, problem_versions, submissions, runtimes
    evaluations,   \* table evaluations
    attempts,      \* table evaluation_attempts
    tasks,         \* evaluation_tasks.state, by attempt
    reply          \* what the last command returned to its caller

tables == <<references, evaluations, attempts, tasks>>
vars == <<references, evaluations, attempts, tasks, reply>>

\* The second half is the NOT NULL constraints of a row that was inserted.
TypeOK ==
    /\ references \in [References -> Digests \cup {Null}]
    /\ evaluations \in [Evaluations -> EvaluationRows]
    /\ attempts \in [Attempts -> AttemptRows]
    /\ tasks \in [Attempts -> TaskStates]
    /\ \A e \in Evaluations :
          IF evaluations[e].state = "absent" THEN evaluations[e].result = Null
          ELSE evaluations[e].request \in Requests /\ evaluations[e].current \in Attempts
    /\ \A a \in Attempts : attempts[a].state # "absent" => attempts[a].request \in Requests
    /\ reply \in [op : {"none", "create", "claim", "renew", "retry", "submit", "cancel"},
                  outcome : Outcomes]

AbsentEvaluation == [state |-> "absent", request |-> Null, current |-> Null,
                     result |-> Null, result_key |-> Null, created |-> 0]

AbsentAttempt == [state |-> "absent", request |-> Null, node |-> Null,
                  token |-> Null, expires |-> Null, operation |-> Null,
                  created |-> 0]

\* An empty, migrated database.
Init ==
    /\ references = [r \in References |-> Null]
    /\ evaluations = [e \in Evaluations |-> AbsentEvaluation]
    /\ attempts = [a \in Attempts |-> AbsentAttempt]
    /\ tasks = [a \in Attempts |-> "absent"]
    /\ reply = [op |-> "none", outcome |-> "Ok"]

Reply(op, outcome) == reply' = [op |-> op, outcome |-> outcome]

Stored(e) == evaluations[e].state # "absent"

\* CHECK (updated_at_ms BETWEEN created_at_ms AND ...): an UPDATE of these
\* rows at a time before they were created violates a table constraint.
UpdatableAt(e, a, now) ==
    evaluations[e].created <= now /\ attempts[a].created <= now

-----------------------------------------------------------------------------
(***************************************************************************)
(* create_evaluation                                                       *)
(***************************************************************************)

\* CHECK (openoj_valid_required_capabilities(required_capabilities)).
ValidRequired(list) ==
    /\ list # << >>
    /\ \A i, j \in DOMAIN list : i < j => list[i] < list[j]

\* Faults: the content of a known reference is not compared; an evaluation id,
\* or an attempt id, that is taken is inserted over.
ContentIgnored(r) == FALSE
OnlyAttemptTaken(r) == attempts[r.attempt].state # "absent"
OnlyEvaluationTaken(r) == Stored(r.evaluation)

\* register_artifact, register_problem_version, register_submission and
\* register_runtime: the reference is known with another content.
ContentDiffers(r) == references[r.reference] \notin {Null, r.digest}

AttemptKeyTaken(key) ==
    \E a \in Attempts : attempts[a].state # "absent" /\ attempts[a].request.key = key

\* The unique constraints of the inserted rows.
IdentityTaken(r) ==
    \/ Stored(r.evaluation)
    \/ attempts[r.attempt].state # "absent"
    \/ AttemptKeyTaken(r.key)

CreateOutcome(r) ==
    IF \E e \in Evaluations : Stored(e) /\ evaluations[e].request.key = r.key
    THEN IF \E e \in Evaluations : Stored(e) /\ evaluations[e].request = r
         THEN "Replayed" ELSE "IdempotencyConflict" ELSE
    IF ContentDiffers(r) THEN "ImmutableReferenceConflict" ELSE
    IF IdentityTaken(r) THEN "IdentityConflict" ELSE
    IF ~ValidRequired(r.required) THEN "Unavailable" ELSE
    "Ok"

\* A new queued attempt of request r, and its ready task.
InsertedAttempt(r, now) ==
    [AbsentAttempt EXCEPT !.state = "queued", !.request = r, !.created = now]

InsertedEvaluation(r, now) ==
    [AbsentEvaluation EXCEPT !.state = "queued", !.request = r,
                             !.current = r.attempt, !.created = now]

CreateEvaluation(r, now) ==
    /\ Reply("create", CreateOutcome(r))
    /\ IF CreateOutcome(r) = "Ok"
       THEN /\ references' = [references EXCEPT ![r.reference] = r.digest]
            /\ evaluations' = [evaluations EXCEPT
                                 ![r.evaluation] = InsertedEvaluation(r, now)]
            /\ attempts' = [attempts EXCEPT ![r.attempt] = InsertedAttempt(r, now)]
            /\ tasks' = [tasks EXCEPT ![r.attempt] = "ready"]
       ELSE UNCHANGED tables

-----------------------------------------------------------------------------
(***************************************************************************)
(* claim_task_with_capabilities                                            *)
(***************************************************************************)

\* Fault: the addition is not checked.
ExpiryUnchecked(now) == TRUE

\* UnixMillis::checked_add, the expiry of a lease granted at now.
ExpiryFits(now) == now + LeaseDuration <= MaxTime

\* Fault: work that is leased is handed out again.
ClaimableAgain(a, declared) ==
    /\ tasks[a] \in {"ready", "leased"}
    /\ \E e \in Evaluations :
          evaluations[e].current = a /\ evaluations[e].state \in {"queued", "leased"}
    /\ Range(attempts[a].request.required) \subseteq declared

\* The tasks the claim's SELECT may return to a node with these capabilities.
Claimable(a, declared) ==
    /\ tasks[a] = "ready"
    /\ attempts[a].state = "queued"
    /\ \E e \in Evaluations :
          evaluations[e].current = a /\ evaluations[e].state = "queued"
    /\ Range(attempts[a].request.required) \subseteq declared

\* FOR UPDATE OF t SKIP LOCKED: tasks in locked are held by other sessions.
\* ORDER BY t.created_at_ms, t.attempt_id LIMIT 1: ids are random, so among
\* the oldest any may come first.
Candidates(declared, locked) ==
    LET visible == {a \in Attempts \ locked : Claimable(a, declared)}
    IN  {a \in visible : \A b \in visible : attempts[a].created <= attempts[b].created}

ClaimedAttempt(a, node, token, op, now) ==
    [attempts[a] EXCEPT !.state = "leased", !.node = node, !.token = token,
                        !.expires = now + LeaseDuration, !.operation = op]

\* Fault: there is no such index.
OperationReusable(node, op) == FALSE

\* The unique index on (node_id, claim_operation_id).
OperationTaken(node, op) ==
    /\ op # Null
    /\ \E a \in Attempts : attempts[a].node = node /\ attempts[a].operation = op

ClaimWrites(a, node, token, op, now) ==
    LET e == attempts[a].request.evaluation IN
    /\ attempts' = [attempts EXCEPT ![a] = ClaimedAttempt(a, node, token, op, now)]
    /\ evaluations' = [evaluations EXCEPT ![e].state = "leased"]
    /\ tasks' = [tasks EXCEPT ![a] = "leased"]
    /\ UNCHANGED references

ClaimTask(node, token, op, declared, locked, now) ==
    \/ /\ ~ExpiryFits(now)
       /\ Reply("claim", "InvalidTime")
       /\ UNCHANGED tables
    \/ /\ ExpiryFits(now)
       /\ Candidates(declared, locked) = {}
       /\ Reply("claim", "NoTaskAvailable")
       /\ UNCHANGED tables
    \/ /\ ExpiryFits(now)
       /\ \E a \in Candidates(declared, locked) :
             IF \/ OperationTaken(node, op)
                \/ ~UpdatableAt(attempts[a].request.evaluation, a, now)
             THEN Reply("claim", "Unavailable") /\ UNCHANGED tables
             ELSE Reply("claim", "Ok") /\ ClaimWrites(a, node, token, op, now)

-----------------------------------------------------------------------------
(***************************************************************************)
(* judge_renew_lease.  The node and token of the current attempt are read  *)
(* as non-null strings before the states are compared, so an attempt that  *)
(* was never leased makes the read itself fail.                            *)
(***************************************************************************)

\* Fault: the states of the evaluation and the attempt are not compared.
HoldsInAnyState(node, e, a, token) ==
    /\ evaluations[e].current = a
    /\ attempts[a].node = node
    /\ attempts[a].token = token

HoldsLease(node, e, a, token) ==
    /\ evaluations[e].state = "leased"
    /\ attempts[evaluations[e].current].state = "leased"
    /\ evaluations[e].current = a
    /\ attempts[a].node = node
    /\ attempts[a].token = token

RenewOutcome(node, e, a, token, now) ==
    LET current == attempts[evaluations[e].current] IN
    IF ~ExpiryFits(now) THEN "InvalidTime" ELSE
    IF ~Stored(e) THEN "NotFound" ELSE
    IF evaluations[e].state = "cancelled" \/ current.state = "cancelled"
    THEN "Cancel" ELSE
    IF current.node = Null THEN "CorruptData" ELSE
    IF ~HoldsLease(node, e, a, token) THEN "StaleLease" ELSE
    IF attempts[a].created > now THEN "Unavailable" ELSE
    "Continue"

RenewLease(node, e, a, token, now) ==
    LET outcome == RenewOutcome(node, e, a, token, now) IN
    /\ Reply("renew", outcome)
    /\ IF outcome = "Continue"
       THEN attempts' = [attempts EXCEPT ![a].expires = now + LeaseDuration]
       ELSE UNCHANGED attempts
    /\ UNCHANGED <<references, evaluations, tasks>>

-----------------------------------------------------------------------------
(***************************************************************************)
(* retry_expired                                                           *)
(***************************************************************************)

\* same_evaluation_semantics
SameSemantics(r, s) ==
    /\ r.evaluation = s.evaluation
    /\ r.reference = s.reference
    /\ r.digest = s.digest
    /\ r.required = s.required

\* The primary key and UNIQUE (evaluation_id, attempt_number).
AttemptTaken(r) ==
    \/ attempts[r.attempt].state # "absent"
    \/ \E a \in Attempts : /\ attempts[a].state # "absent"
                           /\ attempts[a].request.evaluation = r.evaluation
                           /\ attempts[a].request.number = r.number

\* Faults: the expiry is not compared again after the scan; any number follows.
NeverRuns(e, now) == FALSE
AnyNumberFollows(e, r) == TRUE

LeaseRuns(e, now) == attempts[evaluations[e].current].expires >= now
NumberFollows(e, r) == r.number = attempts[evaluations[e].current].request.number + 1

\* What is decided on the locked evaluation and its current attempt.
RetryCheck(r, now) ==
    LET e == r.evaluation
        current == attempts[evaluations[e].current] IN
    IF evaluations[e].state # "leased" \/ current.state # "leased"
    THEN "InvalidTransition" ELSE
    IF LeaseRuns(e, now) THEN "LeaseConflict" ELSE
    IF ~NumberFollows(e, r) THEN "InvalidTransition" ELSE
    IF ~SameSemantics(current.request, r) THEN "IdentityConflict" ELSE
    IF ~UpdatableAt(e, evaluations[e].current, now) THEN "Unavailable" ELSE
    "Ok"

\* The capability list of r passed its CHECK when the evaluation was created.
RetryOutcome(r, now) ==
    IF AttemptKeyTaken(r.key)
    THEN IF attempts[r.attempt].state # "absent" /\ attempts[r.attempt].request = r
         THEN "Replayed" ELSE "IdempotencyConflict" ELSE
    IF ~Stored(r.evaluation) THEN "NotFound" ELSE
    IF RetryCheck(r, now) # "Ok" THEN RetryCheck(r, now) ELSE
    IF AttemptTaken(r) THEN "IdentityConflict" ELSE
    "Ok"

\* Faults: the old attempt is not expired, or passes its lease on; the new one
\* gets no task; the evaluation stays leased.
OldAttemptKept(old, r, now) == [attempts EXCEPT ![r.attempt] = InsertedAttempt(r, now)]
LeasePassedOn(old, r, now) ==
    [attempts EXCEPT ![old].state = "expired",
                     ![r.attempt] = [attempts[old] EXCEPT !.state = "queued", !.request = r]]
NoTaskInserted(old, r) == [tasks EXCEPT ![old] = "expired"]
EvaluationStaysLeased(r) == [evaluations EXCEPT ![r.evaluation].current = r.attempt]

\* replace_attempt
AttemptsReplaced(old, r, now) ==
    [attempts EXCEPT ![old].state = "expired", ![r.attempt] = InsertedAttempt(r, now)]
TasksReplaced(old, r) == [tasks EXCEPT ![old] = "expired", ![r.attempt] = "ready"]
EvaluationRequeued(r) ==
    [evaluations EXCEPT ![r.evaluation] =
        [@ EXCEPT !.state = "queued", !.current = r.attempt]]

ReplaceAttempt(old, r, now) ==
    /\ attempts' = AttemptsReplaced(old, r, now)
    /\ tasks' = TasksReplaced(old, r)
    /\ evaluations' = EvaluationRequeued(r)

RetryExpired(r, now) ==
    /\ Reply("retry", RetryOutcome(r, now))
    /\ IF RetryOutcome(r, now) = "Ok"
       THEN ReplaceAttempt(evaluations[r.evaluation].current, r, now)
       ELSE UNCHANGED <<evaluations, attempts, tasks>>
    /\ UNCHANGED references

-----------------------------------------------------------------------------
(***************************************************************************)
(* submit_result and cancel_evaluation                                     *)
(***************************************************************************)

\* EvaluationIdentity::from_request
IdentityMatches(request, result) ==
    /\ request.evaluation = result.evaluation
    /\ request.attempt = result.attempt
    /\ request.reference = result.reference
    /\ request.digest = result.digest

\* What a command meets on an evaluation that already has a terminal result.
ReplayOutcome(e, key, result) ==
    IF evaluations[e].result_key # key THEN "TerminalConflict" ELSE
    IF evaluations[e].result # result THEN "IdempotencyConflict" ELSE
    "Replayed"

\* The constraints met by the three updates of write_terminal, in order: the
\* time bound of the evaluation, its unique result key, the attempt's bound.
WriteOutcome(e, a, key, now) ==
    IF evaluations[e].created > now THEN "Unavailable" ELSE
    IF \E f \in Evaluations : evaluations[f].result_key = key
    THEN "IdempotencyConflict" ELSE
    IF attempts[a].created > now THEN "Unavailable" ELSE
    "Ok"

\* Fault: the token is not compared.
AnyToken(e, token) == TRUE

TokenMatches(e, token) == attempts[evaluations[e].current].token = token

\* What is decided on the locked evaluation and its current attempt.
SubmitCheck(key, token, result, now) ==
    LET e == result.evaluation
        current == attempts[evaluations[e].current] IN
    IF evaluations[e].result # Null THEN ReplayOutcome(e, key, result) ELSE
    IF \/ evaluations[e].state # "leased"
       \/ current.state # "leased"
       \/ evaluations[e].current # result.attempt
    THEN "StaleLease" ELSE
    IF ~TokenMatches(e, token) THEN "StaleLease" ELSE
    IF current.expires < now THEN "StaleLease" ELSE
    IF ~IdentityMatches(current.request, result) THEN "IdentityConflict" ELSE
    "Ok"

SubmitOutcome(key, token, result, now) ==
    IF ~Stored(result.evaluation) THEN "NotFound" ELSE
    IF SubmitCheck(key, token, result, now) # "Ok"
    THEN SubmitCheck(key, token, result, now) ELSE
    WriteOutcome(result.evaluation, result.attempt, key, now)

CancelCheck(key, e, result) ==
    LET current == attempts[evaluations[e].current] IN
    IF evaluations[e].result # Null THEN ReplayOutcome(e, key, result) ELSE
    IF \/ evaluations[e].state \notin {"queued", "leased"}
       \/ current.state \notin {"queued", "leased"}
    THEN "InvalidTransition" ELSE
    IF evaluations[e].current # result.attempt THEN "IdentityConflict" ELSE
    IF ~IdentityMatches(current.request, result) THEN "IdentityConflict" ELSE
    "Ok"

CancelOutcome(key, e, result, now) ==
    IF result.status # "cancelled" \/ result.evaluation # e
    THEN "IdentityConflict" ELSE
    IF ~Stored(e) THEN "NotFound" ELSE
    IF CancelCheck(key, e, result) # "Ok" THEN CancelCheck(key, e, result) ELSE
    WriteOutcome(e, result.attempt, key, now)

\* The task of a failed evaluation is "completed": only a cancelled result
\* cancels the task.
TaskStateFor(status) == IF status = "cancelled" THEN "cancelled" ELSE "completed"

\* write_terminal
WriteTerminal(key, result) ==
    /\ evaluations' = [evaluations EXCEPT ![result.evaluation] =
          [@ EXCEPT !.state = result.status, !.result = result, !.result_key = key]]
    /\ attempts' = [attempts EXCEPT ![result.attempt].state = result.status]
    /\ tasks' = [tasks EXCEPT ![result.attempt] = TaskStateFor(result.status)]

SubmitResult(key, token, result, now) ==
    /\ Reply("submit", SubmitOutcome(key, token, result, now))
    /\ IF SubmitOutcome(key, token, result, now) = "Ok"
       THEN WriteTerminal(key, result)
       ELSE UNCHANGED <<evaluations, attempts, tasks>>
    /\ UNCHANGED references

CancelEvaluation(key, e, result, now) ==
    /\ Reply("cancel", CancelOutcome(key, e, result, now))
    /\ IF CancelOutcome(key, e, result, now) = "Ok"
       THEN WriteTerminal(key, result)
       ELSE UNCHANGED <<evaluations, attempts, tasks>>
    /\ UNCHANGED references

-----------------------------------------------------------------------------
Capabilities == UNION {Range(list) : list \in CapabilityLists}

Next ==
    \/ \E r \in Requests, now \in Times : CreateEvaluation(r, now)
    \/ \E node \in Nodes, token \in Tokens, now \in Times,
          locked \in SUBSET {a \in Attempts : tasks[a] = "ready"} :
          \* claim_task: no operation id and no capability filter
          \/ ClaimTask(node, token, Null, Capabilities, locked, now)
          \/ \E op \in Operations, declared \in SUBSET Capabilities :
                ClaimTask(node, token, op, declared, locked, now)
    \/ \E node \in Nodes, e \in Evaluations, a \in Attempts, token \in Tokens,
          now \in Times : RenewLease(node, e, a, token, now)
    \/ \E r \in Requests, now \in Times : RetryExpired(r, now)
    \/ \E key \in ResultKeys, token \in Tokens, result \in Results, now \in Times :
          SubmitResult(key, token, result, now)
    \/ \E key \in ResultKeys, e \in Evaluations, result \in Results, now \in Times :
          CancelEvaluation(key, e, result, now)

Spec == Init /\ [][Next]_vars

-----------------------------------------------------------------------------
(***************************************************************************)
(* Safety.                                                                 *)
(***************************************************************************)

\* The states an evaluation, its current attempt and that attempt's task may
\* have together.
AgreeingStates == {<<"queued", "queued", "ready">>, <<"leased", "leased", "leased">>,
                   <<"completed", "completed", "completed">>,
                   <<"failed", "failed", "completed">>,
                   <<"cancelled", "cancelled", "cancelled">>}

\* The rows of one evaluation belong together.
RowAgrees(e) ==
    LET row == evaluations[e]
        current == attempts[row.current] IN
    /\ current.request.evaluation = e
    /\ current.request.attempt = row.current
    /\ <<row.state, current.state, tasks[row.current]>> \in AgreeingStates
    /\ (row.result # Null) <=> (row.state \in TerminalStates)
    /\ row.result # Null => /\ row.result.status = row.state
                            /\ IdentityMatches(current.request, row.result)

\* The three tables tell the same story: whatever order claims, renewals,
\* retries, results and cancellations commit in, an evaluation, its current
\* attempt and that attempt's task are in states that belong together, and a
\* terminal result is stored exactly when the evaluation is terminal, for the
\* current attempt and with that status.
RowsAgree == \A e \in Evaluations : Stored(e) => RowAgrees(e)

\* The attempts an evaluation ever had.
AttemptsOf(e) ==
    {a \in Attempts : attempts[a].state # "absent" /\ attempts[a].request.evaluation = e}

\* What the evaluation of attempt a makes of it: an attempt that is not the
\* current one is expired, its number is below the current one's and the next
\* number exists, and no two attempts have the same number.
History(a) ==
    LET e == attempts[a].request.evaluation
        current == evaluations[e].current
        number == attempts[a].request.number IN
    /\ Stored(e)
    /\ a # current =>
          /\ attempts[a].state = "expired"
          /\ tasks[a] = "expired"
          /\ number < attempts[current].request.number
          /\ \E b \in AttemptsOf(e) : attempts[b].request.number = number + 1
    /\ \A b \in AttemptsOf(e) \ {a} : attempts[b].request.number # number

\* An evaluation has at most one attempt that is not expired, the current one,
\* and the numbers of its attempts count up to the current one without gaps
\* or repetitions (retry_expired).
AttemptHistory == \A a \in Attempts : attempts[a].state # "absent" => History(a)

\* Every attempt of an evaluation, however often it was retried, evaluates the
\* same immutable references as the request the evaluation was created with,
\* and two evaluations that name one reference agree on its content
\* (register_* and same_evaluation_semantics).
ReferencesAgree ==
    \A a \in Attempts : attempts[a].state # "absent" =>
        LET r == attempts[a].request IN
        /\ SameSemantics(evaluations[r.evaluation].request, r)
        /\ references[r.reference] = r.digest

\* Only work that a node leased can be completed, failed or expired; a queued
\* attempt has no holder, and an attempt never holds half a lease.
LeaseBeforeResult ==
    \A a \in Attempts :
        /\ attempts[a].state \in {"leased", "completed", "failed", "expired"}
              => attempts[a].node # Null /\ attempts[a].token # Null /\ attempts[a].expires # Null
        /\ attempts[a].state = "queued"
              => attempts[a].node = Null /\ attempts[a].token = Null /\ attempts[a].expires = Null

Safety == RowsAgree /\ AttemptHistory /\ ReferencesAgree /\ LeaseBeforeResult

\* The rows of evaluation e stay as they are, and no attempt is added to it.
Frozen(e) ==
    /\ evaluations'[e] = evaluations[e]
    /\ AttemptsOf(e)' = AttemptsOf(e)
    /\ \A a \in AttemptsOf(e) : attempts'[a] = attempts[a] /\ tasks'[a] = tasks[a]

\* The first terminal write wins: no later command changes the evaluation, its
\* result or any of its attempts, and none adds an attempt to it.
TerminalIsFinal ==
    [][\A e \in Evaluations : evaluations[e].state \in TerminalStates => Frozen(e)]_vars

\* The holder and the payload of attempt a stay as they are.
HolderKept(a) ==
    /\ attempts'[a].request = attempts[a].request
    /\ attempts[a].node # Null =>
          /\ attempts'[a].node = attempts[a].node
          /\ attempts'[a].token = attempts[a].token
          /\ attempts'[a].operation = attempts[a].operation

\* An attempt is leased to at most one node, once: no claim ever replaces the
\* node, token or operation of an attempt that has them, and the payload of an
\* attempt is never rewritten.
LeasedOnce ==
    [][\A a \in Attempts : attempts[a].state # "absent" => HolderKept(a)]_vars

\* "The task stores the sorted, deduplicated required_capabilities derived from
\* the canonical request": in whatever order a request lists its capabilities,
\* create_evaluation can store its task.
CapabilityOrderIsImmaterial ==
    [][reply'.op = "create" /\ reply' # reply => reply'.outcome # "Unavailable"]_vars

-----------------------------------------------------------------------------
Lifecycle == INSTANCE EvaluationLifecycle WITH
    Verdicts <- Results,
    evaluationState <- [e \in Evaluations |-> evaluations[e].state],
    attemptState <- [a \in Attempts |-> attempts[a].state],
    current <- [e \in Evaluations |-> evaluations[e].current],
    verdict <- [e \in Evaluations |-> evaluations[e].result]

\* The store implements the lifecycle of the domain: every transaction moves an
\* evaluation and its current attempt along EvaluationState::transition_to and
\* AttemptState::transition_to, together, and gives at most one verdict.
ImplementsLifecycle == Lifecycle!Spec
=============================================================================
