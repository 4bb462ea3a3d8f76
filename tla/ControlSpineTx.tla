--------------------------- MODULE ControlSpineTx ---------------------------
(***************************************************************************)
(* The transactions of the store (crates/openoj-storage/src/create.rs,     *)
(* lease.rs, terminal.rs) statement by statement, as the sessions of the   *)
(* pool run them side by side under PostgreSQL's READ COMMITTED.  The      *)
(* tables of ControlSpine are what is committed: a transaction takes row   *)
(* locks as its statements do, decides on the rows it locked, and changes  *)
(* the tables when it commits.                                             *)
(*                                                                         *)
(* The rules of PostgreSQL used here: a row lock, or a value inserted in a *)
(* unique index, is kept to the end of the transaction, and whoever needs  *)
(* it waits; a statement sees what was committed when it started; a        *)
(* SELECT ... FOR UPDATE that had to wait evaluates its condition again on *)
(* the new version of the rows it locks and drops what no longer           *)
(* satisfies it; the deadlock detector ends one transaction of a cycle of  *)
(* waiting ones.                                                           *)
(***************************************************************************)
EXTENDS ControlSpine, FiniteSets

CONSTANTS
    Sessions,   \* connections of the pool
    Commands    \* the commands sessions are given, records with a field op

ASSUME CommandsAssumption ==
    \A c \in Commands :
        c \in      [op : {"create", "retry"}, request : Requests, now : Times]
              \cup [op : {"claim"}, node : Nodes, token : Tokens,
                    operation : Operations \cup {Null},
                    declared : SUBSET UNION {Range(l) : l \in CapabilityLists}, now : Times]
              \cup [op : {"renew"}, node : Nodes, evaluation : Evaluations,
                    attempt : Attempts, token : Tokens, now : Times]
              \cup [op : {"submit"}, key : ResultKeys, token : Tokens, result : Results,
                    now : Times]
              \cup [op : {"cancel"}, key : ResultKeys, evaluation : Evaluations,
                    result : Results, now : Times]

VARIABLES
    tx,     \* by session: the command it runs, its next statement, and the
            \* attempts the last SELECT left it with
    held    \* by session: the rows and index entries its transaction holds

txVars == <<tx, held>>
allVars == <<references, evaluations, attempts, tasks, reply, tx, held>>

Idle == [at |-> "idle", command |-> Null, rows |-> {}]
Labels == {"by_key", "register", "insert_evaluation", "insert_attempt", "scan", "lock_task",
           "claim_attempt", "claim_evaluation", "select", "lock_evaluation",
           "lock_attempt", "result_key", "task", "commit"}

\* What a transaction can hold: rows, by table, and entries of unique indexes.
EvaluationRow(e) == <<"evaluation", e>>
AttemptRow(a) == <<"attempt", a>>
TaskRow(a) == <<"task", a>>
ReferenceRow(r) == <<"reference", r>>
Entry(index, value) == <<index, value>>

TxTypeOK ==
    /\ \A s \in Sessions :
          \/ tx[s] = Idle /\ held[s] = {}
          \/ /\ tx[s].command \in Commands
             /\ tx[s].at \in Labels
             /\ tx[s].rows \subseteq Attempts
    /\ \A s, u \in Sessions : s # u => held[s] \cap held[u] = {}

TxInit ==
    /\ Init
    /\ tx = [s \in Sessions |-> Idle]
    /\ held = [s \in Sessions |-> {}]

EvaluationOf(c) ==
    CASE c.op = "retry" -> c.request.evaluation
      [] c.op = "submit" -> c.result.evaluation
      [] OTHER -> c.evaluation

\* The row a transaction works on once its SELECT has returned it.
Row(s) == CHOOSE a \in tx[s].rows : TRUE

-----------------------------------------------------------------------------
(***************************************************************************)
(* Locks.                                                                  *)
(***************************************************************************)

\* The row an idempotency key is stored in, if it is.
KeyRows(c) ==
    IF c.op = "create"
    THEN {EvaluationRow(e) : e \in {f \in Evaluations :
             Stored(f) /\ evaluations[f].request.key = c.request.key}}
    ELSE {AttemptRow(a) : a \in {b \in Attempts :
             attempts[b].state # "absent" /\ attempts[b].request.key = c.request.key}}

\* Faults: FOR UPDATE is forgotten; a cancellation locks its attempt first.
ReadsUnlocked(s) == {}
AttemptFirst(s) ==
    IF (tx[s].at = "lock_evaluation") <=> (tx[s].command.op = "cancel")
    THEN {AttemptRow(Row(s))} ELSE {EvaluationRow(EvaluationOf(tx[s].command))}

\* FOR UPDATE OF e, a locks the evaluation and then the attempt.
JoinNeeds(s) ==
    IF tx[s].at = "lock_evaluation" THEN {EvaluationRow(EvaluationOf(tx[s].command))}
    ELSE {AttemptRow(Row(s))}

\* What the next statement of a session has to take, some of which it may have
\* already.  A claim has its task and goes for the attempt and then the
\* evaluation; every other writer has both and goes for the task.
Needs(s) ==
    LET c == tx[s].command IN
    CASE tx[s].at = "by_key" -> KeyRows(c)
      [] tx[s].at = "register" ->
            IF references[c.request.reference] = Null
            THEN {ReferenceRow(c.request.reference)} ELSE {}
      [] tx[s].at = "insert_evaluation" ->
            {EvaluationRow(c.request.evaluation), Entry("creation_key", c.request.key)}
      [] tx[s].at = "insert_attempt" ->
            {AttemptRow(c.request.attempt), Entry("attempt_key", c.request.key)}
      [] tx[s].at = "claim_attempt" ->
            {AttemptRow(Row(s))}
               \cup IF c.operation = Null THEN {} ELSE {Entry("operation", <<c.node, c.operation>>)}
      [] tx[s].at = "claim_evaluation" ->
            {EvaluationRow(attempts[Row(s)].request.evaluation)}
      [] tx[s].at \in {"lock_evaluation", "lock_attempt"} -> JoinNeeds(s)
      [] tx[s].at = "result_key" ->
            {EvaluationRow(EvaluationOf(c)), Entry("result_key", c.key)}
      [] tx[s].at = "task" -> {AttemptRow(Row(s)), TaskRow(Row(s))}
      [] OTHER -> {}

WaitsFor(s, u) == s # u /\ Needs(s) \cap held[u] # {}
Free(s) == \A u \in Sessions : ~WaitsFor(s, u)

\* Every session of a non-empty part of S waits for another one of it.
Deadlocked(S) ==
    \E T \in SUBSET S : T # {} /\ \A s \in T : \E u \in T : WaitsFor(s, u)

\* s is on a cycle: T is one, because no smaller part of it is deadlocked.
OnCycle(s) ==
    \E T \in SUBSET Sessions :
        /\ s \in T /\ Deadlocked(T)
        /\ \A u \in T : ~Deadlocked(T \ {u})

-----------------------------------------------------------------------------
(***************************************************************************)
(* Ends of a transaction.                                                  *)
(***************************************************************************)

\* Fault: a refused renewal is neither committed nor rolled back.
KeepsLocks(s, outcome) ==
    /\ Reply(tx[s].command.op, outcome)
    /\ tx' = [tx EXCEPT ![s] = Idle]
    /\ held' = [held EXCEPT ![s] = IF outcome = "StaleLease" THEN @ ELSE {}]
    /\ UNCHANGED tables

\* An early return: the transaction is rolled back, or had nothing to write.
End(s, outcome) ==
    /\ Reply(tx[s].command.op, outcome)
    /\ tx' = [tx EXCEPT ![s] = Idle]
    /\ held' = [held EXCEPT ![s] = {}]
    /\ UNCHANGED tables

\* A statement inside a transaction writes nothing that others see, and
\* returns nothing to the caller of the command.
Unanswered == Reply("none", "Ok") /\ UNCHANGED tables

\* The next statement is at label, with these rows, and the locks it took.
Goto(s, label, rows) ==
    /\ tx' = [tx EXCEPT ![s] = [@ EXCEPT !.at = label, !.rows = rows]]
    /\ held' = [held EXCEPT ![s] = @ \cup Needs(s)]
    /\ Unanswered

\* pool.begin(), for a command that passed the checks made before it.
Begin(s, c) ==
    /\ tx[s].at = "idle"
    /\ c.op \in {"claim", "renew"} => ExpiryFits(c.now)
    /\ c.op = "cancel" => c.result.status = "cancelled" /\ c.result.evaluation = c.evaluation
    /\ tx' = [tx EXCEPT ![s] = [at |-> CASE c.op \in {"create", "retry"} -> "by_key"
                                         [] c.op = "claim" -> "scan"
                                         [] OTHER -> "select",
                                command |-> c, rows |-> {}]]
    /\ Unanswered /\ UNCHANGED held

\* The connection is lost, or deadlock_timeout ends a transaction of a cycle.
Disconnect(s) == tx[s].at # "idle" /\ End(s, "Unavailable")
BreakDeadlock(s) == OnCycle(s) /\ End(s, "Unavailable")

-----------------------------------------------------------------------------
(***************************************************************************)
(* Statements.                                                             *)
(***************************************************************************)

\* create_evaluation and retry_expired: the key is looked up first.
ByKey(s) ==
    LET r == tx[s].command.request
        stored == IF tx[s].command.op = "create"
                  THEN \E e \in Evaluations : Stored(e) /\ evaluations[e].request = r
                  ELSE attempts[r.attempt].state # "absent" /\ attempts[r.attempt].request = r IN
    /\ tx[s].at = "by_key"
    /\ \/ /\ KeyRows(tx[s].command) # {} /\ Free(s)
          /\ End(s, IF stored THEN "Replayed" ELSE "IdempotencyConflict")
       \/ /\ KeyRows(tx[s].command) = {}
          /\ Goto(s, IF tx[s].command.op = "create" THEN "register" ELSE "select", {})

\* register_artifact and the three that follow it: INSERT ... ON CONFLICT DO
\* NOTHING waits for a transaction that is inserting the same reference.
Register(s) ==
    /\ tx[s].at = "register" /\ Free(s)
    /\ IF ContentDiffers(tx[s].command.request)
       THEN End(s, "ImmutableReferenceConflict")
       ELSE Goto(s, "insert_evaluation", {})

InsertEvaluation(s) ==
    LET r == tx[s].command.request IN
    /\ tx[s].at = "insert_evaluation" /\ Free(s)
    /\ IF Stored(r.evaluation) \/ \E e \in Evaluations : Stored(e) /\ evaluations[e].request.key = r.key
       THEN End(s, "IdentityConflict")
       ELSE Goto(s, "insert_attempt", {})

\* insert_attempt, or the INSERTs of replace_attempt, and insert_task.
InsertAttempt(s) ==
    LET r == tx[s].command.request IN
    /\ tx[s].at = "insert_attempt" /\ Free(s)
    /\ IF AttemptTaken(r) \/ AttemptKeyTaken(r.key) THEN End(s, "IdentityConflict")
       ELSE IF ~ValidRequired(r.required) THEN End(s, "Unavailable")
       ELSE Goto(s, "commit", tx[s].rows)

\* The claim's SELECT: what was claimable when it started, in order of age.
Scan(s) ==
    /\ tx[s].at = "scan"
    /\ Goto(s, "lock_task", {a \in Attempts : Claimable(a, tx[s].command.declared)})

\* Fault: the task is not looked at again once it is locked.
StillAsScanned(a) == TRUE

\* The condition on the task, evaluated again on the version that was locked.
\* The attempt and the evaluation are not locked and are not read again.
StillReady(a) == tasks[a] = "ready"

\* FOR UPDATE OF t SKIP LOCKED LIMIT 1, one row of the scan after the other.
LockTask(s) ==
    LET rows == tx[s].rows IN
    /\ tx[s].at = "lock_task"
    /\ \/ rows = {} /\ End(s, "NoTaskAvailable")
       \/ \E a \in rows :
             /\ \A b \in rows : attempts[a].created <= attempts[b].created
             /\ LET skipped == \E u \in Sessions \ {s} : TaskRow(a) \in held[u]
                    taken == ~skipped /\ StillReady(a) IN
                /\ tx' = [tx EXCEPT ![s] = [@ EXCEPT
                            !.at = IF taken THEN "claim_attempt" ELSE "lock_task",
                            !.rows = IF taken THEN {a} ELSE rows \ {a}]]
                /\ held' = [held EXCEPT ![s] = IF skipped THEN @ ELSE @ \cup {TaskRow(a)}]
             /\ Unanswered

\* UPDATE evaluation_attempts, with the unique index on the operation.
ClaimAttempt(s) ==
    LET c == tx[s].command IN
    /\ tx[s].at = "claim_attempt" /\ Free(s)
    /\ IF OperationTaken(c.node, c.operation) \/ attempts[Row(s)].created > c.now
       THEN End(s, "Unavailable")
       ELSE Goto(s, "claim_evaluation", tx[s].rows)

ClaimEvaluation(s) ==
    /\ tx[s].at = "claim_evaluation" /\ Free(s)
    /\ IF evaluations[attempts[Row(s)].request.evaluation].created > tx[s].command.now
       THEN End(s, "Unavailable")
       ELSE Goto(s, "commit", tx[s].rows)

\* The SELECT ... FOR UPDATE OF e, a of the other four: the join is evaluated
\* on what is committed now; the locks come after it.
Select(s) ==
    LET e == EvaluationOf(tx[s].command) IN
    /\ tx[s].at = "select"
    /\ IF Stored(e) THEN Goto(s, "lock_evaluation", {evaluations[e].current})
       ELSE End(s, "NotFound")

LockEvaluation(s) ==
    /\ tx[s].at = "lock_evaluation" /\ Free(s)
    /\ Goto(s, "lock_attempt", tx[s].rows)

\* What the command decides on the rows it has locked.
Decision(c) ==
    CASE c.op = "renew" -> RenewOutcome(c.node, c.evaluation, c.attempt, c.token, c.now)
      [] c.op = "retry" -> RetryCheck(c.request, c.now)
      [] c.op = "submit" -> SubmitCheck(c.key, c.token, c.result, c.now)
      [] c.op = "cancel" -> CancelCheck(c.key, c.evaluation, c.result)

\* The join of the locked evaluation with the attempt that was selected.
JoinHolds(s) == evaluations[EvaluationOf(tx[s].command)].current = Row(s)

LockAttempt(s) ==
    LET c == tx[s].command IN
    /\ tx[s].at = "lock_attempt" /\ Free(s)
    /\ CASE ~JoinHolds(s) -> End(s, "NotFound")
         [] JoinHolds(s) /\ Decision(c) \notin {"Ok", "Continue"} -> End(s, Decision(c))
         [] OTHER -> Goto(s, CASE c.op = "renew" -> "commit"
                               [] c.op = "retry" -> "task"
                               [] OTHER -> "result_key", tx[s].rows)

\* The first UPDATE of write_terminal, which enters the result key.
ResultKey(s) ==
    LET c == tx[s].command
        outcome == WriteOutcome(c.result.evaluation, Row(s), c.key, c.now) IN
    /\ tx[s].at = "result_key" /\ Free(s)
    /\ IF outcome = "Ok" THEN Goto(s, "task", tx[s].rows) ELSE End(s, outcome)

\* The UPDATE of the task in write_terminal and replace_attempt.
Task(s) ==
    /\ tx[s].at = "task" /\ Free(s)
    /\ Goto(s, IF tx[s].command.op = "retry" THEN "insert_attempt" ELSE "commit", tx[s].rows)

\* What the statements wrote becomes visible, whatever is in the tables now.
Commit(s) ==
    LET c == tx[s].command IN
    /\ tx[s].at = "commit"
    /\ CASE c.op = "create" ->
               LET r == c.request IN
               /\ references' = [references EXCEPT ![r.reference] = r.digest]
               /\ evaluations' = [evaluations EXCEPT ![r.evaluation] = InsertedEvaluation(r, c.now)]
               /\ attempts' = [attempts EXCEPT ![r.attempt] = InsertedAttempt(r, c.now)]
               /\ tasks' = [tasks EXCEPT ![r.attempt] = "ready"]
         [] c.op = "claim" -> ClaimWrites(Row(s), c.node, c.token, c.operation, c.now)
         [] c.op = "renew" ->
               /\ attempts' = [attempts EXCEPT ![c.attempt].expires = c.now + LeaseDuration]
               /\ UNCHANGED <<references, evaluations, tasks>>
         [] c.op = "retry" -> ReplaceAttempt(Row(s), c.request, c.now) /\ UNCHANGED references
         [] OTHER -> WriteTerminal(c.key, c.result) /\ UNCHANGED references
    /\ Reply(c.op, IF c.op = "renew" THEN "Continue" ELSE "Ok")
    /\ tx' = [tx EXCEPT ![s] = Idle]
    /\ held' = [held EXCEPT ![s] = {}]

Proceed(s) ==
    \/ ByKey(s) \/ Register(s) \/ InsertEvaluation(s) \/ InsertAttempt(s)
    \/ Scan(s) \/ LockTask(s) \/ ClaimAttempt(s) \/ ClaimEvaluation(s)
    \/ Select(s) \/ LockEvaluation(s) \/ LockAttempt(s) \/ ResultKey(s) \/ Task(s)
    \/ Commit(s)

TxNext ==
    \E s \in Sessions :
        \/ \E c \in Commands : Begin(s, c)
        \/ Proceed(s)
        \/ BreakDeadlock(s)
        \/ Disconnect(s)

\* A statement that can run does; the lock queues of PostgreSQL are first come
\* first served, so one that is granted its lock again and again gets it; the
\* deadlock detector runs.
TxFairness ==
    /\ \A s \in Sessions : SF_allVars(Proceed(s))
    /\ WF_allVars(\E s \in Sessions : BreakDeadlock(s))

TxSpec == TxInit /\ [][TxNext]_allVars
FairTxSpec == TxSpec /\ TxFairness

-----------------------------------------------------------------------------
(***************************************************************************)
(* What the locks are for.                                                 *)
(***************************************************************************)

\* Every change of the tables, however the statements of several transactions
\* interleave, is one command of ControlSpine run alone on the tables it
\* changes: the row locks, the repeated conditions and the unique indexes make
\* the store's transactions atomic under READ COMMITTED.
ImplementsStore == Init /\ [][UNCHANGED tables \/ Next]_allVars

\* The labels after the decision of a command.
Decided(s) ==
    IF tx[s].at = "idle" THEN FALSE
    ELSE CASE tx[s].command.op = "create" -> tx[s].at = "commit"
           [] tx[s].command.op = "claim" ->
                 tx[s].at \in {"claim_attempt", "claim_evaluation", "commit"}
           [] OTHER -> tx[s].at \in {"result_key", "task", "insert_attempt", "commit"}

\* What a transaction decided from the rows it read is still true of what is
\* committed, as long as it runs: nobody cancels, finishes, expires or leases
\* the work between the read and the write, although a claim reads the attempt
\* and the evaluation without locking them.
DecisionStands ==
    \A s \in Sessions : Decided(s) =>
        LET c == tx[s].command IN
        CASE c.op = "create" -> CreateOutcome(c.request) = "Ok"
          [] c.op = "claim" -> Claimable(Row(s), c.declared)
          [] OTHER -> JoinHolds(s) /\ Decision(c) \in {"Ok", "Continue"}

Claiming == {s \in Sessions : tx[s].at # "idle" /\ tx[s].command.op = "claim"}

\* The lock orders of the commands: claims never wait for each other in a
\* circle (SKIP LOCKED), and neither do the commands that lock the evaluation
\* first.  Only a claim, which takes the task first, and another command on
\* the same evaluation can deadlock, and they do.
OnlyClaimsCross == ~Deadlocked(Claiming) /\ ~Deadlocked(Sessions \ Claiming)

\* Every transaction ends: whoever waits is let in or, when a claim crossed
\* another command, refused by the deadlock detector.
EveryTransactionEnds == \A s \in Sessions : tx[s].at # "idle" ~> tx[s].at = "idle"

\* "Same key + same bytes returns the original snapshot": a create_evaluation
\* whose very request is stored when it ends is told so.
ReplayReturnsOriginal ==
    [][\A s \in Sessions :
          /\ tx[s].at # "idle" /\ tx'[s].at = "idle"
          /\ tx[s].command.op = "create"
          /\ \E e \in Evaluations : Stored(e) /\ evaluations[e].request = tx[s].command.request
          => reply'.outcome \in {"Replayed", "Unavailable"}]_allVars

\* "Other late or stale results return stale_lease or terminal_conflict": the
\* result of a replaced attempt is never told that there is no evaluation.
LateResultIsStale ==
    [][\A s \in Sessions :
          /\ tx[s].at # "idle" /\ tx'[s].at = "idle"
          /\ tx[s].command.op = "submit"
          /\ Stored(tx[s].command.result.evaluation)
          => reply'.outcome # "NotFound"]_allVars
=============================================================================
