------------------------ MODULE ControlSpineTxProofs ------------------------
(***************************************************************************)
(* Proofs about the transactions of the store: for every number of         *)
(* sessions and every set of commands, what the sessions do side by side,  *)
(* statement by statement, is what they would do one after the other.      *)
(***************************************************************************)
EXTENDS ControlSpineTx, ControlSpineProofs

Joins == {"renew", "retry", "submit", "cancel"}

\* A transaction that works on one attempt.
OneRow(rows) == \E a \in Attempts : rows = {a}

\* The INSERT of r's attempt went through, and is locked.
Inserted(r, h) ==
    /\ ~AttemptTaken(r) /\ ~AttemptKeyTaken(r.key)
    /\ AttemptRow(r.attempt) \in h /\ Entry("attempt_key", r.key) \in h

(***************************************************************************)
(* What is true of a transaction at each of its statements: which rows and *)
(* entries it holds in h, and what of what it read is still so.            *)
(***************************************************************************)
CreateStands(at, r, h) ==
    /\ at \in {"by_key", "register", "insert_evaluation", "insert_attempt", "commit"}
    /\ at \in {"insert_evaluation", "insert_attempt", "commit"} =>
          \/ references[r.reference] = r.digest
          \/ references[r.reference] = Null /\ ReferenceRow(r.reference) \in h
    /\ at \in {"insert_attempt", "commit"} =>
          /\ ~Stored(r.evaluation) /\ EvaluationRow(r.evaluation) \in h
          /\ \A e \in Evaluations : Stored(e) => evaluations[e].request.key # r.key
          /\ Entry("creation_key", r.key) \in h
    /\ at = "commit" => Inserted(r, h) /\ ValidRequired(r.required)

ClaimStands(at, c, rows, h) ==
    /\ at \in {"scan", "lock_task", "claim_attempt", "claim_evaluation", "commit"}
    /\ ExpiryFits(c.now)
    /\ \A a \in rows : /\ attempts[a].state # "absent"
                       /\ Range(attempts[a].request.required) \subseteq c.declared
    /\ at \in {"claim_attempt", "claim_evaluation", "commit"} =>
          OneRow(rows) /\ \A a \in rows : tasks[a] = "ready" /\ TaskRow(a) \in h
    /\ at \in {"claim_evaluation", "commit"} =>
          /\ \A a \in rows : AttemptRow(a) \in h /\ attempts[a].created <= c.now
          /\ ~OperationTaken(c.node, c.operation)
          /\ c.operation # Null => Entry("operation", <<c.node, c.operation>>) \in h
    /\ at = "commit" =>
          \A a \in rows : /\ EvaluationRow(attempts[a].request.evaluation) \in h
                          /\ evaluations[attempts[a].request.evaluation].created <= c.now

JoinLabels(op) ==
    {"select", "lock_evaluation", "lock_attempt", "commit"}
       \cup (IF op = "retry" THEN {"by_key", "task", "insert_attempt"} ELSE {})
       \cup (IF op \in {"submit", "cancel"} THEN {"result_key", "task"} ELSE {})

JoinStands(at, c, rows, h) ==
    LET e == EvaluationOf(c) IN
    /\ at \in JoinLabels(c.op)
    /\ c.op = "renew" => ExpiryFits(c.now)
    /\ c.op = "cancel" => c.result.status = "cancelled" /\ c.result.evaluation = e
    /\ at \notin {"by_key", "select"} => Stored(e) /\ OneRow(rows)
    /\ at \notin {"by_key", "select", "lock_evaluation"} => EvaluationRow(e) \in h
    /\ at \in {"result_key", "task", "insert_attempt", "commit"} =>
          /\ Decision(c) \in {"Ok", "Continue"}
          /\ \A a \in rows : evaluations[e].current = a /\ AttemptRow(a) \in h
    /\ c.op \in {"submit", "cancel"} /\ at \in {"task", "commit"} =>
          /\ \A a \in rows : WriteOutcome(e, a, c.key, c.now) = "Ok"
          /\ Entry("result_key", c.key) \in h
    /\ (at = "insert_attempt" \/ (at = "commit" /\ c.op # "renew")) =>
          \A a \in rows : TaskRow(a) \in h
    /\ c.op = "retry" /\ at = "commit" => Inserted(c.request, h)

SessionOK(s) ==
    LET c == tx[s].command IN
    \/ tx[s] = Idle /\ held[s] = {}
    \/ /\ c \in Commands
       /\ c.op = "create" => CreateStands(tx[s].at, c.request, held[s])
       /\ c.op = "claim" => ClaimStands(tx[s].at, c, tx[s].rows, held[s])
       /\ c.op \in Joins => JoinStands(tx[s].at, c, tx[s].rows, held[s])

Transactions == [at : Labels \cup {"idle"}, command : Commands \cup {Null}, rows : SUBSET Attempts]

TxTables ==
    /\ tx \in [Sessions -> Transactions]
    /\ held = [s \in Sessions |-> held[s]]

\* No row and no index entry is held by two transactions.
Exclusive == \A s, u \in Sessions : s # u => held[s] \cap held[u] = {}

(***************************************************************************)
(* The inductive invariant of the transactions.                            *)
(***************************************************************************)
TxInv == IInv /\ TxTables /\ Exclusive /\ \A s \in Sessions : SessionOK(s)

-----------------------------------------------------------------------------
(***************************************************************************)
(* Commands and rows.                                                      *)
(***************************************************************************)

LEMMA CommandTyped ==
    ASSUME NEW c \in Commands
    PROVE  /\ c.op \in {"create", "claim"} \cup Joins
           /\ c.now \in Times
           /\ c.op \in {"create", "retry"} => c.request \in Requests
           /\ c.op = "claim" => /\ c.node \in Nodes /\ c.token \in Tokens
                                /\ c.operation \in Operations \cup {Null}
                                /\ c.declared \in SUBSET Capabilities
           /\ c.op = "renew" => /\ c.node \in Nodes /\ c.evaluation \in Evaluations
                                /\ c.attempt \in Attempts /\ c.token \in Tokens
           /\ c.op \in {"submit", "cancel"} => c.key \in ResultKeys /\ c.result \in Results
           /\ c.op = "submit" => c.token \in Tokens
           /\ c.op = "cancel" => c.evaluation \in Evaluations
<1>1. CASE c \in [op : {"create", "retry"}, request : Requests, now : Times]
  BY <1>1 DEF Joins
<1>2. CASE c \in [op : {"claim"}, node : Nodes, token : Tokens, operation : Operations \cup {Null},
                  declared : SUBSET UNION {Range(l) : l \in CapabilityLists}, now : Times]
  BY <1>2 DEF Capabilities
<1>3. CASE c \in [op : {"renew"}, node : Nodes, evaluation : Evaluations,
                  attempt : Attempts, token : Tokens, now : Times]
  BY <1>3 DEF Joins
<1>4. CASE c \in [op : {"submit"}, key : ResultKeys, token : Tokens, result : Results, now : Times]
  BY <1>4 DEF Joins
<1>5. CASE c \in [op : {"cancel"}, key : ResultKeys, evaluation : Evaluations,
                  result : Results, now : Times]
  BY <1>5 DEF Joins
<1> QED BY <1>1, <1>2, <1>3, <1>4, <1>5, CommandsAssumption

LEMMA EvaluationOfTyped ==
    ASSUME NEW c \in Commands, c.op \in Joins
    PROVE  /\ EvaluationOf(c) \in Evaluations
           /\ c.op = "retry" => EvaluationOf(c) = c.request.evaluation
           /\ c.op = "submit" => EvaluationOf(c) = c.result.evaluation
           /\ c.op \in {"renew", "cancel"} => EvaluationOf(c) = c.evaluation
<1>1. CASE c.op = "retry"
  BY <1>1, CommandTyped DEF EvaluationOf, Requests
<1>2. CASE c.op = "submit"
  BY <1>2, CommandTyped DEF EvaluationOf, Results
<1>3. CASE c.op \in {"renew", "cancel"}
  BY <1>3, CommandTyped DEF EvaluationOf
<1> QED BY <1>1, <1>2, <1>3 DEF Joins

LEMMA RowIs ==
    ASSUME NEW s, NEW a, tx[s].rows = {a}
    PROVE  Row(s) = a
BY DEF Row

\* A ready task says that its attempt is the current one, and queued, although
\* the claim has locked neither the attempt nor the evaluation.
LEMMA ReadyIsClaimable ==
    ASSUME IInv, NEW a \in Attempts, attempts[a].state # "absent", tasks[a] = "ready",
           NEW declared, Range(attempts[a].request.required) \subseteq declared
    PROVE  Claimable(a, declared)
<1>1. PICK e \in Evaluations : e = attempts[a].request.evaluation
  BY DEF IInv, TypeOK, Requests
<1>2. History(a)
  BY DEF IInv, Safety, AttemptHistory
<1>3. Stored(e) /\ evaluations[e].current = a
  BY <1>1, <1>2 DEF History
<1>4. <<evaluations[e].state, attempts[a].state, tasks[a]>> \in AgreeingStates
  BY <1>3 DEF IInv, Safety, RowsAgree, RowAgrees
<1>5. evaluations[e].state = "queued" /\ attempts[a].state = "queued"
  BY <1>4 DEF AgreeingStates
<1> QED BY <1>3, <1>5 DEF Claimable

\* What a transaction decided on an evaluation and its current attempt, it
\* would decide again as long as these two rows are the same.
LEMMA DecisionKept ==
    ASSUME NEW c \in Commands, c.op \in Joins, NEW e, e = EvaluationOf(c),
           evaluations'[e] = evaluations[e],
           attempts'[evaluations[e].current] = attempts[evaluations[e].current],
           Decision(c) \in {"Ok", "Continue"}
    PROVE  Decision(c)' = Decision(c)
<1>0. c' = c
  OBVIOUS
<1>1. CASE c.op = "renew"
  <2>1. RenewOutcome(c.node, e, c.attempt, c.token, c.now) = Decision(c)
    BY <1>1, EvaluationOfTyped DEF Decision
  <2>2. RenewOutcome(c.node, e, c.attempt, c.token, c.now)' = Decision(c)'
    BY <1>1, EvaluationOfTyped DEF Decision
  <2> QED BY <2>1, <2>2 DEF RenewOutcome, HoldsLease, Stored
<1>2. CASE c.op = "retry"
  <2>1. RetryCheck(c.request, c.now) = Decision(c) /\ RetryCheck(c.request, c.now)' = Decision(c)'
    BY <1>2 DEF Decision
  <2>2. e = c.request.evaluation
    BY <1>2, EvaluationOfTyped
  <2> QED BY <2>1, <2>2 DEF RetryCheck, LeaseRuns, NumberFollows, UpdatableAt
<1>3. CASE c.op = "submit"
  <2>1. /\ SubmitCheck(c.key, c.token, c.result, c.now) = Decision(c)
        /\ SubmitCheck(c.key, c.token, c.result, c.now)' = Decision(c)'
    BY <1>3 DEF Decision
  <2>2. e = c.result.evaluation
    BY <1>3, EvaluationOfTyped
  <2> QED BY <2>1, <2>2 DEF SubmitCheck, TokenMatches, ReplayOutcome
<1>4. CASE c.op = "cancel"
  <2>1. /\ CancelCheck(c.key, e, c.result) = Decision(c)
        /\ CancelCheck(c.key, e, c.result)' = Decision(c)'
    BY <1>4, EvaluationOfTyped DEF Decision
  <2> QED BY <2>1 DEF CancelCheck, ReplayOutcome
<1> QED BY <1>1, <1>2, <1>3, <1>4 DEF Joins

-----------------------------------------------------------------------------
(***************************************************************************)
(* What a session relies on.                                               *)
(***************************************************************************)

\* The tables change where a transaction that holds h has locked nothing.
Spares(h) ==
    /\ \A e \in Evaluations : Stored(e) => /\ Stored(e)'
                                           /\ evaluations'[e].request = evaluations[e].request
    /\ \A a \in Attempts : attempts[a].state # "absent" =>
          attempts'[a].state # "absent" /\ attempts'[a].request = attempts[a].request
    /\ \A e \in Evaluations : EvaluationRow(e) \in h => evaluations'[e] = evaluations[e]
    /\ \A a \in Attempts : AttemptRow(a) \in h => attempts'[a] = attempts[a]
    /\ \A a \in Attempts : TaskRow(a) \in h /\ attempts[a].state # "absent" =>
          tasks'[a] = tasks[a]
    /\ \A r \in References : references'[r] # references[r] =>
          references[r] = Null /\ ReferenceRow(r) \notin h
    /\ \A e \in Evaluations : Stored(e)' /\ ~Stored(e) =>
          Entry("creation_key", evaluations'[e].request.key) \notin h
    /\ \A a \in Attempts : attempts'[a].state # "absent" /\ attempts[a].state = "absent" =>
          /\ Entry("attempt_key", attempts'[a].request.key) \notin h
          /\ EvaluationRow(attempts'[a].request.evaluation) \notin h
    /\ \A e \in Evaluations : evaluations'[e].result_key \notin {Null, evaluations[e].result_key} =>
          Entry("result_key", evaluations'[e].result_key) \notin h
    /\ \A a \in Attempts :
          /\ <<attempts'[a].node, attempts'[a].operation>> # <<attempts[a].node, attempts[a].operation>>
          /\ attempts'[a].operation # Null
          => Entry("operation", <<attempts'[a].node, attempts'[a].operation>>) \notin h

LEMMA InsertedKept ==
    ASSUME IInv, NEW h, Spares(h), NEW r \in Requests,
           Inserted(r, h), EvaluationRow(r.evaluation) \in h
    PROVE  Inserted(r, h)'
<1>1. PICK e \in Evaluations, b \in Attempts : e = r.evaluation /\ b = r.attempt
  BY DEF Requests
<1>2. attempts'[b].state = "absent"
  BY <1>1 DEF Inserted, AttemptTaken, Spares
<1>3. ASSUME NEW a \in Attempts, attempts'[a].state # "absent"
      PROVE  attempts'[a].request.key # r.key
  BY <1>3 DEF Inserted, AttemptKeyTaken, Spares
<1>4. ASSUME NEW a \in Attempts, attempts'[a].state # "absent",
             attempts'[a].request.evaluation = e, attempts'[a].request.number = r.number
      PROVE  FALSE
  BY <1>1, <1>4 DEF Inserted, AttemptTaken, Spares
<1> QED BY <1>1, <1>2, <1>3, <1>4 DEF Inserted, AttemptTaken, AttemptKeyTaken

LEMMA CreateKept ==
    ASSUME IInv, NEW h, Spares(h),
           NEW at, NEW r \in Requests, CreateStands(at, r, h)
    PROVE  CreateStands(at, r, h)'
<1>1. PICK e \in Evaluations, ref \in References : e = r.evaluation /\ ref = r.reference
  BY DEF Requests
<1>2. at \in {"insert_evaluation", "insert_attempt", "commit"} =>
         \/ references'[ref] = r.digest
         \/ references'[ref] = Null /\ ReferenceRow(ref) \in h
  <2> SUFFICES ASSUME at \in {"insert_evaluation", "insert_attempt", "commit"}
               PROVE  \/ references'[ref] = r.digest
                      \/ references'[ref] = Null /\ ReferenceRow(ref) \in h
    OBVIOUS
  <2>1. \/ references[ref] = r.digest
        \/ references[ref] = Null /\ ReferenceRow(ref) \in h
    BY <1>1 DEF CreateStands
  <2>2. r.digest # Null
    BY NullAssumption DEF Requests
  <2> QED BY <2>1, <2>2 DEF Spares
<1>3. at \in {"insert_attempt", "commit"} =>
         /\ ~Stored(e)' /\ EvaluationRow(e) \in h
         /\ \A f \in Evaluations : Stored(f)' => evaluations'[f].request.key # r.key
         /\ Entry("creation_key", r.key) \in h
  <2> SUFFICES ASSUME at \in {"insert_attempt", "commit"}
               PROVE  /\ ~Stored(e)' /\ EvaluationRow(e) \in h
                      /\ \A f \in Evaluations : Stored(f)' => evaluations'[f].request.key # r.key
                      /\ Entry("creation_key", r.key) \in h
    OBVIOUS
  <2>1. /\ ~Stored(e) /\ EvaluationRow(e) \in h
        /\ \A f \in Evaluations : Stored(f) => evaluations[f].request.key # r.key
        /\ Entry("creation_key", r.key) \in h
    BY <1>1 DEF CreateStands
  <2>2. ~Stored(e)'
    BY <2>1 DEF Spares, Stored
  <2>3. ASSUME NEW f \in Evaluations, Stored(f)' PROVE evaluations'[f].request.key # r.key
    BY <2>1, <2>3 DEF Spares
  <2> QED BY <2>1, <2>2, <2>3
<1>4. at = "commit" => Inserted(r, h)' /\ ValidRequired(r.required)
  BY InsertedKept DEF CreateStands
<1> QED BY <1>1, <1>2, <1>3, <1>4 DEF CreateStands, ValidRequired

LEMMA ClaimKept ==
    ASSUME IInv, NEW h, Spares(h),
           NEW at, NEW c \in Commands, c.op = "claim", NEW rows \in SUBSET Attempts,
           ClaimStands(at, c, rows, h)
    PROVE  ClaimStands(at, c, rows, h)'
<1>1. \A a \in rows : attempts[a].state # "absent" /\ attempts'[a].state # "absent"
                      /\ attempts'[a].request = attempts[a].request
  BY DEF ClaimStands, Spares
<1>2. \A a \in rows : attempts'[a].state # "absent"
                      /\ Range(attempts'[a].request.required) \subseteq c.declared
  BY <1>1 DEF ClaimStands
<1>3. at \in {"claim_attempt", "claim_evaluation", "commit"} =>
          OneRow(rows)' /\ \A a \in rows : tasks'[a] = "ready" /\ TaskRow(a) \in h
  BY <1>1 DEF ClaimStands, Spares, OneRow
<1>4. ASSUME at \in {"claim_evaluation", "commit"}
      PROVE  /\ \A a \in rows : AttemptRow(a) \in h /\ attempts'[a].created <= c.now
             /\ c.operation # Null => Entry("operation", <<c.node, c.operation>>) \in h
             /\ ~OperationTaken(c.node, c.operation)'
  <2>1. \A a \in rows : AttemptRow(a) \in h /\ attempts'[a] = attempts[a]
    BY <1>4 DEF ClaimStands, Spares
  <2>2. /\ c.operation # Null => Entry("operation", <<c.node, c.operation>>) \in h
        /\ ~OperationTaken(c.node, c.operation)
    BY <1>4 DEF ClaimStands
  <2>3. ~OperationTaken(c.node, c.operation)'
    BY <2>2 DEF OperationTaken, Spares
  <2> QED BY <1>4, <2>1, <2>2, <2>3 DEF ClaimStands
<1>5. ASSUME at = "commit", NEW a \in rows
      PROVE  /\ EvaluationRow(attempts'[a].request.evaluation) \in h
             /\ evaluations'[attempts'[a].request.evaluation].created <= c.now
  <2>1. PICK e \in Evaluations : e = attempts[a].request.evaluation
    BY <1>1 DEF IInv, TypeOK, Requests
  <2>2. EvaluationRow(e) \in h /\ evaluations[e].created <= c.now
    BY <1>5, <2>1 DEF ClaimStands
  <2> QED BY <1>1, <2>1, <2>2 DEF Spares
<1> QED BY <1>2, <1>3, <1>4, <1>5 DEF ClaimStands, ExpiryFits

LEMMA JoinKept ==
    ASSUME IInv, NEW h, Spares(h),
           NEW at, NEW c \in Commands, c.op \in Joins, NEW rows \in SUBSET Attempts,
           JoinStands(at, c, rows, h)
    PROVE  JoinStands(at, c, rows, h)'
<1>1. PICK e \in Evaluations : e = EvaluationOf(c)
  BY EvaluationOfTyped
<1>2. /\ at \in JoinLabels(c.op)
      /\ c.op = "renew" => ExpiryFits(c.now)
      /\ c.op = "cancel" => c.result.status = "cancelled" /\ c.result.evaluation = e
  BY <1>1 DEF JoinStands
<1>3. at \notin {"by_key", "select"} => Stored(e)' /\ OneRow(rows)
  BY <1>1 DEF JoinStands, Spares
<1>4. at \notin {"by_key", "select", "lock_evaluation"} =>
         EvaluationRow(e) \in h /\ evaluations'[e] = evaluations[e]
  BY <1>1 DEF JoinStands, Spares
<1>5. ASSUME at \in {"result_key", "task", "insert_attempt", "commit"}
      PROVE  /\ Decision(c)' \in {"Ok", "Continue"}
             /\ \A a \in rows : evaluations'[e].current = a /\ AttemptRow(a) \in h
  <2>1. /\ Decision(c) \in {"Ok", "Continue"} /\ OneRow(rows)
        /\ \A a \in rows : evaluations[e].current = a /\ AttemptRow(a) \in h
    BY <1>1, <1>3, <1>5 DEF JoinStands
  <2>2. PICK a \in Attempts : rows = {a}
    BY <2>1 DEF OneRow
  <2>3. attempts'[evaluations[e].current] = attempts[evaluations[e].current]
    BY <2>1, <2>2 DEF Spares
  <2>4. evaluations'[e] = evaluations[e]
    BY <1>4, <1>5
  <2>5. Decision(c)' = Decision(c)
    BY <1>1, <2>1, <2>3, <2>4, DecisionKept
  <2> QED BY <2>1, <2>4, <2>5
<1>6. ASSUME c.op \in {"submit", "cancel"}, at \in {"task", "commit"}
      PROVE  /\ \A a \in rows : WriteOutcome(e, a, c.key, c.now)' = "Ok"
             /\ Entry("result_key", c.key) \in h
  <2>1. /\ \A a \in rows : WriteOutcome(e, a, c.key, c.now) = "Ok" /\ AttemptRow(a) \in h
        /\ Entry("result_key", c.key) \in h
    BY <1>1, <1>6 DEF JoinStands
  <2>2. evaluations'[e] = evaluations[e]
    BY <1>4, <1>6
  <2>3. ASSUME NEW a \in rows PROVE WriteOutcome(e, a, c.key, c.now)' = "Ok"
    <3>1. attempts'[a] = attempts[a]
      BY <2>1, <2>3 DEF Spares
    <3>2. /\ ~(evaluations[e].created > c.now) /\ ~(attempts[a].created > c.now)
          /\ ~\E f \in Evaluations : evaluations[f].result_key = c.key
      BY <2>1, <2>3 DEF WriteOutcome
    <3>3. ~\E f \in Evaluations : evaluations'[f].result_key = c.key
      BY <1>6, <2>1, <3>2, CommandTyped, NullAssumption DEF Spares
    <3> QED BY <2>2, <3>1, <3>2, <3>3 DEF WriteOutcome
  <2> QED BY <2>1, <2>3
<1>7. c.op = "retry" /\ at = "commit" => Inserted(c.request, h)'
  <2>1. ASSUME c.op = "retry", at = "commit" PROVE Inserted(c.request, h)'
    <3>1. c.request \in Requests /\ c.request.evaluation = e
      BY <1>1, <2>1, CommandTyped, EvaluationOfTyped
    <3>2. Inserted(c.request, h) /\ EvaluationRow(e) \in h
      BY <1>4, <2>1 DEF JoinStands
    <3> QED BY <3>1, <3>2, InsertedKept
  <2> QED BY <2>1
<1>8. (at = "insert_attempt" \/ (at = "commit" /\ c.op # "renew")) =>
          \A a \in rows : TaskRow(a) \in h
  BY DEF JoinStands
<1> QED BY <1>1, <1>2, <1>3, <1>4, <1>5, <1>6, <1>7, <1>8
        DEF JoinStands, OneRow, ExpiryFits, EvaluationOf, JoinLabels

\* A session that waits, or has only read, is not disturbed by a step that
\* spares what it holds.
LEMMA SessionKept ==
    ASSUME TxInv, NEW u \in Sessions, Spares(held[u]), tx'[u] = tx[u], held'[u] = held[u]
    PROVE  SessionOK(u)'
<1>0. SessionOK(u) /\ IInv /\ tx[u] \in Transactions
  BY DEF TxInv, TxTables
<1>1. CASE tx[u] = Idle /\ held[u] = {}
  BY <1>1 DEF SessionOK, Idle
<1>2. ASSUME NEW c \in Commands, NEW at, NEW rows \in SUBSET Attempts, NEW h,
             c = tx[u].command, at = tx[u].at, rows = tx[u].rows, h = held[u],
             c.op = "create" => CreateStands(at, c.request, h),
             c.op = "claim" => ClaimStands(at, c, rows, h),
             c.op \in Joins => JoinStands(at, c, rows, h)
      PROVE  SessionOK(u)'
  <2>1. CASE c.op = "create"
    <3>1. CreateStands(at, c.request, h)'
      BY <1>0, <1>2, <2>1, CommandTyped, CreateKept
    <3> QED BY <1>2, <2>1, <3>1 DEF SessionOK, Joins
  <2>2. CASE c.op = "claim"
    <3>1. ClaimStands(at, c, rows, h)'
      BY <1>0, <1>2, <2>2, ClaimKept
    <3> QED BY <1>2, <2>2, <3>1 DEF SessionOK, Joins
  <2>3. CASE c.op \in Joins
    <3>1. JoinStands(at, c, rows, h)'
      BY <1>0, <1>2, <2>3, JoinKept
    <3> QED BY <1>2, <2>3, <3>1 DEF SessionOK, Joins
  <2> QED BY <1>2, <2>1, <2>2, <2>3, CommandTyped
<1>3. tx[u].rows \in SUBSET Attempts
  BY <1>0 DEF Transactions
<1> QED BY <1>0, <1>1, <1>2, <1>3 DEF SessionOK

-----------------------------------------------------------------------------
(***************************************************************************)
(* Steps that leave the tables alone.                                      *)
(***************************************************************************)

LEMMA QuietSpares == ASSUME UNCHANGED tables PROVE \A h : Spares(h)
<1> SUFFICES ASSUME NEW h PROVE Spares(h)
  OBVIOUS
<1>1. /\ references' = references /\ evaluations' = evaluations
      /\ attempts' = attempts /\ tasks' = tasks
  BY DEF tables
<1> QED BY <1>1 DEF Spares, Stored

\* The store's invariant says of the reply only which it may be.
LEMMA QuietTables ==
    ASSUME IInv, UNCHANGED tables, NEW op \in {"none", "create", "claim"} \cup Joins,
           NEW outcome \in Outcomes, Reply(op, outcome)
    PROVE  IInv'
<1>1. TypeOK'
  BY DEF IInv, TypeOK, tables, Reply, Joins
<1>2. Safety'
  BY SafetyOfTables DEF IInv
<1> QED BY <1>1, <1>2 DEF IInv

\* Session s takes a step on its own.
LEMMA OwnStep ==
    ASSUME TxInv, NEW s \in Sessions, IInv', NEW t \in Transactions, NEW h,
           tx' = [tx EXCEPT ![s] = t], held' = [held EXCEPT ![s] = h],
           \A u \in Sessions \ {s} : h \cap held[u] = {} /\ Spares(held[u]), SessionOK(s)'
    PROVE  TxInv'
<1>1. /\ tx' \in [Sessions -> Transactions] /\ tx'[s] = t
      /\ \A u \in Sessions \ {s} : tx'[u] = tx[u]
  BY DEF TxInv, TxTables
<1>2. /\ held' = [u \in Sessions |-> held'[u]] /\ held'[s] = h
      /\ \A u \in Sessions \ {s} : held'[u] = held[u]
  BY DEF TxInv, TxTables
<1>3. Exclusive'
  BY <1>2 DEF TxInv, Exclusive
<1>4. \A u \in Sessions : SessionOK(u)'
  BY <1>1, <1>2, SessionKept
<1> QED BY <1>1, <1>2, <1>3, <1>4 DEF TxInv, TxTables

\* A transaction that ends lets everything go.
LEMMA EndInv ==
    ASSUME TxInv, NEW s \in Sessions, tx[s].command \in Commands, NEW outcome \in Outcomes,
           End(s, outcome)
    PROVE  TxInv'
<1>1. /\ UNCHANGED tables /\ Reply(tx[s].command.op, outcome)
      /\ tx' = [tx EXCEPT ![s] = Idle] /\ held' = [held EXCEPT ![s] = {}]
  BY DEF End
<1>2. IInv'
  BY <1>1, CommandTyped, QuietTables DEF TxInv
<1>3. Idle \in Transactions
  BY DEF Idle, Transactions
<1>4. SessionOK(s)'
  BY <1>1 DEF SessionOK, TxInv, TxTables, Idle
<1> QED BY <1>1, <1>2, <1>3, <1>4, QuietSpares, OwnStep

\* What is true of session s at label, with these rows and locks.
Stands(c, label, rows, h) ==
    /\ c.op = "create" => CreateStands(label, c.request, h)
    /\ c.op = "claim" => ClaimStands(label, c, rows, h)
    /\ c.op \in Joins => JoinStands(label, c, rows, h)

LEMMA StandsOn ==
    ASSUME IInv, UNCHANGED tables, NEW c \in Commands, NEW label, NEW rows \in SUBSET Attempts, NEW h,
           Stands(c, label, rows, h)
    PROVE  Stands(c, label, rows, h)'
<1>1. c.op = "create" => CreateStands(label, c.request, h)'
  BY CommandTyped, QuietSpares, CreateKept DEF Stands
<1>2. c.op = "claim" => ClaimStands(label, c, rows, h)'
  BY QuietSpares, ClaimKept DEF Stands
<1>3. c.op \in Joins => JoinStands(label, c, rows, h)'
  BY QuietSpares, JoinKept DEF Stands
<1> QED BY <1>1, <1>2, <1>3 DEF Stands

\* The next statement finds what it relies on.
LEMMA StatementInv ==
    ASSUME TxInv, NEW s \in Sessions, NEW c \in Commands, NEW label \in Labels,
           NEW rows \in SUBSET Attempts, NEW h,
           tx' = [tx EXCEPT ![s] = [at |-> label, command |-> c, rows |-> rows]],
           held' = [held EXCEPT ![s] = h], Unanswered,
           \A u \in Sessions \ {s} : h \cap held[u] = {}, Stands(c, label, rows, h)
    PROVE  TxInv'
<1>1. PICK t \in Transactions : /\ t = [at |-> label, command |-> c, rows |-> rows]
                                /\ t.at = label /\ t.command = c /\ t.rows = rows
  <2>1. [at |-> label, command |-> c, rows |-> rows] \in Transactions
    BY DEF Transactions
  <2> QED BY <2>1
<1>2. IInv'
  BY QuietTables DEF TxInv, Unanswered, Outcomes
<1>3. tx'[s] = t /\ held'[s] = h
  BY <1>1 DEF TxInv, TxTables
<1>4. UNCHANGED tables
  BY DEF Unanswered
<1>5. Stands(c, label, rows, h)'
  BY <1>4, StandsOn DEF TxInv
<1>6. SessionOK(s)'
  BY <1>1, <1>3, <1>5 DEF SessionOK, Stands
<1> QED BY <1>1, <1>2, <1>4, <1>6, QuietSpares, OwnStep

LEMMA TransactionIs ==
    ASSUME NEW t \in Transactions
    PROVE  t = [at |-> t.at, command |-> t.command, rows |-> t.rows]
BY DEF Transactions

LEMMA GotoInv ==
    ASSUME TxInv, NEW s \in Sessions, NEW c \in Commands, c = tx[s].command,
           NEW label \in Labels, NEW rows \in SUBSET Attempts, Goto(s, label, rows),
           Free(s) \/ Needs(s) = {},
           Stands(c, label, rows, held[s] \cup Needs(s))
    PROVE  TxInv'
<1>1. PICK h : h = held[s] \cup Needs(s)
  OBVIOUS
<1>2. tx' = [tx EXCEPT ![s] = [at |-> label, command |-> c, rows |-> rows]]
  <2>1. [tx[s] EXCEPT !.at = label, !.rows = rows] = [at |-> label, command |-> c, rows |-> rows]
    <3>1. tx[s] \in Transactions
      BY DEF TxInv, TxTables
    <3>2. PICK t : t = [tx[s] EXCEPT !.at = label, !.rows = rows]
      OBVIOUS
    <3>3. t \in Transactions /\ t.at = label /\ t.command = c /\ t.rows = rows
      BY <3>1, <3>2 DEF Transactions
    <3> QED BY <3>2, <3>3, TransactionIs
  <2> QED BY <2>1 DEF Goto
<1>3. held' = [held EXCEPT ![s] = h] /\ Unanswered
  BY <1>1 DEF Goto
<1>4. \A u \in Sessions \ {s} : h \cap held[u] = {}
  BY <1>1 DEF Free, WaitsFor, TxInv, Exclusive
<1> QED BY <1>1, <1>2, <1>3, <1>4, StatementInv

\* A session that is not idle runs a command, and what it relies on holds.
LEMMA Running ==
    ASSUME TxInv, NEW s \in Sessions, tx[s].at # "idle"
    PROVE  /\ tx[s].command \in Commands /\ tx[s].rows \in SUBSET Attempts
           /\ Stands(tx[s].command, tx[s].at, tx[s].rows, held[s])
<1>1. SessionOK(s) /\ tx[s] # Idle
  BY DEF TxInv, Idle
<1> QED BY <1>1 DEF SessionOK, Stands, TxInv, TxTables, Transactions

LEMMA BeginInv ==
    ASSUME TxInv, NEW s \in Sessions, NEW c \in Commands, Begin(s, c)
    PROVE  TxInv'
<1>0. /\ tx[s].at = "idle"
      /\ c.op \in {"claim", "renew"} => ExpiryFits(c.now)
      /\ c.op = "cancel" => c.result.status = "cancelled" /\ c.result.evaluation = c.evaluation
      /\ Unanswered /\ held' = held
  BY DEF Begin
<1>1. PICK label \in Labels : label = (CASE c.op \in {"create", "retry"} -> "by_key"
                                         [] c.op = "claim" -> "scan"
                                         [] OTHER -> "select")
  BY DEF Labels
<1>2. tx' = [tx EXCEPT ![s] = [at |-> label, command |-> c, rows |-> {}]]
  BY <1>1 DEF Begin
<1>3. held' = [held EXCEPT ![s] = held[s]]
  BY <1>0 DEF TxInv, TxTables
<1>4. \A u \in Sessions \ {s} : held[s] \cap held[u] = {}
  BY DEF TxInv, Exclusive
<1>5. Stands(c, label, {}, held[s])
  <2>1. CASE c.op = "create"
    BY <1>1, <2>1 DEF Stands, Joins, CreateStands
  <2>2. CASE c.op = "claim"
    BY <1>0, <1>1, <2>2 DEF Stands, Joins, ClaimStands
  <2>3. CASE c.op = "retry"
    BY <1>1, <2>3 DEF Stands, Joins, JoinStands, JoinLabels
  <2>4. CASE c.op \in {"renew", "submit", "cancel"}
    <3>1. c.op = "cancel" => EvaluationOf(c) = c.evaluation
      BY EvaluationOfTyped DEF Joins
    <3> QED BY <1>0, <1>1, <2>4, <3>1 DEF Stands, Joins, JoinStands, JoinLabels
  <2> QED BY <2>1, <2>2, <2>3, <2>4, CommandTyped DEF Joins
<1> QED BY <1>0, <1>2, <1>3, <1>4, <1>5, StatementInv

\* Nobody waits for nothing: who is on a cycle is running.
LEMMA OnCycleRuns ==
    ASSUME NEW s \in Sessions, OnCycle(s)
    PROVE  tx[s].at # "idle"
<1>1. PICK T \in SUBSET Sessions : /\ s \in T /\ Deadlocked(T)
                                   /\ \A u \in T : ~Deadlocked(T \ {u})
  BY DEF OnCycle
<1>2. PICK U \in SUBSET T : U # {} /\ \A v \in U : \E u \in U : WaitsFor(v, u)
  BY <1>1 DEF Deadlocked
<1>3. s \in U
  <2> SUFFICES ASSUME s \notin U PROVE FALSE
    OBVIOUS
  <2>1. U \in SUBSET (T \ {s})
    OBVIOUS
  <2>2. Deadlocked(T \ {s})
    BY <1>2, <2>1 DEF Deadlocked
  <2> QED BY <1>1, <2>2
<1>4. Needs(s) # {}
  BY <1>2, <1>3 DEF WaitsFor
<1> QED BY <1>4 DEF Needs

-----------------------------------------------------------------------------
(***************************************************************************)
(* The statements.                                                         *)
(***************************************************************************)

LEMMA ByKeyInv ==
    ASSUME TxInv, NEW s \in Sessions, ByKey(s)
    PROVE  TxInv'
<1>1. PICK c \in Commands : /\ c = tx[s].command /\ tx[s].at = "by_key"
                            /\ Stands(c, "by_key", tx[s].rows, held[s])
  BY Running DEF ByKey
<1>2. c.op \in {"create", "retry"}
  BY <1>1, CommandTyped DEF Stands, ClaimStands, JoinStands, JoinLabels, Joins
<1>3. ASSUME NEW outcome \in {"Replayed", "IdempotencyConflict"}, End(s, outcome)
      PROVE  TxInv'
  BY <1>1, <1>3, EndInv DEF Outcomes
<1>4. ASSUME KeyRows(c) = {}, NEW label \in Labels,
             label = (IF c.op = "create" THEN "register" ELSE "select"), Goto(s, label, {})
      PROVE  TxInv'
  <2>1. Needs(s) = {}
    BY <1>1, <1>4 DEF Needs
  <2>2. Stands(c, label, {}, held[s] \cup Needs(s))
    BY <1>2, <1>4 DEF Stands, CreateStands, JoinStands, JoinLabels, Joins
  <2> QED BY <1>1, <1>4, <2>1, <2>2, GotoInv
<1> QED BY <1>1, <1>2, <1>3, <1>4 DEF ByKey, Labels

\* The op of a session by its label.
LEMMA OpAt ==
    ASSUME NEW c \in Commands, NEW at, NEW rows, NEW h, Stands(c, at, rows, h)
    PROVE  /\ at \in {"register", "insert_evaluation"} => c.op = "create"
           /\ at = "insert_attempt" => c.op \in {"create", "retry"}
           /\ at \in {"scan", "lock_task", "claim_attempt", "claim_evaluation"} => c.op = "claim"
           /\ at \in {"select", "lock_evaluation", "lock_attempt"} => c.op \in Joins
           /\ at = "result_key" => c.op \in {"submit", "cancel"}
           /\ at = "task" => c.op \in {"retry", "submit", "cancel"}
<1>1. CASE c.op = "create"
  BY <1>1 DEF Stands, CreateStands
<1>2. CASE c.op = "claim"
  BY <1>2 DEF Stands, ClaimStands
<1>3. CASE c.op \in Joins
  BY <1>3 DEF Stands, JoinStands, JoinLabels, Joins
<1> QED BY <1>1, <1>2, <1>3, CommandTyped

LEMMA RegisterInv ==
    ASSUME TxInv, NEW s \in Sessions, Register(s)
    PROVE  TxInv'
<1>1. PICK c \in Commands : /\ c = tx[s].command /\ tx[s].at = "register"
                            /\ Stands(c, "register", tx[s].rows, held[s])
  BY Running DEF Register
<1>2. c.op = "create" /\ c.request \in Requests
  BY <1>1, OpAt, CommandTyped
<1>3. CASE ContentDiffers(c.request)
  BY <1>1, <1>3, EndInv DEF Register, Outcomes
<1>4. CASE ~ContentDiffers(c.request)
  <2>1. Goto(s, "insert_evaluation", {}) /\ Free(s)
    BY <1>1, <1>4 DEF Register
  <2>2. \/ references[c.request.reference] = c.request.digest
        \/ /\ references[c.request.reference] = Null
           /\ ReferenceRow(c.request.reference) \in held[s] \cup Needs(s)
    <3>1. references[c.request.reference] = Null =>
             ReferenceRow(c.request.reference) \in Needs(s)
      BY <1>1 DEF Needs
    <3> QED BY <1>4, <3>1 DEF ContentDiffers
  <2>3. Stands(c, "insert_evaluation", {}, held[s] \cup Needs(s))
    BY <1>2, <2>2 DEF Stands, CreateStands, Joins
  <2>4. {} \in SUBSET Attempts /\ "insert_evaluation" \in Labels
    BY DEF Labels
  <2> QED BY <1>1, <2>1, <2>3, <2>4, GotoInv
<1> QED BY <1>3, <1>4

LEMMA InsertEvaluationInv ==
    ASSUME TxInv, NEW s \in Sessions, InsertEvaluation(s)
    PROVE  TxInv'
<1>1. PICK c \in Commands : /\ c = tx[s].command /\ tx[s].at = "insert_evaluation"
                            /\ Stands(c, "insert_evaluation", tx[s].rows, held[s])
  BY Running DEF InsertEvaluation
<1>2. c.op = "create" /\ c.request \in Requests
  BY <1>1, OpAt, CommandTyped
<1>3. CASE End(s, "IdentityConflict")
  BY <1>1, <1>3, EndInv DEF Outcomes
<1>4. CASE /\ ~Stored(c.request.evaluation)
           /\ \A e \in Evaluations : Stored(e) => evaluations[e].request.key # c.request.key
           /\ Goto(s, "insert_attempt", {}) /\ Free(s)
  <2>1. Needs(s) = {EvaluationRow(c.request.evaluation), Entry("creation_key", c.request.key)}
    BY <1>1 DEF Needs
  <2>2. \/ references[c.request.reference] = c.request.digest
        \/ /\ references[c.request.reference] = Null
           /\ ReferenceRow(c.request.reference) \in held[s]
    BY <1>1, <1>2 DEF Stands, CreateStands
  <2>3. Stands(c, "insert_attempt", {}, held[s] \cup Needs(s))
    BY <1>2, <1>4, <2>1, <2>2 DEF Stands, CreateStands, Joins
  <2>4. {} \in SUBSET Attempts /\ "insert_attempt" \in Labels
    BY DEF Labels
  <2> QED BY <1>1, <1>4, <2>3, <2>4, GotoInv
<1> QED BY <1>1, <1>3, <1>4 DEF InsertEvaluation

LEMMA InsertAttemptInv ==
    ASSUME TxInv, NEW s \in Sessions, InsertAttempt(s)
    PROVE  TxInv'
<1>1. PICK c \in Commands, rows \in SUBSET Attempts :
         /\ c = tx[s].command /\ tx[s].at = "insert_attempt" /\ rows = tx[s].rows
         /\ Stands(c, "insert_attempt", rows, held[s])
  BY Running DEF InsertAttempt
<1>2. c.op \in {"create", "retry"} /\ c.request \in Requests
  BY <1>1, OpAt, CommandTyped
<1>3. CASE End(s, "IdentityConflict") \/ End(s, "Unavailable")
  BY <1>1, <1>3, EndInv DEF Outcomes
<1>4. CASE /\ ~AttemptTaken(c.request) /\ ~AttemptKeyTaken(c.request.key)
           /\ ValidRequired(c.request.required)
           /\ Goto(s, "commit", rows) /\ Free(s)
  <2>1. Needs(s) = {AttemptRow(c.request.attempt), Entry("attempt_key", c.request.key)}
    BY <1>1 DEF Needs
  <2>2. Inserted(c.request, held[s] \cup Needs(s))
    BY <1>4, <2>1 DEF Inserted
  <2>3. CASE c.op = "create"
    <3>1. Stands(c, "commit", rows, held[s] \cup Needs(s))
      BY <1>1, <1>4, <2>2, <2>3 DEF Stands, CreateStands, Joins
    <3> QED BY <1>1, <1>4, <3>1, GotoInv DEF Labels
  <2>4. CASE c.op = "retry"
    <3>1. Stands(c, "commit", rows, held[s] \cup Needs(s))
      BY <1>1, <2>2, <2>4 DEF Stands, JoinStands, Joins, JoinLabels
    <3> QED BY <1>1, <1>4, <3>1, GotoInv DEF Labels
  <2> QED BY <1>2, <2>3, <2>4
<1> QED BY <1>1, <1>3, <1>4 DEF InsertAttempt

LEMMA ScanTxInv ==
    ASSUME TxInv, NEW s \in Sessions, Scan(s)
    PROVE  TxInv'
<1>1. PICK c \in Commands : /\ c = tx[s].command /\ tx[s].at = "scan"
                            /\ Stands(c, "scan", tx[s].rows, held[s])
  BY Running DEF Scan
<1>2. c.op = "claim"
  BY <1>1, OpAt
<1>3. PICK rows \in SUBSET Attempts : rows = {a \in Attempts : Claimable(a, c.declared)}
  OBVIOUS
<1>4. Goto(s, "lock_task", rows) /\ Needs(s) = {}
  BY <1>1, <1>3 DEF Scan, Needs
<1>5. Stands(c, "lock_task", rows, held[s] \cup Needs(s))
  <2>1. \A a \in rows : /\ attempts[a].state # "absent"
                        /\ Range(attempts[a].request.required) \subseteq c.declared
    BY <1>3 DEF Claimable
  <2> QED BY <1>1, <1>2, <2>1 DEF Stands, ClaimStands, Joins
<1> QED BY <1>1, <1>4, <1>5, GotoInv DEF Labels

LEMMA LockTaskInv ==
    ASSUME TxInv, NEW s \in Sessions, LockTask(s)
    PROVE  TxInv'
<1>0. tx[s].at = "lock_task"
  BY DEF LockTask
<1>1. PICK c \in Commands, rows \in SUBSET Attempts :
         /\ c = tx[s].command /\ tx[s].at = "lock_task" /\ rows = tx[s].rows
         /\ Stands(c, "lock_task", rows, held[s])
  BY <1>0, Running
<1>2. c.op = "claim" /\ ClaimStands("lock_task", c, rows, held[s])
  BY <1>1, OpAt DEF Stands
<1>3. CASE End(s, "NoTaskAvailable")
  BY <1>1, <1>3, EndInv DEF Outcomes
<1>4. ASSUME NEW a \in rows, NEW skipped, NEW taken,
             skipped = (\E u \in Sessions \ {s} : TaskRow(a) \in held[u]),
             taken = (~skipped /\ StillReady(a)), Unanswered,
             tx' = [tx EXCEPT ![s] = [@ EXCEPT !.at = IF taken THEN "claim_attempt" ELSE "lock_task",
                                               !.rows = IF taken THEN {a} ELSE rows \ {a}]],
             held' = [held EXCEPT ![s] = IF skipped THEN @ ELSE @ \cup {TaskRow(a)}]
      PROVE  TxInv'
  <2>0. PICK h : h = IF skipped THEN held[s] ELSE held[s] \cup {TaskRow(a)}
    OBVIOUS
  <2>1. PICK label \in Labels, left \in SUBSET Attempts :
           /\ label = IF taken THEN "claim_attempt" ELSE "lock_task"
           /\ left = IF taken THEN {a} ELSE rows \ {a}
    <3>1. (IF taken THEN "claim_attempt" ELSE "lock_task") \in Labels
      BY DEF Labels
    <3>2. (IF taken THEN {a} ELSE rows \ {a}) \in SUBSET Attempts
      OBVIOUS
    <3> QED BY <3>1, <3>2
  <2>2. tx[s] \in Transactions
    BY DEF TxInv, TxTables
  <2>3. PICK t : t = [tx[s] EXCEPT !.at = label, !.rows = left]
    OBVIOUS
  <2>4. t \in Transactions /\ t.at = label /\ t.command = c /\ t.rows = left
    BY <1>1, <2>1, <2>2, <2>3 DEF Transactions
  <2>5. tx' = [tx EXCEPT ![s] = [at |-> label, command |-> c, rows |-> left]]
    <3>1. t = [at |-> label, command |-> c, rows |-> left]
      BY <2>4, TransactionIs
    <3> QED BY <1>4, <2>1, <2>3, <3>1
  <2>6. held' = [held EXCEPT ![s] = h]
    BY <1>4, <2>0
  <2>7. \A u \in Sessions \ {s} : h \cap held[u] = {}
    BY <1>4, <2>0 DEF TxInv, Exclusive
  <2>8. \A b \in left : /\ attempts[b].state # "absent"
                        /\ Range(attempts[b].request.required) \subseteq c.declared
    BY <1>2, <2>1 DEF ClaimStands
  <2>9. label = "claim_attempt" => OneRow(left) /\ \A b \in left : tasks[b] = "ready" /\ TaskRow(b) \in h
    BY <1>4, <2>0, <2>1 DEF OneRow, StillReady
  <2>10. Stands(c, label, left, h)
    BY <1>2, <2>0, <2>1, <2>8, <2>9 DEF Stands, ClaimStands, Joins
  <2> QED BY <1>4, <2>5, <2>6, <2>7, <2>10, StatementInv
<1> QED BY <1>1, <1>3, <1>4 DEF LockTask

LEMMA ClaimAttemptInv ==
    ASSUME TxInv, NEW s \in Sessions, ClaimAttempt(s)
    PROVE  TxInv'
<1>1. PICK c \in Commands, rows \in SUBSET Attempts :
         /\ c = tx[s].command /\ tx[s].at = "claim_attempt" /\ rows = tx[s].rows
         /\ Stands(c, "claim_attempt", rows, held[s])
  BY Running DEF ClaimAttempt
<1>2. c.op = "claim" /\ ClaimStands("claim_attempt", c, rows, held[s])
  BY <1>1, OpAt DEF Stands
<1>3. PICK a \in Attempts : rows = {a} /\ Row(s) = a
  BY <1>1, <1>2, RowIs DEF ClaimStands, OneRow
<1>4. CASE End(s, "Unavailable")
  BY <1>1, <1>4, EndInv DEF Outcomes
<1>5. CASE /\ ~OperationTaken(c.node, c.operation) /\ ~(attempts[a].created > c.now)
           /\ Goto(s, "claim_evaluation", rows) /\ Free(s)
  <2>1. Needs(s) = {AttemptRow(a)} \cup IF c.operation = Null THEN {}
                                        ELSE {Entry("operation", <<c.node, c.operation>>)}
    BY <1>1, <1>3 DEF Needs
  <2>2. attempts[a].created <= c.now
    BY <1>5, CommandTyped, BoundsAssumption DEF TxInv, IInv, TypeOK, AttemptRows, Times
  <2>3. ClaimStands("claim_evaluation", c, rows, held[s] \cup Needs(s))
    BY <1>2, <1>3, <1>5, <2>1, <2>2 DEF ClaimStands
  <2>4. Stands(c, "claim_evaluation", rows, held[s] \cup Needs(s))
    BY <1>2, <2>3 DEF Stands, Joins
  <2> QED BY <1>1, <1>5, <2>4, GotoInv DEF Labels
<1> QED BY <1>1, <1>3, <1>4, <1>5 DEF ClaimAttempt

LEMMA ClaimEvaluationInv ==
    ASSUME TxInv, NEW s \in Sessions, ClaimEvaluation(s)
    PROVE  TxInv'
<1>1. PICK c \in Commands, rows \in SUBSET Attempts :
         /\ c = tx[s].command /\ tx[s].at = "claim_evaluation" /\ rows = tx[s].rows
         /\ Stands(c, "claim_evaluation", rows, held[s])
  BY Running DEF ClaimEvaluation
<1>2. c.op = "claim" /\ ClaimStands("claim_evaluation", c, rows, held[s])
  BY <1>1, OpAt DEF Stands
<1>3. PICK a \in Attempts : rows = {a} /\ Row(s) = a
  BY <1>1, <1>2, RowIs DEF ClaimStands, OneRow
<1>4. PICK e \in Evaluations : e = attempts[a].request.evaluation
  BY <1>2, <1>3 DEF ClaimStands, TxInv, IInv, TypeOK, Requests
<1>5. CASE End(s, "Unavailable")
  BY <1>1, <1>5, EndInv DEF Outcomes
<1>6. CASE ~(evaluations[e].created > c.now) /\ Goto(s, "commit", rows) /\ Free(s)
  <2>1. Needs(s) = {EvaluationRow(e)}
    BY <1>1, <1>3, <1>4 DEF Needs
  <2>2. evaluations[e].created <= c.now
    BY <1>6, CommandTyped, BoundsAssumption DEF TxInv, IInv, TypeOK, EvaluationRows, Times
  <2>3. ClaimStands("commit", c, rows, held[s] \cup Needs(s))
    BY <1>2, <1>3, <1>4, <2>1, <2>2 DEF ClaimStands
  <2>4. Stands(c, "commit", rows, held[s] \cup Needs(s))
    BY <1>2, <2>3 DEF Stands, Joins
  <2> QED BY <1>1, <1>6, <2>4, GotoInv DEF Labels
<1> QED BY <1>1, <1>3, <1>4, <1>5, <1>6 DEF ClaimEvaluation

LEMMA SelectInv ==
    ASSUME TxInv, NEW s \in Sessions, Select(s)
    PROVE  TxInv'
<1>1. PICK c \in Commands : /\ c = tx[s].command /\ tx[s].at = "select"
                            /\ Stands(c, "select", tx[s].rows, held[s])
  BY Running DEF Select
<1>2. c.op \in Joins /\ JoinStands("select", c, tx[s].rows, held[s])
  BY <1>1, OpAt DEF Stands
<1>3. PICK e \in Evaluations : e = EvaluationOf(c)
  BY <1>2, EvaluationOfTyped
<1>4. CASE ~Stored(e)
  BY <1>1, <1>3, <1>4, EndInv DEF Select, Outcomes
<1>5. CASE Stored(e)
  <2>1. PICK a \in Attempts : a = evaluations[e].current
    BY <1>5 DEF TxInv, IInv, TypeOK, Stored
  <2>2. Goto(s, "lock_evaluation", {a})
    BY <1>1, <1>3, <1>5, <2>1 DEF Select
  <2>3. Needs(s) = {}
    BY <1>1 DEF Needs
  <2>4. JoinStands("lock_evaluation", c, {a}, held[s] \cup Needs(s))
    BY <1>2, <1>3, <1>5 DEF JoinStands, JoinLabels, OneRow
  <2>5. Stands(c, "lock_evaluation", {a}, held[s] \cup Needs(s))
    BY <1>2, <2>4 DEF Stands, Joins
  <2>6. {a} \in SUBSET Attempts /\ "lock_evaluation" \in Labels
    BY DEF Labels
  <2> QED BY <1>1, <2>2, <2>3, <2>5, <2>6, GotoInv
<1> QED BY <1>4, <1>5

LEMMA LockEvaluationInv ==
    ASSUME TxInv, NEW s \in Sessions, LockEvaluation(s)
    PROVE  TxInv'
<1>1. PICK c \in Commands, rows \in SUBSET Attempts :
         /\ c = tx[s].command /\ tx[s].at = "lock_evaluation" /\ rows = tx[s].rows
         /\ Stands(c, "lock_evaluation", rows, held[s])
  BY Running DEF LockEvaluation
<1>2. c.op \in Joins /\ JoinStands("lock_evaluation", c, rows, held[s])
  BY <1>1, OpAt DEF Stands
<1>3. Needs(s) = {EvaluationRow(EvaluationOf(c))}
  BY <1>1 DEF Needs, JoinNeeds
<1>4. Goto(s, "lock_attempt", rows) /\ Free(s)
  BY <1>1 DEF LockEvaluation
<1>5. JoinStands("lock_attempt", c, rows, held[s] \cup Needs(s))
  BY <1>2, <1>3 DEF JoinStands, JoinLabels
<1>6. Stands(c, "lock_attempt", rows, held[s] \cup Needs(s))
  BY <1>2, <1>5 DEF Stands, Joins
<1> QED BY <1>1, <1>4, <1>6, GotoInv DEF Labels

LEMMA LockAttemptInv ==
    ASSUME TxInv, NEW s \in Sessions, LockAttempt(s)
    PROVE  TxInv'
<1>1. PICK c \in Commands, rows \in SUBSET Attempts :
         /\ c = tx[s].command /\ tx[s].at = "lock_attempt" /\ rows = tx[s].rows
         /\ Stands(c, "lock_attempt", rows, held[s])
  BY Running DEF LockAttempt
<1>2. c.op \in Joins /\ JoinStands("lock_attempt", c, rows, held[s])
  BY <1>1, OpAt DEF Stands
<1>3. PICK a \in Attempts : rows = {a} /\ Row(s) = a
  <2>1. OneRow(rows)
    BY <1>2 DEF JoinStands
  <2> QED BY <1>1, <2>1, RowIs DEF OneRow
<1>4. Needs(s) = {AttemptRow(a)}
  BY <1>1, <1>3 DEF Needs, JoinNeeds
<1>5. CASE ~JoinHolds(s)
  <2>1. End(s, "NotFound")
    BY <1>1, <1>5 DEF LockAttempt
  <2> QED BY <1>1, <2>1, EndInv DEF Outcomes
<1>6. CASE JoinHolds(s) /\ Decision(c) \notin {"Ok", "Continue"}
  <2>1. End(s, Decision(c))
    BY <1>1, <1>6 DEF LockAttempt
  <2>2. Decision(c) \in Outcomes
    BY <1>2 DEF Joins, Decision, RenewOutcome, RetryCheck, SubmitCheck, CancelCheck,
                ReplayOutcome, Outcomes
  <2> QED BY <1>1, <2>1, <2>2, EndInv
<1>7. CASE JoinHolds(s) /\ Decision(c) \in {"Ok", "Continue"}
  <2>1. PICK label \in Labels : label = (CASE c.op = "renew" -> "commit"
                                           [] c.op = "retry" -> "task"
                                           [] OTHER -> "result_key")
    BY DEF Labels
  <2>2. Goto(s, label, rows) /\ Free(s)
    BY <1>1, <1>7, <2>1 DEF LockAttempt
  <2>3. evaluations[EvaluationOf(c)].current = a
    BY <1>1, <1>3, <1>7 DEF JoinHolds
  <2>4. JoinStands(label, c, rows, held[s] \cup Needs(s))
    BY <1>2, <1>3, <1>4, <1>7, <2>1, <2>3 DEF JoinStands, JoinLabels, Joins
  <2>5. Stands(c, label, rows, held[s] \cup Needs(s))
    BY <1>2, <2>4 DEF Stands, Joins
  <2> QED BY <1>1, <2>2, <2>5, GotoInv
<1> QED BY <1>5, <1>6, <1>7

LEMMA ResultKeyInv ==
    ASSUME TxInv, NEW s \in Sessions, ResultKey(s)
    PROVE  TxInv'
<1>1. PICK c \in Commands, rows \in SUBSET Attempts :
         /\ c = tx[s].command /\ tx[s].at = "result_key" /\ rows = tx[s].rows
         /\ Stands(c, "result_key", rows, held[s])
  BY Running DEF ResultKey
<1>2. c.op \in {"submit", "cancel"} /\ JoinStands("result_key", c, rows, held[s])
  BY <1>1, OpAt DEF Stands, Joins
<1>3. PICK a \in Attempts : rows = {a} /\ Row(s) = a
  <2>1. OneRow(rows) /\ tx[s].rows = rows
    BY <1>1, <1>2 DEF JoinStands
  <2> QED BY <2>1, RowIs DEF OneRow
<1>4. c.result.evaluation = EvaluationOf(c)
  BY <1>2, EvaluationOfTyped DEF JoinStands, Joins
<1>5. PICK outcome : outcome = WriteOutcome(EvaluationOf(c), a, c.key, c.now)
  OBVIOUS
<1>6. outcome \in Outcomes
  BY <1>5 DEF WriteOutcome, Outcomes
<1>7. CASE outcome # "Ok"
  <2>1. End(s, outcome)
    BY <1>1, <1>3, <1>4, <1>5, <1>7 DEF ResultKey
  <2> QED BY <1>1, <1>6, <2>1, EndInv
<1>8. CASE outcome = "Ok"
  <2>1. Goto(s, "task", rows) /\ Free(s)
    BY <1>1, <1>3, <1>4, <1>5, <1>8 DEF ResultKey
  <2>task. "task" \in Labels
    BY DEF Labels
  <2>2. Needs(s) = {EvaluationRow(EvaluationOf(c)), Entry("result_key", c.key)}
    BY <1>1 DEF Needs
  <2>3. JoinStands("task", c, rows, held[s] \cup Needs(s))
    BY <1>2, <1>3, <1>5, <1>8, <2>2 DEF JoinStands, JoinLabels
  <2>4. Stands(c, "task", rows, held[s] \cup Needs(s))
    BY <1>2, <2>3 DEF Stands
  <2> QED BY <1>1, <2>1, <2>task, <2>4, GotoInv
<1> QED BY <1>7, <1>8

LEMMA TaskInv ==
    ASSUME TxInv, NEW s \in Sessions, Task(s)
    PROVE  TxInv'
<1>1. PICK c \in Commands, rows \in SUBSET Attempts :
         /\ c = tx[s].command /\ tx[s].at = "task" /\ rows = tx[s].rows
         /\ Stands(c, "task", rows, held[s])
  BY Running DEF Task
<1>2. c.op \in {"retry", "submit", "cancel"} /\ JoinStands("task", c, rows, held[s])
  BY <1>1, OpAt DEF Stands, Joins
<1>3. PICK a \in Attempts : rows = {a} /\ Row(s) = a
  <2>1. OneRow(rows) /\ tx[s].rows = rows
    BY <1>1, <1>2 DEF JoinStands
  <2> QED BY <2>1, RowIs DEF OneRow
<1>4. Needs(s) = {AttemptRow(a), TaskRow(a)}
  BY <1>1, <1>3 DEF Needs
<1>5. PICK label \in Labels : label = IF c.op = "retry" THEN "insert_attempt" ELSE "commit"
  BY DEF Labels
<1>6. Goto(s, label, rows) /\ Free(s)
  BY <1>1, <1>5 DEF Task
<1>7. JoinStands(label, c, rows, held[s] \cup Needs(s))
  BY <1>2, <1>3, <1>4, <1>5 DEF JoinStands, JoinLabels
<1>8. Stands(c, label, rows, held[s] \cup Needs(s))
  BY <1>2, <1>7 DEF Stands
<1> QED BY <1>1, <1>6, <1>8, GotoInv

LEMMA LostInv ==
    ASSUME TxInv, NEW s \in Sessions, Disconnect(s) \/ BreakDeadlock(s)
    PROVE  TxInv'
<1>1. End(s, "Unavailable") /\ tx[s].at # "idle"
  BY OnCycleRuns DEF Disconnect, BreakDeadlock
<1> QED BY <1>1, Running, EndInv DEF Outcomes

-----------------------------------------------------------------------------
(***************************************************************************)
(* The commit: a command of the store, run alone.                          *)
(***************************************************************************)

\* Evaluation e, attempt a, and all tables change only where a transaction that
\* holds h has locked.
EvaluationWritten(e, h) ==
    /\ Stored(e) => Stored(e)' /\ evaluations'[e].request = evaluations[e].request
    /\ evaluations'[e] # evaluations[e] => EvaluationRow(e) \in h
    /\ Stored(e)' /\ ~Stored(e) => Entry("creation_key", evaluations'[e].request.key) \in h
    /\ evaluations'[e].result_key \notin {Null, evaluations[e].result_key} =>
          Entry("result_key", evaluations'[e].result_key) \in h

AttemptWritten(a, h) ==
    /\ attempts[a].state # "absent" =>
          attempts'[a].state # "absent" /\ attempts'[a].request = attempts[a].request
    /\ attempts'[a] # attempts[a] => AttemptRow(a) \in h
    /\ tasks'[a] # tasks[a] => TaskRow(a) \in h \/ attempts[a].state = "absent"
    /\ attempts'[a].state # "absent" /\ attempts[a].state = "absent" =>
          /\ Entry("attempt_key", attempts'[a].request.key) \in h
          /\ EvaluationRow(attempts'[a].request.evaluation) \in h
    /\ /\ <<attempts'[a].node, attempts'[a].operation>> # <<attempts[a].node, attempts[a].operation>>
       /\ attempts'[a].operation # Null
       => Entry("operation", <<attempts'[a].node, attempts'[a].operation>>) \in h

Writes(h) ==
    /\ \A e \in Evaluations : EvaluationWritten(e, h)
    /\ \A a \in Attempts : AttemptWritten(a, h)
    /\ \A r \in References : references'[r] # references[r] =>
          references[r] = Null /\ ReferenceRow(r) \in h

LEMMA Unwritten ==
    ASSUME NEW h
    PROVE  /\ \A e \in Evaluations : evaluations'[e] = evaluations[e] => EvaluationWritten(e, h)
           /\ \A a \in Attempts : attempts'[a] = attempts[a] /\ tasks'[a] = tasks[a] =>
                 AttemptWritten(a, h)
BY DEF EvaluationWritten, AttemptWritten, Stored

LEMMA WritesSpare ==
    ASSUME NEW h, NEW i, h \cap i = {}, Writes(h)
    PROVE  Spares(i)
<1>1. \A x : x \in h => x \notin i
  OBVIOUS
<1>2. /\ \A e \in Evaluations : EvaluationRow(e) \in i => evaluations'[e] = evaluations[e]
      /\ \A a \in Attempts : AttemptRow(a) \in i => attempts'[a] = attempts[a]
      /\ \A a \in Attempts : TaskRow(a) \in i /\ attempts[a].state # "absent" =>
            tasks'[a] = tasks[a]
  BY <1>1 DEF Writes, EvaluationWritten, AttemptWritten
<1>3. \A r \in References : references'[r] # references[r] =>
         references[r] = Null /\ ReferenceRow(r) \notin i
  BY <1>1 DEF Writes, EvaluationWritten, AttemptWritten
<1>4. /\ \A e \in Evaluations : Stored(e)' /\ ~Stored(e) =>
            Entry("creation_key", evaluations'[e].request.key) \notin i
      /\ \A a \in Attempts : attempts'[a].state # "absent" /\ attempts[a].state = "absent" =>
            /\ Entry("attempt_key", attempts'[a].request.key) \notin i
            /\ EvaluationRow(attempts'[a].request.evaluation) \notin i
  BY <1>1 DEF Writes, EvaluationWritten, AttemptWritten
<1>5. /\ \A e \in Evaluations : evaluations'[e].result_key \notin {Null, evaluations[e].result_key} =>
            Entry("result_key", evaluations'[e].result_key) \notin i
      /\ \A a \in Attempts :
            /\ <<attempts'[a].node, attempts'[a].operation>> # <<attempts[a].node, attempts[a].operation>>
            /\ attempts'[a].operation # Null
            => Entry("operation", <<attempts'[a].node, attempts'[a].operation>>) \notin i
  BY <1>1 DEF Writes, EvaluationWritten, AttemptWritten
<1> QED BY <1>2, <1>3, <1>4, <1>5 DEF Writes, EvaluationWritten, AttemptWritten, Spares

LEMMA CommitCreate ==
    ASSUME TxInv, NEW s \in Sessions, NEW c \in Commands, c = tx[s].command, c.op = "create",
           Commit(s)
    PROVE  Next /\ Writes(held[s])
<1>1. PICK r \in Requests, now \in Times : r = c.request /\ now = c.now
  BY CommandTyped
<1>2. PICK e \in Evaluations, a \in Attempts, ref \in References :
         e = r.evaluation /\ a = r.attempt /\ ref = r.reference
  BY DEF Requests
<1>3. CreateStands("commit", r, held[s])
  BY <1>1, Running DEF Commit, Stands
<1>4. /\ references' = [references EXCEPT ![ref] = r.digest]
      /\ evaluations' = [evaluations EXCEPT ![e] = InsertedEvaluation(r, now)]
      /\ attempts' = [attempts EXCEPT ![a] = InsertedAttempt(r, now)]
      /\ tasks' = [tasks EXCEPT ![a] = "ready"]
      /\ Reply("create", "Ok")
  BY <1>1, <1>2 DEF Commit
<1>5. CreateOutcome(r) = "Ok"
  BY <1>3 DEF CreateStands, CreateOutcome, Inserted, AttemptTaken, IdentityTaken, ContentDiffers
<1>6. CreateEvaluation(r, now)
  BY <1>2, <1>4, <1>5 DEF CreateEvaluation
<1>7. Next
  BY <1>6 DEF Next
<1>8. Writes(held[s])
  <2>1. /\ ~Stored(e) /\ EvaluationRow(e) \in held[s] /\ Entry("creation_key", r.key) \in held[s]
        /\ attempts[a].state = "absent" /\ AttemptRow(a) \in held[s]
        /\ Entry("attempt_key", r.key) \in held[s]
        /\ references[ref] # r.digest => references[ref] = Null /\ ReferenceRow(ref) \in held[s]
    BY <1>2, <1>3 DEF CreateStands, Inserted, AttemptTaken
  <2>2. /\ InsertedEvaluation(r, now).state = "queued" /\ InsertedEvaluation(r, now).request = r
        /\ InsertedEvaluation(r, now).result_key = Null
        /\ InsertedAttempt(r, now).state = "queued" /\ InsertedAttempt(r, now).request = r
        /\ InsertedAttempt(r, now).operation = Null
    BY DEF InsertedEvaluation, InsertedAttempt, AbsentEvaluation, AbsentAttempt
  <2>3. /\ references'[ref] = r.digest
        /\ \A q \in References \ {ref} : references'[q] = references[q]
        /\ evaluations'[e] = InsertedEvaluation(r, now)
        /\ \A f \in Evaluations \ {e} : evaluations'[f] = evaluations[f]
        /\ attempts'[a] = InsertedAttempt(r, now)
        /\ \A b \in Attempts \ {a} : attempts'[b] = attempts[b] /\ tasks'[b] = tasks[b]
    BY <1>4 DEF TxInv, IInv, TypeOK
  <2>4. EvaluationWritten(e, held[s])
    BY <2>1, <2>2, <2>3 DEF EvaluationWritten
  <2>5. AttemptWritten(a, held[s])
    BY <1>2, <2>1, <2>2, <2>3 DEF AttemptWritten
  <2> QED BY <2>1, <2>3, <2>4, <2>5, Unwritten DEF Writes
<1> QED BY <1>7, <1>8

LEMMA CommitClaim ==
    ASSUME TxInv, NEW s \in Sessions, NEW c \in Commands, c = tx[s].command, c.op = "claim",
           Commit(s)
    PROVE  Next /\ Writes(held[s])
<1>1. PICK rows \in SUBSET Attempts : rows = tx[s].rows /\ ClaimStands("commit", c, rows, held[s])
  BY Running DEF Commit, Stands
<1>2. PICK a \in Attempts : rows = {a} /\ Row(s) = a
  BY <1>1, RowIs DEF ClaimStands, OneRow
<1>3. /\ attempts[a].state # "absent" /\ tasks[a] = "ready"
      /\ Range(attempts[a].request.required) \subseteq c.declared
      /\ ExpiryFits(c.now) /\ ~OperationTaken(c.node, c.operation)
      /\ attempts[a].created <= c.now
      /\ evaluations[attempts[a].request.evaluation].created <= c.now
  BY <1>1, <1>2 DEF ClaimStands
<1>4. /\ TaskRow(a) \in held[s] /\ AttemptRow(a) \in held[s]
      /\ EvaluationRow(attempts[a].request.evaluation) \in held[s]
      /\ c.operation # Null => Entry("operation", <<c.node, c.operation>>) \in held[s]
  BY <1>1, <1>2 DEF ClaimStands
<1>5. ClaimWrites(a, c.node, c.token, c.operation, c.now) /\ Reply("claim", "Ok")
  BY <1>2 DEF Commit
<1>6. PICK locked \in SUBSET {b \in Attempts : tasks[b] = "ready"} :
         locked = {b \in Attempts : tasks[b] = "ready"} \ {a}
  OBVIOUS
<1>7. ASSUME NEW declared, c.declared \subseteq declared
      PROVE  ClaimTask(c.node, c.token, c.operation, declared, locked, c.now)
  <2>1. Claimable(a, declared)
    BY <1>3, <1>7, ReadyIsClaimable DEF TxInv
  <2>2. \A b \in Attempts \ locked : Claimable(b, declared) => b = a
    BY <1>6 DEF Claimable
  <2>3. attempts[a].created <= attempts[a].created
    BY BoundsAssumption DEF TxInv, IInv, TypeOK, AttemptRows, Times
  <2>4. a \in Candidates(declared, locked)
    BY <1>6, <2>1, <2>2, <2>3 DEF Candidates
  <2> QED BY <1>3, <1>5, <2>4 DEF ClaimTask, UpdatableAt
<1>8. Next
  <2>1. c.node \in Nodes /\ c.token \in Tokens /\ c.now \in Times /\ c.declared \in SUBSET Capabilities
    BY CommandTyped
  <2>2. CASE c.operation = Null
    <3>1. ClaimTask(c.node, c.token, Null, Capabilities, locked, c.now)
      BY <1>7, <2>1, <2>2
    <3> QED BY <2>1, <3>1 DEF Next
  <2>3. CASE c.operation \in Operations
    <3>1. ClaimTask(c.node, c.token, c.operation, c.declared, locked, c.now)
      BY <1>7
    <3> QED BY <2>1, <2>3, <3>1 DEF Next
  <2> QED BY <2>2, <2>3, CommandTyped
<1>9. Writes(held[s])
  <2>1. PICK e \in Evaluations : e = attempts[a].request.evaluation
    BY <1>3 DEF TxInv, IInv, TypeOK, Requests
  <2>2. PICK row : row = ClaimedAttempt(a, c.node, c.token, c.operation, c.now)
    OBVIOUS
  <2>3. /\ row.state = "leased" /\ row.request = attempts[a].request
        /\ row.node = c.node /\ row.operation = c.operation
    BY <2>2 DEF ClaimedAttempt, TxInv, IInv, TypeOK, AttemptRows
  <2>4. /\ references' = references
        /\ evaluations' = [evaluations EXCEPT ![e].state = "leased"]
        /\ attempts' = [attempts EXCEPT ![a] = row]
        /\ tasks' = [tasks EXCEPT ![a] = "leased"]
    BY <1>5, <2>1, <2>2 DEF ClaimWrites
  <2>5. /\ evaluations'[e].state = "leased" /\ evaluations'[e].request = evaluations[e].request
        /\ evaluations'[e].result_key = evaluations[e].result_key
        /\ \A f \in Evaluations \ {e} : evaluations'[f] = evaluations[f]
    BY <2>4 DEF TxInv, IInv, TypeOK, EvaluationRows
  <2>6. /\ attempts'[a] = row
        /\ \A b \in Attempts \ {a} : attempts'[b] = attempts[b] /\ tasks'[b] = tasks[b]
    BY <2>4 DEF TxInv, IInv, TypeOK
  <2>7. Stored(e)
    BY <1>3, <2>1 DEF TxInv, IInv, Safety, AttemptHistory, History
  <2>8. EvaluationWritten(e, held[s])
    BY <1>4, <2>1, <2>5, <2>7 DEF EvaluationWritten, Stored
  <2>9. AttemptWritten(a, held[s])
    BY <1>3, <1>4, <2>3, <2>6 DEF AttemptWritten
  <2> QED BY <2>4, <2>5, <2>6, <2>8, <2>9, Unwritten DEF Writes
<1> QED BY <1>8, <1>9

LEMMA CommitRenew ==
    ASSUME TxInv, NEW s \in Sessions, NEW c \in Commands, c = tx[s].command, c.op = "renew",
           Commit(s)
    PROVE  Next /\ Writes(held[s])
<1>1. PICK e \in Evaluations, a \in Attempts : e = c.evaluation /\ a = c.attempt
  BY CommandTyped
<1>2. EvaluationOf(c) = e /\ c.op \in Joins
  BY <1>1, EvaluationOfTyped DEF Joins
<1>3. PICK rows \in SUBSET Attempts : rows = tx[s].rows /\ JoinStands("commit", c, rows, held[s])
  BY <1>2, Running DEF Commit, Stands
<1>4. PICK current \in Attempts : /\ evaluations[e].current = current
                                  /\ AttemptRow(current) \in held[s]
  BY <1>2, <1>3 DEF JoinStands, OneRow
<1>5. Decision(c) \in {"Ok", "Continue"}
  BY <1>3 DEF JoinStands
<1>6. RenewOutcome(c.node, e, a, c.token, c.now) = "Continue"
  BY <1>1, <1>5 DEF Decision, RenewOutcome
<1>7. current = a
  BY <1>4, <1>6 DEF RenewOutcome, HoldsLease
<1>8. /\ attempts' = [attempts EXCEPT ![a].expires = c.now + LeaseDuration]
      /\ UNCHANGED <<references, evaluations, tasks>> /\ Reply("renew", "Continue")
  BY <1>1 DEF Commit
<1>9. Next
  <2>1. RenewLease(c.node, e, a, c.token, c.now)
    BY <1>6, <1>8 DEF RenewLease
  <2> QED BY <2>1, CommandTyped DEF Next
<1>10. Writes(held[s])
  <2>1. /\ attempts'[a].state = attempts[a].state /\ attempts'[a].request = attempts[a].request
        /\ attempts'[a].node = attempts[a].node /\ attempts'[a].operation = attempts[a].operation
        /\ \A b \in Attempts \ {a} : attempts'[b] = attempts[b]
    BY <1>8 DEF TxInv, IInv, TypeOK, AttemptRows
  <2>2. AttemptWritten(a, held[s])
    BY <1>4, <1>7, <1>8, <2>1 DEF AttemptWritten
  <2> QED BY <1>8, <2>1, <2>2, Unwritten DEF Writes
<1> QED BY <1>9, <1>10

LEMMA CommitRetry ==
    ASSUME TxInv, NEW s \in Sessions, NEW c \in Commands, c = tx[s].command, c.op = "retry",
           Commit(s)
    PROVE  Next /\ Writes(held[s])
<1>1. PICK r \in Requests, now \in Times : r = c.request /\ now = c.now
  BY CommandTyped
<1>2. PICK e \in Evaluations, new \in Attempts : e = r.evaluation /\ new = r.attempt
  BY DEF Requests
<1>3. EvaluationOf(c) = e /\ c.op \in Joins
  BY <1>1, <1>2, EvaluationOfTyped DEF Joins
<1>4. PICK rows \in SUBSET Attempts : rows = tx[s].rows /\ JoinStands("commit", c, rows, held[s])
  BY <1>3, Running DEF Commit, Stands
<1>5. PICK old \in Attempts : rows = {old} /\ Row(s) = old
  BY <1>4, RowIs DEF JoinStands, OneRow
<1>6. /\ evaluations[e].current = old /\ Stored(e) /\ EvaluationRow(e) \in held[s]
      /\ AttemptRow(old) \in held[s] /\ TaskRow(old) \in held[s]
      /\ Inserted(r, held[s]) /\ Decision(c) \in {"Ok", "Continue"}
  BY <1>1, <1>3, <1>4, <1>5 DEF JoinStands
<1>7. RetryCheck(r, now) = "Ok"
  BY <1>1, <1>6 DEF Decision, RetryCheck
<1>8. RetryOutcome(r, now) = "Ok"
  BY <1>2, <1>6, <1>7 DEF RetryOutcome, Inserted
<1>9. ReplaceAttempt(old, r, now) /\ references' = references /\ Reply("retry", "Ok")
  BY <1>1, <1>5 DEF Commit
<1>10. RetryExpired(r, now)
  BY <1>2, <1>6, <1>8, <1>9 DEF RetryExpired
<1>11. Next
  BY <1>10 DEF Next
<1>12. Writes(held[s])
  <2>1. /\ evaluations'[e].state = "queued"
        /\ evaluations'[e].request = evaluations[e].request
        /\ \A f \in Evaluations \ {e} : evaluations'[f] = evaluations[f]
        /\ attempts[old].state = "leased" /\ attempts'[old].state = "expired"
        /\ attempts'[old].request = attempts[old].request
        /\ attempts'[old].node = attempts[old].node
        /\ attempts[new].state = "absent" /\ attempts'[new] = InsertedAttempt(r, now)
        /\ \A b \in Attempts \ {old, new} : attempts'[b] = attempts[b] /\ tasks'[b] = tasks[b]
    BY <1>2, <1>6, <1>8, <1>10, RetryEffect DEF TxInv
  <2>2. evaluations'[e].result_key = evaluations[e].result_key
    BY <1>2, <1>9 DEF ReplaceAttempt, EvaluationRequeued, TxInv, IInv, TypeOK, EvaluationRows
  <2>3. attempts'[old].operation = attempts[old].operation
    BY <1>2, <1>9, <2>1 DEF ReplaceAttempt, AttemptsReplaced, TxInv, IInv, TypeOK, AttemptRows
  <2>4. attempts'[new].state = "queued" /\ attempts'[new].request = r /\ attempts'[new].operation = Null
    BY <2>1 DEF InsertedAttempt, AbsentAttempt
  <2>5. EvaluationWritten(e, held[s])
    BY <1>6, <2>1, <2>2 DEF EvaluationWritten, Stored
  <2>6. AttemptWritten(old, held[s])
    BY <1>6, <2>1, <2>3 DEF AttemptWritten
  <2>7. AttemptWritten(new, held[s])
    BY <1>2, <1>6, <2>1, <2>4 DEF AttemptWritten, Inserted
  <2> QED BY <1>9, <2>1, <2>5, <2>6, <2>7, Unwritten DEF Writes
<1> QED BY <1>11, <1>12

LEMMA CommitTerminal ==
    ASSUME TxInv, NEW s \in Sessions, NEW c \in Commands, c = tx[s].command,
           c.op \in {"submit", "cancel"}, Commit(s)
    PROVE  Next /\ Writes(held[s])
<1>1. PICK result \in Results, key \in ResultKeys, now \in Times :
         result = c.result /\ key = c.key /\ now = c.now
  BY CommandTyped
<1>2. PICK e \in Evaluations, a \in Attempts, status \in TerminalStates :
         e = result.evaluation /\ a = result.attempt /\ status = result.status
  BY DEF Results
<1>3. PICK rows \in SUBSET Attempts : rows = tx[s].rows /\ JoinStands("commit", c, rows, held[s])
  BY Running DEF Commit, Stands, Joins
<1>4. EvaluationOf(c) = e
  BY <1>1, <1>2, <1>3, EvaluationOfTyped DEF Joins, JoinStands
<1>5. PICK current \in Attempts : rows = {current}
  BY <1>3 DEF JoinStands, OneRow
<1>6. /\ evaluations[e].current = current /\ Stored(e) /\ EvaluationRow(e) \in held[s]
      /\ AttemptRow(current) \in held[s] /\ TaskRow(current) \in held[s]
      /\ WriteOutcome(e, current, key, now) = "Ok" /\ Entry("result_key", key) \in held[s]
      /\ Decision(c) \in {"Ok", "Continue"}
  BY <1>1, <1>3, <1>4, <1>5 DEF JoinStands
<1>7. WriteTerminal(key, result) /\ references' = references /\ Reply(c.op, "Ok")
  BY <1>1 DEF Commit
<1>8. Next /\ current = a /\ attempts[a].state # "absent"
  <2>1. CASE c.op = "submit"
    <3>1. SubmitCheck(key, c.token, result, now) = "Ok"
      BY <1>1, <1>6, <2>1 DEF Decision, SubmitCheck, ReplayOutcome
    <3>2. current = a /\ attempts[a].state # "absent"
      BY <1>2, <1>6, <3>1 DEF SubmitCheck, ReplayOutcome
    <3>3. SubmitOutcome(key, c.token, result, now) = "Ok"
      BY <1>2, <1>6, <3>1, <3>2 DEF SubmitOutcome
    <3>4. SubmitResult(key, c.token, result, now)
      BY <1>7, <2>1, <3>3 DEF SubmitResult
    <3> QED BY <2>1, <3>2, <3>4, CommandTyped DEF Next
  <2>2. CASE c.op = "cancel"
    <3>0. status = "cancelled" /\ c.evaluation = e
      BY <1>1, <1>2, <1>3, <1>4, <2>2, EvaluationOfTyped DEF JoinStands, Joins
    <3>1. CancelCheck(key, e, result) = "Ok"
      BY <1>1, <1>6, <2>2, <3>0 DEF Decision, CancelCheck, ReplayOutcome
    <3>2. current = a /\ attempts[a].state # "absent"
      BY <1>2, <1>6, <3>1 DEF CancelCheck, ReplayOutcome
    <3>3. CancelOutcome(key, e, result, now) = "Ok"
      BY <1>2, <1>6, <3>0, <3>1, <3>2 DEF CancelOutcome
    <3>4. CancelEvaluation(key, e, result, now)
      BY <1>7, <2>2, <3>3 DEF CancelEvaluation
    <3> QED BY <3>2, <3>4 DEF Next
  <2> QED BY <2>1, <2>2
<1>9. Writes(held[s])
  <2>1. PICK row : row = [evaluations[e] EXCEPT !.state = status, !.result = result,
                                                !.result_key = key]
    OBVIOUS
  <2>2. row.state = status /\ row.request = evaluations[e].request /\ row.result_key = key
    BY <2>1 DEF TxInv, IInv, TypeOK, EvaluationRows
  <2>3. evaluations' = [evaluations EXCEPT ![e] = row]
    BY <1>2, <1>7, <2>1 DEF WriteTerminal
  <2>4. evaluations'[e] = row /\ \A f \in Evaluations \ {e} : evaluations'[f] = evaluations[f]
    BY <2>3 DEF TxInv, IInv, TypeOK
  <2>5. /\ attempts'[a].state = status /\ attempts'[a].request = attempts[a].request
        /\ attempts'[a].node = attempts[a].node /\ attempts'[a].operation = attempts[a].operation
        /\ \A b \in Attempts \ {a} : attempts'[b] = attempts[b] /\ tasks'[b] = tasks[b]
    BY <1>2, <1>7 DEF WriteTerminal, TxInv, IInv, TypeOK, AttemptRows
  <2>6. EvaluationWritten(e, held[s])
    BY <1>6, <2>2, <2>4 DEF EvaluationWritten, Stored, TerminalStates
  <2>7. AttemptWritten(a, held[s])
    BY <1>6, <1>8, <2>5 DEF AttemptWritten, TerminalStates
  <2> QED BY <1>7, <2>4, <2>5, <2>6, <2>7, Unwritten DEF Writes
<1> QED BY <1>8, <1>9

\* A commit is one command of the store run alone, on rows that only this
\* transaction has locked.
LEMMA CommitIsCommand ==
    ASSUME TxInv, NEW s \in Sessions, Commit(s)
    PROVE  Next /\ Writes(held[s])
<1>1. PICK c \in Commands : c = tx[s].command
  BY Running DEF Commit
<1> QED BY <1>1, CommitCreate, CommitClaim, CommitRenew, CommitRetry, CommitTerminal, CommandTyped
        DEF Joins

LEMMA CommitInv ==
    ASSUME TxInv, NEW s \in Sessions, Commit(s)
    PROVE  TxInv'
<1>1. Next /\ Writes(held[s])
  BY CommitIsCommand
<1>2. IInv'
  BY <1>1, NextInv DEF TxInv
<1>3. tx' = [tx EXCEPT ![s] = Idle] /\ held' = [held EXCEPT ![s] = {}]
  BY DEF Commit
<1>4. \A u \in Sessions \ {s} : Spares(held[u])
  BY <1>1, WritesSpare DEF TxInv, Exclusive
<1>5. Idle \in Transactions
  BY DEF Idle, Transactions
<1>6. SessionOK(s)'
  BY <1>3 DEF SessionOK, TxInv, TxTables, Idle
<1> QED BY <1>2, <1>3, <1>4, <1>5, <1>6, OwnStep

-----------------------------------------------------------------------------
(***************************************************************************)
(* Theorems.                                                               *)
(***************************************************************************)

LEMMA TxNextInv == TxInv /\ [TxNext]_allVars => TxInv'
<1> SUFFICES ASSUME TxInv, [TxNext]_allVars PROVE TxInv'
  OBVIOUS
<1>1. CASE UNCHANGED allVars
  <2>1. /\ UNCHANGED tables /\ reply' = reply /\ tx' = tx /\ held' = held
    BY <1>1 DEF allVars, tables
  <2>2. IInv'
    BY <2>1, SafetyOfTables DEF TxInv, IInv, TypeOK, tables
  <2>3. \A u \in Sessions : SessionOK(u)'
    BY <2>1, QuietSpares, SessionKept
  <2> QED BY <2>1, <2>2, <2>3 DEF TxInv, TxTables, Exclusive
<1>2. ASSUME NEW s \in Sessions, Proceed(s) PROVE TxInv'
  BY <1>2, ByKeyInv, RegisterInv, InsertEvaluationInv, InsertAttemptInv, ScanTxInv, LockTaskInv,
     ClaimAttemptInv, ClaimEvaluationInv, SelectInv, LockEvaluationInv, LockAttemptInv,
     ResultKeyInv, TaskInv, CommitInv DEF Proceed
<1> QED BY <1>1, <1>2, BeginInv, LostInv DEF TxNext

LEMMA TxInitInv == TxInit => TxInv
<1> SUFFICES ASSUME TxInit PROVE TxInv
  OBVIOUS
<1>1. IInv
  BY InitInv DEF TxInit
<1>2. Idle \in Transactions
  BY DEF Idle, Transactions
<1> QED BY <1>1, <1>2 DEF TxInit, TxInv, TxTables, Exclusive, SessionOK

\* Each session finds at each of its statements what it relies on: the rows it
\* decided on are locked and as it read them, and the tables are consistent.
THEOREM TxInvariance == TxSpec => []TxInv
<1> QED BY TxInitInv, TxNextInv, PTL DEF TxSpec

\* Sessions are idle and hold nothing, or run a command; locks are exclusive.
THEOREM TransactionsTyped == TxSpec => []TxTypeOK
<1>1. TxInv => TxTypeOK
  <2> SUFFICES ASSUME TxInv PROVE TxTypeOK
    OBVIOUS
  <2>1. ASSUME NEW s \in Sessions
        PROVE  \/ tx[s] = Idle /\ held[s] = {}
               \/ /\ tx[s].command \in Commands
                  /\ tx[s].at \in Labels
                  /\ tx[s].rows \subseteq Attempts
    <3>1. tx[s] \in Transactions /\ SessionOK(s)
      BY DEF TxInv, TxTables
    <3>2. CASE tx[s].at = "idle"
      <4> SUFFICES ASSUME tx[s].command \in Commands,
                          Stands(tx[s].command, "idle", tx[s].rows, held[s])
                   PROVE  FALSE
        BY <3>1, <3>2 DEF SessionOK, Stands
      <4> QED BY CommandTyped DEF Stands, CreateStands, ClaimStands, JoinStands, JoinLabels, Joins
    <3>3. CASE tx[s].at # "idle"
      BY <3>1, <3>3, Running DEF Transactions
    <3> QED BY <3>2, <3>3
  <2> QED BY <2>1 DEF TxTypeOK, TxInv, Exclusive
<1> QED BY <1>1, TxInvariance, PTL

\* What a transaction decided on the rows it read still holds when it writes,
\* for every number of sessions and commands; a claim decides on rows that it
\* has not locked, and is right because the task it has locked says enough.
THEOREM DecisionsStand == TxSpec => []DecisionStands
<1>1. TxInv => DecisionStands
  <2> SUFFICES ASSUME TxInv, NEW s \in Sessions, Decided(s), NEW c, c = tx[s].command
               PROVE  CASE c.op = "create" -> CreateOutcome(c.request) = "Ok"
                        [] c.op = "claim" -> Claimable(Row(s), c.declared)
                        [] OTHER -> JoinHolds(s) /\ Decision(c) \in {"Ok", "Continue"}
    BY DEF DecisionStands
  <2>0. PICK at : at = tx[s].at
    OBVIOUS
  <2>1. PICK rows \in SUBSET Attempts :
           /\ rows = tx[s].rows /\ at # "idle"
           /\ c \in Commands /\ Stands(c, at, rows, held[s])
    BY <2>0, Running DEF Decided
  <2>2. CASE c.op = "create"
    <3>1. CreateStands("commit", c.request, held[s])
      BY <2>0, <2>1, <2>2 DEF Decided, Stands
    <3>2. CreateOutcome(c.request) = "Ok"
      BY <3>1 DEF CreateStands, CreateOutcome, Inserted, AttemptTaken, IdentityTaken,
                  ContentDiffers
    <3> QED BY <2>2, <3>2
  <2>3. CASE c.op = "claim"
    <3>1. /\ ClaimStands(at, c, rows, held[s])
          /\ at \in {"claim_attempt", "claim_evaluation", "commit"}
      BY <2>0, <2>1, <2>3 DEF Decided, Stands
    <3>2. PICK a \in Attempts : rows = {a} /\ Row(s) = a
      BY <2>1, <3>1, RowIs DEF ClaimStands, OneRow
    <3>3. Claimable(a, c.declared)
      BY <3>1, <3>2, ReadyIsClaimable DEF ClaimStands, TxInv
    <3> QED BY <2>3, <3>2, <3>3
  <2>4. CASE c.op \in Joins
    <3>1. /\ JoinStands(at, c, rows, held[s])
          /\ at \in {"result_key", "task", "insert_attempt", "commit"}
      BY <2>0, <2>1, <2>4 DEF Decided, Stands, Joins
    <3>2. PICK a \in Attempts : rows = {a}
      BY <3>1 DEF JoinStands, OneRow
    <3>3. Row(s) = a
      BY <2>1, <3>2, RowIs
    <3>4. evaluations[EvaluationOf(c)].current = a /\ Decision(c) \in {"Ok", "Continue"}
      BY <3>1, <3>2 DEF JoinStands
    <3>5. JoinHolds(s)
      BY <3>3, <3>4 DEF JoinHolds
    <3> QED BY <2>4, <3>4, <3>5 DEF Joins
  <2> QED BY <2>1, <2>2, <2>3, <2>4, CommandTyped
<1> QED BY <1>1, TxInvariance, PTL

\* Only a commit changes the tables.
LEMMA QuietOrCommit ==
    ASSUME [TxNext]_allVars
    PROVE  UNCHANGED tables \/ \E s \in Sessions : Commit(s)
<1>1. ASSUME NEW s \in Sessions, NEW outcome, End(s, outcome) PROVE UNCHANGED tables
  BY <1>1 DEF End
<1>2. ASSUME NEW s \in Sessions, NEW label, NEW rows, Goto(s, label, rows) PROVE UNCHANGED tables
  BY <1>2 DEF Goto, Unanswered
<1>3. ASSUME NEW s \in Sessions, NEW c \in Commands, Begin(s, c) PROVE UNCHANGED tables
  BY <1>3 DEF Begin, Unanswered
<1>4. ASSUME NEW s \in Sessions, LockTask(s) PROVE UNCHANGED tables
  BY <1>1, <1>4 DEF LockTask, Unanswered
<1>5. ASSUME NEW s \in Sessions, LockAttempt(s) PROVE UNCHANGED tables
  BY <1>1, <1>2, <1>5 DEF LockAttempt
<1>6. ASSUME NEW s \in Sessions,
             ByKey(s) \/ Register(s) \/ InsertEvaluation(s) \/ InsertAttempt(s) \/ Scan(s)
      PROVE  UNCHANGED tables
  BY <1>1, <1>2, <1>6 DEF ByKey, Register, InsertEvaluation, InsertAttempt, Scan
<1>7. ASSUME NEW s \in Sessions,
             \/ ClaimAttempt(s) \/ ClaimEvaluation(s) \/ Select(s) \/ LockEvaluation(s)
             \/ ResultKey(s) \/ Task(s)
      PROVE  UNCHANGED tables
  BY <1>1, <1>2, <1>7 DEF ClaimAttempt, ClaimEvaluation, Select, LockEvaluation, ResultKey, Task
<1>8. ASSUME NEW s \in Sessions, Proceed(s) PROVE UNCHANGED tables \/ Commit(s)
  BY <1>4, <1>5, <1>6, <1>7, <1>8 DEF Proceed
<1>9. ASSUME UNCHANGED allVars PROVE UNCHANGED tables
  BY <1>9 DEF allVars, tables
<1> QED BY <1>1, <1>3, <1>8, <1>9 DEF TxNext, Disconnect, BreakDeadlock

LEMMA TxStep ==
    ASSUME TxInv, [TxNext]_allVars
    PROVE  UNCHANGED tables \/ Next
BY QuietOrCommit, CommitIsCommand

\* The transactions of the store are atomic under READ COMMITTED: whatever the
\* sessions interleave, each change of the tables is one command run alone.
THEOREM TransactionsAreAtomic == TxSpec => ImplementsStore
<1>1. TxInv /\ [TxNext]_allVars => [UNCHANGED tables \/ Next]_allVars
  BY TxStep
<1>2. TxInit => Init
  BY DEF TxInit
<1> QED BY <1>1, <1>2, TxInvariance, PTL DEF TxSpec, ImplementsStore

\* What the commands keep true one at a time, the sessions keep true together:
\* the tables agree, attempts are numbered without gaps, retries judge the same
\* content, and nothing is decided that was not leased.
THEOREM SessionsKeepTables == TxSpec => [](TypeOK /\ RowsAgree /\ AttemptHistory
                                           /\ ReferencesAgree /\ LeaseBeforeResult)
<1>1. TxInv => TypeOK /\ RowsAgree /\ AttemptHistory /\ ReferencesAgree /\ LeaseBeforeResult
  BY DEF TxInv, IInv, Safety
<1> QED BY <1>1, TxInvariance, PTL

\* Of racing results, cancellations and retries the first that commits wins,
\* also when the statements of their transactions alternate.
THEOREM RacingWritersLose == TxSpec => TerminalIsFinal
<1>1. TxInv /\ [TxNext]_allVars =>
         [\A e \in Evaluations : evaluations[e].state \in TerminalStates => Frozen(e)]_vars
  <2> SUFFICES ASSUME TxInv, [TxNext]_allVars, NEW e \in Evaluations,
                      evaluations[e].state \in TerminalStates
               PROVE  Frozen(e)
    OBVIOUS
  <2>1. CASE UNCHANGED tables
    BY <2>1 DEF tables, Frozen, AttemptsOf
  <2>2. CASE Next
    BY <2>2, NextFrozen DEF TxInv
  <2> QED BY <2>1, <2>2, TxStep
<1> QED BY <1>1, TxInvariance, PTL DEF TxSpec, TerminalIsFinal

\* The interleaved transactions implement the lifecycle of the domain.
THEOREM SessionsImplementLifecycle == TxSpec => ImplementsLifecycle
<1>1. TxInit => Lifecycle!Init
  BY DEF TxInit, Init, Lifecycle!Init, AbsentEvaluation, AbsentAttempt
<1>2. TxInv /\ [TxNext]_allVars => [Lifecycle!Next]_(Lifecycle!lifecycleVars)
  <2> SUFFICES ASSUME TxInv, [TxNext]_allVars PROVE [Lifecycle!Next]_(Lifecycle!lifecycleVars)
    OBVIOUS
  <2>1. CASE UNCHANGED tables
    BY <2>1, Stutter DEF tables
  <2>2. CASE Next
    BY <2>2, NextMaps DEF TxInv
  <2> QED BY <2>1, <2>2, TxStep
<1> QED BY <1>1, <1>2, TxInvariance, PTL DEF TxSpec, ImplementsLifecycle, Lifecycle!Spec

-----------------------------------------------------------------------------
(***************************************************************************)
(* The lock orders.                                                        *)
(***************************************************************************)

\* What a transaction may hold before the statement at a label.
Kinds(op, at) ==
    CASE at = "insert_evaluation" -> {"reference"}
      [] at = "lock_attempt" -> {"evaluation"}
      [] at = "result_key" -> {"evaluation", "attempt"}
      [] at = "task" -> {"evaluation", "attempt", "result_key"}
      [] at = "insert_attempt" -> IF op = "create" THEN {"reference", "evaluation", "creation_key"}
                                  ELSE {"evaluation", "attempt", "result_key", "task"}
      [] at \in {"lock_task", "claim_attempt"} -> {"task"}
      [] at = "claim_evaluation" -> {"task", "attempt", "operation"}
      [] at = "commit" -> {"reference", "evaluation", "creation_key", "attempt", "attempt_key",
                           "operation", "result_key", "task"}
      [] OTHER -> {}

\* It holds the attempt its SELECT returned, and none but that one before it
\* inserts another.
SessionLocks(s) ==
    /\ \A x \in held[s] : x[1] \in Kinds(tx[s].command.op, tx[s].at)
    /\ tx[s].at # "commit" =>
          \A a \in Attempts : AttemptRow(a) \in held[s] => a \in tx[s].rows

\* Every stored attempt was inserted by one of the commands.
KnownRequests ==
    \A a \in Attempts : attempts[a].state # "absent" =>
        \E c \in Commands : c.op \in {"create", "retry"} /\ attempts[a].request = c.request

(***************************************************************************)
(* The inductive invariant of the locks, on top of TxInv.                  *)
(***************************************************************************)
LockInv == KnownRequests /\ \A s \in Sessions : SessionLocks(s)

\* Session s goes on with rows and locks h, and the others stay where they are.
LEMMA OwnLocks ==
    ASSUME TxInv, LockInv, NEW s \in Sessions, NEW t \in Transactions, NEW h,
           tx' = [tx EXCEPT ![s] = t], held' = [held EXCEPT ![s] = h],
           \A x \in h : x[1] \in Kinds(t.command.op, t.at),
           t.at # "commit" => \A a \in Attempts : AttemptRow(a) \in h => a \in t.rows
    PROVE  \A u \in Sessions : SessionLocks(u)'
<1>1. tx'[s] = t /\ held'[s] = h
  BY DEF TxInv, TxTables
<1>2. \A u \in Sessions \ {s} : tx'[u] = tx[u] /\ held'[u] = held[u]
  BY DEF TxInv, TxTables
<1>3. SessionLocks(s)'
  BY <1>1 DEF SessionLocks, Kinds
<1>4. \A u \in Sessions \ {s} : SessionLocks(u)'
  BY <1>2 DEF SessionLocks, Kinds, LockInv
<1> QED BY <1>3, <1>4

\* A transaction that ends, one way or the other, holds nothing.
LEMMA IdleLocks ==
    ASSUME TxInv, LockInv, NEW s \in Sessions,
           tx' = [tx EXCEPT ![s] = Idle], held' = [held EXCEPT ![s] = {}]
    PROVE  \A u \in Sessions : SessionLocks(u)'
<1>1. Idle \in Transactions
  BY DEF Idle, Transactions
<1> QED BY <1>1, OwnLocks

LEMMA GotoLocks ==
    ASSUME TxInv, LockInv, NEW s \in Sessions, NEW c \in Commands, c = tx[s].command,
           NEW label \in Labels, NEW rows \in SUBSET Attempts, Goto(s, label, rows),
           \A x \in held[s] \cup Needs(s) : x[1] \in Kinds(c.op, label),
           label # "commit" =>
              \A a \in Attempts : AttemptRow(a) \in held[s] \cup Needs(s) => a \in rows
    PROVE  \A u \in Sessions : SessionLocks(u)'
<1>1. PICK t : t = [tx[s] EXCEPT !.at = label, !.rows = rows]
  OBVIOUS
<1>2. t \in Transactions /\ t.at = label /\ t.command = c /\ t.rows = rows
  BY <1>1 DEF TxInv, TxTables, Transactions
<1>3. tx' = [tx EXCEPT ![s] = t] /\ held' = [held EXCEPT ![s] = held[s] \cup Needs(s)]
  BY <1>1 DEF Goto
<1> QED BY <1>2, <1>3, OwnLocks

\* Who holds a row or an entry of each kind before its commit.
LEMMA HoldersOf ==
    ASSUME LockInv, NEW u \in Sessions, NEW x \in held[u], tx[u].at # "commit"
    PROVE  /\ x[1] = "evaluation" => tx[u].at \in {"lock_attempt", "result_key", "task", "insert_attempt"}
           /\ x[1] = "attempt" => tx[u].at \in {"result_key", "task", "insert_attempt", "claim_evaluation"}
           /\ x[1] = "operation" => tx[u].at = "claim_evaluation"
           /\ x[1] = "reference" => tx[u].at \in {"insert_evaluation", "insert_attempt"}
           /\ x[1] = "creation_key" => tx[u].at = "insert_attempt"
           /\ x[1] = "result_key" => tx[u].at \in {"task", "insert_attempt"}
           /\ x[1] = "task" => tx[u].at \in {"insert_attempt", "lock_task", "claim_attempt", "claim_evaluation"}
           /\ x[1] # "attempt_key"
           /\ x[1] \in {"attempt", "result_key", "task"} /\ tx[u].at = "insert_attempt" =>
                 tx[u].command.op # "create"
<1>1. x[1] \in Kinds(tx[u].command.op, tx[u].at)
  BY DEF LockInv, SessionLocks
<1> QED BY <1>1 DEF Kinds

LEMMA StatementLocks ==
    ASSUME TxInv, LockInv, NEW s \in Sessions, Proceed(s)
    PROVE  \A u \in Sessions : SessionLocks(u)'
<1> DEFINE Good == \A u \in Sessions : SessionLocks(u)'
<1>0. SUFFICES Good
  OBVIOUS
<1> HIDE DEF Good
<1>1. ASSUME NEW outcome, End(s, outcome) PROVE Good
  BY <1>1, IdleLocks DEF End, Good
<1>2. CASE Commit(s)
  BY <1>2, IdleLocks DEF Commit, Good
<1>3. CASE tx[s].at = "idle"
  BY <1>3 DEF Proceed, ByKey, Register, InsertEvaluation, InsertAttempt, Scan, LockTask, ClaimAttempt,
     ClaimEvaluation, Select, LockEvaluation, LockAttempt, ResultKey, Task, Commit
<1>4. ASSUME tx[s].at # "idle", ~Commit(s), NEW c \in Commands, c = tx[s].command,
             NEW rows \in SUBSET Attempts, rows = tx[s].rows
      PROVE  Good
  <2>1. /\ \A x \in held[s] : x[1] \in Kinds(c.op, tx[s].at)
        /\ tx[s].at # "commit" => \A a \in Attempts : AttemptRow(a) \in held[s] => a \in rows
    BY <1>4 DEF LockInv, SessionLocks
  <2>2. ASSUME NEW label \in Labels, NEW left \in SUBSET Attempts, Goto(s, label, left),
               \A x \in held[s] \cup Needs(s) : x[1] \in Kinds(c.op, label),
               label # "commit" =>
                  \A a \in Attempts : AttemptRow(a) \in held[s] \cup Needs(s) => a \in left
        PROVE  Good
    BY <1>4, <2>2, GotoLocks DEF Good
  <2>3. /\ Stands(c, tx[s].at, rows, held[s])
        /\ tx[s].at \in {"register", "insert_evaluation"} => c.op = "create"
    BY <1>4, Running, OpAt
  <2>4. CASE ByKey(s)
    <3>1. ASSUME KeyRows(c) = {}, NEW label \in {"register", "select"}, Goto(s, label, {})
          PROVE  Good
      <4>1. tx[s].at = "by_key" /\ Needs(s) = {}
        BY <1>4, <2>4, <3>1 DEF ByKey, Needs
      <4>2. held[s] = {}
        BY <2>1, <4>1 DEF Kinds
      <4>3. label \in Labels /\ {} \in SUBSET Attempts
        BY DEF Labels
      <4> QED BY <2>2, <3>1, <4>1, <4>2, <4>3
    <3> QED BY <1>1, <1>4, <2>4, <3>1 DEF ByKey
  <2>5. CASE Register(s)
    <3>1. tx[s].at = "register" /\ c.op = "create"
      BY <2>3, <2>5 DEF Register
    <3>2. \A x \in Needs(s) : x[1] = "reference"
      BY <1>4, <3>1 DEF Needs, ReferenceRow
    <3>3. CASE Goto(s, "insert_evaluation", {})
      <4>1. \A x \in held[s] \cup Needs(s) : x[1] = "reference" /\ x[1] \in Kinds(c.op, "insert_evaluation")
        BY <2>1, <3>1, <3>2 DEF Kinds
      <4>2. \A a \in Attempts : AttemptRow(a) \notin held[s] \cup Needs(s)
        BY <4>1 DEF AttemptRow
      <4>3. "insert_evaluation" \in Labels /\ {} \in SUBSET Attempts
        BY DEF Labels
      <4> QED BY <2>2, <3>3, <4>1, <4>2, <4>3
    <3> QED BY <1>1, <2>5, <3>3 DEF Register
  <2>6. CASE InsertEvaluation(s)
    <3>1. tx[s].at = "insert_evaluation" /\ c.op = "create"
      BY <2>3, <2>6 DEF InsertEvaluation
    <3>2. \A x \in Needs(s) : x[1] \in {"evaluation", "creation_key"}
      BY <1>4, <3>1 DEF Needs, EvaluationRow, Entry
    <3>3. CASE Goto(s, "insert_attempt", {})
      <4>1. \A x \in held[s] \cup Needs(s) : x[1] # "attempt" /\ x[1] \in Kinds(c.op, "insert_attempt")
        BY <2>1, <3>1, <3>2 DEF Kinds
      <4>2. \A a \in Attempts : AttemptRow(a) \notin held[s] \cup Needs(s)
        BY <4>1 DEF AttemptRow
      <4>3. "insert_attempt" \in Labels /\ {} \in SUBSET Attempts
        BY DEF Labels
      <4> QED BY <2>2, <3>3, <4>1, <4>2, <4>3
    <3> QED BY <1>1, <2>6, <3>3 DEF InsertEvaluation
  <2>7. CASE InsertAttempt(s)
    <3>1. tx[s].at = "insert_attempt"
      BY <2>7 DEF InsertAttempt
    <3>2. \A x \in Needs(s) : x[1] \in {"attempt", "attempt_key"}
      BY <1>4, <3>1 DEF Needs, AttemptRow, Entry
    <3>3. CASE Goto(s, "commit", rows)
      <4>1. \A x \in held[s] \cup Needs(s) : x[1] \in Kinds(c.op, "commit")
        BY <2>1, <3>1, <3>2 DEF Kinds
      <4> QED BY <2>2, <3>3, <4>1 DEF Labels
    <3> QED BY <1>1, <1>4, <2>7, <3>3 DEF InsertAttempt
  <2>8. CASE Scan(s)
    <3>1. tx[s].at = "scan"
      BY <2>8 DEF Scan
    <3>2. Needs(s) = {} /\ held[s] = {}
      BY <2>1, <3>1 DEF Needs, Kinds
    <3>3. PICK left \in SUBSET Attempts : left = {a \in Attempts : Claimable(a, c.declared)}
      OBVIOUS
    <3>4. Goto(s, "lock_task", left)
      BY <1>4, <2>8, <3>3 DEF Scan
    <3> QED BY <2>2, <3>2, <3>4 DEF Labels
  <2>9. CASE ClaimAttempt(s)
    <3>1. tx[s].at = "claim_attempt"
      BY <2>9 DEF ClaimAttempt
    <3>2. PICK a \in Attempts : rows = {a} /\ Row(s) = a
      <4>1. OneRow(rows)
        BY <1>4, <2>3, <3>1, OpAt DEF Stands, ClaimStands
      <4> QED BY <1>4, <4>1, RowIs DEF OneRow
    <3>3. /\ \A x \in Needs(s) : x[1] \in {"attempt", "operation"}
          /\ \A b : AttemptRow(b) \in Needs(s) => b = a
      BY <1>4, <3>1, <3>2 DEF Needs, AttemptRow, Entry
    <3>4. CASE Goto(s, "claim_evaluation", rows)
      <4>1. \A x \in held[s] \cup Needs(s) : x[1] \in Kinds(c.op, "claim_evaluation")
        BY <2>1, <3>1, <3>3 DEF Kinds
      <4>2. \A b \in Attempts : AttemptRow(b) \in held[s] \cup Needs(s) => b \in rows
        BY <2>1, <3>1, <3>2, <3>3
      <4> QED BY <2>2, <3>4, <4>1, <4>2 DEF Labels
    <3> QED BY <1>1, <1>4, <2>9, <3>4 DEF ClaimAttempt
  <2>10. CASE ClaimEvaluation(s)
    <3>1. tx[s].at = "claim_evaluation"
      BY <2>10 DEF ClaimEvaluation
    <3>2. \A x \in Needs(s) : x[1] = "evaluation"
      BY <3>1 DEF Needs, EvaluationRow
    <3>3. CASE Goto(s, "commit", rows)
      <4>1. \A x \in held[s] \cup Needs(s) : x[1] \in Kinds(c.op, "commit")
        BY <2>1, <3>1, <3>2 DEF Kinds
      <4> QED BY <2>2, <3>3, <4>1 DEF Labels
    <3> QED BY <1>1, <1>4, <2>10, <3>3 DEF ClaimEvaluation
  <2>11. CASE Select(s)
    <3>1. tx[s].at = "select"
      BY <2>11 DEF Select
    <3>2. Needs(s) = {} /\ held[s] = {}
      BY <2>1, <3>1 DEF Needs, Kinds
    <3>3. ASSUME Stored(EvaluationOf(c)) PROVE Good
      <4>1. c.op \in Joins
        BY <1>4, <2>3, <3>1, OpAt
      <4>2. PICK a \in Attempts : a = evaluations[EvaluationOf(c)].current
        BY <1>4, <3>3, <4>1, EvaluationOfTyped DEF TxInv, IInv, TypeOK, Stored
      <4>3. Goto(s, "lock_evaluation", {a})
        BY <1>4, <2>11, <3>3, <4>2 DEF Select
      <4>4. {a} \in SUBSET Attempts /\ "lock_evaluation" \in Labels
        BY DEF Labels
      <4> QED BY <2>2, <3>2, <4>3, <4>4
    <3> QED BY <1>1, <1>4, <2>11, <3>3 DEF Select
  <2>12. CASE LockEvaluation(s)
    <3>1. tx[s].at = "lock_evaluation" /\ Goto(s, "lock_attempt", rows)
      BY <1>4, <2>12 DEF LockEvaluation
    <3>2. \A x \in held[s] \cup Needs(s) : x[1] = "evaluation"
      BY <2>1, <3>1 DEF Needs, JoinNeeds, Kinds, EvaluationRow
    <3>3. \A a \in Attempts : AttemptRow(a) \notin held[s] \cup Needs(s)
      BY <3>2 DEF AttemptRow
    <3>4. \A x \in held[s] \cup Needs(s) : x[1] \in Kinds(c.op, "lock_attempt")
      BY <3>2 DEF Kinds
    <3> QED BY <2>2, <3>1, <3>3, <3>4 DEF Labels
  <2>13. CASE LockAttempt(s)
    <3>1. tx[s].at = "lock_attempt" /\ c.op \in Joins
      BY <1>4, <2>3, <2>13, OpAt DEF LockAttempt
    <3>2. PICK a \in Attempts : rows = {a}
      BY <2>3, <3>1 DEF Stands, JoinStands, OneRow
    <3>3. Needs(s) = {AttemptRow(a)}
      BY <1>4, <3>1, <3>2, RowIs DEF Needs, JoinNeeds
    <3>4. \A b \in Attempts : AttemptRow(b) \in held[s] \cup Needs(s) => b \in rows
      BY <2>1, <3>1, <3>2, <3>3 DEF AttemptRow
    <3>5. ASSUME NEW label \in {"commit", "task", "result_key"}, Goto(s, label, rows) PROVE Good
      <4>1. \A x \in held[s] \cup Needs(s) : x[1] \in {"evaluation", "attempt"}
        BY <2>1, <3>1, <3>3 DEF Kinds, AttemptRow
      <4>2. \A x \in held[s] \cup Needs(s) : x[1] \in Kinds(c.op, label)
        BY <4>1 DEF Kinds
      <4> QED BY <2>2, <3>4, <3>5, <4>2 DEF Labels
    <3> QED BY <1>1, <1>4, <2>13, <3>5 DEF LockAttempt
  <2>14. CASE ResultKey(s)
    <3>1. tx[s].at = "result_key"
      BY <2>14 DEF ResultKey
    <3>2. \A x \in Needs(s) : x[1] \in {"evaluation", "result_key"}
      BY <1>4, <3>1 DEF Needs, EvaluationRow, Entry
    <3>3. CASE Goto(s, "task", rows)
      <4>1. \A x \in held[s] \cup Needs(s) : x[1] \in Kinds(c.op, "task")
        BY <2>1, <3>1, <3>2 DEF Kinds
      <4>2. \A b \in Attempts : AttemptRow(b) \in held[s] \cup Needs(s) => b \in rows
        BY <2>1, <3>1, <3>2 DEF AttemptRow
      <4> QED BY <2>2, <3>3, <4>1, <4>2 DEF Labels
    <3> QED BY <1>1, <1>4, <2>14, <3>3 DEF ResultKey
  <2>15. CASE Task(s)
    <3>1. tx[s].at = "task" /\ c.op \in {"retry", "submit", "cancel"}
      BY <1>4, <2>3, <2>15, OpAt DEF Task
    <3>2. PICK a \in Attempts : rows = {a}
      BY <2>3, <3>1 DEF Stands, JoinStands, OneRow, Joins
    <3>3. Needs(s) = {AttemptRow(a), TaskRow(a)}
      BY <1>4, <3>1, <3>2, RowIs DEF Needs
    <3>4. \A b \in Attempts : AttemptRow(b) \in held[s] \cup Needs(s) => b \in rows
      BY <2>1, <3>1, <3>2, <3>3 DEF AttemptRow, TaskRow
    <3>5. \A x \in held[s] \cup Needs(s) : x[1] \in {"evaluation", "attempt", "result_key", "task"}
      BY <2>1, <3>1, <3>3 DEF Kinds, AttemptRow, TaskRow
    <3>6. PICK label \in Labels : label = IF c.op = "retry" THEN "insert_attempt" ELSE "commit"
      BY DEF Labels
    <3>7. \A x \in held[s] \cup Needs(s) : x[1] \in Kinds(c.op, label)
      BY <3>1, <3>5, <3>6 DEF Kinds
    <3>8. Goto(s, label, rows)
      BY <1>4, <2>15, <3>6 DEF Task
    <3> QED BY <2>2, <3>4, <3>7, <3>8
  <2>16. CASE LockTask(s)
    <3>1. tx[s].at = "lock_task" /\ c.op = "claim"
      BY <1>4, <2>3, <2>16, OpAt DEF LockTask
    <3>2. ASSUME NEW a \in rows, NEW skipped, NEW taken,
                 tx' = [tx EXCEPT ![s] = [@ EXCEPT !.at = IF taken THEN "claim_attempt" ELSE "lock_task",
                                                   !.rows = IF taken THEN {a} ELSE rows \ {a}]],
                 held' = [held EXCEPT ![s] = IF skipped THEN @ ELSE @ \cup {TaskRow(a)}]
          PROVE  Good
      <4>1. PICK label \in {"claim_attempt", "lock_task"}, left \in SUBSET Attempts :
               /\ label = IF taken THEN "claim_attempt" ELSE "lock_task"
               /\ left = IF taken THEN {a} ELSE rows \ {a}
        <5>1. (IF taken THEN {a} ELSE rows \ {a}) \in SUBSET Attempts
          OBVIOUS
        <5> QED BY <5>1
      <4>2. PICK t : t = [tx[s] EXCEPT !.at = label, !.rows = left]
        OBVIOUS
      <4>3. t \in Transactions /\ t.at = label /\ t.command = c
        <5>1. label \in Labels \cup {"idle"}
          BY <4>1 DEF Labels
        <5>2. tx[s] \in Transactions /\ tx[s].command = c
          BY <1>4 DEF TxInv, TxTables
        <5> QED BY <4>1, <4>2, <5>1, <5>2 DEF Transactions
      <4>4. PICK h : h = IF skipped THEN held[s] ELSE held[s] \cup {TaskRow(a)}
        OBVIOUS
      <4>5. \A x \in h : x[1] = "task"
        BY <2>1, <3>1, <4>4 DEF Kinds, TaskRow
      <4>6. /\ \A x \in h : x[1] \in Kinds(c.op, label)
            /\ \A b \in Attempts : AttemptRow(b) \notin h
        BY <4>1, <4>5 DEF Kinds, AttemptRow
      <4>7. tx' = [tx EXCEPT ![s] = t] /\ held' = [held EXCEPT ![s] = h]
        BY <3>2, <4>1, <4>2, <4>4
      <4> QED BY <4>3, <4>6, <4>7, OwnLocks DEF Good
    <3> QED BY <1>1, <1>4, <2>16, <3>2 DEF LockTask
  <2> QED BY <1>4, <2>4, <2>5, <2>6, <2>7, <2>8, <2>9, <2>10, <2>11, <2>12, <2>13, <2>14, <2>15,
             <2>16 DEF Proceed
<1> QED BY <1>2, <1>3, <1>4, Running

LEMMA RequestsKnown ==
    ASSUME TxInv, LockInv, [TxNext]_allVars
    PROVE  KnownRequests'
<1>1. CASE attempts' = attempts
  BY <1>1 DEF LockInv, KnownRequests
<1>2. ASSUME NEW s \in Sessions, Commit(s) PROVE KnownRequests'
  <2>1. PICK c \in Commands : c = tx[s].command
    BY <1>2, Running DEF Commit
  <2>2. \A a \in Attempts : attempts[a].state # "absent" => attempts'[a].request = attempts[a].request
    BY <1>2, CommitIsCommand DEF Writes, AttemptWritten
  <2>3. ASSUME NEW a \in Attempts, attempts[a].state = "absent", attempts'[a].state # "absent"
        PROVE  c.op \in {"create", "retry"} /\ attempts'[a].request = c.request
    <3>0. /\ attempts \in [Attempts -> AttemptRows]
          /\ tx[s].rows \in SUBSET Attempts /\ Stands(c, "commit", tx[s].rows, held[s])
      BY <1>2, <2>1, Running DEF Commit, TxInv, IInv, TypeOK
    <3>1. CASE c.op \in {"create", "retry"}
      <4>1. PICK r \in Requests : r = c.request /\ r.attempt \in Attempts
        BY <3>1, CommandTyped DEF Requests
      <4>2. InsertedAttempt(r, c.now).request = r
        BY DEF InsertedAttempt, AbsentAttempt
      <4>3. CASE c.op = "create"
        <5>1. attempts' = [attempts EXCEPT ![r.attempt] = InsertedAttempt(r, c.now)]
          BY <1>2, <2>1, <4>1, <4>3 DEF Commit
        <5> QED BY <2>3, <3>0, <3>1, <4>1, <4>2, <5>1
      <4>4. CASE c.op = "retry"
        <5>1. PICK old \in Attempts : tx[s].rows = {old} /\ Row(s) = old
          BY <3>0, <4>4, RowIs DEF Stands, JoinStands, OneRow, Joins
        <5>2. attempts' = [attempts EXCEPT ![old].state = "expired",
                                           ![r.attempt] = InsertedAttempt(r, c.now)]
          BY <1>2, <2>1, <4>1, <4>4, <5>1 DEF Commit, ReplaceAttempt, AttemptsReplaced
        <5>3. attempts[old].state # "absent"
          <6>1. evaluations[EvaluationOf(c)].current = old /\ Stored(EvaluationOf(c))
            BY <3>0, <4>4, <5>1 DEF Stands, JoinStands, Joins
          <6>2. EvaluationOf(c) \in Evaluations
            BY <4>4, EvaluationOfTyped DEF Joins
          <6> QED BY <6>1, <6>2 DEF TxInv, IInv, Safety, RowsAgree, RowAgrees, AgreeingStates
        <5> QED BY <2>3, <3>0, <3>1, <4>1, <4>2, <5>2, <5>3
      <4> QED BY <3>1, <4>3, <4>4
    <3>2. CASE c.op \in {"claim", "renew", "submit", "cancel"}
      <4>1. ASSUME NEW b \in Attempts, NEW row, attempts' = [attempts EXCEPT ![b] = row],
                   attempts[b].state # "absent"
            PROVE  FALSE
        BY <2>3, <3>0, <4>1
      <4>2. CASE c.op = "claim"
        <5>1. PICK b \in Attempts : tx[s].rows = {b} /\ Row(s) = b
          BY <3>0, <4>2, RowIs DEF Stands, ClaimStands, OneRow
        <5>2. attempts[b].state # "absent"
          BY <3>0, <4>2, <5>1 DEF Stands, ClaimStands
        <5> QED BY <1>2, <2>1, <4>1, <4>2, <5>1, <5>2 DEF Commit, ClaimWrites
      <4>3. CASE c.op = "renew"
        <5>1. attempts' = [attempts EXCEPT ![c.attempt].expires = c.now + LeaseDuration]
          BY <1>2, <2>1, <4>3 DEF Commit
        <5> QED BY <2>3, <3>0, <5>1 DEF AttemptRows
      <4>4. CASE c.op \in {"submit", "cancel"}
        <5>1. attempts' = [attempts EXCEPT ![c.result.attempt].state = c.result.status]
          BY <1>2, <2>1, <4>4 DEF Commit, WriteTerminal
        <5>2. Decision(c) \in {"Ok", "Continue"} /\ Stored(EvaluationOf(c)) /\ EvaluationOf(c) \in Evaluations
          BY <3>0, <4>4, EvaluationOfTyped DEF Stands, JoinStands, Joins
        <5>3. c.result.evaluation = EvaluationOf(c)
          BY <3>0, <4>4, EvaluationOfTyped DEF Stands, JoinStands, Joins
        <5>4. evaluations[EvaluationOf(c)].current = c.result.attempt
          <6>1. CASE c.op = "submit"
            BY <5>2, <5>3, <6>1 DEF Decision, SubmitCheck, ReplayOutcome
          <6>2. CASE c.op = "cancel"
            <7>1. c.evaluation = EvaluationOf(c)
              BY <6>2, EvaluationOfTyped DEF Joins
            <7> QED BY <5>2, <6>2, <7>1 DEF Decision, CancelCheck, ReplayOutcome
          <6> QED BY <4>4, <6>1, <6>2
        <5>5. attempts[c.result.attempt].state # "absent"
          BY <5>2, <5>4 DEF TxInv, IInv, Safety, RowsAgree, RowAgrees, AgreeingStates
        <5> QED BY <2>3, <3>0, <5>1, <5>5 DEF AttemptRows
      <4> QED BY <3>2, <4>2, <4>3, <4>4
    <3> QED BY <3>1, <3>2, CommandTyped DEF Joins
  <2> QED BY <2>2, <2>3 DEF LockInv, KnownRequests
<1> QED BY <1>1, <1>2, QuietOrCommit DEF tables

\* A session holds, before each of its statements, at most the kinds of rows and
\* entries that its earlier statements took.
THEOREM LocksInvariance == TxSpec => []LockInv
<1>1. TxInit => LockInv
  BY DEF TxInit, Init, LockInv, KnownRequests, SessionLocks, AbsentAttempt
<1>2. TxInv /\ LockInv /\ [TxNext]_allVars => LockInv'
  <2> SUFFICES ASSUME TxInv, LockInv, [TxNext]_allVars PROVE \A u \in Sessions : SessionLocks(u)'
    BY RequestsKnown DEF LockInv
  <2>1. CASE UNCHANGED allVars
    BY <2>1 DEF allVars, LockInv, SessionLocks, Kinds
  <2>2. ASSUME NEW s \in Sessions, NEW c \in Commands, Begin(s, c)
        PROVE  \A u \in Sessions : SessionLocks(u)'
    <3>1. PICK t : t = tx'[s]
      OBVIOUS
    <3>2. held[s] = {}
      BY <2>2 DEF LockInv, SessionLocks, Begin, Kinds
    <3>3. /\ held' = held /\ \A u \in Sessions \ {s} : tx'[u] = tx[u]
      BY <2>2 DEF Begin, TxInv, TxTables
    <3> QED BY <3>2, <3>3 DEF LockInv, SessionLocks, Kinds
  <2>3. ASSUME NEW s \in Sessions, Disconnect(s) \/ BreakDeadlock(s)
        PROVE  \A u \in Sessions : SessionLocks(u)'
    BY <2>3, IdleLocks DEF Disconnect, BreakDeadlock, End
  <2> QED BY <2>1, <2>2, <2>3, StatementLocks DEF TxNext
<1> QED BY <1>1, <1>2, TxInvariance, PTL DEF TxSpec

\* next_attempt_id draws the attempt of a retry at random: it is not one that
\* any request has for another evaluation.  Clients may well share theirs.
RetriesDrawIds ==
    \A c, d \in Commands :
        /\ c.op = "retry" /\ d.op \in {"create", "retry"}
        /\ c.request.attempt = d.request.attempt
        => c.request.evaluation = d.request.evaluation

\* The claims wait in the order of their statements.
LEMMA ClaimsWaitUp ==
    ASSUME TxInv, LockInv, NEW s \in Claiming, NEW u \in Claiming, WaitsFor(s, u)
    PROVE  \/ tx[s].at = "claim_attempt" /\ tx[u].at \in {"claim_evaluation", "commit"}
           \/ tx[s].at = "claim_evaluation" /\ tx[u].at = "commit"
<1>1. /\ s \in Sessions /\ tx[s].at # "idle" /\ tx[s].command.op = "claim"
      /\ u \in Sessions /\ tx[u].at # "idle" /\ tx[u].command.op = "claim"
  BY DEF Claiming
<1>2. /\ tx[s].at \in {"scan", "lock_task", "claim_attempt", "claim_evaluation", "commit"}
      /\ tx[u].at \in {"scan", "lock_task", "claim_attempt", "claim_evaluation", "commit"}
  BY <1>1, Running DEF Stands, ClaimStands
<1>3. PICK x : x \in Needs(s) /\ x \in held[u]
  BY DEF WaitsFor
<1>4. CASE tx[s].at = "claim_attempt"
  <2>1. x[1] \in {"attempt", "operation"}
    BY <1>3, <1>4 DEF Needs, AttemptRow, Entry
  <2> QED BY <1>1, <1>2, <1>3, <1>4, <2>1, HoldersOf
<1>5. CASE tx[s].at = "claim_evaluation"
  <2>1. x[1] = "evaluation"
    BY <1>3, <1>5 DEF Needs, EvaluationRow
  <2> QED BY <1>1, <1>2, <1>3, <1>5, <2>1, HoldersOf
<1>6. CASE tx[s].at \in {"scan", "lock_task", "commit"}
  BY <1>3, <1>6 DEF Needs
<1> QED BY <1>2, <1>4, <1>5, <1>6

\* A retry's INSERT of an attempt meets only INSERTs of the same id: the row is
\* not one that another command has locked, for both would have locked its
\* evaluation.
LEMMA NewAttemptIsFree ==
    ASSUME TxInv, LockInv, RetriesDrawIds, NEW s \in Sessions, NEW u \in Sessions, s # u,
           NEW c \in Commands, c = tx[s].command, tx[s].at = "insert_attempt",
           c.op = "retry",
           NEW d \in Commands, d = tx[u].command, d.op \in Joins,
           tx[u].at \in {"result_key", "task", "insert_attempt"}
    PROVE  AttemptRow(c.request.attempt) \notin held[u]
<1> SUFFICES ASSUME AttemptRow(c.request.attempt) \in held[u] PROVE FALSE
  OBVIOUS
<1>1. c.request \in Requests
  BY Running, OpAt, CommandTyped
<1>2. PICK a \in Attempts : a = c.request.attempt
  BY <1>1 DEF Requests
<1>3. PICK e \in Evaluations : e = EvaluationOf(d)
  BY EvaluationOfTyped
<1>4. JoinStands(tx[u].at, d, tx[u].rows, held[u])
  BY Running DEF Stands
<1>5. a \in tx[u].rows
  BY <1>2 DEF LockInv, SessionLocks
<1>6. Stored(e) /\ evaluations[e].current = a /\ EvaluationRow(e) \in held[u]
  BY <1>3, <1>4, <1>5 DEF JoinStands
<1>7. /\ attempts[a].request.evaluation = e /\ attempts[a].request.attempt = a
      /\ attempts[a].state # "absent"
  BY <1>6 DEF TxInv, IInv, Safety, RowsAgree, RowAgrees, AgreeingStates
<1>8. c.request.evaluation = e
  BY <1>1, <1>2, <1>7 DEF LockInv, KnownRequests, RetriesDrawIds
<1>9. EvaluationRow(e) \in held[s]
  <2>1. Stands(c, "insert_attempt", tx[s].rows, held[s])
    BY Running
  <2>2. EvaluationOf(c) = e
    BY <1>8, EvaluationOfTyped DEF Joins
  <2> QED BY <2>1, <2>2 DEF Stands, JoinStands, Joins
<1> QED BY <1>6, <1>9 DEF TxInv, Exclusive

\* A creation that is about to insert its attempt.  It comes before the
\* statements that lock the attempt of another command.
Creates(s) == tx[s].at = "insert_attempt" /\ tx[s].command.op = "create"

\* The other commands wait in the order of their statements.
LEMMA OthersWaitUp ==
    ASSUME TxInv, LockInv, RetriesDrawIds,
           NEW s \in Sessions \ Claiming, NEW u \in Sessions \ Claiming, WaitsFor(s, u)
    PROVE  \/ /\ tx[s].at \in {"by_key", "insert_evaluation", "lock_evaluation"}
              /\ tx[u].at \in {"lock_attempt", "result_key", "task", "insert_attempt", "commit"}
           \/ /\ tx[s].at = "register"
              /\ tx[u].at \in {"insert_evaluation", "insert_attempt", "commit"}
           \/ /\ Creates(s) \/ tx[s].at = "lock_attempt"
              /\ tx[u].at \in {"result_key", "task", "insert_attempt", "commit"} /\ ~Creates(u)
           \/ /\ tx[s].at = "result_key"
              /\ tx[u].at \in {"task", "insert_attempt", "commit"} /\ ~Creates(u)
           \/ tx[s].at = "task" /\ tx[u].at \in {"insert_attempt", "commit"} /\ ~Creates(u)
           \/ tx[s].at = "insert_attempt" /\ tx[u].at = "commit"
<1>1. PICK x : x \in Needs(s) /\ x \in held[u]
  BY DEF WaitsFor
<1>2. tx[s].at # "idle" /\ tx[u].at # "idle"
  BY <1>1 DEF Needs, LockInv, SessionLocks, Kinds
<1>3. PICK c \in Commands, d \in Commands :
         /\ c = tx[s].command /\ c.op \in {"create"} \cup Joins
         /\ Stands(c, tx[s].at, tx[s].rows, held[s])
         /\ d = tx[u].command /\ d.op \in {"create"} \cup Joins
         /\ Stands(d, tx[u].at, tx[u].rows, held[u])
  BY <1>2, Running, CommandTyped DEF Claiming
<1>4. /\ tx[s].at \notin {"scan", "lock_task", "claim_attempt", "claim_evaluation"}
      /\ tx[u].at \notin {"scan", "lock_task", "claim_attempt", "claim_evaluation"}
  BY <1>3, OpAt DEF Joins
<1>5. s # u /\ held[s] \cap held[u] = {}
  BY DEF WaitsFor, TxInv, Exclusive
<1>6. CASE tx[u].at = "commit"
  <2>1. tx[s].at \in {"by_key", "register", "insert_evaluation", "lock_evaluation", "lock_attempt",
                      "result_key", "task", "insert_attempt"}
    BY <1>1, <1>4 DEF Needs
  <2> QED BY <1>6, <2>1 DEF Creates
<1>7. ASSUME tx[u].at # "commit", x[1] = "evaluation"
      PROVE  tx[u].at \in {"lock_attempt", "result_key", "task", "insert_attempt"}
  BY <1>1, <1>7, HoldersOf
<1>8. ASSUME tx[u].at # "commit", x[1] = "attempt"
      PROVE  tx[u].at \in {"result_key", "task", "insert_attempt"} /\ d.op \in Joins /\ ~Creates(u)
  BY <1>1, <1>3, <1>4, <1>8, HoldersOf, OpAt DEF Joins, Creates
<1>9. CASE tx[u].at # "commit" /\ tx[s].at = "by_key"
  <2>1. x[1] \in {"evaluation", "attempt"}
    BY <1>1, <1>9 DEF Needs, KeyRows, EvaluationRow, AttemptRow
  <2> QED BY <1>7, <1>8, <1>9, <2>1
<1>10. CASE tx[u].at # "commit" /\ tx[s].at = "register"
  <2>1. x[1] = "reference"
    BY <1>1, <1>10 DEF Needs, ReferenceRow
  <2> QED BY <1>1, <1>10, <2>1, HoldersOf
<1>11. CASE tx[u].at # "commit" /\ tx[s].at = "insert_evaluation"
  <2>1. x[1] \in {"evaluation", "creation_key"}
    BY <1>1, <1>11 DEF Needs, EvaluationRow, Entry
  <2> QED BY <1>1, <1>7, <1>11, <2>1, HoldersOf
<1>12. CASE tx[u].at # "commit" /\ tx[s].at = "lock_evaluation"
  <2>1. x[1] = "evaluation"
    BY <1>1, <1>12 DEF Needs, JoinNeeds, EvaluationRow
  <2> QED BY <1>7, <1>12, <2>1
<1>13. CASE tx[u].at # "commit" /\ tx[s].at = "lock_attempt"
  <2>1. x[1] = "attempt"
    BY <1>1, <1>13 DEF Needs, JoinNeeds, AttemptRow
  <2> QED BY <1>8, <1>13, <2>1
<1>14. CASE tx[u].at # "commit" /\ tx[s].at = "result_key"
  <2>1. x = EvaluationRow(EvaluationOf(c)) \/ x[1] = "result_key"
    BY <1>1, <1>3, <1>14 DEF Needs, Entry
  <2>2. EvaluationRow(EvaluationOf(c)) \in held[s]
    BY <1>3, <1>14, OpAt DEF Stands, JoinStands, Joins
  <2>3. x[1] = "result_key"
    BY <1>1, <1>5, <2>1, <2>2
  <2> QED BY <1>1, <1>14, <2>3, HoldersOf DEF Creates
<1>15. CASE tx[u].at # "commit" /\ tx[s].at = "task"
  <2>1. PICK a \in Attempts : tx[s].rows = {a} /\ AttemptRow(a) \in held[s]
    <3>1. JoinStands("task", c, tx[s].rows, held[s])
      BY <1>3, <1>15, OpAt DEF Stands, Joins
    <3> QED BY <3>1 DEF JoinStands, OneRow
  <2>2. x = AttemptRow(a) \/ x[1] = "task"
    <3>1. Row(s) = a
      BY <2>1, RowIs
    <3>2. Needs(s) = {AttemptRow(a), TaskRow(a)}
      BY <1>15, <3>1 DEF Needs
    <3> QED BY <1>1, <3>2 DEF TaskRow
  <2>3. x[1] = "task"
    BY <1>1, <1>5, <2>1, <2>2
  <2> QED BY <1>1, <1>4, <1>15, <2>3, HoldersOf DEF Creates
<1>16. CASE tx[u].at # "commit" /\ tx[s].at = "insert_attempt"
  <2>1. x = AttemptRow(c.request.attempt) \/ x[1] = "attempt_key"
    BY <1>1, <1>3, <1>16 DEF Needs, Entry
  <2>2. x[1] # "attempt_key"
    BY <1>1, <1>16, HoldersOf
  <2>3. x = AttemptRow(c.request.attempt) /\ x[1] = "attempt"
    BY <2>1, <2>2 DEF AttemptRow
  <2>4. tx[u].at \in {"result_key", "task", "insert_attempt"} /\ d.op \in Joins /\ ~Creates(u)
    BY <1>8, <1>16, <2>3
  <2>5. c.op \in {"create", "retry"}
    BY <1>3, <1>16, OpAt
  <2>6. CASE c.op = "create"
    BY <1>3, <1>16, <2>4, <2>6 DEF Creates
  <2>7. CASE c.op = "retry"
    BY <1>1, <1>3, <1>5, <1>16, <2>3, <2>4, <2>7, NewAttemptIsFree
  <2> QED BY <2>5, <2>6, <2>7
<1> QED BY <1>1, <1>4, <1>6, <1>9, <1>10, <1>11, <1>12, <1>13, <1>14, <1>15, <1>16 DEF Needs

\* Claims never deadlock with each other, and neither do the other commands,
\* for every number of sessions, as long as the ids that retries draw are new:
\* whoever waits, waits for a transaction that is further on.
THEOREM OnlyClaimsDeadlock == RetriesDrawIds => (TxSpec => []OnlyClaimsCross)
<1>1. RetriesDrawIds /\ TxInv /\ LockInv => OnlyClaimsCross
  <2> SUFFICES ASSUME RetriesDrawIds, TxInv, LockInv PROVE OnlyClaimsCross
    OBVIOUS
  <2>1. ASSUME NEW T \in SUBSET Claiming, T # {}, \A s \in T : \E u \in T : WaitsFor(s, u)
        PROVE  FALSE
    <3>1. \A s \in T : tx[s].at \in {"claim_attempt", "claim_evaluation"}
      BY <2>1, ClaimsWaitUp
    <3>2. \A s \in T : tx[s].at # "claim_evaluation"
      BY <2>1, <3>1, ClaimsWaitUp
    <3>3. \A s \in T : tx[s].at # "claim_attempt"
      BY <2>1, <3>1, <3>2, ClaimsWaitUp
    <3> QED BY <2>1, <3>1, <3>2, <3>3
  <2>2. ASSUME NEW T \in SUBSET (Sessions \ Claiming), T # {},
               \A s \in T : \E u \in T : WaitsFor(s, u)
        PROVE  FALSE
    <3>1. ASSUME NEW s \in T, tx[s].at = "commit" PROVE FALSE
      <4>1. PICK u \in T : WaitsFor(s, u)
        BY <2>2
      <4>2. Needs(s) = {}
        BY <3>1 DEF Needs
      <4> QED BY <4>1, <4>2 DEF WaitsFor
    <3>2. ASSUME NEW s \in T, tx[s].at = "insert_attempt" PROVE Creates(s)
      <4>1. PICK u \in T : WaitsFor(s, u)
        BY <2>2
      <4> QED BY <3>1, <3>2, <4>1, OthersWaitUp
    <3>3. ASSUME NEW s \in T, tx[s].at = "task" PROVE FALSE
      <4>1. PICK u \in T : WaitsFor(s, u)
        BY <2>2
      <4>2. tx[u].at \in {"insert_attempt", "commit"} /\ ~Creates(u)
        BY <3>3, <4>1, OthersWaitUp DEF Creates
      <4> QED BY <3>1, <3>2, <4>2
    <3>4. ASSUME NEW s \in T, tx[s].at = "result_key" PROVE FALSE
      <4>1. PICK u \in T : WaitsFor(s, u)
        BY <2>2
      <4>2. tx[u].at \in {"task", "insert_attempt", "commit"} /\ ~Creates(u)
        BY <3>4, <4>1, OthersWaitUp DEF Creates
      <4> QED BY <3>1, <3>2, <3>3, <4>2
    <3>5. ASSUME NEW s \in T, tx[s].at \in {"lock_attempt", "insert_attempt"} PROVE FALSE
      <4>1. PICK u \in T : WaitsFor(s, u)
        BY <2>2
      <4>2. \/ tx[u].at = "commit"
            \/ tx[u].at \in {"result_key", "task", "insert_attempt"} /\ ~Creates(u)
        BY <3>5, <4>1, OthersWaitUp
      <4> QED BY <3>1, <3>2, <3>3, <3>4, <4>2
    <3>6. ASSUME NEW s \in T PROVE tx[s].at = "register"
      <4>1. PICK u \in T : WaitsFor(s, u)
        BY <2>2
      <4>2. tx[u].at \notin {"lock_attempt", "result_key", "task", "insert_attempt", "commit"}
        BY <3>1, <3>3, <3>4, <3>5
      <4> QED BY <4>1, <4>2, OthersWaitUp
    <3> QED BY <2>2, <3>6, OthersWaitUp
  <2> QED BY <2>1, <2>2 DEF OnlyClaimsCross, Deadlocked
<1>2. CASE RetriesDrawIds
  <2>1. TxInv /\ LockInv => OnlyClaimsCross
    BY <1>1, <1>2
  <2> QED BY <2>1, TxInvariance, LocksInvariance, PTL
<1> QED BY <1>2

=============================================================================
