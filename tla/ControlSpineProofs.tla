------------------------- MODULE ControlSpineProofs -------------------------
(***************************************************************************)
(* Proofs about the control spine, for every set of evaluations, attempts, *)
(* nodes, keys and tokens and every bound on times and attempt numbers.    *)
(***************************************************************************)
EXTENDS ControlSpine, TLAPS

-----------------------------------------------------------------------------
(***************************************************************************)
(* The inductive invariant.  RowsAgree ties an evaluation to its current   *)
(* attempt and AttemptHistory ties every other attempt to it; neither is   *)
(* preserved without the other, and the types of the rows a claim or a     *)
(* retry rewrites rest on both.                                            *)
(***************************************************************************)
IInv == TypeOK /\ Safety

\* The safety invariants speak of the tables only.
LEMMA SafetyOfTables == Safety /\ UNCHANGED tables => Safety'
<1> SUFFICES ASSUME Safety, UNCHANGED tables PROVE Safety'
  OBVIOUS
<1>1. references' = references /\ evaluations' = evaluations /\ attempts' = attempts
      /\ tasks' = tasks
  BY DEF tables
<1>2. RowsAgree'
  BY <1>1 DEF Safety, RowsAgree, RowAgrees, Stored
<1>3. AttemptHistory'
  BY <1>1 DEF Safety, AttemptHistory, History, AttemptsOf, Stored
<1>4. ReferencesAgree'
  BY <1>1 DEF Safety, ReferencesAgree
<1>5. LeaseBeforeResult'
  BY <1>1 DEF Safety, LeaseBeforeResult
<1> QED BY <1>2, <1>3, <1>4, <1>5 DEF Safety

\* A transaction that rolls back, or only reads, preserves the invariant.
LEMMA TablesUnchanged ==
    ASSUME IInv, UNCHANGED tables,
           NEW op \in {"create", "claim", "renew", "retry", "submit", "cancel"},
           NEW outcome \in Outcomes, reply' = [op |-> op, outcome |-> outcome]
    PROVE  IInv'
<1>1. TypeOK'
  BY DEF IInv, TypeOK, tables
<1>2. Safety'
  BY SafetyOfTables DEF IInv
<1> QED BY <1>1, <1>2 DEF IInv

\* The rows a transaction writes have the types of their tables.
LEMMA InsertedRowsTyped ==
    ASSUME NEW r \in Requests, NEW now \in Times
    PROVE  /\ InsertedAttempt(r, now) \in AttemptRows
           /\ InsertedEvaluation(r, now) \in EvaluationRows
           /\ InsertedAttempt(r, now).state = "queued"
           /\ InsertedAttempt(r, now).request = r
           /\ InsertedAttempt(r, now).node = Null
           /\ InsertedAttempt(r, now).token = Null
           /\ InsertedAttempt(r, now).expires = Null
           /\ InsertedEvaluation(r, now).state = "queued"
           /\ InsertedEvaluation(r, now).request = r
           /\ InsertedEvaluation(r, now).current = r.attempt
           /\ InsertedEvaluation(r, now).result = Null
BY DEF InsertedAttempt, InsertedEvaluation, AbsentAttempt, AbsentEvaluation,
       AttemptRows, EvaluationRows, Requests, AttemptStates, EvaluationStates

\* An empty, migrated database satisfies the invariant.
LEMMA InitInv == Init => IInv
<1> SUFFICES ASSUME Init PROVE IInv
  OBVIOUS
<1>1. TypeOK
  BY BoundsAssumption
  DEF Init, TypeOK, AbsentEvaluation, AbsentAttempt, EvaluationRows, AttemptRows,
      EvaluationStates, AttemptStates, TaskStates, Outcomes, Times
<1>2. Safety
  BY DEF Init, Safety, RowsAgree, AttemptHistory, ReferencesAgree, LeaseBeforeResult,
         Stored, AbsentEvaluation, AbsentAttempt
<1> QED BY <1>1, <1>2 DEF IInv

\* No attempt is the current one of two evaluations.
LEMMA CurrentOfOne ==
    ASSUME IInv, NEW e \in Evaluations, NEW f \in Evaluations, Stored(e), Stored(f),
           evaluations[e].current = evaluations[f].current
    PROVE  e = f
<1>1. attempts[evaluations[e].current].request.evaluation = e
  BY DEF IInv, Safety, RowsAgree, RowAgrees
<1>2. attempts[evaluations[f].current].request.evaluation = f
  BY DEF IInv, Safety, RowsAgree, RowAgrees
<1> QED BY <1>1, <1>2

\* A transaction that keeps the attempts, the current attempt of every
\* evaluation and what is expired keeps the history of the attempts.
LEMMA HistoryKept ==
    ASSUME IInv,
           \A b \in Attempts : /\ attempts'[b].request = attempts[b].request
                               /\ attempts'[b].state = "absent" <=> attempts[b].state = "absent"
                               /\ attempts[b].state = "expired" =>
                                     attempts'[b].state = "expired" /\ tasks'[b] = tasks[b],
           \A f \in Evaluations : /\ Stored(f)' <=> Stored(f)
                                  /\ evaluations'[f].current = evaluations[f].current
    PROVE  AttemptHistory'
<1>1. \A f \in Evaluations : AttemptsOf(f)' = AttemptsOf(f)
  BY DEF AttemptsOf
<1> SUFFICES ASSUME NEW a \in Attempts, attempts'[a].state # "absent"
             PROVE  History(a)'
  BY DEF AttemptHistory
<1>2. History(a) /\ attempts[a].request \in Requests
  BY DEF IInv, TypeOK, Safety, AttemptHistory
<1>3. PICK e \in Evaluations : e = attempts[a].request.evaluation
  BY <1>2 DEF Requests
<1>4. PICK c \in Attempts : c = evaluations[e].current
  BY <1>2, <1>3 DEF History, Stored, IInv, TypeOK
<1>5. /\ attempts'[a].request = attempts[a].request
      /\ attempts'[c].request = attempts[c].request
      /\ evaluations'[e].current = c /\ Stored(e)' /\ AttemptsOf(e)' = AttemptsOf(e)
  BY <1>1, <1>2, <1>3, <1>4 DEF History
<1>6. \A b \in AttemptsOf(e) : attempts'[b].request = attempts[b].request
  BY DEF AttemptsOf
<1>7. a # c => attempts'[a].state = "expired" /\ tasks'[a] = "expired"
  BY <1>2, <1>3, <1>4 DEF History
<1>8. \A b \in AttemptsOf(e) \ {a} :
         attempts'[b].request.number # attempts'[a].request.number
  BY <1>2, <1>3, <1>5, <1>6 DEF History
<1>9. a # c =>
         /\ attempts'[a].request.number < attempts'[c].request.number
         /\ \E b \in AttemptsOf(e) : attempts'[b].request.number = attempts'[a].request.number + 1
  <2> SUFFICES ASSUME a # c
               PROVE  /\ attempts[a].request.number < attempts[c].request.number
                      /\ \E b \in AttemptsOf(e) :
                            attempts[b].request.number = attempts[a].request.number + 1
    BY <1>5, <1>6
  <2> QED BY <1>2, <1>3, <1>4 DEF History
<1>10. attempts'[a].request.evaluation = e
  BY <1>3, <1>5
<1> QED
  BY <1>5, <1>7, <1>8, <1>9, <1>10 DEF History

\* A transaction that keeps the references and every request payload keeps
\* their agreement.
LEMMA ReferencesKept ==
    ASSUME IInv, references' = references,
           \A b \in Attempts : /\ attempts'[b].request = attempts[b].request
                               /\ attempts'[b].state = "absent" <=> attempts[b].state = "absent",
           \A f \in Evaluations : evaluations'[f].request = evaluations[f].request
    PROVE  ReferencesAgree'
BY DEF IInv, TypeOK, Safety, ReferencesAgree, SameSemantics, Requests

-----------------------------------------------------------------------------
(***************************************************************************)
(* create_evaluation                                                       *)
(***************************************************************************)

\* What the inserts of create_evaluation leave in the tables, row by row: the
\* evaluation, the attempt and the key were new, the reference was new or had
\* this content, and no other row changes.
LEMMA CreateEffect ==
    ASSUME IInv, NEW r \in Requests, NEW now \in Times, CreateEvaluation(r, now),
           CreateOutcome(r) = "Ok"
    PROVE  /\ evaluations[r.evaluation].state = "absent"
           /\ attempts[r.attempt].state = "absent"
           /\ references[r.reference] \in {Null, r.digest}
           /\ references' = [references EXCEPT ![r.reference] = r.digest]
           /\ evaluations'[r.evaluation] = InsertedEvaluation(r, now)
           /\ \A f \in Evaluations \ {r.evaluation} : evaluations'[f] = evaluations[f]
           /\ attempts'[r.attempt] = InsertedAttempt(r, now)
           /\ \A b \in Attempts \ {r.attempt} : attempts'[b] = attempts[b]
           /\ tasks'[r.attempt] = "ready"
           /\ \A b \in Attempts \ {r.attempt} : tasks'[b] = tasks[b]
BY DEF CreateEvaluation, CreateOutcome, ContentDiffers, IdentityTaken, IInv, TypeOK,
   Requests, Stored

\* create_evaluation preserves the invariant, whether it inserts or refuses.
LEMMA CreateInv ==
    ASSUME IInv, NEW r \in Requests, NEW now \in Times, CreateEvaluation(r, now)
    PROVE  IInv'
<1>1. CASE CreateOutcome(r) = "Ok"
  <2>1. TypeOK'
    <3>1. reply' \in [op : {"none", "create", "claim", "renew", "retry", "submit", "cancel"},
                      outcome : Outcomes]
      BY <1>1 DEF CreateEvaluation, Reply, Outcomes
    <3> QED
      BY <3>1, <1>1, InsertedRowsTyped DEF CreateEvaluation, IInv, TypeOK, Requests, TaskStates
  <2>2. RowsAgree'
    <3>1. RowAgrees(r.evaluation)'
      BY <1>1, CreateEffect, InsertedRowsTyped
      DEF RowAgrees, AgreeingStates, TerminalStates, Requests
    <3>2. ASSUME NEW f \in Evaluations \ {r.evaluation}, Stored(f)' PROVE RowAgrees(f)'
      <4>1. evaluations'[f] = evaluations[f] /\ Stored(f)
        BY <1>1, <3>2, CreateEffect DEF Stored
      <4>2. RowAgrees(f) /\ evaluations[f].current \in Attempts
        BY <4>1 DEF IInv, TypeOK, Safety, RowsAgree, Stored
      <4>3. evaluations[f].current # r.attempt
        BY <1>1, <4>2, CreateEffect DEF RowAgrees, AgreeingStates
      <4>4. /\ attempts'[evaluations[f].current] = attempts[evaluations[f].current]
            /\ tasks'[evaluations[f].current] = tasks[evaluations[f].current]
        BY <1>1, <4>2, <4>3, CreateEffect
      <4> QED BY <4>1, <4>2, <4>4 DEF RowAgrees
    <3> QED BY <3>1, <3>2 DEF RowsAgree
  <2>3. AttemptHistory'
    <3>1. AttemptsOf(r.evaluation) = {}
      <4> SUFFICES ASSUME NEW b \in AttemptsOf(r.evaluation) PROVE FALSE
        OBVIOUS
      <4>1. History(b) /\ attempts[b].request.evaluation = r.evaluation
        BY DEF AttemptsOf, IInv, Safety, AttemptHistory
      <4> QED BY <1>1, <4>1, CreateEffect DEF History, Stored
    <3>2. AttemptsOf(r.evaluation)' = {r.attempt}
      BY <1>1, <3>1, CreateEffect, InsertedRowsTyped DEF AttemptsOf, Requests
    <3>3. \A f \in Evaluations \ {r.evaluation} : AttemptsOf(f)' = AttemptsOf(f)
      BY <1>1, CreateEffect, InsertedRowsTyped DEF AttemptsOf, Requests
    <3>4. ASSUME NEW f \in Evaluations, Stored(f) PROVE evaluations[f].current # r.attempt
      <4>1. RowAgrees(f)
        BY <3>4 DEF IInv, Safety, RowsAgree
      <4> QED BY <1>1, <4>1, CreateEffect DEF RowAgrees, AgreeingStates
    <3> SUFFICES ASSUME NEW a \in Attempts, attempts'[a].state # "absent"
                 PROVE  History(a)'
      BY DEF AttemptHistory
    <3>5. CASE a = r.attempt
      <4>1. attempts'[a].request = r /\ evaluations'[r.evaluation].current = r.attempt
            /\ evaluations'[r.evaluation].state = "queued"
        BY <1>1, <3>5, CreateEffect, InsertedRowsTyped
      <4> QED BY <3>2, <3>5, <4>1 DEF History, Stored
    <3>6. CASE a # r.attempt
      <4>1. History(a) /\ attempts'[a] = attempts[a] /\ attempts[a].request \in Requests
        BY <1>1, <3>6, CreateEffect DEF IInv, TypeOK, Safety, AttemptHistory
      <4>2. PICK f \in Evaluations : f = attempts[a].request.evaluation
        BY <4>1 DEF Requests
      <4>3. f # r.evaluation /\ evaluations'[f] = evaluations[f] /\ Stored(f)
        BY <1>1, <4>1, <4>2, CreateEffect DEF History, Stored
      <4>4. evaluations[f].current \in Attempts \ {r.attempt}
        BY <3>4, <4>3 DEF IInv, TypeOK, Stored
      <4>5. /\ attempts'[evaluations[f].current] = attempts[evaluations[f].current]
            /\ tasks'[a] = tasks[a]
        BY <1>1, <3>6, <4>4, CreateEffect
      <4>6. AttemptsOf(f)' = AttemptsOf(f) /\ Stored(f)'
        BY <3>3, <4>3 DEF Stored
      <4>7. \A b \in AttemptsOf(f) : attempts'[b] = attempts[b]
        BY <1>1, CreateEffect DEF AttemptsOf
      <4>8. \A b \in AttemptsOf(f) \ {a} :
               attempts'[b].request.number # attempts'[a].request.number
        BY <4>1, <4>2, <4>7 DEF History
      <4>9. a # evaluations[f].current =>
               \E b \in AttemptsOf(f) :
                  attempts'[b].request.number = attempts'[a].request.number + 1
        BY <4>1, <4>2, <4>7 DEF History
      <4> QED
        BY <4>1, <4>2, <4>3, <4>5, <4>6, <4>8, <4>9 DEF History
    <3> QED BY <3>5, <3>6
  <2>4. ReferencesAgree'
    <3> SUFFICES ASSUME NEW a \in Attempts, attempts'[a].state # "absent"
                 PROVE  /\ SameSemantics(evaluations'[attempts'[a].request.evaluation].request,
                                         attempts'[a].request)
                        /\ references'[attempts'[a].request.reference] = attempts'[a].request.digest
      BY DEF ReferencesAgree, SameSemantics
    <3>1. CASE a = r.attempt
      <4>1. attempts'[a].request = r /\ evaluations'[r.evaluation].request = r
        BY <1>1, <3>1, CreateEffect, InsertedRowsTyped
      <4>2. references'[r.reference] = r.digest
        BY <1>1, CreateEffect DEF IInv, TypeOK, Requests
      <4> QED BY <4>1, <4>2 DEF SameSemantics
    <3>2. CASE a # r.attempt
      <4>1. attempts'[a] = attempts[a] /\ attempts[a].request \in Requests
        BY <1>1, <3>2, CreateEffect DEF IInv, TypeOK
      <4>2. PICK f \in Evaluations, q \in References, d \in Digests :
               /\ f = attempts[a].request.evaluation
               /\ q = attempts[a].request.reference
               /\ d = attempts[a].request.digest
        BY <4>1 DEF Requests
      <4>3. History(a) /\ SameSemantics(evaluations[f].request, attempts[a].request)
            /\ references[q] = d
        BY <4>1, <4>2 DEF IInv, Safety, AttemptHistory, ReferencesAgree
      <4>4. evaluations'[f] = evaluations[f]
        BY <1>1, <4>2, <4>3, CreateEffect DEF History, Stored
      <4>5. references'[q] = d
        BY <1>1, <4>2, <4>3, CreateEffect, NullAssumption DEF IInv, TypeOK, Requests
      <4> QED BY <4>1, <4>2, <4>3, <4>4, <4>5
    <3> QED BY <3>1, <3>2
  <2>5. LeaseBeforeResult'
    BY <1>1, CreateEffect, InsertedRowsTyped DEF IInv, Safety, LeaseBeforeResult, Requests
  <2> QED BY <2>1, <2>2, <2>3, <2>4, <2>5 DEF IInv, Safety
<1>2. CASE CreateOutcome(r) # "Ok"
  <2>1. CreateOutcome(r) \in Outcomes
    BY DEF CreateOutcome, IdentityTaken, Outcomes
  <2> QED
    BY <1>2, <2>1, TablesUnchanged DEF CreateEvaluation, Reply
<1> QED BY <1>1, <1>2

-----------------------------------------------------------------------------
(***************************************************************************)
(* claim_task_with_capabilities                                            *)
(***************************************************************************)

\* A task the claim's SELECT returns belongs to the current attempt of an
\* evaluation that is queued, and to no other: the join of the three tables
\* picks the rows RowsAgree ties together.
LEMMA ClaimableIsCurrent ==
    ASSUME IInv, NEW a \in Attempts, NEW declared, Claimable(a, declared)
    PROVE  /\ attempts[a].request \in Requests
           /\ attempts[a].request.evaluation \in Evaluations
           /\ evaluations[attempts[a].request.evaluation].state = "queued"
           /\ evaluations[attempts[a].request.evaluation].current = a
           /\ \A f \in Evaluations : Stored(f) /\ evaluations[f].current = a
                 => f = attempts[a].request.evaluation
<1>1. attempts[a].request \in Requests
  BY DEF Claimable, IInv, TypeOK
<1>2. PICK e \in Evaluations : evaluations[e].current = a /\ evaluations[e].state = "queued"
  BY DEF Claimable
<1>3. attempts[a].request.evaluation = e
  BY <1>2 DEF IInv, Safety, RowsAgree, RowAgrees, Stored
<1> QED
  BY <1>1, <1>2, <1>3 DEF IInv, Safety, RowsAgree, RowAgrees, Requests

\* The row a claim writes.
LEMMA ClaimedAttemptTyped ==
    ASSUME TypeOK, NEW a \in Attempts, NEW node \in Nodes, NEW token \in Tokens,
           NEW op \in Operations \cup {Null}, NEW now \in Times, ExpiryFits(now)
    PROVE  /\ ClaimedAttempt(a, node, token, op, now) \in AttemptRows
           /\ ClaimedAttempt(a, node, token, op, now).state = "leased"
           /\ ClaimedAttempt(a, node, token, op, now).request = attempts[a].request
           /\ ClaimedAttempt(a, node, token, op, now).node = node
           /\ ClaimedAttempt(a, node, token, op, now).token = token
           /\ ClaimedAttempt(a, node, token, op, now).expires \in Times
<1>1. now + LeaseDuration \in Times
  BY BoundsAssumption DEF ExpiryFits, Times
<1>2. attempts[a] \in AttemptRows
  BY DEF TypeOK
<1> QED
  BY <1>1, <1>2 DEF ClaimedAttempt, AttemptRows, AttemptStates, EvaluationStates

\* claim_task_with_capabilities preserves the invariant: what it leases was
\* the queued current attempt of its evaluation.
LEMMA ClaimInv ==
    ASSUME IInv, NEW node \in Nodes, NEW token \in Tokens, NEW op \in Operations \cup {Null},
           NEW declared, NEW locked, NEW now \in Times,
           ClaimTask(node, token, op, declared, locked, now)
    PROVE  IInv'
<1>1. CASE UNCHANGED tables
  BY <1>1, TablesUnchanged DEF ClaimTask, Reply, Outcomes, ClaimWrites
<1>2. CASE /\ ExpiryFits(now)
           /\ \E a \in Candidates(declared, locked) :
                 Reply("claim", "Ok") /\ ClaimWrites(a, node, token, op, now)
  <2>1. PICK a \in Candidates(declared, locked) :
                 Reply("claim", "Ok") /\ ClaimWrites(a, node, token, op, now)
    BY <1>2
  <2>2. a \in Attempts /\ Claimable(a, declared)
    BY DEF Candidates
  <2>e. PICK e \in Evaluations : e = attempts[a].request.evaluation
    BY <2>2, ClaimableIsCurrent
  <2>r. PICK row : row = ClaimedAttempt(a, node, token, op, now)
    OBVIOUS
  <2>3. /\ row \in AttemptRows
        /\ row.state = "leased"
        /\ row.request = attempts[a].request
        /\ row.node = node /\ row.token = token /\ row.expires \in Times
    BY <1>2, <2>2, <2>r, ClaimedAttemptTyped DEF IInv
  <2>4. /\ attempts[a].request \in Requests /\ attempts[a].request.evaluation = e
        /\ evaluations[e].state = "queued" /\ evaluations[e].current = a
        /\ attempts[a].state = "queued"
        /\ \A f \in Evaluations : Stored(f) /\ evaluations[f].current = a => f = e
    BY <2>e, <2>2, ClaimableIsCurrent DEF Claimable
  <2>5. /\ attempts'[a] = row
        /\ \A b \in Attempts \ {a} : attempts'[b] = attempts[b]
        /\ tasks'[a] = "leased"
        /\ \A b \in Attempts \ {a} : tasks'[b] = tasks[b]
        /\ \A f \in Evaluations \ {e} : evaluations'[f] = evaluations[f]
        /\ references' = references
    BY <2>1, <2>2, <2>4, <2>r DEF ClaimWrites, IInv, TypeOK
  <2>6. /\ evaluations'[e].state = "leased"
        /\ evaluations'[e].current = a
        /\ evaluations'[e].result = evaluations[e].result
        /\ evaluations'[e].request = evaluations[e].request
    BY <2>1, <2>4 DEF ClaimWrites, IInv, TypeOK, EvaluationRows
  <2>7. TypeOK'
    <3>1. reply' \in [op : {"none", "create", "claim", "renew", "retry", "submit", "cancel"},
                      outcome : Outcomes]
      BY <2>1 DEF Reply, Outcomes
    <3>2. evaluations' \in [Evaluations -> EvaluationRows]
      BY <2>1, <2>4 DEF ClaimWrites, IInv, TypeOK, EvaluationRows, EvaluationStates
    <3>3. attempts' \in [Attempts -> AttemptRows] /\ tasks' \in [Attempts -> TaskStates]
      BY <2>1, <2>2, <2>3, <2>r DEF ClaimWrites, IInv, TypeOK, TaskStates
    <3>4. \A f \in Evaluations :
             IF evaluations'[f].state = "absent" THEN evaluations'[f].result = Null
             ELSE evaluations'[f].request \in Requests /\ evaluations'[f].current \in Attempts
      BY <2>2, <2>4, <2>5, <2>6 DEF IInv, TypeOK
    <3>5. \A b \in Attempts : attempts'[b].state # "absent" => attempts'[b].request \in Requests
      BY <2>3, <2>4, <2>5 DEF IInv, TypeOK
    <3> QED
      BY <2>5, <3>1, <3>2, <3>3, <3>4, <3>5 DEF IInv, TypeOK
  <2>8. RowsAgree'
    <3>1. RowAgrees(e)'
      BY <2>2, <2>3, <2>4, <2>5, <2>6
      DEF IInv, Safety, RowsAgree, RowAgrees, Stored, AgreeingStates, TerminalStates,
          IdentityMatches
    <3>2. ASSUME NEW f \in Evaluations \ {e}, Stored(f)' PROVE RowAgrees(f)'
      <4>1. Stored(f) /\ evaluations[f].current \in Attempts \ {a}
        BY <2>4, <2>5, <3>2 DEF Stored, IInv, TypeOK
      <4> QED
        BY <2>5, <4>1 DEF IInv, Safety, RowsAgree, RowAgrees
    <3> QED BY <3>1, <3>2 DEF RowsAgree
  <2>9. AttemptHistory'
    <3>1. \A b \in Attempts : /\ attempts'[b].request = attempts[b].request
                              /\ attempts'[b].state = "absent" <=> attempts[b].state = "absent"
                              /\ attempts[b].state = "expired" =>
                                    attempts'[b].state = "expired" /\ tasks'[b] = tasks[b]
      BY <2>3, <2>4, <2>5
    <3>2. \A f \in Evaluations : /\ Stored(f)' <=> Stored(f)
                                 /\ evaluations'[f].current = evaluations[f].current
      BY <2>4, <2>5, <2>6 DEF Stored
    <3> QED BY <3>1, <3>2, HistoryKept
  <2>10. ReferencesAgree'
    <3>1. \A f \in Evaluations : evaluations'[f].request = evaluations[f].request
      BY <2>5, <2>6
    <3>2. \A b \in Attempts : /\ attempts'[b].request = attempts[b].request
                              /\ attempts'[b].state = "absent" <=> attempts[b].state = "absent"
      BY <2>3, <2>4, <2>5
    <3> QED BY <2>5, <3>1, <3>2, ReferencesKept
  <2>11. LeaseBeforeResult'
    BY <2>2, <2>3, <2>5, NullAssumption DEF IInv, Safety, LeaseBeforeResult
  <2> QED BY <2>7, <2>8, <2>9, <2>10, <2>11 DEF IInv, Safety
<1> QED BY <1>1, <1>2 DEF ClaimTask

-----------------------------------------------------------------------------
(***************************************************************************)
(* judge_renew_lease                                                       *)
(***************************************************************************)

\* A renewal moves the expiry of one leased attempt and nothing else.
LEMMA RenewInv ==
    ASSUME IInv, NEW node \in Nodes, NEW e \in Evaluations, NEW a \in Attempts,
           NEW token \in Tokens, NEW now \in Times, RenewLease(node, e, a, token, now)
    PROVE  IInv'
<1> DEFINE outcome == RenewOutcome(node, e, a, token, now)
<1>1. outcome \in Outcomes
  BY DEF RenewOutcome, HoldsLease, Outcomes
<1>2. CASE outcome = "Continue"
  <2>1. /\ now + LeaseDuration \in Times
        /\ evaluations[e].current = a
        /\ attempts[a].state = "leased"
    BY <1>2, BoundsAssumption DEF RenewOutcome, HoldsLease, ExpiryFits, Times
  <2>2. /\ attempts' = [attempts EXCEPT ![a].expires = now + LeaseDuration]
        /\ references' = references /\ evaluations' = evaluations /\ tasks' = tasks
        /\ reply' = [op |-> "renew", outcome |-> outcome]
    BY <1>2 DEF RenewLease, Reply
  <2>3. /\ attempts' \in [Attempts -> AttemptRows]
        /\ \A b \in Attempts : /\ attempts'[b].state = attempts[b].state
                               /\ attempts'[b].request = attempts[b].request
                               /\ attempts'[b].node = attempts[b].node
                               /\ attempts'[b].token = attempts[b].token
        /\ \A b \in Attempts \ {a} : attempts'[b] = attempts[b]
        /\ attempts'[a].expires \in Times
    BY <2>1, <2>2 DEF IInv, TypeOK, AttemptRows
  <2>4. TypeOK'
    BY <1>1, <2>2, <2>3 DEF IInv, TypeOK
  <2>5. RowsAgree'
    BY <2>2, <2>3 DEF IInv, TypeOK, Safety, RowsAgree, RowAgrees, Stored
  <2>6. AttemptHistory'
    BY <2>2, <2>3, HistoryKept DEF Stored
  <2>7. ReferencesAgree'
    BY <2>2, <2>3, ReferencesKept
  <2>8. LeaseBeforeResult'
    BY <2>1, <2>3, NullAssumption DEF IInv, Safety, LeaseBeforeResult
  <2> QED BY <2>4, <2>5, <2>6, <2>7, <2>8 DEF IInv, Safety
<1>3. CASE outcome # "Continue"
  BY <1>1, <1>3, TablesUnchanged DEF RenewLease, Reply, tables
<1> QED BY <1>2, <1>3

-----------------------------------------------------------------------------
(***************************************************************************)
(* submit_result and cancel_evaluation: both end in write_terminal.        *)
(***************************************************************************)

\* write_terminal preserves the invariant when its caller has found the
\* result to be the verdict of the current attempt of an evaluation that has
\* none, and has found that attempt leased, or is cancelling it.
LEMMA WriteTerminalInv ==
    ASSUME IInv, NEW key \in ResultKeys, NEW result \in Results,
           Stored(result.evaluation), evaluations[result.evaluation].result = Null,
           evaluations[result.evaluation].current = result.attempt,
           IdentityMatches(attempts[result.attempt].request, result),
           attempts[result.attempt].state \in {"queued", "leased"},
           attempts[result.attempt].state = "leased" \/ result.status = "cancelled",
           WriteTerminal(key, result), references' = references,
           reply' \in [op : {"none", "create", "claim", "renew", "retry", "submit", "cancel"},
                       outcome : Outcomes]
    PROVE  IInv'
<1>1. PICK e \in Evaluations, a \in Attempts, status \in TerminalStates :
         e = result.evaluation /\ a = result.attempt /\ status = result.status
  BY DEF Results
<1>2. /\ evaluations' \in [Evaluations -> EvaluationRows]
      /\ \A f \in Evaluations : evaluations'[f].request = evaluations[f].request
      /\ \A f \in Evaluations : evaluations'[f].current = evaluations[f].current
      /\ \A f \in Evaluations \ {e} : evaluations'[f] = evaluations[f]
      /\ evaluations'[e].state = status
      /\ evaluations'[e].result = result
  <2>1. PICK row : row = [evaluations[e] EXCEPT !.state = status, !.result = result,
                                                !.result_key = key]
    OBVIOUS
  <2>2. evaluations' = [evaluations EXCEPT ![e] = row]
    BY <1>1, <2>1 DEF WriteTerminal, IInv, TypeOK
  <2>3. /\ row \in EvaluationRows
        /\ row.request = evaluations[e].request
        /\ row.current = evaluations[e].current
        /\ row.state = status
        /\ row.result = result
    <3>1. evaluations[e] \in EvaluationRows /\ status \in EvaluationStates
      BY DEF IInv, TypeOK, EvaluationStates
    <3> QED BY <2>1, <3>1 DEF EvaluationRows
  <2> QED
    BY <2>2, <2>3 DEF IInv, TypeOK
<1>3. /\ attempts' \in [Attempts -> AttemptRows]
      /\ \A b \in Attempts : /\ attempts'[b].request = attempts[b].request
                             /\ attempts'[b].node = attempts[b].node
                             /\ attempts'[b].token = attempts[b].token
                             /\ attempts'[b].expires = attempts[b].expires
      /\ \A b \in Attempts \ {a} : attempts'[b] = attempts[b]
      /\ attempts'[a].state = status
  <2>1. PICK row : row = [attempts[a] EXCEPT !.state = status]
    OBVIOUS
  <2>2. attempts' = [attempts EXCEPT ![a] = row]
    BY <1>1, <2>1 DEF WriteTerminal, IInv, TypeOK
  <2>3. /\ row \in AttemptRows /\ row.state = status
        /\ row.request = attempts[a].request
        /\ row.node = attempts[a].node
        /\ row.token = attempts[a].token
        /\ row.expires = attempts[a].expires
    <3>1. attempts[a] \in AttemptRows /\ status \in AttemptStates
      BY DEF IInv, TypeOK, AttemptStates, EvaluationStates
    <3> QED BY <2>1, <3>1 DEF AttemptRows
  <2> QED BY <2>2, <2>3 DEF IInv, TypeOK
<1>4. /\ tasks' \in [Attempts -> TaskStates]
      /\ \A b \in Attempts \ {a} : tasks'[b] = tasks[b]
      /\ tasks'[a] = TaskStateFor(status)
  BY <1>1 DEF WriteTerminal, IInv, TypeOK, TaskStates, TaskStateFor
<1>5. /\ Stored(e) /\ evaluations[e].current = a
      /\ attempts[a].state \in {"queued", "leased"}
      /\ attempts[a].state = "leased" \/ status = "cancelled"
  BY <1>1
<1>6. status \notin {"absent", "queued", "leased", "expired"}
  BY DEF TerminalStates
<1>7. TypeOK'
  <2>1. \A f \in Evaluations :
           IF evaluations'[f].state = "absent" THEN evaluations'[f].result = Null
           ELSE evaluations'[f].request \in Requests /\ evaluations'[f].current \in Attempts
    BY <1>2, <1>5, <1>6 DEF IInv, TypeOK, Stored
  <2>2. \A b \in Attempts : attempts'[b].state # "absent" => attempts'[b].request \in Requests
    BY <1>3, <1>5 DEF IInv, TypeOK
  <2> QED BY <1>2, <1>3, <1>4, <2>1, <2>2 DEF IInv, TypeOK
<1>8. RowsAgree'
  <2>1. RowAgrees(e)'
    <3>1. /\ attempts[a].request.evaluation = e
          /\ attempts[a].request.attempt = a
          /\ IdentityMatches(attempts[a].request, result)
      BY <1>1, <1>5 DEF IInv, Safety, RowsAgree, RowAgrees
    <3>2. result # Null
      BY NullAssumption
    <3>3. <<status, status, tasks'[a]>> \in AgreeingStates
      BY <1>1, <1>4 DEF AgreeingStates, TaskStateFor, TerminalStates
    <3>4. /\ evaluations'[e].state = status /\ evaluations'[e].current = a
          /\ evaluations'[e].result = result
          /\ attempts'[a].state = status /\ attempts'[a].request = attempts[a].request
      BY <1>1, <1>2, <1>3, <1>5
    <3>5. result.status = status
      BY <1>1
    <3> QED
      BY <3>1, <3>2, <3>3, <3>4, <3>5 DEF RowAgrees
  <2>2. ASSUME NEW f \in Evaluations \ {e}, Stored(f)' PROVE RowAgrees(f)'
    <3>1. Stored(f) /\ evaluations[f].current \in Attempts \ {a}
      BY <1>2, <1>5, <2>2, CurrentOfOne DEF Stored, IInv, TypeOK
    <3> QED
      BY <1>2, <1>3, <1>4, <3>1 DEF IInv, Safety, RowsAgree, RowAgrees
  <2> QED BY <2>1, <2>2 DEF RowsAgree
<1>9. AttemptHistory'
  BY <1>2, <1>3, <1>4, <1>5, <1>6, HistoryKept DEF Stored
<1>10. ReferencesAgree'
  BY <1>2, <1>3, <1>5, <1>6, ReferencesKept
<1>11. LeaseBeforeResult'
  BY <1>3, <1>5, <1>6 DEF IInv, Safety, LeaseBeforeResult
<1> QED BY <1>7, <1>8, <1>9, <1>10, <1>11 DEF IInv, Safety

\* A result is only written for a leased current attempt that it identifies.
LEMMA SubmitInv ==
    ASSUME IInv, NEW key \in ResultKeys, NEW token \in Tokens, NEW result \in Results,
           NEW now \in Times, SubmitResult(key, token, result, now)
    PROVE  IInv'
<1> DEFINE outcome == SubmitOutcome(key, token, result, now)
<1>1. outcome \in Outcomes
  BY DEF SubmitOutcome, SubmitCheck, ReplayOutcome, WriteOutcome, Outcomes
<1>2. CASE outcome = "Ok"
  <2>1. /\ Stored(result.evaluation)
        /\ evaluations[result.evaluation].result = Null
        /\ evaluations[result.evaluation].current = result.attempt
        /\ attempts[result.attempt].state = "leased"
        /\ IdentityMatches(attempts[result.attempt].request, result)
    BY <1>2 DEF SubmitOutcome, SubmitCheck, ReplayOutcome
  <2>2. /\ WriteTerminal(key, result) /\ references' = references
        /\ reply' = [op |-> "submit", outcome |-> outcome]
    BY <1>2 DEF SubmitResult, Reply
  <2> QED BY <1>1, <2>1, <2>2, WriteTerminalInv
<1>3. CASE outcome # "Ok"
  BY <1>1, <1>3, TablesUnchanged DEF SubmitResult, Reply, tables
<1> QED BY <1>2, <1>3

\* A cancellation is only written for the queued or leased current attempt.
LEMMA CancelInv ==
    ASSUME IInv, NEW key \in ResultKeys, NEW e \in Evaluations, NEW result \in Results,
           NEW now \in Times, CancelEvaluation(key, e, result, now)
    PROVE  IInv'
<1> DEFINE outcome == CancelOutcome(key, e, result, now)
<1>1. outcome \in Outcomes
  BY DEF CancelOutcome, CancelCheck, ReplayOutcome, WriteOutcome, Outcomes
<1>2. CASE outcome = "Ok"
  <2>1. /\ result.status = "cancelled" /\ result.evaluation = e
        /\ Stored(e)
        /\ evaluations[e].result = Null
        /\ evaluations[e].current = result.attempt
        /\ attempts[result.attempt].state \in {"queued", "leased"}
        /\ IdentityMatches(attempts[result.attempt].request, result)
    BY <1>2 DEF CancelOutcome, CancelCheck, ReplayOutcome
  <2>2. /\ WriteTerminal(key, result) /\ references' = references
        /\ reply' = [op |-> "cancel", outcome |-> outcome]
    BY <1>2 DEF CancelEvaluation, Reply
  <2> QED BY <1>1, <2>1, <2>2, WriteTerminalInv
<1>3. CASE outcome # "Ok"
  BY <1>1, <1>3, TablesUnchanged DEF CancelEvaluation, Reply, tables
<1> QED BY <1>2, <1>3

-----------------------------------------------------------------------------
(***************************************************************************)
(* retry_expired                                                           *)
(***************************************************************************)

\* What replace_attempt leaves in the tables, row by row.
LEMMA RetryEffect ==
    ASSUME IInv, NEW r \in Requests, NEW now \in Times, RetryExpired(r, now),
           RetryOutcome(r, now) = "Ok", NEW e \in Evaluations, NEW old \in Attempts,
           NEW new \in Attempts, e = r.evaluation, new = r.attempt,
           old = evaluations[e].current
    PROVE  /\ evaluations[e].state = "leased" /\ attempts[old].state = "leased"
           /\ attempts[new].state = "absent"
           /\ r.number = attempts[old].request.number + 1
           /\ SameSemantics(attempts[old].request, r)
           /\ references' = references
           /\ evaluations' \in [Evaluations -> EvaluationRows]
           /\ evaluations'[e].state = "queued" /\ evaluations'[e].current = new
           /\ evaluations'[e].result = evaluations[e].result
           /\ \A f \in Evaluations : evaluations'[f].request = evaluations[f].request
           /\ \A f \in Evaluations \ {e} : evaluations'[f] = evaluations[f]
           /\ attempts' \in [Attempts -> AttemptRows]
           /\ attempts'[old].state = "expired"
           /\ attempts'[old].request = attempts[old].request
           /\ attempts'[old].node = attempts[old].node
           /\ attempts'[old].token = attempts[old].token
           /\ attempts'[old].expires = attempts[old].expires
           /\ attempts'[new] = InsertedAttempt(r, now)
           /\ \A b \in Attempts \ {old, new} : attempts'[b] = attempts[b]
           /\ tasks' \in [Attempts -> TaskStates]
           /\ tasks'[old] = "expired" /\ tasks'[new] = "ready"
           /\ \A b \in Attempts \ {old, new} : tasks'[b] = tasks[b]
<1>1. /\ evaluations[e].state = "leased" /\ attempts[old].state = "leased"
      /\ attempts[new].state = "absent"
      /\ r.number = attempts[old].request.number + 1
      /\ SameSemantics(attempts[old].request, r)
  BY DEF RetryOutcome, RetryCheck, NumberFollows, AttemptTaken
<1>2. references' = references /\ ReplaceAttempt(old, r, now)
  BY DEF RetryExpired
<1>3. /\ evaluations' \in [Evaluations -> EvaluationRows]
      /\ evaluations'[e].state = "queued" /\ evaluations'[e].current = new
      /\ evaluations'[e].result = evaluations[e].result
      /\ \A f \in Evaluations : evaluations'[f].request = evaluations[f].request
      /\ \A f \in Evaluations \ {e} : evaluations'[f] = evaluations[f]
  <2>1. PICK row : row = [evaluations[e] EXCEPT !.state = "queued", !.current = new]
    OBVIOUS
  <2>2. evaluations' = [evaluations EXCEPT ![e] = row]
    BY <1>2, <2>1 DEF ReplaceAttempt, AttemptsReplaced, TasksReplaced,
           EvaluationRequeued, IInv, TypeOK
  <2>3. /\ row \in EvaluationRows /\ row.state = "queued" /\ row.current = new
        /\ row.result = evaluations[e].result /\ row.request = evaluations[e].request
    <3>1. evaluations[e] \in EvaluationRows
      BY DEF IInv, TypeOK
    <3> QED BY <2>1, <3>1 DEF EvaluationRows, EvaluationStates
  <2> QED BY <2>2, <2>3 DEF IInv, TypeOK
<1>4. /\ attempts' \in [Attempts -> AttemptRows]
      /\ attempts'[old].state = "expired"
      /\ attempts'[old].request = attempts[old].request
      /\ attempts'[old].node = attempts[old].node
      /\ attempts'[old].token = attempts[old].token
      /\ attempts'[old].expires = attempts[old].expires
      /\ attempts'[new] = InsertedAttempt(r, now)
      /\ \A b \in Attempts \ {old, new} : attempts'[b] = attempts[b]
  <2>1. PICK row : row = [attempts[old] EXCEPT !.state = "expired"]
    OBVIOUS
  <2>2. PICK fresh \in AttemptRows : fresh = InsertedAttempt(r, now)
    BY InsertedRowsTyped
  <2>3. attempts' = [attempts EXCEPT ![old] = row, ![new] = fresh]
    BY <1>2, <2>1, <2>2 DEF ReplaceAttempt, AttemptsReplaced, TasksReplaced,
           EvaluationRequeued, IInv, TypeOK
  <2>4. /\ row \in AttemptRows /\ row.state = "expired"
        /\ row.request = attempts[old].request
        /\ row.node = attempts[old].node
        /\ row.token = attempts[old].token
        /\ row.expires = attempts[old].expires
    <3>1. attempts[old] \in AttemptRows
      BY DEF IInv, TypeOK
    <3> QED BY <2>1, <3>1 DEF AttemptRows, AttemptStates
  <2> QED BY <1>1, <2>2, <2>3, <2>4 DEF IInv, TypeOK
<1>5. /\ tasks' \in [Attempts -> TaskStates]
      /\ tasks'[old] = "expired" /\ tasks'[new] = "ready"
      /\ \A b \in Attempts \ {old, new} : tasks'[b] = tasks[b]
  BY <1>1, <1>2 DEF ReplaceAttempt, AttemptsReplaced, TasksReplaced,
           EvaluationRequeued, IInv, TypeOK, TaskStates
<1> QED BY <1>1, <1>2, <1>3, <1>4, <1>5

\* A retry expires the current attempt and makes its successor, with the next
\* number, the current one.
LEMMA RetryInv ==
    ASSUME IInv, NEW r \in Requests, NEW now \in Times, RetryExpired(r, now)
    PROVE  IInv'
<1>1. RetryOutcome(r, now) \in Outcomes
  BY DEF RetryOutcome, RetryCheck, NumberFollows, Outcomes
<1>2. CASE RetryOutcome(r, now) = "Ok"
  <2>1. Stored(r.evaluation)
    BY <1>2 DEF RetryOutcome, RetryCheck, NumberFollows
  <2>2. PICK e \in Evaluations, new \in Attempts, old \in Attempts :
            e = r.evaluation /\ new = r.attempt /\ old = evaluations[e].current
    BY <2>1 DEF Requests, IInv, TypeOK, Stored
  <2>3. /\ evaluations[e].state = "leased" /\ attempts[old].state = "leased"
        /\ attempts[new].state = "absent" /\ old # new
        /\ r.number = attempts[old].request.number + 1
        /\ SameSemantics(attempts[old].request, r)
        /\ references' = references
    BY <1>2, <2>2, RetryEffect
  <2>4. /\ evaluations' \in [Evaluations -> EvaluationRows]
        /\ evaluations'[e].state = "queued" /\ evaluations'[e].current = new
        /\ evaluations'[e].result = evaluations[e].result
        /\ \A f \in Evaluations : evaluations'[f].request = evaluations[f].request
        /\ \A f \in Evaluations \ {e} : evaluations'[f] = evaluations[f]
    BY <1>2, <2>2, RetryEffect
  <2>5. /\ attempts' \in [Attempts -> AttemptRows]
        /\ attempts'[old].state = "expired"
        /\ attempts'[old].request = attempts[old].request
        /\ attempts'[old].node = attempts[old].node
        /\ attempts'[old].token = attempts[old].token
        /\ attempts'[old].expires = attempts[old].expires
        /\ \A b \in Attempts \ {old, new} : attempts'[b] = attempts[b]
    BY <1>2, <2>2, RetryEffect
  <2>6. /\ attempts'[new].state = "queued" /\ attempts'[new].request = r
        /\ attempts'[new].node = Null /\ attempts'[new].token = Null
        /\ attempts'[new].expires = Null
    <3>1. attempts'[new] = InsertedAttempt(r, now)
      BY <1>2, <2>2, RetryEffect
    <3> QED BY <3>1, InsertedRowsTyped
  <2>7. /\ tasks' \in [Attempts -> TaskStates]
        /\ tasks'[old] = "expired" /\ tasks'[new] = "ready"
        /\ \A b \in Attempts \ {old, new} : tasks'[b] = tasks[b]
    BY <1>2, <2>2, RetryEffect
  <2>8. /\ attempts[old].request \in Requests /\ attempts[old].request.evaluation = e
        /\ attempts[old].request.attempt = old
        /\ evaluations[e].result = Null
    BY <2>1, <2>2, <2>3 DEF IInv, TypeOK, Safety, RowsAgree, RowAgrees, TerminalStates
  <2>9. TypeOK'
    <3>1. reply' \in [op : {"none", "create", "claim", "renew", "retry", "submit", "cancel"},
                      outcome : Outcomes]
      BY <1>1 DEF RetryExpired, Reply
    <3>2. \A f \in Evaluations :
             IF evaluations'[f].state = "absent" THEN evaluations'[f].result = Null
             ELSE evaluations'[f].request \in Requests /\ evaluations'[f].current \in Attempts
      BY <2>3, <2>4 DEF IInv, TypeOK
    <3>3. \A b \in Attempts : attempts'[b].state # "absent" => attempts'[b].request \in Requests
      BY <2>5, <2>6, <2>8 DEF IInv, TypeOK
    <3> QED BY <2>3, <2>4, <2>5, <2>7, <3>1, <3>2, <3>3 DEF IInv, TypeOK
  <2>10. RowsAgree'
    <3>1. RowAgrees(e)'
      BY <2>2, <2>4, <2>6, <2>7, <2>8 DEF RowAgrees, AgreeingStates, TerminalStates
    <3>2. ASSUME NEW f \in Evaluations \ {e}, Stored(f)' PROVE RowAgrees(f)'
      <4>1. Stored(f) /\ evaluations[f].current \in Attempts
        BY <2>4, <3>2 DEF Stored, IInv, TypeOK
      <4>2. evaluations[f].current # old
        BY <2>1, <2>2, <4>1, CurrentOfOne
      <4>3. RowAgrees(f) /\ evaluations[f].current # new
        BY <2>3, <4>1 DEF IInv, Safety, RowsAgree, RowAgrees, AgreeingStates
      <4> QED BY <2>4, <2>5, <2>7, <4>1, <4>2, <4>3 DEF RowAgrees
    <3> QED BY <3>1, <3>2 DEF RowsAgree
  <2>11. AttemptHistory'
    <3>0. \A b \in Attempts \ {new} :
             /\ attempts'[b].request = attempts[b].request
             /\ attempts'[b].state = "absent" <=> attempts[b].state = "absent"
      BY <2>3, <2>5
    <3>1. AttemptsOf(e)' = AttemptsOf(e) \cup {new}
      BY <2>2, <2>6, <3>0 DEF AttemptsOf
    <3>2. \A f \in Evaluations \ {e} : AttemptsOf(f)' = AttemptsOf(f)
      BY <2>2, <2>3, <2>6, <3>0 DEF AttemptsOf
    <3>3. \A b \in Attempts : attempts[b].state # "absent" =>
             b # new /\ attempts'[b].request = attempts[b].request
                     /\ attempts[b].request \in Requests
      BY <2>3, <2>5 DEF IInv, TypeOK
    <3>4. \A b \in AttemptsOf(e) : attempts[b].request.number \in Nat
                                   /\ attempts[b].request.number <= attempts[old].request.number
      <4> SUFFICES ASSUME NEW b \in AttemptsOf(e)
                   PROVE  /\ attempts[b].request.number \in Nat
                          /\ attempts[b].request.number <= attempts[old].request.number
        OBVIOUS
      <4>1. b \in Attempts /\ attempts[b].state # "absent" /\ attempts[b].request.evaluation = e
        BY DEF AttemptsOf
      <4>2. attempts[b].request.number \in Nat /\ attempts[old].request.number \in Nat
        BY <2>8, <3>3, <4>1, BoundsAssumption DEF Requests, AttemptNumbers
      <4> QED BY <2>2, <4>1, <4>2 DEF IInv, Safety, AttemptHistory, History
    <3> SUFFICES ASSUME NEW a \in Attempts, attempts'[a].state # "absent"
                 PROVE  History(a)'
      BY DEF AttemptHistory
    <3>5. CASE a = new
      <4>1. \A b \in AttemptsOf(e) : attempts'[b].request.number # r.number
        <5> SUFFICES ASSUME NEW b \in AttemptsOf(e) PROVE attempts'[b].request.number # r.number
          OBVIOUS
        <5>1. attempts'[b].request = attempts[b].request
          BY <3>3 DEF AttemptsOf
        <5>2. attempts[old].request.number \in Nat
          BY <2>8, BoundsAssumption DEF Requests, AttemptNumbers
        <5> QED BY <2>3, <3>4, <5>1, <5>2
      <4> QED BY <2>2, <2>4, <2>6, <3>1, <3>5, <4>1 DEF History, Stored
    <3>6. CASE a \in AttemptsOf(e)
      <4>1. /\ History(a) /\ attempts[a].request.evaluation = e /\ a # new
            /\ attempts'[a].request = attempts[a].request
            /\ attempts[a].request.number \in Nat
            /\ attempts[a].request.number <= attempts[old].request.number
            /\ attempts[old].request.number \in Nat
        BY <3>3, <3>4, <3>6, <2>8, BoundsAssumption
        DEF AttemptsOf, IInv, Safety, AttemptHistory, Requests, AttemptNumbers
      <4>2. attempts'[a].state = "expired" /\ tasks'[a] = "expired"
        BY <2>2, <2>5, <2>7, <4>1 DEF History
      <4>3. \E b \in AttemptsOf(e)' :
               attempts'[b].request.number = attempts'[a].request.number + 1
        <5>1. CASE a = old
          BY <2>3, <2>6, <3>1, <4>1, <5>1
        <5>2. CASE a # old
          BY <2>2, <3>1, <3>3, <4>1, <5>2 DEF History, AttemptsOf
        <5> QED BY <5>1, <5>2
      <4>4. \A b \in AttemptsOf(e)' \ {a} :
               attempts'[b].request.number # attempts'[a].request.number
        BY <2>3, <2>6, <3>1, <3>3, <4>1 DEF History, AttemptsOf
      <4>5. /\ attempts'[a].request.evaluation = e /\ evaluations'[e].current = new
            /\ evaluations'[e].state # "absent"
            /\ attempts'[a].request.number < attempts'[new].request.number
        BY <2>3, <2>4, <2>6, <4>1
      <4> QED BY <4>1, <4>2, <4>3, <4>4, <4>5 DEF History, Stored
    <3>7. CASE a # new /\ a \notin AttemptsOf(e)
      <4>1. a # old /\ attempts'[a] = attempts[a] /\ tasks'[a] = tasks[a]
        BY <2>3, <2>5, <2>7, <2>8, <3>7 DEF AttemptsOf
      <4>2. PICK f \in Evaluations \ {e} : attempts[a].request.evaluation = f
        BY <3>3, <3>7, <4>1 DEF AttemptsOf, Requests
      <4>3. History(a) /\ Stored(f) /\ evaluations[f].current \in Attempts
        <5>1. History(a)
          BY <4>1 DEF IInv, Safety, AttemptHistory
        <5>2. Stored(f)
          BY <4>2, <5>1 DEF History
        <5> QED BY <5>1, <5>2 DEF IInv, TypeOK, Stored
      <4>4. /\ evaluations'[f] = evaluations[f]
            /\ evaluations[f].current \notin {old, new}
        <5>1. evaluations[f].current # old
          BY <2>1, <2>2, <4>2, <4>3, CurrentOfOne
        <5>2. RowAgrees(f)
          BY <4>3 DEF IInv, Safety, RowsAgree
        <5>3. evaluations[f].current # new
          BY <2>3, <5>2 DEF RowAgrees, AgreeingStates
        <5> QED BY <2>4, <4>2, <5>1, <5>3
      <4>5. \A b \in AttemptsOf(f) : attempts'[b].request = attempts[b].request
        BY <3>3 DEF AttemptsOf
      <4> QED BY <2>5, <3>2, <4>1, <4>2, <4>3, <4>4, <4>5 DEF History, Stored
    <3> QED BY <3>5, <3>6, <3>7
  <2>12. ReferencesAgree'
    <3> SUFFICES ASSUME NEW a \in Attempts, attempts'[a].state # "absent"
                 PROVE  /\ SameSemantics(evaluations'[attempts'[a].request.evaluation].request,
                                         attempts'[a].request)
                        /\ references'[attempts'[a].request.reference] = attempts'[a].request.digest
      BY DEF ReferencesAgree, SameSemantics
    <3>1. ASSUME NEW b \in Attempts, attempts[b].state # "absent"
          PROVE  /\ attempts[b].request.evaluation \in Evaluations
                 /\ SameSemantics(evaluations[attempts[b].request.evaluation].request,
                                  attempts[b].request)
                 /\ references[attempts[b].request.reference] = attempts[b].request.digest
      BY <3>1 DEF IInv, TypeOK, Safety, ReferencesAgree, Requests
    <3>2. CASE a = new
      <4>1. SameSemantics(evaluations[e].request, attempts[old].request)
            /\ references[attempts[old].request.reference] = attempts[old].request.digest
        BY <2>3, <2>8, <3>1
      <4>2. SameSemantics(evaluations[e].request, r) /\ references[r.reference] = r.digest
        BY <2>3, <4>1 DEF SameSemantics
      <4>3. attempts'[a].request = r /\ evaluations'[r.evaluation].request = evaluations[e].request
        BY <2>2, <2>4, <2>6, <3>2
      <4> QED BY <2>3, <4>2, <4>3
    <3>3. CASE a # new
      <4>1. attempts[a].state # "absent" /\ attempts'[a].request = attempts[a].request
        BY <2>3, <2>5, <3>3
      <4>2. evaluations'[attempts[a].request.evaluation].request
               = evaluations[attempts[a].request.evaluation].request
        BY <2>4, <3>1, <4>1
      <4> QED BY <2>3, <3>1, <4>1, <4>2
    <3> QED BY <3>2, <3>3
  <2>13. LeaseBeforeResult'
    BY <2>3, <2>5, <2>6 DEF IInv, Safety, LeaseBeforeResult
  <2> QED BY <2>9, <2>10, <2>11, <2>12, <2>13 DEF IInv, Safety
<1>3. CASE RetryOutcome(r, now) # "Ok"
  BY <1>1, <1>3, TablesUnchanged DEF RetryExpired, Reply, tables
<1> QED BY <1>2, <1>3

-----------------------------------------------------------------------------
(***************************************************************************)
(* The theorems.                                                           *)
(***************************************************************************)

\* Every transaction of the store preserves the invariant.
LEMMA NextInv == IInv /\ [Next]_vars => IInv'
<1> SUFFICES ASSUME IInv, [Next]_vars PROVE IInv'
  OBVIOUS
<1>1. CASE \E r \in Requests, now \in Times : CreateEvaluation(r, now)
  BY <1>1, CreateInv
<1>2. CASE \E node \in Nodes, token \in Tokens, now \in Times,
              locked \in SUBSET {a \in Attempts : tasks[a] = "ready"} :
              \/ ClaimTask(node, token, Null, Capabilities, locked, now)
              \/ \E op \in Operations, declared \in SUBSET Capabilities :
                    ClaimTask(node, token, op, declared, locked, now)
  BY <1>2, ClaimInv
<1>3. CASE \E node \in Nodes, e \in Evaluations, a \in Attempts, token \in Tokens,
              now \in Times : RenewLease(node, e, a, token, now)
  BY <1>3, RenewInv
<1>4. CASE \E r \in Requests, now \in Times : RetryExpired(r, now)
  BY <1>4, RetryInv
<1>5. CASE \E key \in ResultKeys, token \in Tokens, result \in Results, now \in Times :
              SubmitResult(key, token, result, now)
  BY <1>5, SubmitInv
<1>6. CASE \E key \in ResultKeys, e \in Evaluations, result \in Results, now \in Times :
              CancelEvaluation(key, e, result, now)
  BY <1>6, CancelInv
<1>7. CASE UNCHANGED vars
  <2>1. TypeOK'
    BY <1>7 DEF vars, IInv, TypeOK
  <2>2. Safety'
    BY <1>7, SafetyOfTables DEF vars, tables, IInv
  <2> QED BY <2>1, <2>2 DEF IInv
<1> QED BY <1>1, <1>2, <1>3, <1>4, <1>5, <1>6, <1>7 DEF Next

\* The invariant holds in every state of every behaviour.
THEOREM Invariance == Spec => []IInv
<1> QED BY InitInv, NextInv, PTL DEF Spec

\* No transaction of the store leaves a row outside the types and the NOT NULL
\* constraints of its table.
THEOREM TypeCorrectness == Spec => []TypeOK
<1>1. IInv => TypeOK
  BY DEF IInv
<1> QED BY <1>1, Invariance, PTL

\* An evaluation, its current attempt and that attempt's task are always in
\* states that belong together, and the stored result is theirs.
THEOREM TablesAgree == Spec => []RowsAgree
<1>1. IInv => RowsAgree
  BY DEF IInv, Safety
<1> QED BY <1>1, Invariance, PTL

\* However often work is retried, the attempts of an evaluation are a gapless
\* history that ends in the current one, the only one that is not expired.
THEOREM GaplessHistory == Spec => []AttemptHistory
<1>1. IInv => AttemptHistory
  BY DEF IInv, Safety
<1> QED BY <1>1, Invariance, PTL

\* Every retry judges what was submitted, and a reference has one content.
THEOREM RetriesJudgeTheSame == Spec => []ReferencesAgree
<1>1. IInv => ReferencesAgree
  BY DEF IInv, Safety
<1> QED BY <1>1, Invariance, PTL

\* Nothing is completed, failed or expired that was not leased before.
THEOREM NoResultWithoutLease == Spec => []LeaseBeforeResult
<1>1. IInv => LeaseBeforeResult
  BY DEF IInv, Safety
<1> QED BY <1>1, Invariance, PTL

-----------------------------------------------------------------------------
(***************************************************************************)
(* What a step may never do.                                               *)
(***************************************************************************)

\* Once an evaluation is terminal every transaction finds it so and returns an
\* error or a replay, or writes the rows of another evaluation.
LEMMA NextFrozen ==
    ASSUME IInv, [Next]_vars, NEW e \in Evaluations, evaluations[e].state \in TerminalStates
    PROVE  Frozen(e)
<1>e. /\ Stored(e) /\ evaluations[e].result # Null
      /\ evaluations[e].state \notin {"absent", "queued", "leased"}
  BY DEF Stored, TerminalStates, IInv, Safety, RowsAgree, RowAgrees
<1>0. ASSUME UNCHANGED tables PROVE Frozen(e)
  BY <1>0 DEF tables, Frozen, AttemptsOf
<1>1. ASSUME NEW r \in Requests, NEW now \in Times, CreateEvaluation(r, now)
      PROVE  Frozen(e)
  <2>1. CASE CreateOutcome(r) = "Ok"
    <3>1. /\ r.evaluation # e /\ r.attempt \in Attempts
          /\ evaluations'[e] = evaluations[e]
          /\ attempts[r.attempt].state = "absent"
          /\ attempts'[r.attempt].request = r
          /\ \A b \in Attempts \ {r.attempt} : attempts'[b] = attempts[b] /\ tasks'[b] = tasks[b]
      BY <1>e, <1>1, <2>1, CreateEffect, InsertedRowsTyped DEF Requests
    <3>f. AttemptsOf(e)' = AttemptsOf(e)
      BY <3>1 DEF AttemptsOf
    <3> QED BY <3>1, <3>f DEF AttemptsOf, Frozen
  <2> QED BY <1>0, <1>1, <2>1 DEF CreateEvaluation
<1>2. ASSUME NEW node \in Nodes, NEW token \in Tokens, NEW op \in Operations \cup {Null},
             NEW declared, NEW locked, NEW now \in Times,
             ClaimTask(node, token, op, declared, locked, now)
      PROVE  Frozen(e)
  <2>1. ASSUME NEW a \in Candidates(declared, locked), ClaimWrites(a, node, token, op, now),
               ExpiryFits(now)
        PROVE  Frozen(e)
    <3>1. a \in Attempts /\ Claimable(a, declared)
      BY DEF Candidates
    <3>2. attempts[a].request.evaluation # e
      BY <1>e, <3>1, ClaimableIsCurrent
    <3>3. attempts'[a].request = attempts[a].request
      <4>1. attempts'[a] = ClaimedAttempt(a, node, token, op, now)
        BY <2>1, <3>1 DEF ClaimWrites, IInv, TypeOK
      <4> QED BY <2>1, <3>1, <4>1, ClaimedAttemptTyped DEF IInv
    <3>4. evaluations'[e] = evaluations[e]
      BY <2>1, <3>2 DEF ClaimWrites, IInv, TypeOK
    <3>5. \A b \in Attempts \ {a} : attempts'[b] = attempts[b] /\ tasks'[b] = tasks[b]
      BY <2>1 DEF ClaimWrites, IInv, TypeOK
    <3>f. AttemptsOf(e)' = AttemptsOf(e)
      BY <3>1, <3>2, <3>3, <3>5 DEF AttemptsOf
    <3> QED BY <3>1, <3>2, <3>4, <3>5, <3>f DEF AttemptsOf, Frozen
  <2> QED BY <1>0, <1>2, <2>1 DEF ClaimTask
<1>3. ASSUME NEW node \in Nodes, NEW f \in Evaluations, NEW a \in Attempts, NEW token \in Tokens,
             NEW now \in Times, RenewLease(node, f, a, token, now)
      PROVE  Frozen(e)
  <2>1. CASE RenewOutcome(node, f, a, token, now) = "Continue"
    <3>1. evaluations[f].state = "leased" /\ evaluations[f].current = a
      BY <2>1 DEF RenewOutcome, HoldsLease
    <3>2. attempts[a].request.evaluation = f
      BY <3>1 DEF IInv, Safety, RowsAgree, RowAgrees, Stored
    <3>3. /\ evaluations'[e] = evaluations[e]
          /\ attempts'[a].request = attempts[a].request
          /\ \A b \in Attempts \ {a} : attempts'[b] = attempts[b] /\ tasks'[b] = tasks[b]
      BY <1>3, <2>1 DEF RenewLease, IInv, TypeOK, AttemptRows
    <3>f. AttemptsOf(e)' = AttemptsOf(e)
      BY <1>e, <3>1, <3>2, <3>3 DEF AttemptsOf
    <3> QED BY <1>e, <3>1, <3>2, <3>3, <3>f DEF AttemptsOf, Frozen
  <2> QED BY <1>0, <1>3, <2>1 DEF RenewLease, tables
<1>4. ASSUME NEW r \in Requests, NEW now \in Times, RetryExpired(r, now)
      PROVE  Frozen(e)
  <2>1. CASE RetryOutcome(r, now) = "Ok"
    <3>1. PICK f \in Evaluations, new \in Attempts, old \in Attempts :
            f = r.evaluation /\ new = r.attempt /\ old = evaluations[f].current
      BY <2>1 DEF RetryOutcome, RetryCheck, NumberFollows, Requests, IInv, TypeOK, Stored
    <3>2. evaluations[f].state = "leased" /\ attempts[old].request.evaluation = f
      BY <2>1, <3>1 DEF RetryOutcome, RetryCheck, NumberFollows, IInv, Safety, RowsAgree, RowAgrees, Stored
    <3>3. /\ evaluations'[e] = evaluations[e]
          /\ attempts[new].state = "absent"
          /\ attempts'[old].request = attempts[old].request
          /\ attempts'[new].request = r
          /\ \A b \in Attempts \ {old, new} : attempts'[b] = attempts[b] /\ tasks'[b] = tasks[b]
      BY <1>e, <1>4, <2>1, <3>1, <3>2, RetryEffect, InsertedRowsTyped
    <3>f. AttemptsOf(e)' = AttemptsOf(e)
      BY <1>e, <3>1, <3>2, <3>3 DEF AttemptsOf
    <3> QED BY <1>e, <3>1, <3>2, <3>3, <3>f DEF AttemptsOf, Frozen
  <2> QED BY <1>0, <1>4, <2>1 DEF RetryExpired, tables
<1>5. ASSUME NEW key \in ResultKeys, NEW result \in Results, WriteTerminal(key, result),
             evaluations[result.evaluation].result = Null,
             Stored(result.evaluation), evaluations[result.evaluation].current = result.attempt
      PROVE  Frozen(e)
  <2>1. PICK f \in Evaluations, a \in Attempts : f = result.evaluation /\ a = result.attempt
    BY DEF Results
  <2>2. f # e /\ attempts[a].request.evaluation = f
    BY <1>e, <1>5, <2>1 DEF IInv, Safety, RowsAgree, RowAgrees
  <2>3. /\ evaluations'[e] = evaluations[e]
        /\ attempts'[a].request = attempts[a].request
        /\ \A b \in Attempts \ {a} : attempts'[b] = attempts[b] /\ tasks'[b] = tasks[b]
    BY <1>5, <2>1, <2>2 DEF WriteTerminal, IInv, TypeOK, AttemptRows
  <2>f. AttemptsOf(e)' = AttemptsOf(e)
    BY <2>2, <2>3 DEF AttemptsOf
  <2> QED BY <2>2, <2>3, <2>f DEF AttemptsOf, Frozen
<1>6. ASSUME NEW key \in ResultKeys, NEW token \in Tokens, NEW result \in Results,
             NEW now \in Times, SubmitResult(key, token, result, now)
      PROVE  Frozen(e)
  BY <1>0, <1>5, <1>6 DEF SubmitResult, SubmitOutcome, SubmitCheck, ReplayOutcome, tables
<1>7. ASSUME NEW key \in ResultKeys, NEW f \in Evaluations, NEW result \in Results,
             NEW now \in Times, CancelEvaluation(key, f, result, now)
      PROVE  Frozen(e)
  BY <1>0, <1>5, <1>7 DEF CancelEvaluation, CancelOutcome, CancelCheck, ReplayOutcome, tables
<1>8. CASE UNCHANGED vars
  BY <1>0, <1>8 DEF vars, tables
<1> QED BY <1>1, <1>2, <1>3, <1>4, <1>6, <1>7, <1>8 DEF Next

\* The first terminal write wins, for every number of racing results,
\* cancellations and retries.
THEOREM FirstTerminalWriteWins == Spec => TerminalIsFinal
<1>1. IInv /\ [Next]_vars =>
         [\A e \in Evaluations : evaluations[e].state \in TerminalStates => Frozen(e)]_vars
  BY NextFrozen
<1> QED BY <1>1, Invariance, PTL DEF Spec, TerminalIsFinal

\* A claim only takes an attempt that nobody ever held, and no other
\* transaction writes the columns of the holder or the payload.
LEMMA NextHolderKept ==
    ASSUME IInv, [Next]_vars, NEW a \in Attempts, attempts[a].state # "absent"
    PROVE  HolderKept(a)
<1>0. ASSUME attempts'[a] = attempts[a] PROVE HolderKept(a)
  BY <1>0 DEF HolderKept
<1>1. ASSUME NEW r \in Requests, NEW now \in Times, CreateEvaluation(r, now)
      PROVE  HolderKept(a)
  BY <1>0, <1>1, CreateEffect DEF CreateEvaluation, tables
<1>2. ASSUME NEW node \in Nodes, NEW token \in Tokens, NEW op \in Operations \cup {Null},
             NEW declared, NEW locked, NEW now \in Times,
             ClaimTask(node, token, op, declared, locked, now)
      PROVE  HolderKept(a)
  <2>1. ASSUME NEW b \in Candidates(declared, locked), ClaimWrites(b, node, token, op, now),
               ExpiryFits(now)
        PROVE  HolderKept(a)
    <3>1. b \in Attempts /\ attempts[b].state = "queued"
      BY DEF Candidates, Claimable
    <3>2. CASE a = b
      <4>1. attempts'[a] = ClaimedAttempt(a, node, token, op, now)
        BY <2>1, <3>2 DEF ClaimWrites, IInv, TypeOK
      <4>2. attempts[a].node = Null
        BY <3>1, <3>2 DEF IInv, Safety, LeaseBeforeResult
      <4>3. attempts'[a].request = attempts[a].request
        BY <2>1, <4>1, ClaimedAttemptTyped DEF IInv
      <4> QED BY <4>2, <4>3 DEF HolderKept
    <3>3. CASE a # b
      BY <1>0, <2>1, <3>1, <3>3 DEF ClaimWrites, IInv, TypeOK
    <3> QED BY <3>2, <3>3
  <2> QED BY <1>0, <1>2, <2>1 DEF ClaimTask, tables
<1>3. ASSUME NEW node \in Nodes, NEW f \in Evaluations, NEW b \in Attempts, NEW token \in Tokens,
             NEW now \in Times, RenewLease(node, f, b, token, now)
      PROVE  HolderKept(a)
  BY <1>3 DEF RenewLease, HolderKept, IInv, TypeOK, AttemptRows
<1>4. ASSUME NEW r \in Requests, NEW now \in Times, RetryExpired(r, now)
      PROVE  HolderKept(a)
  <2>1. CASE RetryOutcome(r, now) = "Ok"
    <3>1. r.attempt # a
      BY <2>1 DEF RetryOutcome, RetryCheck, NumberFollows, AttemptTaken
    <3>2. attempts'[a] = [attempts EXCEPT ![evaluations[r.evaluation].current].state = "expired"][a]
      BY <1>4, <2>1, <3>1 DEF RetryExpired, ReplaceAttempt, AttemptsReplaced, TasksReplaced,
           EvaluationRequeued, IInv, TypeOK, Requests
    <3> QED BY <3>2 DEF HolderKept, IInv, TypeOK, AttemptRows
  <2> QED BY <1>0, <1>4, <2>1 DEF RetryExpired
<1>5. ASSUME NEW key \in ResultKeys, NEW result \in Results, WriteTerminal(key, result)
      PROVE  HolderKept(a)
  BY <1>5 DEF WriteTerminal, HolderKept, IInv, TypeOK, AttemptRows
<1>6. ASSUME NEW key \in ResultKeys, NEW token \in Tokens, NEW result \in Results,
             NEW now \in Times, SubmitResult(key, token, result, now)
      PROVE  HolderKept(a)
  BY <1>0, <1>5, <1>6 DEF SubmitResult
<1>7. ASSUME NEW key \in ResultKeys, NEW f \in Evaluations, NEW result \in Results,
             NEW now \in Times, CancelEvaluation(key, f, result, now)
      PROVE  HolderKept(a)
  BY <1>0, <1>5, <1>7 DEF CancelEvaluation
<1>8. CASE UNCHANGED vars
  BY <1>0, <1>8 DEF vars
<1> QED BY <1>1, <1>2, <1>3, <1>4, <1>6, <1>7, <1>8 DEF Next

\* An attempt has at most one holder in its life, for every number of nodes
\* that race for it.
THEOREM AttemptIsLeasedOnce == Spec => LeasedOnce
<1>1. IInv /\ [Next]_vars =>
         [\A a \in Attempts : attempts[a].state # "absent" => HolderKept(a)]_vars
  BY NextHolderKept
<1> QED BY <1>1, Invariance, PTL DEF Spec, LeasedOnce

-----------------------------------------------------------------------------
(***************************************************************************)
(* The store implements the lifecycle of the domain.                       *)
(***************************************************************************)

\* The tables are a lifecycle state; a step that keeps the mapped columns is a
\* stutter of the lifecycle.
LEMMA Stutter ==
    ASSUME \A e \in Evaluations : /\ evaluations'[e].state = evaluations[e].state
                                  /\ evaluations'[e].current = evaluations[e].current
                                  /\ evaluations'[e].result = evaluations[e].result,
           \A a \in Attempts : attempts'[a].state = attempts[a].state
    PROVE  UNCHANGED Lifecycle!lifecycleVars
BY DEF Lifecycle!lifecycleVars

\* Whatever a create_evaluation commits is Create of the lifecycle.
LEMMA CreateMaps ==
    ASSUME IInv, NEW r \in Requests, NEW now \in Times, CreateEvaluation(r, now)
    PROVE  [Lifecycle!Next]_(Lifecycle!lifecycleVars)
<1>1. CASE CreateOutcome(r) = "Ok"
  <2>1. PICK e \in Evaluations, a \in Attempts : e = r.evaluation /\ a = r.attempt
    BY DEF Requests
  <2>2. evaluations[e].state = "absent" /\ attempts[a].state = "absent"
    BY <1>1, <2>1, CreateEffect
  <2>3. /\ evaluations'[e].state = "queued" /\ evaluations'[e].current = a
        /\ evaluations'[e].result = Null
        /\ \A f \in Evaluations \ {e} : evaluations'[f] = evaluations[f]
        /\ attempts'[a].state = "queued"
        /\ \A b \in Attempts \ {a} : attempts'[b] = attempts[b]
    BY <1>1, <2>1, CreateEffect, InsertedRowsTyped
  <2>4. evaluations[e].result = Null
    BY <2>2 DEF IInv, TypeOK
  <2>5. Lifecycle!Create(e, a)
    BY <2>2, <2>3, <2>4 DEF Lifecycle!Create
  <2> QED BY <2>5 DEF Lifecycle!Next
<1>2. CASE CreateOutcome(r) # "Ok"
  BY <1>2, Stutter DEF CreateEvaluation, tables
<1> QED BY <1>1, <1>2

\* A granted claim is Lease; a claim that grants nothing is a stutter.
LEMMA ClaimMaps ==
    ASSUME IInv, NEW node \in Nodes, NEW token \in Tokens, NEW op \in Operations \cup {Null},
           NEW declared, NEW locked, NEW now \in Times,
           ClaimTask(node, token, op, declared, locked, now)
    PROVE  [Lifecycle!Next]_(Lifecycle!lifecycleVars)
<1>1. CASE UNCHANGED tables
  BY <1>1, Stutter DEF tables
<1>2. CASE /\ ExpiryFits(now)
           /\ \E a \in Candidates(declared, locked) : ClaimWrites(a, node, token, op, now)
  <2>1. PICK a \in Candidates(declared, locked) : ClaimWrites(a, node, token, op, now)
    BY <1>2
  <2>2. a \in Attempts /\ Claimable(a, declared)
    BY DEF Candidates
  <2>3. PICK e \in Evaluations : e = attempts[a].request.evaluation
    BY <2>2, ClaimableIsCurrent
  <2>4. /\ evaluations[e].state = "queued" /\ evaluations[e].current = a
        /\ attempts[a].state = "queued"
    BY <2>2, <2>3, ClaimableIsCurrent DEF Claimable
  <2>5. attempts'[a].state = "leased" /\ \A b \in Attempts \ {a} : attempts'[b] = attempts[b]
    <3>1. /\ attempts'[a] = ClaimedAttempt(a, node, token, op, now)
          /\ \A b \in Attempts \ {a} : attempts'[b] = attempts[b]
      BY <2>1, <2>2 DEF ClaimWrites, IInv, TypeOK
    <3> QED BY <1>2, <2>2, <3>1, ClaimedAttemptTyped DEF IInv
  <2>6. /\ evaluations'[e].state = "leased"
        /\ \A f \in Evaluations \ {e} : evaluations'[f].state = evaluations[f].state
        /\ \A f \in Evaluations : /\ evaluations'[f].current = evaluations[f].current
                                  /\ evaluations'[f].result = evaluations[f].result
    BY <2>1, <2>3 DEF ClaimWrites, IInv, TypeOK, EvaluationRows
  <2>7. Lifecycle!Lease(e)
    BY <2>2, <2>4, <2>5, <2>6
    DEF Lifecycle!Lease, Lifecycle!CanMove, Lifecycle!EvaluationTransitions,
        Lifecycle!AttemptTransitions
  <2> QED BY <2>7 DEF Lifecycle!Next
<1> QED BY <1>1, <1>2 DEF ClaimTask

\* A renewal changes nothing the lifecycle speaks of.
LEMMA RenewMaps ==
    ASSUME IInv, NEW node \in Nodes, NEW e \in Evaluations, NEW a \in Attempts,
           NEW token \in Tokens, NEW now \in Times, RenewLease(node, e, a, token, now)
    PROVE  [Lifecycle!Next]_(Lifecycle!lifecycleVars)
<1>1. \A b \in Attempts : attempts'[b].state = attempts[b].state
  BY DEF RenewLease, IInv, TypeOK, AttemptRows
<1>2. evaluations' = evaluations
  BY DEF RenewLease
<1> QED BY <1>1, <1>2, Stutter

\* A retry that commits is Requeue with the new attempt.
LEMMA RetryMaps ==
    ASSUME IInv, NEW r \in Requests, NEW now \in Times, RetryExpired(r, now)
    PROVE  [Lifecycle!Next]_(Lifecycle!lifecycleVars)
<1>1. CASE RetryOutcome(r, now) = "Ok"
  <2>1. PICK e \in Evaluations, new \in Attempts, old \in Attempts :
            e = r.evaluation /\ new = r.attempt /\ old = evaluations[e].current
    BY <1>1 DEF RetryOutcome, RetryCheck, NumberFollows, Requests, IInv, TypeOK, Stored
  <2>2. /\ evaluations[e].state = "leased" /\ attempts[old].state = "leased"
        /\ attempts[new].state = "absent"
        /\ evaluations'[e].state = "queued" /\ evaluations'[e].current = new
        /\ evaluations'[e].result = evaluations[e].result
        /\ \A f \in Evaluations \ {e} : evaluations'[f] = evaluations[f]
        /\ attempts'[old].state = "expired"
        /\ attempts'[new].state = "queued"
        /\ \A b \in Attempts \ {old, new} : attempts'[b] = attempts[b]
    BY <1>1, <2>1, RetryEffect, InsertedRowsTyped
  <2>3. Lifecycle!Requeue(e, new)
    <3>1. [b \in Attempts |-> attempts'[b].state]
             = [[b \in Attempts |-> attempts[b].state] EXCEPT
                   ![evaluations[e].current] = "expired", ![new] = "queued"]
      BY <2>1, <2>2
    <3>2. [f \in Evaluations |-> evaluations'[f].state]
             = [[f \in Evaluations |-> evaluations[f].state] EXCEPT ![e] = "queued"]
      BY <2>2
    <3>3. [f \in Evaluations |-> evaluations'[f].current]
             = [[f \in Evaluations |-> evaluations[f].current] EXCEPT ![e] = new]
      BY <2>2
    <3>4. [f \in Evaluations |-> evaluations'[f].result]
             = [f \in Evaluations |-> evaluations[f].result]
      BY <2>2
    <3>5. Lifecycle!CanMove(e, "queued", "expired")
      BY <2>1, <2>2, <3>2
      DEF Lifecycle!CanMove, Lifecycle!EvaluationTransitions, Lifecycle!AttemptTransitions
    <3> QED BY <2>1, <2>2, <3>1, <3>3, <3>4, <3>5 DEF Lifecycle!Requeue
  <2> QED BY <2>3 DEF Lifecycle!Next
<1>2. CASE RetryOutcome(r, now) # "Ok"
  BY <1>2, Stutter DEF RetryExpired
<1> QED BY <1>1, <1>2

\* A terminal write is Finish with the stored result as the verdict.
LEMMA WriteTerminalMaps ==
    ASSUME IInv, NEW key \in ResultKeys, NEW result \in Results,
           Stored(result.evaluation), evaluations[result.evaluation].result = Null,
           evaluations[result.evaluation].current = result.attempt,
           evaluations[result.evaluation].state \in {"queued", "leased"},
           attempts[result.attempt].state \in {"queued", "leased"},
           attempts[result.attempt].state = "leased" \/ result.status = "cancelled",
           WriteTerminal(key, result)
    PROVE  Lifecycle!Next
<1>1. PICK e \in Evaluations, a \in Attempts, status \in TerminalStates :
         e = result.evaluation /\ a = result.attempt /\ status = result.status
  BY DEF Results
<1>2. /\ \A f \in Evaluations : evaluations'[f].current = evaluations[f].current
      /\ \A f \in Evaluations \ {e} : evaluations'[f] = evaluations[f]
      /\ evaluations'[e].state = status
      /\ evaluations'[e].result = result
  BY <1>1 DEF WriteTerminal, IInv, TypeOK, EvaluationRows
<1>3. attempts'[a].state = status /\ \A b \in Attempts \ {a} : attempts'[b] = attempts[b]
  BY <1>1 DEF WriteTerminal, IInv, TypeOK, AttemptRows
<1>4. /\ evaluations[e].current = a /\ evaluations[e].result = Null
      /\ <<evaluations[e].state, status>> \in Lifecycle!EvaluationTransitions
      /\ <<attempts[a].state, status>> \in Lifecycle!AttemptTransitions
  <2>1. RowAgrees(e) /\ evaluations[e].current = a
    BY <1>1 DEF IInv, Safety, RowsAgree
  <2> QED
    BY <1>1, <2>1 DEF RowAgrees, AgreeingStates, TerminalStates,
                      Lifecycle!EvaluationTransitions, Lifecycle!AttemptTransitions
<1>5. Lifecycle!Finish(e, status, result)
  BY <1>2, <1>3, <1>4 DEF Lifecycle!Finish, Lifecycle!CanMove, TerminalStates
<1> QED BY <1>5 DEF Lifecycle!Next, TerminalStates

\* Every transaction is a step of the lifecycle, or none.
LEMMA NextMaps == IInv /\ [Next]_vars => [Lifecycle!Next]_(Lifecycle!lifecycleVars)
<1> SUFFICES ASSUME IInv, [Next]_vars PROVE [Lifecycle!Next]_(Lifecycle!lifecycleVars)
  OBVIOUS
<1>1. ASSUME NEW key \in ResultKeys, NEW token \in Tokens, NEW result \in Results,
             NEW now \in Times, SubmitResult(key, token, result, now)
      PROVE  [Lifecycle!Next]_(Lifecycle!lifecycleVars)
  <2>1. CASE SubmitOutcome(key, token, result, now) = "Ok"
    <3>1. /\ Stored(result.evaluation) /\ evaluations[result.evaluation].result = Null
          /\ evaluations[result.evaluation].current = result.attempt
          /\ evaluations[result.evaluation].state = "leased"
          /\ attempts[result.attempt].state = "leased"
          /\ WriteTerminal(key, result)
      BY <1>1, <2>1 DEF SubmitResult, SubmitOutcome, SubmitCheck, ReplayOutcome
    <3> QED BY <3>1, WriteTerminalMaps
  <2> QED BY <1>1, <2>1, Stutter DEF SubmitResult
<1>2. ASSUME NEW key \in ResultKeys, NEW e \in Evaluations, NEW result \in Results,
             NEW now \in Times, CancelEvaluation(key, e, result, now)
      PROVE  [Lifecycle!Next]_(Lifecycle!lifecycleVars)
  <2>1. CASE CancelOutcome(key, e, result, now) = "Ok"
    <3>1. /\ result.evaluation = e /\ result.status = "cancelled"
          /\ Stored(e) /\ evaluations[e].result = Null
          /\ evaluations[e].current = result.attempt
          /\ evaluations[e].state \in {"queued", "leased"}
          /\ attempts[result.attempt].state \in {"queued", "leased"}
          /\ WriteTerminal(key, result)
      BY <1>2, <2>1 DEF CancelEvaluation, CancelOutcome, CancelCheck, ReplayOutcome
    <3> QED BY <3>1, WriteTerminalMaps
  <2> QED BY <1>2, <2>1, Stutter DEF CancelEvaluation
<1>3. CASE UNCHANGED vars
  BY <1>3, Stutter DEF vars
<1> QED
  BY <1>1, <1>2, <1>3, CreateMaps, ClaimMaps, RenewMaps, RetryMaps DEF Next

\* The SQL store implements the transition tables of the domain, for every
\* number of evaluations, attempts and racing commands.
THEOREM StoreImplementsLifecycle == Spec => ImplementsLifecycle
<1>1. Init => Lifecycle!Init
  BY DEF Init, Lifecycle!Init, AbsentEvaluation, AbsentAttempt
<1> QED BY <1>1, NextMaps, Invariance, PTL DEF Spec, ImplementsLifecycle, Lifecycle!Spec
=============================================================================
