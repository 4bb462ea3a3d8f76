------------------------- MODULE JudgeControlProofs -------------------------
(***************************************************************************)
(* Proofs about the Judge Control service: whatever its handlers and       *)
(* sweepers have read before they come back to the store, the store keeps  *)
(* its invariants and the service its promises, for every number of calls, *)
(* sweepers, nodes, tokens and operations.  Then the same of the closed    *)
(* system of JudgeNode, and what its workers may be answered.              *)
(***************************************************************************)
EXTENDS JudgeNode, ControlSpineProofs

ClaimCalls == [phase : {"claim_replay", "claim"}, node : Nodes, op : Operations,
               token : Tokens, declared : SUBSET Capabilities, now : Times]
RenewCalls == [phase : {"renew"}, node : Nodes, evaluation : Evaluations,
               attempt : Attempts, token : Tokens, now : Times]
SubmitCalls == [phase : {"submit_owner", "submit"}, node : Nodes, key : ResultKeys,
                token : Tokens, result : Results, now : Times]
Sweeps == {Idle} \cup [phase : {"scan"}, now : Times]
                 \cup [phase : {"retry"}, now : Times, request : Requests]
Grants == [node : Nodes, op : Operations, attempt : Attempts, token : Tokens]

Claims(c) == calls[c].phase \in {"claim_replay", "claim"}
Submits(c) == calls[c].phase \in {"submit_owner", "submit"}
Retries(s) == sweeps[s].phase = "retry"

ServiceTypeOK ==
    /\ clock \in Times
    /\ calls \in [Calls -> {Idle} \cup ClaimCalls \cup RenewCalls \cup SubmitCalls]
    /\ sweeps \in [Sweepers -> Sweeps]
    /\ granted \subseteq Grants

\* An attempt that was not inserted has no holder, and no two attempts have
\* one token, or one operation of one node.
HoldersDiffer ==
    /\ \A a \in Attempts : attempts[a].state = "absent" =>
          attempts[a].node = Null /\ attempts[a].token = Null /\ attempts[a].operation = Null
    /\ \A a, b \in Attempts :
          attempts[a].token # Null /\ attempts[a].token = attempts[b].token => a = b
    /\ \A a, b \in Attempts :
          /\ attempts[a].operation # Null
          /\ attempts[a].operation = attempts[b].operation
          /\ attempts[a].node = attempts[b].node
          => a = b

\* What a claim returned is what the table says of the attempt.
GrantsStand ==
    \A g \in granted :
        /\ attempts[g.attempt].state # "absent"
        /\ attempts[g.attempt].node = g.node
        /\ attempts[g.attempt].operation = g.op
        /\ attempts[g.attempt].token = g.token

\* A claim under way is authorized, and nobody has its token yet.
ClaimsAreFresh ==
    \A c \in Calls : Claims(c) =>
        /\ Authorized(calls[c].node, calls[c].declared)
        /\ \A a \in Attempts : attempts[a].token # calls[c].token
        /\ \A d \in Calls : Claims(d) /\ d # c => calls[d].token # calls[c].token

\* Who submits has a lease, though maybe not that of the attempt it names.
SubmitsAreGranted ==
    \A c \in Calls : Submits(c) =>
        \E g \in granted : g.node = calls[c].node /\ g.token = calls[c].token

\* Time only moves on, and the row of a scan may have been moved on, but never
\* back; its new attempt is nobody else's.
SweepsFollow ==
    \A s \in Sweepers :
        /\ sweeps[s] # Idle => sweeps[s].now <= clock
        /\ Retries(s) =>
              LET r == sweeps[s].request
                  row == evaluations[r.evaluation] IN
              /\ Stored(r.evaluation)
              /\ SameSemantics(row.request, r)
              /\ r.number <= attempts[row.current].request.number + 1
              /\ attempts[r.attempt].state = "absent"
              /\ \A q \in Submissions : q.attempt # r.attempt
              /\ \A t \in Sweepers : Retries(t) /\ t # s => sweeps[t].request.attempt # r.attempt

(***************************************************************************)
(* The inductive invariant of the service.  The tables' part of it is that *)
(* of the store; the rest says what of a handler's or a sweeper's earlier  *)
(* reading is still true when it comes back to the store.                  *)
(***************************************************************************)
ControlInv ==
    /\ IInv /\ ServiceTypeOK
    /\ HoldersDiffer /\ GrantsStand /\ LeaseWithinPolicy
    /\ ClaimsAreFresh /\ SubmitsAreGranted /\ SweepsFollow

-----------------------------------------------------------------------------
(***************************************************************************)
(* What the commands of the store leave alone.                             *)
(***************************************************************************)

\* No row is deleted or given another request, and an evaluation never goes
\* back to an earlier attempt.
RowsKept ==
    /\ \A a \in Attempts : attempts[a].state # "absent" =>
          attempts'[a].state # "absent" /\ attempts'[a].request = attempts[a].request
    /\ \A e \in Evaluations : Stored(e) =>
          /\ Stored(e)'
          /\ evaluations'[e].request = evaluations[e].request
          /\ attempts'[evaluations'[e].current].request.number \in Nat
          /\ attempts[evaluations[e].current].request.number
                <= attempts'[evaluations'[e].current].request.number

HoldersKept ==
    \A a \in Attempts :
        /\ attempts'[a].node = attempts[a].node
        /\ attempts'[a].token = attempts[a].token
        /\ attempts'[a].operation = attempts[a].operation

\* Attempt a stays absent.
StaysAbsent(a) == attempts[a].state = "absent" => attempts'[a].state = "absent"

\* The number of a current attempt is a number.
LEMMA CurrentTyped ==
    ASSUME IInv, NEW e \in Evaluations, Stored(e)
    PROVE  /\ evaluations[e].request \in Requests
           /\ evaluations[e].current \in Attempts
           /\ attempts[evaluations[e].current].state # "absent"
           /\ attempts[evaluations[e].current].request \in Requests
           /\ attempts[evaluations[e].current].request.number \in Nat
<1>1. evaluations[e].request \in Requests /\ evaluations[e].current \in Attempts
  BY DEF IInv, TypeOK, Stored
<1>2. attempts[evaluations[e].current].state # "absent"
  BY DEF IInv, Safety, RowsAgree, RowAgrees, AgreeingStates
<1>3. attempts[evaluations[e].current].request \in Requests
  BY <1>1, <1>2 DEF IInv, TypeOK
<1> QED BY <1>1, <1>2, <1>3 DEF Requests, AttemptNumbers

LEMMA NothingKeepsAll ==
    ASSUME IInv, UNCHANGED tables
    PROVE  RowsKept /\ HoldersKept /\ \A a \in Attempts : StaysAbsent(a)
<1>1. evaluations' = evaluations /\ attempts' = attempts
  BY DEF tables
<1>2. RowsKept
  BY <1>1, CurrentTyped DEF RowsKept, Stored
<1> QED BY <1>1, <1>2 DEF HoldersKept, StaysAbsent

LEMMA CreateKeeps ==
    ASSUME IInv, HoldersDiffer, NEW r \in Requests, NEW now \in Times, CreateEvaluation(r, now)
    PROVE  RowsKept /\ HoldersKept /\ \A a \in Attempts \ {r.attempt} : StaysAbsent(a)
<1>1. CASE CreateOutcome(r) = "Ok"
  <2>1. PICK e \in Evaluations, b \in Attempts : e = r.evaluation /\ b = r.attempt
    BY DEF Requests
  <2>2. /\ evaluations[e].state = "absent" /\ attempts[b].state = "absent"
        /\ \A f \in Evaluations \ {e} : evaluations'[f] = evaluations[f]
        /\ \A a \in Attempts \ {b} : attempts'[a] = attempts[a]
        /\ attempts'[b] = InsertedAttempt(r, now)
    BY <1>1, <2>1, CreateEffect
  <2>3. attempts'[b].node = Null /\ attempts'[b].token = Null /\ attempts'[b].operation = Null
    BY <2>2 DEF InsertedAttempt, AbsentAttempt
  <2>4. RowsKept
    <3>1. \A a \in Attempts : attempts[a].state # "absent" => attempts'[a] = attempts[a]
      BY <2>2
    <3>2. \A f \in Evaluations : Stored(f) => f # e /\ evaluations'[f] = evaluations[f]
      BY <2>2 DEF Stored
    <3> QED BY <3>1, <3>2, CurrentTyped DEF RowsKept, Stored
  <2>5. HoldersKept
    BY <2>2, <2>3 DEF HoldersKept, HoldersDiffer
  <2> QED BY <2>1, <2>2, <2>4, <2>5 DEF StaysAbsent
<1>2. CASE CreateOutcome(r) # "Ok"
  BY <1>2, NothingKeepsAll DEF CreateEvaluation
<1> QED BY <1>1, <1>2

LEMMA RenewKeeps ==
    ASSUME IInv, NEW node, NEW e \in Evaluations, NEW a \in Attempts, NEW token, NEW now,
           RenewLease(node, e, a, token, now)
    PROVE  RowsKept /\ HoldersKept /\ \A b \in Attempts : StaysAbsent(b)
<1>1. evaluations' = evaluations
  BY DEF RenewLease
<1>2. \A b \in Attempts : /\ attempts'[b].state = attempts[b].state
                          /\ attempts'[b].request = attempts[b].request
                          /\ attempts'[b].node = attempts[b].node
                          /\ attempts'[b].token = attempts[b].token
                          /\ attempts'[b].operation = attempts[b].operation
  BY DEF RenewLease, IInv, TypeOK, AttemptRows
<1>3. RowsKept
  BY <1>1, <1>2, CurrentTyped DEF RowsKept, Stored
<1> QED BY <1>2, <1>3 DEF HoldersKept, StaysAbsent

LEMMA WriteTerminalKeeps ==
    ASSUME IInv, NEW key, NEW result \in Results, WriteTerminal(key, result),
           attempts[result.attempt].state # "absent"
    PROVE  RowsKept /\ HoldersKept /\ \A b \in Attempts : StaysAbsent(b)
<1>1. PICK e \in Evaluations, a \in Attempts, status \in TerminalStates :
         e = result.evaluation /\ a = result.attempt /\ status = result.status
  BY DEF Results
<1>2. \A f \in Evaluations : /\ evaluations'[f].request = evaluations[f].request
                             /\ evaluations'[f].current = evaluations[f].current
                             /\ Stored(f) => Stored(f)'
  BY <1>1 DEF WriteTerminal, Stored, TerminalStates, IInv, TypeOK, EvaluationRows
<1>3. attempts' = [attempts EXCEPT ![a].state = status]
  BY <1>1 DEF WriteTerminal
<1>4. \A b \in Attempts : /\ attempts'[b].state = "absent" <=> attempts[b].state = "absent"
                          /\ attempts'[b].request = attempts[b].request
                          /\ attempts'[b].node = attempts[b].node
                          /\ attempts'[b].token = attempts[b].token
                          /\ attempts'[b].operation = attempts[b].operation
  BY <1>1, <1>3 DEF TerminalStates, IInv, TypeOK, AttemptRows
<1>5. RowsKept
  BY <1>2, <1>4, CurrentTyped DEF RowsKept
<1> QED BY <1>4, <1>5 DEF HoldersKept, StaysAbsent

LEMMA SubmitKeeps ==
    ASSUME IInv, NEW key, NEW token, NEW result \in Results, NEW now,
           SubmitResult(key, token, result, now)
    PROVE  RowsKept /\ HoldersKept /\ \A b \in Attempts : StaysAbsent(b)
<1>1. CASE SubmitOutcome(key, token, result, now) = "Ok"
  <2>1. attempts[result.attempt].state # "absent"
    BY <1>1 DEF SubmitOutcome, SubmitCheck, ReplayOutcome
  <2> QED BY <1>1, <2>1, WriteTerminalKeeps DEF SubmitResult
<1> QED BY <1>1, NothingKeepsAll DEF SubmitResult, tables

LEMMA CancelKeeps ==
    ASSUME IInv, NEW key, NEW e, NEW result \in Results, NEW now,
           CancelEvaluation(key, e, result, now)
    PROVE  RowsKept /\ HoldersKept /\ \A b \in Attempts : StaysAbsent(b)
<1>1. CASE CancelOutcome(key, e, result, now) = "Ok"
  <2>1. attempts[result.attempt].state # "absent"
    BY <1>1 DEF CancelOutcome, CancelCheck, ReplayOutcome
  <2> QED BY <1>1, <2>1, WriteTerminalKeeps DEF CancelEvaluation
<1> QED BY <1>1, NothingKeepsAll DEF CancelEvaluation, tables

LEMMA RetryKeeps ==
    ASSUME IInv, HoldersDiffer, NEW r \in Requests, NEW now \in Times, RetryExpired(r, now)
    PROVE  RowsKept /\ HoldersKept /\ \A a \in Attempts \ {r.attempt} : StaysAbsent(a)
<1>1. CASE RetryOutcome(r, now) = "Ok"
  <2>1. Stored(r.evaluation)
    BY <1>1 DEF RetryOutcome
  <2>2. PICK e \in Evaluations, new \in Attempts, old \in Attempts :
            e = r.evaluation /\ new = r.attempt /\ old = evaluations[e].current
    BY <2>1 DEF Requests, IInv, TypeOK, Stored
  <2>3. /\ attempts[new].state = "absent" /\ attempts[old].state = "leased"
        /\ r.number = attempts[old].request.number + 1
        /\ evaluations'[e].state = "queued" /\ evaluations'[e].current = new
        /\ \A f \in Evaluations : evaluations'[f].request = evaluations[f].request
        /\ \A f \in Evaluations \ {e} : evaluations'[f] = evaluations[f]
        /\ attempts'[old].state = "expired"
        /\ attempts'[old].request = attempts[old].request
        /\ attempts'[old].node = attempts[old].node
        /\ attempts'[old].token = attempts[old].token
        /\ attempts'[new] = InsertedAttempt(r, now)
        /\ \A b \in Attempts \ {old, new} : attempts'[b] = attempts[b]
    BY <1>1, <2>2, RetryEffect
  <2>4. attempts'[old].operation = attempts[old].operation
    <3>1. attempts' = [attempts EXCEPT ![old].state = "expired", ![new] = InsertedAttempt(r, now)]
      BY <1>1, <2>2 DEF RetryExpired, ReplaceAttempt, AttemptsReplaced
    <3> QED BY <2>3, <3>1 DEF IInv, TypeOK, AttemptRows
  <2>5. /\ attempts'[new].node = Null /\ attempts'[new].token = Null
        /\ attempts'[new].operation = Null
        /\ attempts'[new].request = r
    BY <2>3 DEF InsertedAttempt, AbsentAttempt
  <2>6. RowsKept
    <3>1. \A a \in Attempts : attempts[a].state # "absent" =>
             attempts'[a].state # "absent" /\ attempts'[a].request = attempts[a].request
      BY <2>3
    <3>2. ASSUME NEW f \in Evaluations, Stored(f)
          PROVE  /\ Stored(f)'
                 /\ attempts'[evaluations'[f].current].request.number \in Nat
                 /\ attempts[evaluations[f].current].request.number
                      <= attempts'[evaluations'[f].current].request.number
      <4>1. CASE f = e
        BY <2>2, <2>3, <2>5, <4>1, <3>2, CurrentTyped DEF Stored
      <4>2. CASE f # e
        BY <2>3, <3>1, <3>2, <4>2, CurrentTyped DEF Stored
      <4> QED BY <4>1, <4>2
    <3> QED BY <2>3, <3>1, <3>2 DEF RowsKept
  <2>7. HoldersKept
    BY <2>3, <2>4, <2>5 DEF HoldersKept, HoldersDiffer
  <2>8. \A a \in Attempts \ {r.attempt} : StaysAbsent(a)
    BY <2>2, <2>3 DEF StaysAbsent
  <2> QED BY <2>6, <2>7, <2>8
<1> QED BY <1>1, NothingKeepsAll DEF RetryExpired, tables

\* What a claim does to the attempt it takes; it leaves the others alone.
LEMMA ClaimEffect ==
    ASSUME IInv, NEW node \in Nodes, NEW token \in Tokens, NEW op \in Operations \cup {Null},
           NEW declared, NEW locked, NEW now \in Times,
           ClaimTask(node, token, op, declared, locked, now)
    PROVE  \/ UNCHANGED tables /\ reply'.outcome # "Ok"
           \/ /\ reply'.outcome = "Ok" /\ RowsKept /\ \A b \in Attempts : StaysAbsent(b)
              /\ ~OperationTaken(node, op)
              /\ \E a \in Attempts :
                    /\ Claimable(a, declared)
                    /\ attempts'[a].node = node /\ attempts'[a].token = token
                    /\ attempts'[a].operation = op
                    /\ attempts'[a].state # "absent"
                    /\ attempts'[a].request = attempts[a].request
                    /\ \A b \in Attempts \ {a} : attempts'[b] = attempts[b]
<1>1. CASE UNCHANGED tables /\ reply'.outcome # "Ok"
  BY <1>1
<1>2. CASE /\ ExpiryFits(now) /\ ~OperationTaken(node, op) /\ Reply("claim", "Ok")
           /\ \E a \in Candidates(declared, locked) : ClaimWrites(a, node, token, op, now)
  <2>1. PICK a \in Candidates(declared, locked) : ClaimWrites(a, node, token, op, now)
    BY <1>2
  <2>2. a \in Attempts /\ Claimable(a, declared) /\ attempts[a].state = "queued"
    BY <2>1 DEF Candidates, Claimable
  <2>3. PICK e \in Evaluations : e = attempts[a].request.evaluation
    BY <2>2, ClaimableIsCurrent
  <2>4. PICK row \in AttemptRows : row = ClaimedAttempt(a, node, token, op, now)
    BY <1>2, <2>2, ClaimedAttemptTyped DEF IInv
  <2>5. attempts' = [attempts EXCEPT ![a] = row] /\ evaluations' = [evaluations EXCEPT ![e].state = "leased"]
    BY <2>1, <2>3, <2>4 DEF ClaimWrites
  <2>6. /\ row.node = node /\ row.token = token /\ row.operation = op
        /\ row.state = "leased" /\ row.request = attempts[a].request
    <3>1. attempts[a] \in AttemptRows
      BY <2>2 DEF IInv, TypeOK
    <3> QED BY <2>4, <3>1 DEF ClaimedAttempt, AttemptRows
  <2>7. attempts'[a] = row /\ \A b \in Attempts \ {a} : attempts'[b] = attempts[b]
    BY <2>2, <2>5 DEF IInv, TypeOK
  <2>8. \A f \in Evaluations : /\ evaluations'[f].request = evaluations[f].request
                               /\ evaluations'[f].current = evaluations[f].current
                               /\ Stored(f) => Stored(f)'
    BY <2>3, <2>5 DEF Stored, IInv, TypeOK, EvaluationRows
  <2>9. \A b \in Attempts : /\ attempts'[b].request = attempts[b].request
                            /\ attempts[b].state # "absent" => attempts'[b].state # "absent"
                            /\ StaysAbsent(b)
    BY <2>2, <2>6, <2>7 DEF StaysAbsent
  <2>10. RowsKept
    BY <2>8, <2>9, CurrentTyped DEF RowsKept
  <2>11. reply'.outcome = "Ok"
    BY <1>2 DEF Reply
  <2> QED BY <1>2, <2>2, <2>6, <2>7, <2>9, <2>10, <2>11
<1> QED
  <2>1. ASSUME NEW outcome, outcome # "Ok", Reply("claim", outcome) PROVE reply'.outcome # "Ok"
    BY <2>1 DEF Reply
  <2> QED BY <1>1, <1>2, <2>1 DEF ClaimTask

-----------------------------------------------------------------------------
(***************************************************************************)
(* What is left of the invariant when the holders stay, the calls go on    *)
(* and the sweepers' rows are not moved back.                              *)
(***************************************************************************)

LEMMA HoldersStay ==
    ASSUME ControlInv, RowsKept, HoldersKept
    PROVE  HoldersDiffer' /\ LeaseWithinPolicy' /\ (granted' = granted => GrantsStand')
<1>1. HoldersDiffer'
  BY DEF ControlInv, HoldersDiffer, HoldersKept, RowsKept
<1>2. LeaseWithinPolicy'
  BY DEF ControlInv, HoldersDiffer, HoldersKept, RowsKept, LeaseWithinPolicy
<1>3. ASSUME granted' = granted PROVE GrantsStand'
  BY <1>3 DEF ControlInv, GrantsStand, HoldersKept, RowsKept, ServiceTypeOK, Grants
<1> QED BY <1>1, <1>2, <1>3

\* A call ends, or goes on with the node, the token and the declaration it
\* started with.
GoesOn(c) ==
    \/ calls'[c].phase = "idle"
    \/ calls'[c] = calls[c]
    \/ /\ Claims(c) /\ calls'[c].phase = "claim"
       /\ calls'[c].node = calls[c].node /\ calls'[c].token = calls[c].token
       /\ calls'[c].declared = calls[c].declared
    \/ /\ Submits(c) /\ calls'[c].phase = "submit"
       /\ calls'[c].node = calls[c].node /\ calls'[c].token = calls[c].token
    \/ calls'[c].phase = "renew"

LEMMA ClaimsGoOn ==
    ASSUME ControlInv, HoldersKept, \A c \in Calls : GoesOn(c)
    PROVE  ClaimsAreFresh'
<1>1. \A c \in Calls : Claims(c)' => /\ Claims(c)
                                     /\ calls'[c].node = calls[c].node
                                     /\ calls'[c].token = calls[c].token
                                     /\ calls'[c].declared = calls[c].declared
  BY DEF GoesOn, Claims, Submits
<1>2. \A c \in Calls : Claims(c)' => Authorized(calls'[c].node, calls'[c].declared)
  BY <1>1 DEF ControlInv, ClaimsAreFresh
<1> QED BY <1>1, <1>2 DEF ControlInv, ClaimsAreFresh, HoldersKept, Authorized

LEMMA SubmitsGoOn ==
    ASSUME ControlInv, granted \subseteq granted', \A c \in Calls : GoesOn(c)
    PROVE  SubmitsAreGranted'
<1>1. \A c \in Calls : Submits(c)' => /\ Submits(c)
                                      /\ calls'[c].node = calls[c].node
                                      /\ calls'[c].token = calls[c].token
  BY DEF GoesOn, Claims, Submits
<1> QED BY <1>1 DEF ControlInv, SubmitsAreGranted

LEMMA SweepsGoOn ==
    ASSUME ControlInv, RowsKept, sweeps' = sweeps, clock' \in Times, clock <= clock',
           \A s \in Sweepers : Retries(s) => StaysAbsent(sweeps[s].request.attempt)
    PROVE  SweepsFollow'
<1> SUFFICES ASSUME NEW s \in Sweepers
             PROVE  /\ sweeps[s] # Idle => sweeps[s].now <= clock'
                    /\ Retries(s) =>
                         LET r == sweeps[s].request IN
                         /\ Stored(r.evaluation)'
                         /\ SameSemantics(evaluations'[r.evaluation].request, r)
                         /\ r.number <= attempts'[evaluations'[r.evaluation].current].request.number + 1
                         /\ attempts'[r.attempt].state = "absent"
                         /\ \A q \in Submissions : q.attempt # r.attempt
                         /\ \A t \in Sweepers : Retries(t) /\ t # s =>
                               sweeps[t].request.attempt # r.attempt
  BY DEF SweepsFollow, Retries, Stored, SameSemantics
<1>1. sweeps[s] # Idle => sweeps[s].now <= clock'
  <2>1. sweeps[s] # Idle => sweeps[s].now \in Nat
    BY DEF ControlInv, ServiceTypeOK, Sweeps, Times
  <2> QED BY <2>1 DEF ControlInv, SweepsFollow, ServiceTypeOK, Times
<1>2. ASSUME Retries(s), NEW r, r = sweeps[s].request
      PROVE  /\ Stored(r.evaluation)'
             /\ SameSemantics(evaluations'[r.evaluation].request, r)
             /\ r.number <= attempts'[evaluations'[r.evaluation].current].request.number + 1
             /\ attempts'[r.attempt].state = "absent"
             /\ \A q \in Submissions : q.attempt # r.attempt
             /\ \A t \in Sweepers : Retries(t) /\ t # s =>
                   sweeps[t].request.attempt # r.attempt
  <2>1. r \in Requests /\ r.number \in Nat
    BY <1>2 DEF ControlInv, ServiceTypeOK, Sweeps, Idle, Retries, Requests, AttemptNumbers
  <2>2. PICK e \in Evaluations : e = r.evaluation
    BY <2>1 DEF Requests
  <2>3. /\ Stored(e) /\ SameSemantics(evaluations[e].request, r)
        /\ r.number <= attempts[evaluations[e].current].request.number + 1
        /\ attempts[r.attempt].state = "absent"
        /\ \A q \in Submissions : q.attempt # r.attempt
        /\ \A t \in Sweepers : Retries(t) /\ t # s => sweeps[t].request.attempt # r.attempt
    BY <1>2, <2>2 DEF ControlInv, SweepsFollow
  <2>4. /\ Stored(e)' /\ evaluations'[e].request = evaluations[e].request
        /\ attempts'[evaluations'[e].current].request.number \in Nat
        /\ attempts[evaluations[e].current].request.number
              <= attempts'[evaluations'[e].current].request.number
    BY <2>3 DEF RowsKept
  <2>5. attempts'[r.attempt].state = "absent"
    BY <1>2, <2>3 DEF StaysAbsent
  <2>6. attempts[evaluations[e].current].request.number \in Nat
    BY <2>3, CurrentTyped DEF ControlInv
  <2> QED BY <2>1, <2>2, <2>3, <2>4, <2>5, <2>6
<1> QED BY <1>1, <1>2

-----------------------------------------------------------------------------
(***************************************************************************)
(* The steps of the service.                                               *)
(***************************************************************************)

CallStates == {Idle} \cup ClaimCalls \cup RenewCalls \cup SubmitCalls

LEMMA ControlInitInv == ControlInit => ControlInv
<1> SUFFICES ASSUME ControlInit PROVE ControlInv
  OBVIOUS
<1>1. IInv
  BY InitInv DEF ControlInit
<1>2. ServiceTypeOK
  BY BoundsAssumption DEF ControlInit, ServiceTypeOK, Sweeps, Times
<1>3. HoldersDiffer /\ GrantsStand /\ LeaseWithinPolicy
  BY DEF ControlInit, Init, HoldersDiffer, GrantsStand, LeaseWithinPolicy, AbsentAttempt
<1>4. ClaimsAreFresh /\ SubmitsAreGranted /\ SweepsFollow
  BY DEF ControlInit, ClaimsAreFresh, SubmitsAreGranted, SweepsFollow, Claims, Submits,
         Retries, Idle
<1> QED BY <1>1, <1>2, <1>3, <1>4 DEF ControlInv

\* A call of the service becomes another, and the rest of the calls wait.
LEMMA CallTyped ==
    ASSUME ServiceTypeOK, NEW c \in Calls, NEW call \in CallStates, Becomes(c, call)
    PROVE  /\ calls' \in [Calls -> CallStates]
           /\ calls'[c] = call
           /\ \A d \in Calls \ {c} : calls'[d] = calls[d]
BY DEF ServiceTypeOK, CallStates, Becomes

\* A step of a call that leaves the tables as they are.
LEMMA QuietCallInv ==
    ASSUME ControlInv, NEW c \in Calls, NEW call \in CallStates, Becomes(c, call), IInv',
           UNCHANGED <<tables, clock, sweeps, granted>>, GoesOn(c)
    PROVE  ControlInv'
<1>1. RowsKept /\ HoldersKept /\ \A a \in Attempts : StaysAbsent(a)
  BY NothingKeepsAll DEF ControlInv
<1>2. ServiceTypeOK'
  BY CallTyped DEF ControlInv, ServiceTypeOK, CallStates
<1>3. \A d \in Calls : GoesOn(d)
  BY CallTyped DEF GoesOn, ControlInv
<1>4. ClaimsAreFresh' /\ SubmitsAreGranted'
  BY <1>1, <1>3, ClaimsGoOn, SubmitsGoOn
<1>5. SweepsFollow'
  <2>1. clock' \in Times /\ clock <= clock'
    BY DEF ControlInv, ServiceTypeOK, Times
  <2>2. \A s \in Sweepers : Retries(s) => sweeps[s].request.attempt \in Attempts
    BY DEF ControlInv, ServiceTypeOK, Sweeps, Idle, Retries, Requests
  <2> QED BY <1>1, <2>1, <2>2, SweepsGoOn
<1> QED BY <1>1, <1>2, <1>4, <1>5, HoldersStay DEF ControlInv

LEMMA RefuseInv ==
    ASSUME ControlInv, NEW c \in Calls, NEW op \in {"claim", "renew", "submit"},
           NEW outcome \in Outcomes, Refuse(c, op, outcome),
           UNCHANGED <<tables, clock, sweeps, granted>>
    PROVE  ControlInv'
<1>1. IInv'
  <2>1. reply' = [op |-> op, outcome |-> outcome]
    BY DEF Refuse, Reply
  <2> QED BY <2>1, TablesUnchanged DEF ControlInv
<1>2. Becomes(c, Idle)
  BY DEF Refuse, Becomes
<1>3. GoesOn(c)
  BY <1>2, CallTyped DEF GoesOn, Idle, CallStates, ControlInv
<1> QED BY <1>1, <1>2, <1>3, QuietCallInv DEF CallStates

\* The reply is not part of what the store's invariant says.
LEMMA QuietStore ==
    ASSUME IInv, UNCHANGED <<tables, reply>>
    PROVE  IInv'
BY NextInv DEF tables, vars

LEMMA TickInv == ControlInv /\ Tick => ControlInv'
<1> SUFFICES ASSUME ControlInv, Tick PROVE ControlInv'
  OBVIOUS
<1>1. UNCHANGED <<tables, reply, calls, sweeps, granted>>
  BY DEF Tick, vars, tables
<1>2. clock' \in Times /\ clock <= clock'
  BY BoundsAssumption DEF Tick, ControlInv, ServiceTypeOK, Times
<1>3. IInv'
  BY <1>1, QuietStore DEF ControlInv
<1>4. RowsKept /\ HoldersKept /\ \A a \in Attempts : StaysAbsent(a)
  BY <1>1, NothingKeepsAll DEF ControlInv
<1>5. ServiceTypeOK'
  BY <1>1, <1>2 DEF ControlInv, ServiceTypeOK
<1>6. \A c \in Calls : GoesOn(c)
  BY <1>1 DEF GoesOn
<1>7. SweepsFollow'
  <2>2. \A s \in Sweepers : Retries(s) => sweeps[s].request.attempt \in Attempts
    BY DEF ControlInv, ServiceTypeOK, Sweeps, Idle, Retries, Requests
  <2> QED BY <1>1, <1>2, <1>4, <2>2, SweepsGoOn
<1> QED BY <1>1, <1>3, <1>4, <1>5, <1>6, <1>7, HoldersStay, ClaimsGoOn, SubmitsGoOn
        DEF ControlInv

\* A command of the store that claims nothing, on behalf of a call that ends
\* with it or of no call.
LEMMA CommandInv ==
    ASSUME ControlInv, IInv', RowsKept, HoldersKept, UNCHANGED <<clock, sweeps, granted>>,
           calls' \in [Calls -> CallStates], \A c \in Calls : GoesOn(c),
           \A s \in Sweepers : Retries(s) => StaysAbsent(sweeps[s].request.attempt)
    PROVE  ControlInv'
<1>1. ServiceTypeOK'
  BY DEF ControlInv, ServiceTypeOK, CallStates
<1>2. clock' \in Times /\ clock <= clock'
  BY DEF ControlInv, ServiceTypeOK, Times
<1> QED BY <1>1, <1>2, HoldersStay, ClaimsGoOn, SubmitsGoOn, SweepsGoOn DEF ControlInv

LEMMA RetriesTyped ==
    ASSUME ServiceTypeOK, NEW s \in Sweepers, Retries(s)
    PROVE  /\ sweeps[s].request \in Requests
           /\ sweeps[s].request.attempt \in Attempts
           /\ sweeps[s].request.evaluation \in Evaluations
           /\ sweeps[s].request.number \in Nat
           /\ sweeps[s].now \in Times
<1>1. sweeps[s] \in Sweeps
  BY DEF ServiceTypeOK
<1>2. sweeps[s].request \in Requests /\ sweeps[s].now \in Times
  BY <1>1 DEF Sweeps, Idle, Retries
<1> QED BY <1>2 DEF Requests, AttemptNumbers

LEMMA SubmitInvC ==
    ASSUME ControlInv, NEW r \in Submissions, Submit(r)
    PROVE  ControlInv'
<1>1. r \in Requests /\ clock \in Times
  BY SubmissionsAssumption DEF ControlInv, ServiceTypeOK
<1>2. CreateEvaluation(r, clock) /\ UNCHANGED service
  BY DEF Submit
<1>3. IInv'
  BY <1>1, <1>2, CreateInv DEF ControlInv
<1>4. RowsKept /\ HoldersKept /\ \A a \in Attempts \ {r.attempt} : StaysAbsent(a)
  BY <1>1, <1>2, CreateKeeps DEF ControlInv
<1>5. \A s \in Sweepers : Retries(s) => StaysAbsent(sweeps[s].request.attempt)
  <2> SUFFICES ASSUME NEW s \in Sweepers, Retries(s)
               PROVE  StaysAbsent(sweeps[s].request.attempt)
    OBVIOUS
  <2>1. sweeps[s].request.attempt # r.attempt
    BY DEF ControlInv, SweepsFollow
  <2> QED BY <1>4, <2>1, RetriesTyped DEF ControlInv
<1>6. UNCHANGED <<clock, calls, sweeps, granted>>
  BY <1>2 DEF service
<1>7. calls' \in [Calls -> CallStates] /\ \A c \in Calls : GoesOn(c)
  BY <1>6 DEF ControlInv, ServiceTypeOK, CallStates, GoesOn
<1> QED BY <1>3, <1>4, <1>5, <1>6, <1>7, CommandInv

\* A result of an attempt that is stored is one of the results.
LEMMA ResultTyped ==
    ASSUME IInv, NEW a \in Attempts, attempts[a].state # "absent",
           NEW status \in TerminalStates
    PROVE  ResultOf(a, status) \in Results
<1>1. attempts[a].request \in Requests
  BY DEF IInv, TypeOK
<1> QED BY <1>1 DEF ResultOf, Results, Requests

LEMMA CancelInvC ==
    ASSUME ControlInv, NEW key \in ResultKeys, NEW e \in Evaluations, Stored(e),
           Cancel(key, e, ResultOf(evaluations[e].current, "cancelled"))
    PROVE  ControlInv'
<1>1. PICK result \in Results : result = ResultOf(evaluations[e].current, "cancelled")
  BY CurrentTyped, ResultTyped DEF ControlInv, TerminalStates
<1>2. CancelEvaluation(key, e, result, clock) /\ UNCHANGED service /\ clock \in Times
  BY <1>1 DEF Cancel, ControlInv, ServiceTypeOK
<1>3. IInv'
  BY <1>2, CancelInv DEF ControlInv
<1>4. RowsKept /\ HoldersKept /\ \A a \in Attempts : StaysAbsent(a)
  BY <1>2, CancelKeeps DEF ControlInv
<1>5. UNCHANGED <<clock, calls, sweeps, granted>>
  BY <1>2 DEF service
<1>6. calls' \in [Calls -> CallStates] /\ \A c \in Calls : GoesOn(c)
  BY <1>5 DEF ControlInv, ServiceTypeOK, CallStates, GoesOn
<1>7. \A s \in Sweepers : Retries(s) => StaysAbsent(sweeps[s].request.attempt)
  BY <1>4, RetriesTyped DEF ControlInv
<1> QED BY <1>3, <1>4, <1>5, <1>6, <1>7, CommandInv

LEMMA StartClaimInv ==
    ASSUME ControlInv, NEW c \in Calls, NEW node \in Nodes, NEW op \in Operations,
           NEW declared \in SUBSET Capabilities, NEW token \in Tokens,
           StartClaim(c, node, op, declared, token)
    PROVE  ControlInv'
<1>0. UNCHANGED <<tables, clock, sweeps, granted>>
  BY DEF StartClaim
<1>1. CASE ~Authorized(node, declared)
  BY <1>0, <1>1, RefuseInv DEF StartClaim, Outcomes
<1>2. CASE Authorized(node, declared)
  <2>1. PICK call \in ClaimCalls :
           /\ call = [phase |-> "claim_replay", node |-> node, op |-> op, token |-> token,
                      declared |-> declared, now |-> clock]
           /\ call.phase = "claim_replay" /\ call.node = node /\ call.token = token
           /\ call.declared = declared
    <3>1. clock \in Times
      BY DEF ControlInv, ServiceTypeOK
    <3>2. [phase |-> "claim_replay", node |-> node, op |-> op, token |-> token,
           declared |-> declared, now |-> clock] \in ClaimCalls
      BY <3>1 DEF ClaimCalls
    <3> QED BY <3>2
  <2>2. Becomes(c, call) /\ reply' = reply
    BY <1>2, <2>1 DEF StartClaim
  <2>3. /\ calls' \in [Calls -> CallStates] /\ calls'[c] = call
        /\ \A d \in Calls \ {c} : calls'[d] = calls[d]
    BY <2>2, CallTyped DEF ControlInv, CallStates
  <2>4. IInv'
    BY <1>0, <2>2, QuietStore DEF ControlInv
  <2>5. RowsKept /\ HoldersKept /\ \A a \in Attempts : StaysAbsent(a)
    BY <1>0, NothingKeepsAll DEF ControlInv
  <2>6. ServiceTypeOK'
    BY <1>0, <2>3 DEF ControlInv, ServiceTypeOK, CallStates
  <2>7. ClaimsAreFresh'
    <3>1. /\ \A a \in Attempts : attempts'[a].token # token
          /\ \A d \in Calls : Claims(d) => calls[d].token # token
      BY <2>5 DEF StartClaim, FreshToken, Claims, HoldersKept
    <3>2. \A d \in Calls \ {c} : Claims(d)' <=> Claims(d)
      BY <2>3 DEF Claims
    <3> SUFFICES ASSUME NEW d \in Calls, Claims(d)'
                 PROVE  /\ Authorized(calls'[d].node, calls'[d].declared)
                        /\ \A a \in Attempts : attempts'[a].token # calls'[d].token
                        /\ \A f \in Calls : Claims(f)' /\ f # d => calls'[f].token # calls'[d].token
      BY DEF ClaimsAreFresh, Authorized
    <3>3. CASE d = c
      BY <1>2, <2>1, <2>3, <3>1, <3>2, <3>3
    <3>4. CASE d # c
      BY <1>2, <2>1, <2>3, <2>5, <3>1, <3>2, <3>4 DEF ControlInv, ClaimsAreFresh, HoldersKept
    <3> QED BY <3>3, <3>4
  <2>8. SubmitsAreGranted'
    <3>1. \A d \in Calls : Submits(d)' => Submits(d) /\ calls'[d] = calls[d]
      BY <2>1, <2>3 DEF Submits
    <3> QED BY <1>0, <3>1 DEF ControlInv, SubmitsAreGranted
  <2>9. SweepsFollow'
    <3>1. clock' \in Times /\ clock <= clock'
      BY <1>0 DEF ControlInv, ServiceTypeOK, Times
    <3> QED BY <1>0, <2>5, <3>1, RetriesTyped, SweepsGoOn DEF ControlInv
  <2> QED BY <1>0, <2>4, <2>5, <2>6, <2>7, <2>8, <2>9, HoldersStay DEF ControlInv
<1> QED BY <1>1, <1>2

\* The call of a claim, field by field.
LEMMA ClaimCallTyped ==
    ASSUME ServiceTypeOK, NEW c \in Calls, Claims(c)
    PROVE  /\ calls[c] \in ClaimCalls
           /\ calls[c].node \in Nodes /\ calls[c].op \in Operations /\ calls[c].token \in Tokens
           /\ calls[c].now \in Times
<1>1. calls[c] \in CallStates
  BY DEF ServiceTypeOK, CallStates
<1>2. calls[c] \in ClaimCalls
  BY <1>1 DEF Claims, CallStates, Idle, RenewCalls, SubmitCalls
<1> QED BY <1>2 DEF ClaimCalls

\* Attempt a, held by the node and for the operation of the call, is granted.
LEMMA GrantInv ==
    ASSUME ControlInv, NEW c \in Calls, Claims(c), NEW a \in Attempts, NEW token,
           Grant(c, a, token), GrantsStand, IInv', HoldersDiffer', LeaseWithinPolicy',
           \A g \in granted : /\ attempts'[g.attempt].state # "absent"
                              /\ attempts'[g.attempt].node = g.node
                              /\ attempts'[g.attempt].operation = g.op
                              /\ attempts'[g.attempt].token = g.token,
           attempts'[a].state # "absent", attempts'[a].node = calls[c].node,
           attempts'[a].operation = calls[c].op, attempts'[a].token = token, token \in Tokens,
           \A b \in Attempts : attempts'[b].token = attempts[b].token \/ attempts'[b].token = calls[c].token,
           UNCHANGED <<clock, sweeps>>, RowsKept, \A b \in Attempts : StaysAbsent(b)
    PROVE  ControlInv'
<1>1. PICK grant \in Grants :
         /\ grant.node = calls[c].node /\ grant.op = calls[c].op /\ grant.attempt = a
         /\ grant.token = token /\ granted' = granted \cup {grant}
  <2>1. [node |-> calls[c].node, op |-> calls[c].op, attempt |-> a, token |-> token] \in Grants
    BY ClaimCallTyped DEF Grants, ControlInv
  <2> QED BY <2>1 DEF Grant
<1>2. /\ calls' \in [Calls -> CallStates] /\ calls'[c] = Idle
      /\ \A d \in Calls \ {c} : calls'[d] = calls[d]
  BY CallTyped DEF Grant, ControlInv, CallStates
<1>3. ServiceTypeOK'
  BY <1>1, <1>2 DEF ControlInv, ServiceTypeOK, CallStates
<1>4. GrantsStand'
  BY <1>1 DEF GrantsStand
<1>5. ClaimsAreFresh'
  <2>1. \A d \in Calls : Claims(d)' => d # c /\ Claims(d) /\ calls'[d] = calls[d]
    BY <1>2 DEF Claims, Idle
  <2>2. \A d \in Calls : Claims(d)' => calls[d].token # calls[c].token
    BY <2>1 DEF ControlInv, ClaimsAreFresh
  <2> QED BY <2>1, <2>2 DEF ControlInv, ClaimsAreFresh, Authorized
<1>6. SubmitsAreGranted'
  <2>1. \A d \in Calls : Submits(d)' => Submits(d) /\ calls'[d] = calls[d]
    BY <1>2 DEF Submits, Idle
  <2> QED BY <1>1, <2>1 DEF ControlInv, SubmitsAreGranted
<1>7. SweepsFollow'
  <2>1. clock' \in Times /\ clock <= clock'
    BY DEF ControlInv, ServiceTypeOK, Times
  <2> QED BY <2>1, RetriesTyped, SweepsGoOn DEF ControlInv
<1> QED BY <1>3, <1>4, <1>5, <1>6, <1>7 DEF ControlInv

LEMMA ReplayClaimInv ==
    ASSUME ControlInv, NEW c \in Calls, ReplayClaim(c)
    PROVE  ControlInv'
<1>0. /\ UNCHANGED <<tables, clock, sweeps>>
      /\ Claims(c) /\ calls[c] \in ClaimCalls
  BY ClaimCallTyped DEF ReplayClaim, Claims, ControlInv
<1>1. CASE Becomes(c, [calls[c] EXCEPT !.phase = "claim"]) /\ UNCHANGED <<reply, granted>>
  <2>1. PICK call \in ClaimCalls :
           /\ call = [calls[c] EXCEPT !.phase = "claim"] /\ call.phase = "claim"
           /\ call.node = calls[c].node /\ call.token = calls[c].token
           /\ call.declared = calls[c].declared
    <3>1. [calls[c] EXCEPT !.phase = "claim"] \in ClaimCalls
      BY <1>0 DEF ClaimCalls
    <3> QED BY <1>0, <3>1 DEF ClaimCalls
  <2>2. GoesOn(c)
    BY <1>0, <1>1, <2>1, CallTyped DEF GoesOn, CallStates, ControlInv
  <2>3. IInv'
    BY <1>0, <1>1, QuietStore DEF ControlInv
  <2> QED BY <1>0, <1>1, <2>1, <2>2, <2>3, QuietCallInv DEF CallStates
<1>2. CASE \E outcome \in {"IdempotencyConflict", "LeaseConflict"} :
              Refuse(c, "claim", outcome) /\ UNCHANGED granted
  BY <1>0, <1>2, RefuseInv DEF Outcomes
<1>3. ASSUME NEW a \in Attempts, attempts[a].operation = calls[c].op,
             attempts[a].node = calls[c].node, attempts[a].state = "leased",
             Reply("claim", "Replayed"), Grant(c, a, attempts[a].token)
      PROVE  ControlInv'
  <2>1. IInv'
    BY <1>0, <1>3, TablesUnchanged DEF Reply, Outcomes, ControlInv
  <2>2. RowsKept /\ HoldersKept /\ \A b \in Attempts : StaysAbsent(b)
    BY <1>0, NothingKeepsAll DEF ControlInv
  <2>3. HoldersDiffer' /\ LeaseWithinPolicy'
    BY <2>2, HoldersStay
  <2>4. attempts[a].token \in Tokens
    BY <1>3 DEF ControlInv, IInv, TypeOK, AttemptRows, Safety, LeaseBeforeResult
  <2>5. attempts' = attempts
    BY <1>0 DEF tables
  <2> QED BY <1>0, <1>3, <2>1, <2>2, <2>3, <2>4, <2>5, GrantInv DEF ControlInv, GrantsStand
<1> QED BY <1>1, <1>2, <1>3 DEF ReplayClaim

LEMMA FinishClaimInv ==
    ASSUME ControlInv, NEW c \in Calls, NEW locked, FinishClaim(c, locked)
    PROVE  ControlInv'
<1>0. /\ Claims(c) /\ calls[c] \in ClaimCalls
      /\ calls[c].node \in Nodes /\ calls[c].op \in Operations /\ calls[c].token \in Tokens
      /\ calls[c].now \in Times
  BY ClaimCallTyped DEF FinishClaim, Claims, ControlInv
<1>1. /\ ClaimTask(calls[c].node, calls[c].token, calls[c].op, calls[c].declared, locked, calls[c].now)
      /\ UNCHANGED <<clock, sweeps>>
  BY DEF FinishClaim
<1>2. IInv'
  BY <1>0, <1>1, ClaimInv DEF ControlInv
<1>3. CASE UNCHANGED tables /\ reply'.outcome # "Ok"
  <2>1. Becomes(c, Idle) /\ UNCHANGED granted
    BY <1>3 DEF FinishClaim
  <2>2. GoesOn(c)
    BY <2>1, CallTyped DEF GoesOn, CallStates, ControlInv, Idle
  <2> QED BY <1>1, <1>2, <1>3, <2>1, <2>2, QuietCallInv DEF CallStates
<1>4. CASE /\ reply'.outcome = "Ok" /\ RowsKept /\ \A b \in Attempts : StaysAbsent(b)
           /\ ~OperationTaken(calls[c].node, calls[c].op)
           /\ \E a \in Attempts :
                 /\ Claimable(a, calls[c].declared)
                 /\ attempts'[a].node = calls[c].node /\ attempts'[a].token = calls[c].token
                 /\ attempts'[a].operation = calls[c].op
                 /\ attempts'[a].state # "absent"
                 /\ attempts'[a].request = attempts[a].request
                 /\ \A b \in Attempts \ {a} : attempts'[b] = attempts[b]
  <2>1. PICK a \in Attempts :
                 /\ Claimable(a, calls[c].declared)
                 /\ attempts'[a].node = calls[c].node /\ attempts'[a].token = calls[c].token
                 /\ attempts'[a].operation = calls[c].op
                 /\ attempts'[a].state # "absent"
                 /\ attempts'[a].request = attempts[a].request
                 /\ \A b \in Attempts \ {a} : attempts'[b] = attempts[b]
    BY <1>4
  <2>2. Grant(c, a, calls[c].token)
    BY <1>4, <2>1 DEF FinishClaim
  <2>3. /\ attempts[a].state = "queued" /\ attempts[a].node = Null /\ attempts[a].token = Null
        /\ Null \notin Nodes \cup Tokens \cup Operations
    BY <2>1, NullAssumption DEF Claimable, ControlInv, IInv, Safety, LeaseBeforeResult
  <2>4. HoldersDiffer'
    <3>1. \A b \in Attempts : attempts'[b].state = "absent" => b # a /\ attempts[b].state = "absent"
      BY <2>1
    <3>2. \A b \in Attempts \ {a} : attempts[b].token # calls[c].token
      BY <1>0 DEF ControlInv, ClaimsAreFresh
    <3>3. \A b \in Attempts \ {a} :
             ~(attempts[b].operation = calls[c].op /\ attempts[b].node = calls[c].node)
      BY <1>0, <1>4, <2>3 DEF OperationTaken
    <3> QED BY <2>1, <2>3, <3>1, <3>2, <3>3 DEF ControlInv, HoldersDiffer
  <2>5. LeaseWithinPolicy'
    <3>1. /\ calls[c].node \in DOMAIN Policy
          /\ Range(attempts[a].request.required) \subseteq Policy[calls[c].node]
      BY <1>0, <2>1 DEF Claimable, ControlInv, ClaimsAreFresh, Authorized
    <3> SUFFICES ASSUME NEW b \in Attempts, attempts'[b].node # Null
                 PROVE  /\ attempts'[b].node \in DOMAIN Policy
                        /\ Range(attempts'[b].request.required) \subseteq Policy[attempts'[b].node]
      BY DEF LeaseWithinPolicy
    <3>2. CASE b = a
      BY <2>1, <3>1, <3>2
    <3>3. CASE b # a
      BY <2>1, <3>3 DEF ControlInv, LeaseWithinPolicy
    <3> QED BY <3>2, <3>3
  <2>6. \A g \in granted : /\ attempts'[g.attempt].state # "absent"
                           /\ attempts'[g.attempt].node = g.node
                           /\ attempts'[g.attempt].operation = g.op
                           /\ attempts'[g.attempt].token = g.token
    <3>1. \A g \in granted : g.attempt \in Attempts /\ g.attempt # a
      BY <2>3 DEF ControlInv, GrantsStand, ServiceTypeOK, Grants
    <3> QED BY <2>1, <3>1 DEF ControlInv, GrantsStand
  <2> QED BY <1>0, <1>1, <1>2, <1>4, <2>1, <2>2, <2>4, <2>5, <2>6, GrantInv DEF ControlInv
<1> QED BY <1>0, <1>1, <1>3, <1>4, ClaimEffect DEF ControlInv

-----------------------------------------------------------------------------
(***************************************************************************)
(* renew_lease and submit_result                                           *)
(***************************************************************************)

\* The calls of renew_lease and submit_result, field by field.
LEMMA RenewCallTyped ==
    ASSUME ServiceTypeOK, NEW c \in Calls, calls[c].phase = "renew"
    PROVE  /\ calls[c].node \in Nodes /\ calls[c].evaluation \in Evaluations
           /\ calls[c].attempt \in Attempts /\ calls[c].token \in Tokens
           /\ calls[c].now \in Times
<1>1. calls[c] \in CallStates
  BY DEF ServiceTypeOK, CallStates
<1>2. calls[c] \in RenewCalls
  BY <1>1 DEF CallStates, Idle, ClaimCalls, SubmitCalls
<1> QED BY <1>2 DEF RenewCalls

LEMMA SubmitCallTyped ==
    ASSUME ServiceTypeOK, NEW c \in Calls, Submits(c)
    PROVE  /\ calls[c] \in SubmitCalls
           /\ calls[c].node \in Nodes /\ calls[c].key \in ResultKeys
           /\ calls[c].token \in Tokens /\ calls[c].result \in Results
           /\ calls[c].now \in Times
<1>1. calls[c] \in CallStates
  BY DEF ServiceTypeOK, CallStates
<1>2. calls[c] \in SubmitCalls
  BY <1>1 DEF Submits, CallStates, Idle, ClaimCalls, RenewCalls
<1> QED BY <1>2 DEF SubmitCalls

\* The attempt of a lease that was granted is stored.
LEMMA GrantedTyped ==
    ASSUME ControlInv, NEW g \in granted
    PROVE  /\ g.node \in Nodes /\ g.token \in Tokens /\ g.attempt \in Attempts
           /\ attempts[g.attempt].state # "absent"
           /\ attempts[g.attempt].request \in Requests
           /\ attempts[g.attempt].request.evaluation \in Evaluations
<1>1. g.node \in Nodes /\ g.token \in Tokens /\ g.attempt \in Attempts
  BY DEF ControlInv, ServiceTypeOK, Grants
<1>2. attempts[g.attempt].state # "absent"
  BY DEF ControlInv, GrantsStand
<1>3. attempts[g.attempt].request \in Requests
  BY <1>1, <1>2 DEF ControlInv, IInv, TypeOK
<1> QED BY <1>1, <1>2, <1>3 DEF Requests

LEMMA StartRenewInv ==
    ASSUME ControlInv, NEW c \in Calls, NEW own \in granted, NEW g \in granted,
           StartRenew(c, own.node, attempts[g.attempt].request.evaluation, g.attempt, own.token)
    PROVE  ControlInv'
<1>0. UNCHANGED <<tables, clock, sweeps, granted>>
  BY DEF StartRenew
<1>1. CASE own.node \notin DOMAIN Policy
  BY <1>0, <1>1, RefuseInv DEF StartRenew, Outcomes
<1>2. CASE own.node \in DOMAIN Policy
  <2>1. PICK call : call = [phase |-> "renew", node |-> own.node,
                            evaluation |-> attempts[g.attempt].request.evaluation,
                            attempt |-> g.attempt, token |-> own.token, now |-> clock]
    OBVIOUS
  <2>2. clock \in Times
    BY DEF ControlInv, ServiceTypeOK
  <2>3. call \in RenewCalls
    BY <2>1, <2>2, GrantedTyped DEF RenewCalls
  <2>4. Becomes(c, call) /\ reply' = reply
    BY <1>2, <2>1 DEF StartRenew
  <2>5. call \in CallStates /\ call.phase = "renew"
    BY <2>1, <2>3 DEF CallStates
  <2>6. GoesOn(c)
    BY <2>4, <2>5, CallTyped DEF GoesOn, ControlInv
  <2>7. IInv'
    BY <1>0, <2>4, QuietStore DEF ControlInv
  <2> QED BY <1>0, <2>4, <2>5, <2>6, <2>7, QuietCallInv
<1> QED BY <1>1, <1>2

\* A command on behalf of call c that ends with it.
LEMMA EndingCall ==
    ASSUME ControlInv, NEW c \in Calls, Becomes(c, Idle)
    PROVE  calls' \in [Calls -> CallStates] /\ \A d \in Calls : GoesOn(d)
<1>1. Idle \in CallStates
  BY DEF CallStates
<1>2. /\ calls' \in [Calls -> CallStates] /\ calls'[c] = Idle
      /\ \A d \in Calls \ {c} : calls'[d] = calls[d]
  BY <1>1, CallTyped DEF ControlInv
<1> QED BY <1>2 DEF GoesOn, Idle

LEMMA FinishRenewInv ==
    ASSUME ControlInv, NEW c \in Calls, FinishRenew(c)
    PROVE  ControlInv'
<1>1. /\ RenewLease(calls[c].node, calls[c].evaluation, calls[c].attempt, calls[c].token, calls[c].now)
      /\ Becomes(c, Idle) /\ UNCHANGED <<clock, sweeps, granted>>
      /\ calls[c].phase = "renew"
  BY DEF FinishRenew
<1>2. /\ calls[c].node \in Nodes /\ calls[c].evaluation \in Evaluations
      /\ calls[c].attempt \in Attempts /\ calls[c].token \in Tokens
      /\ calls[c].now \in Times
  BY <1>1, RenewCallTyped DEF ControlInv
<1>3. IInv'
  BY <1>1, <1>2, RenewInv DEF ControlInv
<1>4. RowsKept /\ HoldersKept /\ \A b \in Attempts : StaysAbsent(b)
  BY <1>1, <1>2, RenewKeeps DEF ControlInv
<1>5. \A s \in Sweepers : Retries(s) => StaysAbsent(sweeps[s].request.attempt)
  BY <1>4, RetriesTyped DEF ControlInv
<1> QED BY <1>1, <1>3, <1>4, <1>5, EndingCall, CommandInv

LEMMA StartSubmitInv ==
    ASSUME ControlInv, NEW c \in Calls, NEW own \in granted, NEW g \in granted,
           NEW key \in ResultKeys, NEW status \in {"completed", "failed"}, NEW author,
           StartSubmit(c, own.node, author, key, own.token, ResultOf(g.attempt, status))
    PROVE  ControlInv'
<1>0. UNCHANGED <<tables, clock, sweeps, granted>>
  BY DEF StartSubmit
<1>1. CASE own.node \notin DOMAIN Policy \/ author # own.node
  BY <1>0, <1>1, RefuseInv DEF StartSubmit, Outcomes
<1>2. CASE own.node \in DOMAIN Policy /\ author = own.node
  <2>1. PICK call : call = [phase |-> "submit_owner", node |-> own.node, key |-> key,
                            token |-> own.token, result |-> ResultOf(g.attempt, status),
                            now |-> clock]
    OBVIOUS
  <2>2. clock \in Times
    BY DEF ControlInv, ServiceTypeOK
  <2>3. ResultOf(g.attempt, status) \in Results
    BY GrantedTyped, ResultTyped DEF ControlInv, TerminalStates
  <2>4. call \in SubmitCalls
    BY <2>1, <2>2, <2>3, GrantedTyped DEF SubmitCalls
  <2>5. /\ call \in CallStates /\ call.phase = "submit_owner"
        /\ call.node = own.node /\ call.token = own.token
    BY <2>1, <2>4 DEF CallStates
  <2>6. Becomes(c, call) /\ reply' = reply
    BY <1>2, <2>1 DEF StartSubmit
  <2>7. /\ calls' \in [Calls -> CallStates] /\ calls'[c] = call
        /\ \A d \in Calls \ {c} : calls'[d] = calls[d]
    BY <2>5, <2>6, CallTyped DEF ControlInv
  <2>8. IInv'
    BY <1>0, <2>6, QuietStore DEF ControlInv
  <2>9. RowsKept /\ HoldersKept /\ \A a \in Attempts : StaysAbsent(a)
    BY <1>0, NothingKeepsAll DEF ControlInv
  <2>10. ServiceTypeOK'
    BY <1>0, <2>7 DEF ControlInv, ServiceTypeOK, CallStates
  <2>11. ClaimsAreFresh'
    <3>1. \A d \in Calls : Claims(d)' => Claims(d) /\ calls'[d] = calls[d]
      BY <2>5, <2>7 DEF Claims
    <3> QED BY <2>9, <3>1 DEF ControlInv, ClaimsAreFresh, Authorized, HoldersKept
  <2>12. SubmitsAreGranted'
    <3>1. \A d \in Calls \ {c} : Submits(d)' => Submits(d) /\ calls'[d] = calls[d]
      BY <2>7 DEF Submits
    <3>2. own \in granted' /\ own.node = calls'[c].node /\ own.token = calls'[c].token
      BY <1>0, <2>5, <2>7
    <3> QED BY <1>0, <3>1, <3>2 DEF ControlInv, SubmitsAreGranted
  <2>13. SweepsFollow'
    <3>1. clock' \in Times /\ clock <= clock'
      BY <1>0, <2>2 DEF Times
    <3> QED BY <1>0, <2>9, <3>1, RetriesTyped, SweepsGoOn DEF ControlInv
  <2> QED BY <1>0, <2>8, <2>9, <2>10, <2>11, <2>12, <2>13, HoldersStay DEF ControlInv
<1> QED BY <1>1, <1>2

LEMMA ReadOwnerInv ==
    ASSUME ControlInv, NEW c \in Calls, ReadOwner(c)
    PROVE  ControlInv'
<1>0. UNCHANGED <<tables, clock, sweeps, granted>> /\ Submits(c) /\ calls[c] \in SubmitCalls
  BY SubmitCallTyped DEF ReadOwner, Submits, ControlInv
<1>1. CASE \E outcome \in {"StaleLease", "Unavailable"} : Refuse(c, "submit", outcome)
  BY <1>0, <1>1, RefuseInv DEF Outcomes
<1>2. CASE Becomes(c, [calls[c] EXCEPT !.phase = "submit"]) /\ UNCHANGED reply
  <2>1. PICK call : call = [calls[c] EXCEPT !.phase = "submit"]
    OBVIOUS
  <2>2. /\ call \in SubmitCalls /\ call.phase = "submit"
        /\ call.node = calls[c].node /\ call.token = calls[c].token
    BY <1>0, <2>1 DEF SubmitCalls
  <2>3. call \in CallStates /\ Becomes(c, call)
    BY <1>2, <2>1, <2>2 DEF CallStates
  <2>4. GoesOn(c)
    BY <1>0, <2>2, <2>3, CallTyped DEF GoesOn, ControlInv
  <2>5. IInv'
    BY <1>0, <1>2, QuietStore DEF ControlInv
  <2> QED BY <1>0, <2>3, <2>4, <2>5, QuietCallInv
<1> QED BY <1>1, <1>2 DEF ReadOwner

LEMMA FinishSubmitInv ==
    ASSUME ControlInv, NEW c \in Calls, FinishSubmit(c)
    PROVE  ControlInv'
<1>1. /\ SubmitResult(calls[c].key, calls[c].token, calls[c].result, calls[c].now)
      /\ Becomes(c, Idle) /\ UNCHANGED <<clock, sweeps, granted>>
      /\ Submits(c)
  BY DEF FinishSubmit, Submits
<1>2. /\ calls[c].key \in ResultKeys /\ calls[c].token \in Tokens
      /\ calls[c].result \in Results /\ calls[c].now \in Times
  BY <1>1, SubmitCallTyped DEF ControlInv
<1>3. IInv'
  BY <1>1, <1>2, SubmitInv DEF ControlInv
<1>4. RowsKept /\ HoldersKept /\ \A b \in Attempts : StaysAbsent(b)
  BY <1>1, <1>2, SubmitKeeps DEF ControlInv
<1>5. \A s \in Sweepers : Retries(s) => StaysAbsent(sweeps[s].request.attempt)
  BY <1>4, RetriesTyped DEF ControlInv
<1> QED BY <1>1, <1>3, <1>4, <1>5, EndingCall, CommandInv

-----------------------------------------------------------------------------
(***************************************************************************)
(* The sweepers                                                            *)
(***************************************************************************)

\* A step of the sweepers that leaves the store as it is.
LEMMA QuietSweepInv ==
    ASSUME ControlInv, UNCHANGED <<vars, clock, calls, granted>>,
           sweeps' \in [Sweepers -> Sweeps], SweepsFollow'
    PROVE  ControlInv'
<1>1. UNCHANGED <<tables, reply>>
  BY DEF vars, tables
<1>2. IInv'
  BY <1>1, QuietStore DEF ControlInv
<1>3. RowsKept /\ HoldersKept
  BY <1>1, NothingKeepsAll DEF ControlInv
<1>4. ServiceTypeOK'
  BY DEF ControlInv, ServiceTypeOK
<1>5. \A c \in Calls : GoesOn(c)
  BY DEF GoesOn
<1> QED BY <1>2, <1>3, <1>4, <1>5, HoldersStay, ClaimsGoOn, SubmitsGoOn DEF ControlInv

\* Sweeper s goes to a pass that has found no row, or to rest.
LEMMA SweepMovesOn ==
    ASSUME ControlInv, RowsKept, NEW s \in Sweepers, NEW sweep, sweeps' = [sweeps EXCEPT ![s] = sweep],
           sweep = Idle \/ (sweep \in [phase : {"scan"}, now : Times] /\ sweep.now <= clock),
           clock' = clock,
           \A t \in Sweepers \ {s} : Retries(t) => StaysAbsent(sweeps[t].request.attempt)
    PROVE  sweeps' \in [Sweepers -> Sweeps] /\ SweepsFollow'
<1>1. sweep \in Sweeps /\ sweep.phase # "retry"
  BY DEF Sweeps, Idle
<1>2. /\ sweeps' \in [Sweepers -> Sweeps] /\ sweeps'[s] = sweep
      /\ \A t \in Sweepers \ {s} : sweeps'[t] = sweeps[t]
  BY <1>1 DEF ControlInv, ServiceTypeOK
<1>3. \A t \in Sweepers : Retries(t)' => t # s /\ Retries(t)
  BY <1>1, <1>2 DEF Retries
<1>4. ASSUME NEW t \in Sweepers, sweeps'[t] # Idle PROVE sweeps'[t].now <= clock'
  BY <1>2, <1>4 DEF ControlInv, SweepsFollow
<1>5. ASSUME NEW t \in Sweepers, Retries(t)', NEW r, r = sweeps'[t].request
      PROVE  /\ Stored(r.evaluation)'
             /\ SameSemantics(evaluations'[r.evaluation].request, r)
             /\ r.number <= attempts'[evaluations'[r.evaluation].current].request.number + 1
             /\ attempts'[r.attempt].state = "absent"
             /\ \A q \in Submissions : q.attempt # r.attempt
             /\ \A u \in Sweepers : Retries(u)' /\ u # t => sweeps'[u].request.attempt # r.attempt
  <2>1. t # s /\ Retries(t) /\ sweeps'[t] = sweeps[t] /\ r = sweeps[t].request
    BY <1>2, <1>3, <1>5
  <2>2. r \in Requests /\ r.evaluation \in Evaluations /\ r.number \in Nat
    BY <2>1, RetriesTyped DEF ControlInv
  <2>3. /\ Stored(r.evaluation) /\ SameSemantics(evaluations[r.evaluation].request, r)
        /\ r.number <= attempts[evaluations[r.evaluation].current].request.number + 1
        /\ attempts[r.attempt].state = "absent"
        /\ \A q \in Submissions : q.attempt # r.attempt
        /\ \A u \in Sweepers : Retries(u) /\ u # t => sweeps[u].request.attempt # r.attempt
    BY <2>1 DEF ControlInv, SweepsFollow
  <2>4. /\ Stored(r.evaluation)' /\ evaluations'[r.evaluation].request = evaluations[r.evaluation].request
        /\ attempts'[evaluations'[r.evaluation].current].request.number \in Nat
        /\ attempts[evaluations[r.evaluation].current].request.number
              <= attempts'[evaluations'[r.evaluation].current].request.number
    BY <2>2, <2>3 DEF RowsKept
  <2>5. attempts'[r.attempt].state = "absent"
    BY <2>1, <2>3 DEF StaysAbsent
  <2>6. attempts[evaluations[r.evaluation].current].request.number \in Nat
    BY <2>2, <2>3, CurrentTyped DEF ControlInv
  <2>7. \A u \in Sweepers : Retries(u)' /\ u # t => sweeps'[u].request.attempt # r.attempt
    BY <1>2, <1>3, <2>3
  <2>8. r.number <= attempts'[evaluations'[r.evaluation].current].request.number + 1
    <3>1. \A k, old, new \in Nat : k <= old + 1 /\ old <= new => k <= new + 1
      OBVIOUS
    <3> QED BY <2>2, <2>3, <2>4, <2>6, <3>1
  <2> QED BY <2>3, <2>4, <2>5, <2>7, <2>8
<1> QED BY <1>2, <1>4, <1>5 DEF SweepsFollow

LEMMA StartSweepInv ==
    ASSUME ControlInv, NEW s \in Sweepers, StartSweep(s)
    PROVE  ControlInv'
<1>1. UNCHANGED <<vars, clock, calls, granted>>
  BY DEF StartSweep
<1>2. PICK sweep : sweep = [phase |-> "scan", now |-> clock]
  OBVIOUS
<1>3. clock \in Times /\ clock <= clock
  BY DEF ControlInv, ServiceTypeOK, Times
<1>4. sweep \in [phase : {"scan"}, now : Times] /\ sweep.now <= clock
  BY <1>2, <1>3
<1>5. sweeps' = [sweeps EXCEPT ![s] = sweep]
  BY <1>2 DEF StartSweep
<1>6. RowsKept /\ \A a \in Attempts : StaysAbsent(a)
  BY <1>1, NothingKeepsAll DEF ControlInv, vars, tables
<1>7. \A t \in Sweepers : Retries(t) => StaysAbsent(sweeps[t].request.attempt)
  BY <1>6, RetriesTyped DEF ControlInv
<1> QED BY <1>1, <1>4, <1>5, <1>6, <1>7, SweepMovesOn, QuietSweepInv

\* The request a scan makes of the row it found: what was submitted, as an
\* attempt that nobody else makes.
LEMMA NextAttemptFollows ==
    ASSUME IInv, NEW e \in Evaluations, Stored(e), NEW a \in Attempts, NEW key \in Keys,
           NEW r, r = attempts[evaluations[e].current].request, r.number < MaxAttemptNumber
    PROVE  /\ NextAttempt(r, a, key) \in Requests
           /\ NextAttempt(r, a, key).evaluation = e
           /\ NextAttempt(r, a, key).attempt = a
           /\ NextAttempt(r, a, key).number = r.number + 1
           /\ SameSemantics(evaluations[e].request, NextAttempt(r, a, key))
<1>1. /\ evaluations[e].current \in Attempts /\ r \in Requests
      /\ attempts[evaluations[e].current].state # "absent"
  BY CurrentTyped
<1>2. r.evaluation = e
  BY DEF IInv, Safety, RowsAgree, RowAgrees
<1>3. SameSemantics(evaluations[e].request, r)
  BY <1>1, <1>2 DEF IInv, Safety, ReferencesAgree
<1>4. r.number + 1 \in AttemptNumbers
  BY <1>1, BoundsAssumption DEF Requests, AttemptNumbers
<1>5. NextAttempt(r, a, key) \in Requests
  BY <1>1, <1>4 DEF NextAttempt, Requests
<1>6. /\ NextAttempt(r, a, key).evaluation = r.evaluation
      /\ NextAttempt(r, a, key).reference = r.reference
      /\ NextAttempt(r, a, key).digest = r.digest
      /\ NextAttempt(r, a, key).required = r.required
      /\ NextAttempt(r, a, key).attempt = a
      /\ NextAttempt(r, a, key).number = r.number + 1
  BY <1>1 DEF NextAttempt, Requests
<1> QED BY <1>2, <1>3, <1>5, <1>6 DEF SameSemantics

LEMMA ScanInv ==
    ASSUME ControlInv, NEW s \in Sweepers, NEW a \in Attempts, NEW key \in Keys, Scan(s, a, key)
    PROVE  ControlInv'
<1>0. UNCHANGED <<vars, clock, calls, granted>> /\ sweeps[s].phase = "scan"
  BY DEF Scan
<1>1. RowsKept /\ \A b \in Attempts : StaysAbsent(b)
  BY <1>0, NothingKeepsAll DEF ControlInv, vars, tables
<1>2. \A t \in Sweepers : Retries(t) => StaysAbsent(sweeps[t].request.attempt)
  BY <1>1, RetriesTyped DEF ControlInv
<1>3. CASE sweeps' = [sweeps EXCEPT ![s] = Idle]
  BY <1>0, <1>1, <1>2, <1>3, SweepMovesOn, QuietSweepInv
<1>4. ASSUME NEW e \in FirstExpired(sweeps[s].now), FreshIds(a, key), NEW r,
             r = attempts[evaluations[e].current].request, r.number < MaxAttemptNumber,
             sweeps' = [sweeps EXCEPT ![s] = [phase |-> "retry", now |-> sweeps[s].now,
                                              request |-> NextAttempt(r, a, key)]]
      PROVE  ControlInv'
  <2>1. e \in Evaluations /\ Stored(e)
    BY DEF FirstExpired, Expired, Stored
  <2>2. PICK next \in Requests :
           /\ next = NextAttempt(r, a, key)
           /\ next.evaluation = e /\ next.attempt = a /\ next.number = r.number + 1
           /\ SameSemantics(evaluations[e].request, next)
    <3>1. /\ NextAttempt(r, a, key) \in Requests
          /\ NextAttempt(r, a, key).evaluation = e
          /\ NextAttempt(r, a, key).attempt = a
          /\ NextAttempt(r, a, key).number = r.number + 1
          /\ SameSemantics(evaluations[e].request, NextAttempt(r, a, key))
      BY <1>4, <2>1, NextAttemptFollows DEF ControlInv
    <3> QED BY <3>1
  <2>3. sweeps[s].now \in Times /\ sweeps[s] # Idle /\ sweeps[s].now <= clock
    <3>1. sweeps[s] # Idle
      BY <1>0 DEF Idle
    <3> QED BY <1>0, <3>1 DEF ControlInv, ServiceTypeOK, Sweeps, SweepsFollow
  <2>4. PICK sweep \in Sweeps :
           /\ sweep = [phase |-> "retry", now |-> sweeps[s].now, request |-> next]
           /\ sweep.phase = "retry" /\ sweep.now = sweeps[s].now /\ sweep.request = next
    <3>1. [phase |-> "retry", now |-> sweeps[s].now, request |-> next] \in Sweeps
      BY <2>3 DEF Sweeps
    <3> QED BY <3>1
  <2>5. /\ sweeps' \in [Sweepers -> Sweeps] /\ sweeps'[s] = sweep
        /\ \A t \in Sweepers \ {s} : sweeps'[t] = sweeps[t]
    BY <1>4, <2>2, <2>4 DEF ControlInv, ServiceTypeOK
  <2>6. /\ attempts[a].state = "absent" /\ \A q \in Submissions : q.attempt # a
        /\ \A t \in Sweepers : Retries(t) => sweeps[t].request.attempt # a
    BY <1>4 DEF FreshIds, Retries
  <2>7. evaluations' = evaluations /\ attempts' = attempts /\ clock' = clock
    BY <1>0 DEF vars
  <2>8. \A t \in Sweepers \ {s} : Retries(t)' <=> Retries(t)
    BY <2>5 DEF Retries
  <2>9. ASSUME NEW t \in Sweepers, sweeps'[t] # Idle PROVE sweeps'[t].now <= clock'
    <3>1. CASE t = s
      BY <2>3, <2>4, <2>5, <2>7, <3>1
    <3>2. CASE t # s
      BY <2>5, <2>7, <2>9, <3>2 DEF ControlInv, SweepsFollow
    <3> QED BY <3>1, <3>2
  <2>10. ASSUME NEW t \in Sweepers, Retries(t)', NEW q, q = sweeps'[t].request
         PROVE  /\ Stored(q.evaluation)
                /\ SameSemantics(evaluations[q.evaluation].request, q)
                /\ q.number <= attempts[evaluations[q.evaluation].current].request.number + 1
                /\ attempts[q.attempt].state = "absent"
                /\ \A p \in Submissions : p.attempt # q.attempt
                /\ \A u \in Sweepers : Retries(u)' /\ u # t => sweeps'[u].request.attempt # q.attempt
    <3>1. CASE t = s
      <4>1. r.number \in Nat
        BY <1>4, <2>1, CurrentTyped DEF ControlInv
      <4>2. q = next
        BY <2>4, <2>5, <2>10, <3>1
      <4>3. q.number <= attempts[evaluations[q.evaluation].current].request.number + 1
        <5>1. q.number = r.number + 1 /\ q.evaluation = e
          BY <2>2, <4>2
        <5>2. attempts[evaluations[q.evaluation].current].request = r
          BY <1>4, <5>1
        <5> QED BY <4>1, <5>1, <5>2
      <4>4. \A u \in Sweepers : Retries(u)' /\ u # t => sweeps'[u].request.attempt # q.attempt
        BY <2>2, <2>5, <2>6, <2>8, <3>1, <4>2
      <4> QED BY <2>1, <2>2, <2>6, <4>2, <4>3, <4>4
    <3>2. CASE t # s
      <4>1. Retries(t) /\ q = sweeps[t].request
        BY <2>5, <2>8, <2>10, <3>2
      <4>2. sweeps'[s].request.attempt # q.attempt
        BY <2>2, <2>4, <2>5, <2>6, <4>1
      <4>3. \A u \in Sweepers : Retries(u) /\ u # t => sweeps[u].request.attempt # q.attempt
        BY <4>1 DEF ControlInv, SweepsFollow
      <4>4. \A u \in Sweepers : Retries(u)' /\ u # t => sweeps'[u].request.attempt # q.attempt
        BY <2>5, <2>8, <4>2, <4>3
      <4> QED BY <4>1, <4>4 DEF ControlInv, SweepsFollow
    <3> QED BY <3>1, <3>2
  <2>11. SweepsFollow'
    BY <2>7, <2>9, <2>10 DEF SweepsFollow, Retries, Stored, SameSemantics
  <2> QED BY <1>0, <2>5, <2>11, QuietSweepInv
<1> QED BY <1>3, <1>4 DEF Scan

LEMMA RetryInvC ==
    ASSUME ControlInv, NEW s \in Sweepers, Retry(s)
    PROVE  ControlInv'
<1>0. /\ Retries(s) /\ RetryExpired(sweeps[s].request, sweeps[s].now)
      /\ UNCHANGED <<clock, calls, granted>>
  BY DEF Retry, Retries
<1>1. PICK r \in Requests, now \in Times : r = sweeps[s].request /\ now = sweeps[s].now
  BY <1>0, RetriesTyped DEF ControlInv
<1>2. IInv'
  BY <1>0, <1>1, RetryInv DEF ControlInv
<1>3. RowsKept /\ HoldersKept /\ \A a \in Attempts \ {r.attempt} : StaysAbsent(a)
  BY <1>0, <1>1, RetryKeeps DEF ControlInv
<1>4. \A t \in Sweepers \ {s} : Retries(t) => StaysAbsent(sweeps[t].request.attempt)
  <2>1. \A t \in Sweepers \ {s} : Retries(t) => sweeps[t].request.attempt # r.attempt
    BY <1>0, <1>1 DEF ControlInv, SweepsFollow
  <2> QED BY <1>3, <2>1, RetriesTyped DEF ControlInv
<1>5. sweeps[s].now <= clock
  <2>1. sweeps[s] # Idle
    BY <1>0 DEF Retries, Idle
  <2> QED BY <2>1 DEF ControlInv, SweepsFollow
<1>6. PICK sweep : /\ sweeps' = [sweeps EXCEPT ![s] = sweep]
                   /\ \/ sweep = Idle
                      \/ sweep \in [phase : {"scan"}, now : Times] /\ sweep.now <= clock
  <2>1. PICK scan : scan = [phase |-> "scan", now |-> now]
    OBVIOUS
  <2>2. scan \in [phase : {"scan"}, now : Times] /\ scan.now <= clock
    BY <1>1, <1>5, <2>1
  <2>3. sweeps' = [sweeps EXCEPT ![s] = scan] \/ sweeps' = [sweeps EXCEPT ![s] = Idle]
    BY <1>1, <2>1 DEF Retry
  <2> QED BY <2>2, <2>3
<1>7. sweeps' \in [Sweepers -> Sweeps] /\ SweepsFollow'
  BY <1>0, <1>3, <1>4, <1>6, SweepMovesOn
<1>8. ServiceTypeOK'
  BY <1>0, <1>7 DEF ControlInv, ServiceTypeOK
<1>9. \A c \in Calls : GoesOn(c)
  BY <1>0 DEF GoesOn
<1> QED BY <1>0, <1>2, <1>3, <1>7, <1>8, <1>9, HoldersStay, ClaimsGoOn, SubmitsGoOn
        DEF ControlInv

\* Every step of the service keeps the invariant.
LEMMA ControlNextInv == ControlInv /\ [ControlNext]_controlVars => ControlInv'
<1> SUFFICES ASSUME ControlInv, [ControlNext]_controlVars PROVE ControlInv'
  OBVIOUS
<1>1. CASE UNCHANGED controlVars
  <2>1. UNCHANGED <<vars, clock, calls, granted>> /\ sweeps' = sweeps
    BY <1>1 DEF controlVars, service
  <2>2. RowsKept /\ \A a \in Attempts : StaysAbsent(a)
    BY <2>1, NothingKeepsAll DEF ControlInv, vars, tables
  <2>3. clock' \in Times /\ clock <= clock'
    BY <2>1 DEF ControlInv, ServiceTypeOK, Times
  <2>4. SweepsFollow'
    BY <2>1, <2>2, <2>3, RetriesTyped, SweepsGoOn DEF ControlInv
  <2>5. sweeps' \in [Sweepers -> Sweeps]
    BY <2>1 DEF ControlInv, ServiceTypeOK
  <2> QED BY <2>1, <2>4, <2>5, QuietSweepInv
<1>2. CASE ControlNext
  <2>1. CASE Tick
    BY <2>1, TickInv
  <2>2. CASE \E r \in Submissions : Submit(r)
    BY <2>2, SubmitInvC
  <2>3. CASE \E key \in ResultKeys, e \in Evaluations :
                Stored(e) /\ Cancel(key, e, ResultOf(evaluations[e].current, "cancelled"))
    BY <2>3, CancelInvC
  <2>4. ASSUME NEW c \in Calls,
               \/ \E node \in Nodes, op \in Operations, declared \in SUBSET Capabilities,
                     token \in Tokens : StartClaim(c, node, op, declared, token)
               \/ ReplayClaim(c)
               \/ \E locked \in SUBSET {a \in Attempts : tasks[a] = "ready"} : FinishClaim(c, locked)
        PROVE  ControlInv'
    BY <2>4, StartClaimInv, ReplayClaimInv, FinishClaimInv
  <2>5. ASSUME NEW c \in Calls, NEW own \in granted, NEW g \in granted,
               \/ StartRenew(c, own.node, attempts[g.attempt].request.evaluation, g.attempt,
                             own.token)
               \/ \E key \in ResultKeys, status \in {"completed", "failed"}, author \in Nodes :
                     StartSubmit(c, own.node, author, key, own.token,
                                 ResultOf(g.attempt, status))
        PROVE  ControlInv'
    BY <2>5, StartRenewInv, StartSubmitInv
  <2>6. ASSUME NEW c \in Calls, FinishRenew(c) \/ ReadOwner(c) \/ FinishSubmit(c)
        PROVE  ControlInv'
    BY <2>6, FinishRenewInv, ReadOwnerInv, FinishSubmitInv
  <2>7. ASSUME NEW s \in Sweepers,
               \/ StartSweep(s)
               \/ \E a \in Attempts, key \in Keys : Scan(s, a, key)
               \/ Retry(s)
        PROVE  ControlInv'
    BY <2>7, StartSweepInv, ScanInv, RetryInvC
  <2> QED BY <1>2, <2>1, <2>2, <2>3, <2>4, <2>5, <2>6, <2>7 DEF ControlNext
<1> QED BY <1>1, <1>2

\* What a handler or a sweeper has read stays true as far as it relies on it.
THEOREM ControlInvariance == ControlSpec => []ControlInv
BY ControlInitInv, ControlNextInv, PTL DEF ControlSpec

-----------------------------------------------------------------------------
(***************************************************************************)
(* What the service promises.                                              *)
(***************************************************************************)

LEMMA InvIdempotent == ControlInv => ClaimIsIdempotent
<1> SUFFICES ASSUME ControlInv, NEW g \in granted, NEW h \in granted,
                    (g.node = h.node /\ g.op = h.op) \/ g.attempt = h.attempt
             PROVE  g = h
  BY DEF ClaimIsIdempotent
<1>1. g \in Grants /\ h \in Grants
  BY DEF ControlInv, ServiceTypeOK
<1>2. /\ attempts[g.attempt].node = g.node /\ attempts[h.attempt].node = h.node
      /\ attempts[g.attempt].operation = g.op /\ attempts[h.attempt].operation = h.op
      /\ attempts[g.attempt].token = g.token /\ attempts[h.attempt].token = h.token
  BY DEF ControlInv, GrantsStand
<1>3. g.op # Null /\ g.attempt \in Attempts /\ h.attempt \in Attempts
  BY <1>1, NullAssumption DEF Grants
<1>4. g.attempt = h.attempt
  BY <1>2, <1>3 DEF ControlInv, HoldersDiffer
<1> QED BY <1>1, <1>2, <1>4 DEF Grants

\* However claims interleave, an operation id of a node is answered with one
\* lease, and an attempt is handed to one caller only.
THEOREM OneLeasePerOperation == ControlSpec => []ClaimIsIdempotent
BY InvIdempotent, ControlInvariance, PTL

\* No node ever holds work beyond its allowlist entry.
THEOREM PolicyBoundsLeases == ControlSpec => []LeaseWithinPolicy
<1>1. ControlInv => LeaseWithinPolicy
  BY DEF ControlInv
<1> QED BY <1>1, ControlInvariance, PTL

\* Whatever the handlers do, the tables keep what the store alone promises.
THEOREM ServiceKeepsTables == ControlSpec => [](TypeOK /\ Safety)
<1>1. ControlInv => TypeOK /\ Safety
  BY DEF ControlInv, IInv
<1> QED BY <1>1, ControlInvariance, PTL

\* A call that is about to submit only leaves that phase by FinishSubmit.
LEMMA SubmitEnds ==
    ASSUME ControlInv, [ControlNext]_controlVars, NEW c \in Calls, calls[c].phase = "submit",
           calls'[c].phase = "idle"
    PROVE  FinishSubmit(c)
<1>0. calls'[c] # calls[c]
  OBVIOUS
<1>1. ASSUME NEW d \in Calls, NEW call, Becomes(d, call) PROVE d = c
  BY <1>0, <1>1 DEF Becomes, ControlInv, ServiceTypeOK
<1>2. ASSUME NEW d \in Calls, NEW op, NEW outcome, Refuse(d, op, outcome) PROVE d = c
  BY <1>1, <1>2 DEF Refuse, Becomes
<1>3. ASSUME NEW d \in Calls, NEW node, NEW op, NEW declared, NEW token,
             StartClaim(d, node, op, declared, token)
      PROVE  FALSE
  BY <1>1, <1>2, <1>3 DEF StartClaim, Free
<1>4. ASSUME NEW d \in Calls, ReplayClaim(d) PROVE FALSE
  BY <1>1, <1>2, <1>4 DEF ReplayClaim, Grant
<1>5. ASSUME NEW d \in Calls, NEW locked, FinishClaim(d, locked) PROVE FALSE
  BY <1>1, <1>5 DEF FinishClaim, Grant
<1>6. ASSUME NEW d \in Calls, NEW node, NEW e, NEW a, NEW token, StartRenew(d, node, e, a, token)
      PROVE  FALSE
  BY <1>1, <1>2, <1>6 DEF StartRenew, Free
<1>7. ASSUME NEW d \in Calls, NEW node, NEW author, NEW key, NEW token, NEW result,
             StartSubmit(d, node, author, key, token, result)
      PROVE  FALSE
  BY <1>1, <1>2, <1>7 DEF StartSubmit, Free
<1>8. ASSUME NEW d \in Calls, FinishRenew(d) PROVE FALSE
  BY <1>1, <1>8 DEF FinishRenew
<1>9. ASSUME NEW d \in Calls, ReadOwner(d) PROVE FALSE
  BY <1>1, <1>2, <1>9 DEF ReadOwner
<1>10. ASSUME NEW d \in Calls, FinishSubmit(d) PROVE FinishSubmit(c)
  BY <1>1, <1>10 DEF FinishSubmit
<1>11. ~UNCHANGED calls
  BY <1>0
<1>12. ~Tick /\ (\A s \in Sweepers : ~StartSweep(s) /\ ~Retry(s))
       /\ (\A s \in Sweepers, a \in Attempts, key \in Keys : ~Scan(s, a, key))
  BY <1>11 DEF Tick, StartSweep, Retry, Scan
<1>13. /\ \A r \in Submissions : ~Submit(r)
       /\ \A key \in ResultKeys, e \in Evaluations :
             ~Cancel(key, e, ResultOf(evaluations[e].current, "cancelled"))
  BY <1>11 DEF Submit, Cancel, service
<1>14. ~UNCHANGED controlVars
  BY <1>11 DEF controlVars, service
<1> QED BY <1>3, <1>4, <1>5, <1>6, <1>7, <1>8, <1>9, <1>10, <1>12, <1>13, <1>14 DEF ControlNext

\* The verdict comes from the node that holds the lease: the token of a lease
\* is known to its holder alone, and the transaction compares it again, so it
\* does no harm that the owner was read before.
THEOREM HolderDecides == ControlSpec => VerdictFromHolder
<1>1. ControlInv /\ [ControlNext]_controlVars =>
        [\A c \in Calls :
            /\ calls[c].phase = "submit" /\ calls'[c].phase = "idle"
            /\ reply'.outcome = "Ok"
            => /\ attempts[calls[c].result.attempt].node = calls[c].node
               /\ attempts[calls[c].result.attempt].token = calls[c].token]_controlVars
  <2> SUFFICES ASSUME ControlInv, [ControlNext]_controlVars, NEW c \in Calls,
                      calls[c].phase = "submit", calls'[c].phase = "idle",
                      reply'.outcome = "Ok"
               PROVE  /\ attempts[calls[c].result.attempt].node = calls[c].node
                      /\ attempts[calls[c].result.attempt].token = calls[c].token
    OBVIOUS
  <2>1. /\ Submits(c)
        /\ SubmitResult(calls[c].key, calls[c].token, calls[c].result, calls[c].now)
    BY SubmitEnds DEF FinishSubmit, Submits
  <2>2. PICK a \in Attempts, e \in Evaluations :
           a = calls[c].result.attempt /\ e = calls[c].result.evaluation
    BY <2>1, SubmitCallTyped DEF ControlInv, Results
  <2>3. SubmitOutcome(calls[c].key, calls[c].token, calls[c].result, calls[c].now) = "Ok"
    BY <2>1 DEF SubmitResult, Reply
  <2>4. evaluations[e].current = a /\ attempts[a].token = calls[c].token
    BY <2>2, <2>3 DEF SubmitOutcome, SubmitCheck, ReplayOutcome, TokenMatches
  <2>5. PICK g \in granted : g.node = calls[c].node /\ g.token = calls[c].token
    BY <2>1 DEF ControlInv, SubmitsAreGranted
  <2>6. /\ g.attempt \in Attempts /\ g.token # Null
        /\ attempts[g.attempt].token = g.token /\ attempts[g.attempt].node = g.node
    BY <2>5, GrantedTyped, NullAssumption DEF ControlInv, GrantsStand
  <2>7. g.attempt = a
    BY <2>4, <2>5, <2>6 DEF ControlInv, HoldersDiffer
  <2> QED BY <2>2, <2>4, <2>5, <2>6, <2>7
<1> QED BY <1>1, ControlInvariance, PTL DEF ControlSpec, VerdictFromHolder

-----------------------------------------------------------------------------
(***************************************************************************)
(* The store under the service: every step of the service is a transaction *)
(* of the store, or leaves the tables alone.                               *)
(***************************************************************************)

LEMMA ServiceSteps ==
    ASSUME ControlInv, [ControlNext]_controlVars
    PROVE  Next \/ UNCHANGED tables
<1>0. clock \in Times
  BY DEF ControlInv, ServiceTypeOK
<1>1. CASE UNCHANGED controlVars
  BY <1>1 DEF controlVars, vars, tables
<1>2. CASE Tick
  BY <1>2 DEF Tick, vars, tables
<1>3. ASSUME NEW r \in Submissions, Submit(r) PROVE Next
  <2>1. r \in Requests /\ CreateEvaluation(r, clock)
    BY <1>3, SubmissionsAssumption DEF Submit
  <2> QED BY <1>0, <2>1 DEF Next
<1>4. ASSUME NEW key \in ResultKeys, NEW e \in Evaluations, Stored(e),
             Cancel(key, e, ResultOf(evaluations[e].current, "cancelled"))
      PROVE  Next
  <2>1. PICK result \in Results : result = ResultOf(evaluations[e].current, "cancelled")
    BY <1>4, CurrentTyped, ResultTyped DEF ControlInv, TerminalStates
  <2>2. CancelEvaluation(key, e, result, clock)
    BY <1>4, <2>1 DEF Cancel
  <2> QED BY <1>0, <2>2 DEF Next
<1>5. ASSUME NEW c \in Calls,
             \/ \E node \in Nodes, op \in Operations, declared \in SUBSET Capabilities,
                   token \in Tokens : StartClaim(c, node, op, declared, token)
             \/ ReplayClaim(c)
             \/ \E own \in granted, g \in granted :
                   StartRenew(c, own.node, attempts[g.attempt].request.evaluation, g.attempt,
                              own.token)
             \/ \E own \in granted, g \in granted :
                   \E key \in ResultKeys, status \in {"completed", "failed"}, author \in Nodes :
                      StartSubmit(c, own.node, author, key, own.token,
                                  ResultOf(g.attempt, status))
             \/ ReadOwner(c)
      PROVE  UNCHANGED tables
  BY <1>5 DEF StartClaim, ReplayClaim, StartRenew, StartSubmit, ReadOwner
<1>6. ASSUME NEW c \in Calls, NEW locked \in SUBSET {a \in Attempts : tasks[a] = "ready"},
             FinishClaim(c, locked)
      PROVE  Next
  <2>1. Claims(c) /\ ClaimTask(calls[c].node, calls[c].token, calls[c].op, calls[c].declared,
                               locked, calls[c].now)
    BY <1>6 DEF FinishClaim, Claims
  <2>2. /\ calls[c].node \in Nodes /\ calls[c].op \in Operations /\ calls[c].token \in Tokens
        /\ calls[c].now \in Times /\ calls[c].declared \in SUBSET Capabilities
    BY <2>1, ClaimCallTyped DEF ControlInv, ClaimCalls
  <2> QED BY <2>1, <2>2 DEF Next
<1>7. ASSUME NEW c \in Calls, FinishRenew(c) PROVE Next
  <2>1. /\ calls[c].node \in Nodes /\ calls[c].evaluation \in Evaluations
        /\ calls[c].attempt \in Attempts /\ calls[c].token \in Tokens
        /\ calls[c].now \in Times
    BY <1>7, RenewCallTyped DEF ControlInv, FinishRenew
  <2> QED BY <1>7, <2>1 DEF Next, FinishRenew
<1>8. ASSUME NEW c \in Calls, FinishSubmit(c) PROVE Next
  <2>1. /\ calls[c].key \in ResultKeys /\ calls[c].token \in Tokens
        /\ calls[c].result \in Results /\ calls[c].now \in Times
    BY <1>8, SubmitCallTyped DEF ControlInv, FinishSubmit, Submits
  <2> QED BY <1>8, <2>1 DEF Next, FinishSubmit
<1>9. ASSUME NEW s \in Sweepers, StartSweep(s) \/ \E a \in Attempts, key \in Keys : Scan(s, a, key)
      PROVE  UNCHANGED tables
  BY <1>9 DEF StartSweep, Scan, vars, tables
<1>10. ASSUME NEW s \in Sweepers, Retry(s) PROVE Next
  <2>1. sweeps[s].request \in Requests /\ sweeps[s].now \in Times
    BY <1>10, RetriesTyped DEF ControlInv, Retry, Retries
  <2> QED BY <1>10, <2>1 DEF Next, Retry
<1> QED BY <1>1, <1>2, <1>3, <1>4, <1>5, <1>6, <1>7, <1>8, <1>9, <1>10 DEF ControlNext

\* Under the service too the first terminal write is the last one.
THEOREM ServiceKeepsVerdicts == ControlSpec => TerminalIsFinal
<1>1. ControlInv /\ [ControlNext]_controlVars =>
         [\A e \in Evaluations : evaluations[e].state \in TerminalStates => Frozen(e)]_vars
  <2> SUFFICES ASSUME ControlInv, [ControlNext]_controlVars, NEW e \in Evaluations,
                      evaluations[e].state \in TerminalStates
               PROVE  Frozen(e)
    OBVIOUS
  <2>1. CASE Next
    BY <2>1, NextFrozen DEF ControlInv
  <2>2. CASE UNCHANGED tables
    BY <2>2 DEF tables, Frozen, AttemptsOf
  <2> QED BY <2>1, <2>2, ServiceSteps
<1> QED BY <1>1, ControlInvariance, PTL DEF ControlSpec, TerminalIsFinal

\* Under the service too an attempt is leased at most once.
THEOREM ServiceLeasesOnce == ControlSpec => LeasedOnce
<1>1. ControlInv /\ [ControlNext]_controlVars =>
         [\A a \in Attempts : attempts[a].state # "absent" => HolderKept(a)]_vars
  <2> SUFFICES ASSUME ControlInv, [ControlNext]_controlVars, NEW a \in Attempts,
                      attempts[a].state # "absent"
               PROVE  HolderKept(a)
    OBVIOUS
  <2>1. CASE Next
    BY <2>1, NextHolderKept DEF ControlInv
  <2>2. CASE UNCHANGED tables
    BY <2>2 DEF tables, HolderKept
  <2> QED BY <2>1, <2>2, ServiceSteps
<1> QED BY <1>1, ControlInvariance, PTL DEF ControlSpec, LeasedOnce

\* The service, too, implements the lifecycle of the domain.
THEOREM ServiceImplementsLifecycle == ControlSpec => ImplementsLifecycle
<1>1. ControlInit => Lifecycle!Init
  BY DEF ControlInit, Init, Lifecycle!Init, AbsentEvaluation, AbsentAttempt
<1>2. ControlInv /\ [ControlNext]_controlVars => [Lifecycle!Next]_(Lifecycle!lifecycleVars)
  <2> SUFFICES ASSUME ControlInv, [ControlNext]_controlVars
               PROVE  [Lifecycle!Next]_(Lifecycle!lifecycleVars)
    OBVIOUS
  <2>1. CASE Next
    BY <2>1, NextMaps DEF ControlInv
  <2>2. CASE UNCHANGED tables
    BY <2>2, Stutter DEF tables
  <2> QED BY <2>1, <2>2, ServiceSteps
<1> QED BY <1>1, <1>2, ControlInvariance, PTL DEF ControlSpec, ImplementsLifecycle, Lifecycle!Spec

-----------------------------------------------------------------------------
(***************************************************************************)
(* The sweepers' promises.                                                 *)
(***************************************************************************)

\* Of the store's transactions only the retry expires an attempt: the one that
\* was current, when its lease had run out at the time the retry was given.
LEMMA RetryExpires ==
    ASSUME IInv, NEW r \in Requests, NEW now \in Times, RetryExpired(r, now),
           NEW a \in Attempts, attempts[a].state = "leased", attempts'[a].state = "expired"
    PROVE  attempts[a].expires < now
<1>1. RetryOutcome(r, now) = "Ok"
  BY DEF RetryExpired
<1>2. Stored(r.evaluation)
  BY <1>1 DEF RetryOutcome
<1>3. PICK e \in Evaluations, new \in Attempts, old \in Attempts :
          e = r.evaluation /\ new = r.attempt /\ old = evaluations[e].current
  BY <1>2 DEF Requests, IInv, TypeOK, Stored
<1>4. /\ attempts'[new] = InsertedAttempt(r, now)
      /\ \A b \in Attempts \ {old, new} : attempts'[b] = attempts[b]
  BY <1>1, <1>3, RetryEffect
<1>5. a = old
  BY <1>4, InsertedRowsTyped
<1>6. ~LeaseRuns(e, now)
  BY <1>1, <1>3 DEF RetryOutcome, RetryCheck
<1>7. attempts[a].expires \in Times
  BY DEF IInv, TypeOK, AttemptRows, Safety, LeaseBeforeResult
<1> QED BY <1>3, <1>5, <1>6, <1>7 DEF LeaseRuns, Times

LEMMA OnlyRetryExpires ==
    ASSUME ControlInv, [ControlNext]_controlVars, NEW a \in Attempts,
           attempts[a].state = "leased", attempts'[a].state = "expired"
    PROVE  \E s \in Sweepers : Retry(s)
<1>0. IInv /\ attempts'[a] # attempts[a]
  BY DEF ControlInv
<1>1. ASSUME NEW r \in Requests, NEW now \in Times, CreateEvaluation(r, now) PROVE FALSE
  <2>1. CASE CreateOutcome(r) = "Ok"
    BY <1>0, <1>1, <2>1, CreateEffect
  <2> QED BY <1>0, <1>1, <2>1 DEF CreateEvaluation, tables
<1>2. ASSUME NEW node \in Nodes, NEW token \in Tokens, NEW op \in Operations \cup {Null},
             NEW declared, NEW locked, NEW now \in Times,
             ClaimTask(node, token, op, declared, locked, now)
      PROVE  FALSE
  <2>1. CASE UNCHANGED tables
    BY <1>0, <2>1 DEF tables
  <2>2. ASSUME NEW b \in Attempts, Claimable(b, declared),
               \A d \in Attempts \ {b} : attempts'[d] = attempts[d]
        PROVE  FALSE
    BY <1>0, <2>2 DEF Claimable
  <2> QED BY <1>0, <1>2, <2>1, <2>2, ClaimEffect
<1>3. ASSUME NEW node, NEW e \in Evaluations, NEW b \in Attempts, NEW token, NEW now,
             RenewLease(node, e, b, token, now)
      PROVE  FALSE
  BY <1>0, <1>3 DEF RenewLease, IInv, TypeOK, AttemptRows
<1>4. ASSUME NEW key, NEW result \in Results, WriteTerminal(key, result) PROVE FALSE
  BY <1>0, <1>4 DEF WriteTerminal, IInv, TypeOK, AttemptRows, Results, TerminalStates
<1>5. ASSUME NEW key, NEW token, NEW result \in Results, NEW now, SubmitResult(key, token, result, now)
      PROVE  FALSE
  BY <1>0, <1>4, <1>5 DEF SubmitResult
<1>6. ASSUME NEW key, NEW e, NEW result \in Results, NEW now, CancelEvaluation(key, e, result, now)
      PROVE  FALSE
  BY <1>0, <1>4, <1>6 DEF CancelEvaluation
<1>7. ~UNCHANGED tables
  BY <1>0 DEF tables
<1>8. ~UNCHANGED controlVars /\ ~Tick
  BY <1>7 DEF controlVars, vars, tables, Tick
<1>9. ASSUME NEW r \in Submissions, Submit(r) PROVE FALSE
  BY <1>1, <1>9, SubmissionsAssumption DEF Submit, ControlInv, ServiceTypeOK
<1>10. ASSUME NEW key \in ResultKeys, NEW e \in Evaluations, Stored(e),
              Cancel(key, e, ResultOf(evaluations[e].current, "cancelled"))
       PROVE  FALSE
  <2>1. ResultOf(evaluations[e].current, "cancelled") \in Results
    BY <1>10, CurrentTyped, ResultTyped DEF ControlInv, TerminalStates
  <2> QED BY <1>6, <1>10, <2>1 DEF Cancel
<1>11. ASSUME NEW c \in Calls,
             \/ \E node \in Nodes, op \in Operations, declared \in SUBSET Capabilities,
                   token \in Tokens : StartClaim(c, node, op, declared, token)
             \/ ReplayClaim(c)
             \/ \E own \in granted, g \in granted :
                   StartRenew(c, own.node, attempts[g.attempt].request.evaluation, g.attempt,
                              own.token)
             \/ \E own \in granted, g \in granted :
                   \E key \in ResultKeys, status \in {"completed", "failed"}, author \in Nodes :
                      StartSubmit(c, own.node, author, key, own.token,
                                  ResultOf(g.attempt, status))
             \/ ReadOwner(c)
      PROVE  FALSE
  BY <1>7, <1>11 DEF StartClaim, ReplayClaim, StartRenew, StartSubmit, ReadOwner
<1>12. ASSUME NEW c \in Calls, NEW locked, FinishClaim(c, locked) PROVE FALSE
  BY <1>2, <1>12, ClaimCallTyped DEF FinishClaim, Claims, ControlInv
<1>13. ASSUME NEW c \in Calls, FinishRenew(c) PROVE FALSE
  BY <1>3, <1>13, RenewCallTyped DEF FinishRenew, ControlInv
<1>14. ASSUME NEW c \in Calls, FinishSubmit(c) PROVE FALSE
  BY <1>5, <1>14, SubmitCallTyped DEF FinishSubmit, Submits, ControlInv
<1>15. ASSUME NEW s \in Sweepers, StartSweep(s) \/ \E b \in Attempts, key \in Keys : Scan(s, b, key)
      PROVE  FALSE
  BY <1>7, <1>15 DEF StartSweep, Scan, vars, tables
<1> QED BY <1>8, <1>9, <1>10, <1>11, <1>12, <1>13, <1>14, <1>15 DEF ControlNext

LEMMA ExpiryStep ==
    ControlInv /\ [ControlNext]_controlVars =>
        [\A a \in Attempts : attempts[a].state = "leased" /\ attempts'[a].state = "expired"
             => attempts[a].expires < clock]_controlVars
<1> SUFFICES ASSUME ControlInv, [ControlNext]_controlVars, NEW a \in Attempts,
                    attempts[a].state = "leased", attempts'[a].state = "expired"
             PROVE  attempts[a].expires < clock
  OBVIOUS
<1>1. PICK s \in Sweepers : Retry(s)
  BY OnlyRetryExpires
<1>2. /\ Retries(s) /\ sweeps[s] # Idle
      /\ RetryExpired(sweeps[s].request, sweeps[s].now)
  BY <1>1 DEF Retry, Retries, Idle
<1>3. sweeps[s].request \in Requests /\ sweeps[s].now \in Times
  BY <1>2, RetriesTyped DEF ControlInv
<1>4. attempts[a].expires < sweeps[s].now
  BY <1>2, <1>3, RetryExpires DEF ControlInv
<1>5. sweeps[s].now <= clock
  BY <1>2 DEF ControlInv, SweepsFollow
<1>6. attempts[a].expires \in Times /\ clock \in Times
  BY DEF ControlInv, ServiceTypeOK, IInv, TypeOK, AttemptRows, Safety, LeaseBeforeResult
<1> QED BY <1>3, <1>4, <1>5, <1>6 DEF Times

\* A lease is only taken from its holder once it has run out on the clock.
THEOREM ExpiredLeaseRanOut == ControlSpec => ExpiryIsReal
BY ExpiryStep, ControlInvariance, PTL DEF ControlSpec, ExpiryIsReal

\* A sweeper only leaves the retry of a row by that retry.
LEMMA RetryEnds ==
    ASSUME ControlInv, [ControlNext]_controlVars, NEW s \in Sweepers,
           sweeps[s].phase = "retry", sweeps'[s].phase = "scan"
    PROVE  Retry(s)
<1>0. sweeps'[s] # sweeps[s] /\ sweeps \in [Sweepers -> Sweeps]
  BY DEF ControlInv, ServiceTypeOK
<1>1. ASSUME NEW t \in Sweepers, NEW sweep, sweeps' = [sweeps EXCEPT ![t] = sweep] PROVE t = s
  BY <1>0, <1>1
<1>2. ASSUME NEW t \in Sweepers, StartSweep(t) PROVE FALSE
  BY <1>1, <1>2 DEF StartSweep
<1>3. ASSUME NEW t \in Sweepers, NEW a \in Attempts, NEW key \in Keys, Scan(t, a, key) PROVE FALSE
  BY <1>1, <1>3 DEF Scan
<1>4. ASSUME NEW t \in Sweepers, Retry(t) PROVE Retry(s)
  BY <1>1, <1>4 DEF Retry
<1>5. sweeps' # sweeps
  BY <1>0
<1>6. ~UNCHANGED controlVars /\ ~Tick
  BY <1>5 DEF controlVars, service, Tick
<1>7. /\ \A r \in Submissions : ~Submit(r)
      /\ \A key \in ResultKeys, e \in Evaluations :
            ~Cancel(key, e, ResultOf(evaluations[e].current, "cancelled"))
  BY <1>5 DEF Submit, Cancel, service
<1>8. \A c \in Calls :
        /\ \A node \in Nodes, op \in Operations, declared \in SUBSET Capabilities,
              token \in Tokens : ~StartClaim(c, node, op, declared, token)
        /\ ~ReplayClaim(c)
        /\ \A locked \in SUBSET {a \in Attempts : tasks[a] = "ready"} : ~FinishClaim(c, locked)
  BY <1>5 DEF StartClaim, ReplayClaim, FinishClaim
<1>9. \A c \in Calls : ~FinishRenew(c) /\ ~ReadOwner(c) /\ ~FinishSubmit(c)
  BY <1>5 DEF FinishRenew, ReadOwner, FinishSubmit
<1>10. \A c \in Calls : \A own \in granted, g \in granted :
        /\ ~StartRenew(c, own.node, attempts[g.attempt].request.evaluation, g.attempt, own.token)
        /\ \A key \in ResultKeys, status \in {"completed", "failed"}, author \in Nodes :
              ~StartSubmit(c, own.node, author, key, own.token, ResultOf(g.attempt, status))
  BY <1>5 DEF StartRenew, StartSubmit
<1> QED BY <1>2, <1>3, <1>4, <1>6, <1>7, <1>8, <1>9, <1>10 DEF ControlNext

\* Why the retry of a row that is still expired is skipped: its number does
\* not follow, because another sweeper has replaced the attempt.
LEMMA SkippedMoved ==
    ASSUME IInv, NEW e \in Evaluations, NEW r \in Requests, NEW now \in Times, r.evaluation = e,
           Stored(e), SameSemantics(evaluations[e].request, r),
           r.number <= attempts[evaluations[e].current].request.number + 1,
           attempts[r.attempt].state = "absent",
           RetryOutcome(r, now) \in {"Replayed"} \cup Skipped, e \in Expired(now)
    PROVE  attempts[evaluations[e].current].request.number >= r.number
<1>1. PICK current \in Attempts : current = evaluations[e].current
  BY CurrentTyped
<1>2. /\ evaluations[e].state = "leased" /\ attempts[current].state = "leased"
      /\ attempts[current].expires < now
  BY <1>1 DEF Expired
<1>3. /\ attempts[current].request \in Requests /\ attempts[current].request.number \in Nat
      /\ r.number \in Nat
  BY <1>1, CurrentTyped DEF Requests, AttemptNumbers
<1>4. attempts[current].expires \in Times
  BY <1>1, <1>2 DEF IInv, TypeOK, AttemptRows, Safety, LeaseBeforeResult
<1>5. ~LeaseRuns(e, now)
  BY <1>1, <1>2, <1>4 DEF LeaseRuns, Times
<1>6. attempts[current].request.evaluation = e
  BY <1>1 DEF IInv, Safety, RowsAgree, RowAgrees
<1>7. SameSemantics(attempts[current].request, r)
  <2>1. SameSemantics(evaluations[e].request, attempts[current].request)
    BY <1>2, <1>6 DEF IInv, Safety, ReferencesAgree
  <2> QED BY <2>1 DEF SameSemantics
<1>8. ASSUME NumberFollows(e, r) PROVE FALSE
  <2>1. RetryCheck(r, now) \in {"Unavailable", "Ok"}
    BY <1>1, <1>2, <1>5, <1>7, <1>8 DEF RetryCheck
  <2>2. AttemptTaken(r)
    BY <2>1 DEF RetryOutcome, Skipped
  <2>3. PICK b \in Attempts : /\ attempts[b].state # "absent"
                              /\ attempts[b].request.evaluation = e
                              /\ attempts[b].request.number = r.number
    BY <2>2 DEF AttemptTaken
  <2>4. r.number = attempts[current].request.number + 1
    BY <1>1, <1>8 DEF NumberFollows
  <2>5. b # current
    BY <1>3, <2>3, <2>4
  <2>6. attempts[b].request.number < attempts[current].request.number
    BY <1>1, <2>3, <2>5 DEF IInv, Safety, AttemptHistory, History
  <2> QED BY <1>3, <2>3, <2>4, <2>6
<1>9. r.number # attempts[current].request.number + 1
  BY <1>1, <1>8 DEF NumberFollows
<1> QED BY <1>1, <1>3, <1>9

LEMMA SkipStep ==
    ControlInv /\ [ControlNext]_controlVars =>
        [\A s \in Sweepers :
          /\ sweeps[s].phase = "retry"
          /\ sweeps'[s].phase = "scan"
          => \A e \in Expired(sweeps[s].now)' :
                \/ e # sweeps[s].request.evaluation
                \/ attempts[evaluations[e].current].request.number
                      >= sweeps[s].request.number]_controlVars
<1> SUFFICES ASSUME ControlInv, [ControlNext]_controlVars, NEW s \in Sweepers,
                    sweeps[s].phase = "retry", sweeps'[s].phase = "scan",
                    NEW e \in Expired(sweeps[s].now)', e = sweeps[s].request.evaluation
             PROVE  attempts[evaluations[e].current].request.number >= sweeps[s].request.number
  OBVIOUS
<1>1. Retry(s) /\ Retries(s)
  BY RetryEnds DEF Retries
<1>2. PICK r \in Requests, now \in Times : r = sweeps[s].request /\ now = sweeps[s].now
  BY <1>1, RetriesTyped DEF ControlInv
<1>3. RetryExpired(r, now) /\ e \in Evaluations /\ r.evaluation = e
  BY <1>1, <1>2 DEF Retry, Requests
<1>4. sweeps'[s].now = now
  BY <1>1, <1>2 DEF Retry, Idle, ControlInv, ServiceTypeOK
<1>5. e \in Expired(now)'
  BY <1>4 DEF Expired
<1>6. /\ Stored(e) /\ SameSemantics(evaluations[e].request, r)
      /\ r.number <= attempts[evaluations[e].current].request.number + 1
      /\ attempts[r.attempt].state = "absent"
  BY <1>1, <1>2, <1>3 DEF ControlInv, SweepsFollow
<1>7. RetryOutcome(r, now) \in {"Ok", "Replayed"} \cup Skipped
  <2>1. reply'.outcome = RetryOutcome(r, now)
    BY <1>3 DEF RetryExpired, Reply
  <2> QED BY <1>1, <2>1 DEF Retry, Idle, ControlInv, ServiceTypeOK
<1>8. CASE RetryOutcome(r, now) = "Ok"
  <2>1. PICK old \in Attempts, new \in Attempts : old = evaluations[e].current /\ new = r.attempt
    BY <1>3, <1>6, CurrentTyped DEF ControlInv, Requests
  <2>2. evaluations'[e].state = "queued"
    BY <1>3, <1>8, <2>1, RetryEffect DEF ControlInv
  <2> QED BY <1>5, <2>2 DEF Expired
<1>9. CASE RetryOutcome(r, now) # "Ok"
  <2>1. evaluations' = evaluations /\ attempts' = attempts
    BY <1>3, <1>9 DEF RetryExpired
  <2>2. e \in Expired(now)
    BY <1>5, <2>1 DEF Expired
  <2> QED BY <1>2, <1>3, <1>6, <1>7, <1>9, <2>2, SkippedMoved DEF ControlInv
<1> QED BY <1>8, <1>9

\* A pass of recover_expired cannot come back to a row it has skipped.
THEOREM SkippedRowMoved == ControlSpec => SkipMeansMoved
BY SkipStep, ControlInvariance, PTL DEF ControlSpec, SkipMeansMoved

-----------------------------------------------------------------------------
(***************************************************************************)
(* The closed system: node processes that claim, renew, execute and        *)
(* submit, exit on errors and crash, and handlers that are dropped when    *)
(* their caller is gone.                                                   *)
(***************************************************************************)

\* What a worker is between two steps, once it has a lease and before.
LeasePhases == {"leased", "renewing", "executing", "executed", "submitting"}
LeasedWorkers == [phase : LeasePhases, call : Calls, attempt : Attempts, token : Tokens,
                  status : {"absent", "completed", "failed"}]
WorkerStates == {Exited, Ready} \cup [phase : {"claiming"}, call : Calls] \cup LeasedWorkers

Holding(n) == workers[n].phase \in LeasePhases

\* The call that worker n waits for is its own.
AwaitsOwn(n) ==
    \A c \in Calls : Waiting(n, c) =>
        /\ calls[c].node = n
        /\ workers[n].phase = "claiming" => Claims(c)
        /\ workers[n].phase = "renewing" => calls[c].phase = "renew"
        /\ workers[n].phase = "submitting" => Submits(c)

\* The lease that worker n thinks it has is one that it was granted.
HoldsGranted(n) ==
    Holding(n) => \E g \in granted : /\ g.node = n /\ g.attempt = workers[n].attempt
                                     /\ g.token = workers[n].token

HasResult(n) ==
    workers[n].phase \in {"executed", "submitting"} => workers[n].status \in {"completed", "failed"}

WorkerOK(n) ==
    /\ workers[n].phase # "exited" => n \in DOMAIN Policy
    /\ AwaitsOwn(n) /\ HoldsGranted(n) /\ HasResult(n)

\* No two claims, and no claim and no row, have the same operation id: a
\* worker draws a new one for every claim.
OperationsAreFresh ==
    \A c \in Calls : Claims(c) =>
        /\ \A a \in Attempts : attempts[a].operation # calls[c].op
        /\ \A d \in Calls : Claims(d) /\ d # c => calls[d].op # calls[c].op

(***************************************************************************)
(* The inductive invariant of the closed system: that of the service, and  *)
(* what a worker believes of its call and of its lease is so.              *)
(***************************************************************************)
SystemInv ==
    /\ ControlInv /\ OperationsAreFresh
    /\ workers \in [Nodes -> WorkerStates]
    /\ \A n \in Nodes : WorkerOK(n)

\* No two processes work on one attempt at the same time.
OneWorkerPerAttempt ==
    \A n, m \in Nodes :
        Holding(n) /\ Holding(m) /\ workers[n].attempt = workers[m].attempt => n = m


\* A renewal or a submission under way is for the lease of its caller, and no
\* row that it names is younger than it is.
NamesOwnLease(c) ==
    \E g \in granted :
        /\ g.node = calls[c].node /\ g.token = calls[c].token
        /\ calls[c].phase = "renew" =>
              /\ g.attempt = calls[c].attempt
              /\ calls[c].evaluation = attempts[g.attempt].request.evaluation
        /\ Submits(c) =>
              /\ g.attempt = calls[c].result.attempt
              /\ IdentityMatches(attempts[g.attempt].request, calls[c].result)
        /\ attempts[g.attempt].created <= calls[c].now
        /\ evaluations[attempts[g.attempt].request.evaluation].created <= calls[c].now

KeyIsFresh(c) ==
    /\ \A e \in Evaluations : evaluations[e].result_key # calls[c].key
    /\ \A d \in Calls : Submits(d) /\ d # c => calls[d].key # calls[c].key

NoRowFromFuture ==
    /\ \A e \in Evaluations : Stored(e) => evaluations[e].created <= clock
    /\ \A a \in Attempts : attempts[a].state # "absent" => attempts[a].created <= clock

RowsNameThemselves ==
    \A a \in Attempts : attempts[a].state # "absent" => attempts[a].request.attempt = a

\* What the answers to workers rest on, beside SystemInv.
AnswerInv ==
    /\ NoRowFromFuture /\ RowsNameThemselves
    /\ \A c \in Calls : calls[c].phase = "renew" \/ Submits(c) => NamesOwnLease(c)
    /\ \A c \in Calls : Submits(c) => KeyIsFresh(c)

\* What each call of a worker may be answered.
Answers(phase) ==
    IF phase = "claiming" THEN {"Ok", "NoTaskAvailable", "InvalidTime", "Unavailable"} ELSE
    IF phase = "renewing" THEN {"Continue", "Cancel", "StaleLease", "InvalidTime", "CorruptData"}
    ELSE {"Ok", "StaleLease", "TerminalConflict", "Unavailable"}

\* No worker is ever told that it is not permitted, that another has its key
\* or its operation, or that its result is not of its attempt.
WorkersAreAnswered ==
    [][\A n \in Nodes, c \in Calls :
          Waiting(n, c) /\ calls'[c].phase = "idle" /\ calls[c].phase # "idle"
          => reply'.outcome \in Answers(workers[n].phase)]_systemVars


-----------------------------------------------------------------------------
(***************************************************************************)
(* SystemInv is inductive.                                                 *)
(***************************************************************************)

LEMMA SystemInitInv == SystemInit => SystemInv
<1> SUFFICES ASSUME SystemInit PROVE SystemInv
  OBVIOUS
<1>1. ControlInv
  BY ControlInitInv DEF SystemInit
<1>2. OperationsAreFresh
  BY DEF SystemInit, ControlInit, OperationsAreFresh, Claims, Idle
<1>3. workers \in [Nodes -> WorkerStates] /\ \A n \in Nodes : workers[n].phase = "exited"
  BY DEF SystemInit, WorkerStates, Exited
<1>4. \A n \in Nodes : WorkerOK(n)
  BY <1>3 DEF WorkerOK, AwaitsOwn, HoldsGranted, HasResult, Waiting, Holding, LeasePhases
<1> QED BY <1>1, <1>2, <1>3, <1>4 DEF SystemInv

\* A worker that does nothing, while the call it waits for does not end.
LEMMA WorkerStays ==
    ASSUME SystemInv, NEW n \in Nodes, workers'[n] = workers[n], granted \subseteq granted',
           \A c \in Calls : Waiting(n, c) => calls'[c] = calls[c]
    PROVE  WorkerOK(n)'
<1>1. WorkerOK(n)
  BY DEF SystemInv
<1>2. AwaitsOwn(n)'
  BY <1>1 DEF WorkerOK, AwaitsOwn, Waiting, Claims, Submits
<1>3. HoldsGranted(n)'
  BY <1>1 DEF WorkerOK, HoldsGranted, Holding
<1> QED BY <1>1, <1>2, <1>3 DEF WorkerOK, HasResult

LEMMA OperationsStay ==
    ASSUME SystemInv, \A a \in Attempts : attempts'[a].operation = attempts[a].operation,
           \A c \in Calls : Claims(c)' => Claims(c) /\ calls'[c].op = calls[c].op
    PROVE  OperationsAreFresh'
BY DEF SystemInv, OperationsAreFresh

\* A step in which neither a worker nor a handler takes part.
LEMMA OthersStep ==
    ASSUME SystemInv, ControlInv', HoldersKept, UNCHANGED <<calls, granted, workers>>
    PROVE  SystemInv'
<1>1. \A n \in Nodes : WorkerOK(n)'
  BY WorkerStays
<1>2. OperationsAreFresh'
  BY OperationsStay DEF HoldersKept, Claims
<1> QED BY <1>1, <1>2 DEF SystemInv

LEMMA LeaseTickInv ==
    ASSUME SystemInv, LeaseTick, UNCHANGED workers
    PROVE  SystemInv'
<1>1. Tick /\ UNCHANGED <<calls, granted>> /\ UNCHANGED tables
  BY DEF LeaseTick, Tick, vars, tables
<1> QED BY <1>1, TickInv, NothingKeepsAll, OthersStep DEF SystemInv, ControlInv

LEMMA EnvironmentInv ==
    ASSUME SystemInv, Environment
    PROVE  SystemInv'
<1>0. ControlInv /\ clock \in Times /\ UNCHANGED workers
  BY DEF SystemInv, ControlInv, ServiceTypeOK, Environment
<1>1. ASSUME NEW r \in Submissions, Submit(r) PROVE SystemInv'
  <2>1. CreateEvaluation(r, clock) /\ UNCHANGED <<calls, granted>> /\ r \in Requests
    BY <1>1, SubmissionsAssumption DEF Submit, service
  <2>2. HoldersKept
    BY <1>0, <2>1, CreateKeeps DEF ControlInv
  <2> QED BY <1>0, <1>1, <2>1, <2>2, SubmitInvC, OthersStep
<1>2. ASSUME NEW e \in Evaluations, Stored(e), FreshResultKeys # {},
             Cancel(AnyOf(FreshResultKeys), e, ResultOf(evaluations[e].current, "cancelled"))
      PROVE  SystemInv'
  <2>1. PICK key \in ResultKeys : key = AnyOf(FreshResultKeys)
    BY <1>2 DEF AnyOf, FreshResultKeys
  <2>2. PICK result \in Results : result = ResultOf(evaluations[e].current, "cancelled")
    BY <1>0, <1>2, CurrentTyped, ResultTyped DEF ControlInv, TerminalStates
  <2>3. CancelEvaluation(key, e, result, clock) /\ UNCHANGED <<calls, granted>>
    BY <1>2, <2>1, <2>2 DEF Cancel, service
  <2>4. HoldersKept
    BY <1>0, <2>3, CancelKeeps DEF ControlInv
  <2>5. ControlInv'
    BY <1>0, <1>2, <2>1, CancelInvC
  <2> QED BY <1>0, <2>3, <2>4, <2>5, OthersStep
<1> QED BY <1>1, <1>2 DEF Environment


LEMMA SweepInv ==
    ASSUME SystemInv, NEW s \in Sweepers, Sweep(s)
    PROVE  SystemInv'
<1>0. ControlInv /\ UNCHANGED workers
  BY DEF SystemInv, Sweep
<1>1. CASE StartSweep(s)
  <2>1. UNCHANGED <<calls, granted>> /\ UNCHANGED tables
    BY <1>1 DEF StartSweep, vars, tables
  <2> QED BY <1>0, <1>1, <2>1, StartSweepInv, NothingKeepsAll, OthersStep DEF ControlInv
<1>2. ASSUME NEW a \in Attempts, NEW key \in Keys, Scan(s, a, key) PROVE SystemInv'
  <2>1. UNCHANGED <<calls, granted>> /\ UNCHANGED tables
    BY <1>2 DEF Scan, vars, tables
  <2> QED BY <1>0, <1>2, <2>1, ScanInv, NothingKeepsAll, OthersStep DEF ControlInv
<1>3. CASE Retry(s)
  <2>1. /\ Retries(s) /\ RetryExpired(sweeps[s].request, sweeps[s].now)
        /\ UNCHANGED <<calls, granted>>
    BY <1>3 DEF Retry, Retries
  <2>2. sweeps[s].request \in Requests /\ sweeps[s].now \in Times
    BY <1>0, <2>1, RetriesTyped DEF ControlInv
  <2>3. HoldersKept
    BY <1>0, <2>1, <2>2, RetryKeeps DEF ControlInv
  <2> QED BY <1>0, <1>3, <2>1, <2>3, RetryInvC, OthersStep
<1>4. ScanFresh(s) => \E a \in Attempts, key \in Keys : Scan(s, a, key)
  <2> DEFINE ids == {id \in Attempts \X Keys : FreshIds(id[1], id[2])}
  <2>1. ids # {} => AnyOf(ids) \in Attempts \X Keys
    BY DEF AnyOf
  <2>2. \A id \in Attempts \X Keys : id[1] \in Attempts /\ id[2] \in Keys
    OBVIOUS
  <2> QED BY <2>1, <2>2 DEF ScanFresh
<1> QED BY <1>1, <1>2, <1>3, <1>4 DEF Sweep

\* A step of worker n that makes no call.
LEMMA WorkerAlone ==
    ASSUME SystemInv, NEW n \in Nodes, NEW worker \in WorkerStates, WorkerBecomes(n, worker),
           UNCHANGED controlVars, WorkerOK(n)'
    PROVE  SystemInv'
<1>1. UNCHANGED <<calls, granted>> /\ UNCHANGED tables
  BY DEF controlVars, service, vars, tables
<1>2. ControlInv'
  BY ControlNextInv DEF SystemInv
<1>3. /\ workers' \in [Nodes -> WorkerStates] /\ workers'[n] = worker
      /\ \A m \in Nodes \ {n} : workers'[m] = workers[m]
  BY DEF SystemInv, WorkerBecomes
<1>4. \A m \in Nodes : WorkerOK(m)'
  BY <1>1, <1>3, WorkerStays
<1>5. OperationsAreFresh'
  BY <1>1, OperationsStay DEF Claims, tables
<1> QED BY <1>2, <1>3, <1>4, <1>5 DEF SystemInv

\* A worker that holds nothing and waits for nothing.
LEMMA RestingWorker ==
    ASSUME NEW n \in Nodes, workers'[n] = Exited \/ (workers'[n] = Ready /\ n \in DOMAIN Policy)
    PROVE  WorkerOK(n)'
<1>1. workers'[n].phase \in {"exited", "ready"} /\ (workers'[n].phase # "exited" => n \in DOMAIN Policy)
  BY DEF Exited, Ready
<1> QED BY <1>1 DEF WorkerOK, AwaitsOwn, HoldsGranted, HasResult, Waiting, Holding, LeasePhases

LEMMA ConnectInv ==
    ASSUME SystemInv, NEW n \in Nodes, NEW declared, Connect(n, declared)
    PROVE  SystemInv'
<1>1. WorkerBecomes(n, Ready) /\ UNCHANGED controlVars /\ n \in DOMAIN Policy
  BY DEF Connect, Authorized
<1>2. workers'[n] = Ready
  BY <1>1 DEF WorkerBecomes, SystemInv
<1> QED BY <1>1, <1>2, RestingWorker, WorkerAlone DEF WorkerStates

LEMMA CrashInv ==
    ASSUME SystemInv, NEW n \in Nodes, Crash(n)
    PROVE  SystemInv'
<1>1. WorkerBecomes(n, Exited) /\ UNCHANGED controlVars
  BY DEF Crash
<1>2. workers'[n] = Exited
  BY <1>1 DEF WorkerBecomes, SystemInv
<1> QED BY <1>1, <1>2, RestingWorker, WorkerAlone DEF WorkerStates

LEMMA LeasedWorkerTyped ==
    ASSUME SystemInv, NEW n \in Nodes, Holding(n)
    PROVE  /\ workers[n] \in LeasedWorkers
           /\ workers[n].attempt \in Attempts /\ workers[n].token \in Tokens
           /\ n \in DOMAIN Policy
<1>1. workers[n] \in WorkerStates /\ n \in DOMAIN Policy
  BY DEF SystemInv, WorkerOK, Holding, LeasePhases
<1>2. workers[n] \in LeasedWorkers
  BY <1>1 DEF WorkerStates, Holding, Exited, Ready, LeasePhases
<1> QED BY <1>1, <1>2 DEF LeasedWorkers

LEMMA ExecuteInv ==
    ASSUME SystemInv, NEW n \in Nodes, Execute(n)
    PROVE  SystemInv'
<1>0. UNCHANGED controlVars /\ granted' = granted /\ Holding(n) /\ WorkerOK(n)
  BY DEF Execute, SystemInv, Holding, LeasePhases, controlVars, service
<1>1. CASE WorkerBecomes(n, Exited)
  <2>1. workers'[n] = Exited
    BY <1>1 DEF WorkerBecomes, SystemInv
  <2> QED BY <1>0, <1>1, <2>1, RestingWorker, WorkerAlone DEF WorkerStates
<1>2. ASSUME NEW status \in {"completed", "failed"},
             WorkerBecomes(n, [workers[n] EXCEPT !.phase = "executed", !.status = status])
      PROVE  SystemInv'
  <2>1. PICK worker : worker = [workers[n] EXCEPT !.phase = "executed", !.status = status]
    OBVIOUS
  <2>2. /\ worker \in LeasedWorkers /\ worker.phase = "executed" /\ worker.status = status
        /\ worker.attempt = workers[n].attempt /\ worker.token = workers[n].token
    BY <1>0, <2>1, LeasedWorkerTyped DEF LeasedWorkers, LeasePhases
  <2>3. workers'[n] = worker
    BY <1>2, <2>1 DEF WorkerBecomes, SystemInv
  <2>4. WorkerOK(n)'
    BY <1>0, <2>2, <2>3, LeasedWorkerTyped
    DEF WorkerOK, AwaitsOwn, HoldsGranted, HasResult, Waiting, Holding, LeasePhases
  <2> QED BY <1>0, <1>2, <2>1, <2>2, <2>4, WorkerAlone DEF WorkerStates
<1> QED BY <1>1, <1>2 DEF Execute

\* The handler of a dead caller is dropped.
LEMMA AbandonInv ==
    ASSUME SystemInv, NEW c \in Calls, Abandon(c)
    PROVE  SystemInv'
<1>1. /\ Becomes(c, Idle) /\ UNCHANGED <<clock, sweeps, granted, workers>> /\ UNCHANGED tables
      /\ reply' = reply /\ \A n \in Nodes : ~Waiting(n, c)
  BY DEF Abandon, Orphan, vars, tables
<1>2. /\ calls'[c] = Idle /\ \A d \in Calls \ {c} : calls'[d] = calls[d]
      /\ \A d \in Calls : GoesOn(d)
  BY <1>1, EndingCall, CallTyped DEF SystemInv, ControlInv, CallStates
<1>3. IInv'
  BY <1>1, QuietStore DEF SystemInv, ControlInv
<1>4. ControlInv'
  BY <1>1, <1>2, <1>3, QuietCallInv DEF SystemInv, CallStates
<1>5. \A n \in Nodes : WorkerOK(n)'
  BY <1>1, <1>2, WorkerStays
<1>6. OperationsAreFresh'
  BY <1>1, <1>2, OperationsStay DEF Claims, Idle, tables
<1> QED BY <1>1, <1>4, <1>5, <1>6 DEF SystemInv


\* Worker n makes a call, in a slot that nobody waits for.
LEMMA CallMade ==
    ASSUME SystemInv, NEW n \in Nodes, NEW c \in Calls, Free(c), NEW call \in CallStates,
           Becomes(c, call), NEW worker \in WorkerStates, WorkerBecomes(n, worker),
           UNCHANGED granted
    PROVE  /\ calls'[c] = call /\ \A d \in Calls \ {c} : calls'[d] = calls[d]
           /\ workers' \in [Nodes -> WorkerStates] /\ workers'[n] = worker
           /\ \A m \in Nodes \ {n} : WorkerOK(m)'
<1>1. calls'[c] = call /\ \A d \in Calls \ {c} : calls'[d] = calls[d]
  BY CallTyped DEF SystemInv, ControlInv
<1>2. /\ workers' \in [Nodes -> WorkerStates] /\ workers'[n] = worker
      /\ \A m \in Nodes \ {n} : workers'[m] = workers[m]
  BY DEF SystemInv, WorkerBecomes
<1>3. \A m \in Nodes : ~Waiting(m, c)
  <2> SUFFICES ASSUME NEW m \in Nodes, Waiting(m, c) PROVE FALSE
    OBVIOUS
  <2>1. AwaitsOwn(m)
    BY DEF SystemInv, WorkerOK
  <2> QED BY <2>1 DEF AwaitsOwn, Waiting, Free, Claims, Submits
<1>4. \A m \in Nodes \ {n} : WorkerOK(m)'
  BY <1>1, <1>2, <1>3, WorkerStays
<1> QED BY <1>1, <1>2, <1>4

LEMMA ClaimStepInv ==
    ASSUME SystemInv, NEW n \in Nodes, Claim(n)
    PROVE  SystemInv'
<1>0. ControlInv /\ workers[n].phase = "ready" /\ n \in DOMAIN Policy
  BY DEF SystemInv, WorkerOK, Claim
<1>1. PICK c \in Calls, op \in Operations, token \in Tokens :
         /\ Free(c) /\ op \in FreshOperations
         /\ StartClaim(c, n, op, Policy[n], token)
         /\ WorkerBecomes(n, [phase |-> "claiming", call |-> c])
  <2>1. AnyOf(FreeCalls) \in FreeCalls /\ AnyOf(FreshOperations) \in FreshOperations
        /\ AnyOf(FreshTokens) \in FreshTokens
    BY DEF Claim, AnyOf
  <2> QED BY <2>1 DEF Claim, FreeCalls, FreshOperations, FreshTokens
<1>2. Policy[n] \in SUBSET Capabilities /\ Authorized(n, Policy[n])
  BY <1>0, PolicyAssumption DEF Authorized
<1>3. ControlInv'
  BY <1>0, <1>1, <1>2, StartClaimInv
<1>4. PICK call \in CallStates :
         /\ Becomes(c, call) /\ call.phase = "claim_replay" /\ call.node = n /\ call.op = op
  <2>1. PICK call : call = [phase |-> "claim_replay", node |-> n, op |-> op, token |-> token,
                            declared |-> Policy[n], now |-> clock]
    OBVIOUS
  <2>2. call \in ClaimCalls
    BY <1>0, <1>2, <2>1 DEF ClaimCalls, ControlInv, ServiceTypeOK
  <2>3. Becomes(c, call)
    BY <1>1, <1>2, <2>1 DEF StartClaim
  <2> QED BY <2>1, <2>2, <2>3 DEF CallStates
<1>5. UNCHANGED granted /\ UNCHANGED tables
  BY <1>1 DEF StartClaim
<1>6. PICK worker \in WorkerStates : worker = [phase |-> "claiming", call |-> c]
  BY DEF WorkerStates
<1>7. /\ calls'[c] = call /\ \A d \in Calls \ {c} : calls'[d] = calls[d]
      /\ workers' \in [Nodes -> WorkerStates] /\ workers'[n] = worker
      /\ \A m \in Nodes \ {n} : WorkerOK(m)'
  BY <1>1, <1>4, <1>5, <1>6, CallMade
<1>8. WorkerOK(n)'
  BY <1>0, <1>4, <1>6, <1>7
  DEF WorkerOK, AwaitsOwn, HoldsGranted, HasResult, Waiting, Holding, LeasePhases, Claims
<1>9. OperationsAreFresh'
  <2>1. attempts' = attempts
    BY <1>5 DEF tables
  <2>2. \A d \in Calls \ {c} : (Claims(d)' <=> Claims(d)) /\ calls'[d].op = calls[d].op
    BY <1>7 DEF Claims
  <2>3. /\ \A a \in Attempts : attempts[a].operation # op
        /\ \A d \in Calls : Claims(d) => calls[d].op # op
    BY <1>1 DEF FreshOperations, Claims
  <2>4. \A d \in Calls \ {c} : Claims(d) =>
           /\ \A a \in Attempts : attempts[a].operation # calls[d].op
           /\ \A f \in Calls : Claims(f) /\ f # d => calls[f].op # calls[d].op
    BY DEF SystemInv, OperationsAreFresh
  <2> QED BY <1>4, <1>7, <2>1, <2>2, <2>3, <2>4 DEF OperationsAreFresh
<1> QED BY <1>3, <1>7, <1>8, <1>9 DEF SystemInv

\* The lease of a worker, among those that were granted.
LEMMA LeaseOfWorker ==
    ASSUME SystemInv, NEW n \in Nodes, Holding(n)
    PROVE  \E g \in granted : /\ g.node = n /\ g.attempt = workers[n].attempt
                              /\ g.token = workers[n].token
BY DEF SystemInv, WorkerOK, HoldsGranted

LEMMA RenewStepInv ==
    ASSUME SystemInv, NEW n \in Nodes, Renew(n)
    PROVE  SystemInv'
<1>0. ControlInv /\ Holding(n) /\ n \in DOMAIN Policy /\ workers[n].phase = "leased"
  BY LeasedWorkerTyped DEF SystemInv, Renew, Holding, LeasePhases
<1>1. PICK g \in granted : g.node = n /\ g.attempt = workers[n].attempt /\ g.token = workers[n].token
  BY <1>0, LeaseOfWorker
<1>2. PICK c \in Calls :
         /\ Free(c)
         /\ StartRenew(c, n, attempts[g.attempt].request.evaluation, g.attempt, g.token)
         /\ WorkerBecomes(n, [workers[n] EXCEPT !.phase = "renewing", !.call = c])
  <2>1. AnyOf(FreeCalls) \in FreeCalls
    BY DEF Renew, AnyOf
  <2> QED BY <1>1, <2>1 DEF Renew, FreeCalls
<1>3. ControlInv'
  BY <1>0, <1>1, <1>2, StartRenewInv
<1>4. PICK call \in CallStates : Becomes(c, call) /\ call.phase = "renew" /\ call.node = n
  <2>1. PICK call : call = [phase |-> "renew", node |-> n,
                            evaluation |-> attempts[g.attempt].request.evaluation,
                            attempt |-> g.attempt, token |-> g.token, now |-> clock]
    OBVIOUS
  <2>2. call \in RenewCalls
    BY <1>0, <2>1, GrantedTyped DEF RenewCalls, ControlInv, ServiceTypeOK
  <2>3. Becomes(c, call)
    BY <1>0, <1>2, <2>1 DEF StartRenew
  <2> QED BY <2>1, <2>2, <2>3 DEF CallStates
<1>5. UNCHANGED granted /\ UNCHANGED tables
  BY <1>2 DEF StartRenew
<1>6. PICK worker : worker = [workers[n] EXCEPT !.phase = "renewing", !.call = c]
  OBVIOUS
<1>7. /\ worker \in LeasedWorkers /\ worker.phase = "renewing" /\ worker.call = c
      /\ worker.attempt = workers[n].attempt /\ worker.token = workers[n].token
  BY <1>0, <1>6, LeasedWorkerTyped DEF LeasedWorkers, LeasePhases
<1>8. /\ calls'[c] = call /\ \A d \in Calls \ {c} : calls'[d] = calls[d]
      /\ workers' \in [Nodes -> WorkerStates] /\ workers'[n] = worker
      /\ \A m \in Nodes \ {n} : WorkerOK(m)'
  BY <1>2, <1>4, <1>5, <1>6, <1>7, CallMade DEF WorkerStates
<1>9. WorkerOK(n)'
  BY <1>0, <1>1, <1>4, <1>5, <1>7, <1>8
  DEF WorkerOK, AwaitsOwn, HoldsGranted, HasResult, Waiting, Holding, LeasePhases
<1>10. OperationsAreFresh'
  BY <1>4, <1>5, <1>8, OperationsStay DEF Claims, tables
<1> QED BY <1>3, <1>8, <1>9, <1>10 DEF SystemInv

LEMMA SubmitStepInv ==
    ASSUME SystemInv, NEW n \in Nodes, SubmitExecuted(n)
    PROVE  SystemInv'
<1>0. /\ ControlInv /\ Holding(n) /\ n \in DOMAIN Policy /\ workers[n].phase = "executed"
      /\ workers[n].status \in {"completed", "failed"}
  BY LeasedWorkerTyped DEF SystemInv, SubmitExecuted, Holding, LeasePhases, WorkerOK, HasResult
<1>1. PICK g \in granted : g.node = n /\ g.attempt = workers[n].attempt /\ g.token = workers[n].token
  BY <1>0, LeaseOfWorker
<1>2. PICK c \in Calls, key \in ResultKeys :
         /\ Free(c)
         /\ StartSubmit(c, n, n, key, g.token, ResultOf(g.attempt, workers[n].status))
         /\ WorkerBecomes(n, [workers[n] EXCEPT !.phase = "submitting", !.call = c])
  <2>1. AnyOf(FreeCalls) \in FreeCalls /\ AnyOf(FreshResultKeys) \in FreshResultKeys
    BY DEF SubmitExecuted, AnyOf
  <2> QED BY <1>1, <2>1 DEF SubmitExecuted, FreeCalls, FreshResultKeys
<1>3. ControlInv'
  BY <1>0, <1>1, <1>2, StartSubmitInv
<1>4. PICK call \in CallStates : Becomes(c, call) /\ call.phase = "submit_owner" /\ call.node = n
  <2>1. PICK call : call = [phase |-> "submit_owner", node |-> n, key |-> key, token |-> g.token,
                            result |-> ResultOf(g.attempt, workers[n].status), now |-> clock]
    OBVIOUS
  <2>2. ResultOf(g.attempt, workers[n].status) \in Results
    BY <1>0, GrantedTyped, ResultTyped DEF ControlInv, TerminalStates
  <2>3. call \in SubmitCalls
    BY <1>0, <2>1, <2>2, GrantedTyped DEF SubmitCalls, ControlInv, ServiceTypeOK
  <2>4. Becomes(c, call)
    BY <1>0, <1>2, <2>1 DEF StartSubmit
  <2> QED BY <2>1, <2>3, <2>4 DEF CallStates
<1>5. UNCHANGED granted /\ UNCHANGED tables
  BY <1>2 DEF StartSubmit
<1>6. PICK worker : worker = [workers[n] EXCEPT !.phase = "submitting", !.call = c]
  OBVIOUS
<1>7. /\ worker \in LeasedWorkers /\ worker.phase = "submitting" /\ worker.call = c
      /\ worker.attempt = workers[n].attempt /\ worker.token = workers[n].token
      /\ worker.status = workers[n].status
  BY <1>0, <1>6, LeasedWorkerTyped DEF LeasedWorkers, LeasePhases
<1>8. /\ calls'[c] = call /\ \A d \in Calls \ {c} : calls'[d] = calls[d]
      /\ workers' \in [Nodes -> WorkerStates] /\ workers'[n] = worker
      /\ \A m \in Nodes \ {n} : WorkerOK(m)'
  BY <1>2, <1>4, <1>5, <1>6, <1>7, CallMade DEF WorkerStates
<1>9. WorkerOK(n)'
  BY <1>0, <1>1, <1>4, <1>5, <1>7, <1>8
  DEF WorkerOK, AwaitsOwn, HoldsGranted, HasResult, Waiting, Holding, LeasePhases, Submits
<1>10. OperationsAreFresh'
  BY <1>4, <1>5, <1>8, OperationsStay DEF Claims, tables
<1> QED BY <1>3, <1>8, <1>9, <1>10 DEF SystemInv


\* A worker whose call is still under way.
LEMMA WorkerWaits ==
    ASSUME SystemInv, NEW n \in Nodes, workers'[n] = workers[n], granted \subseteq granted',
           \A c \in Calls : Waiting(n, c) =>
               /\ calls'[c].node = calls[c].node
               /\ Claims(c) => Claims(c)'
               /\ Submits(c) => Submits(c)'
               /\ calls[c].phase = "renew" => calls'[c].phase = "renew"
    PROVE  WorkerOK(n)'
<1>1. WorkerOK(n)
  BY DEF SystemInv
<1>2. AwaitsOwn(n)'
  BY <1>1 DEF WorkerOK, AwaitsOwn, Waiting
<1>3. HoldsGranted(n)'
  BY <1>1 DEF WorkerOK, HoldsGranted, Holding
<1> QED BY <1>1, <1>2, <1>3 DEF WorkerOK, HasResult

\* What a step of the service does to the call, its lease and the operations:
\* the call goes on as it was, or it ends, and with a lease only if it claimed.
Serves(c) ==
    /\ granted \subseteq granted' /\ \A d \in Calls \ {c} : calls'[d] = calls[d]
    /\ \/ /\ calls'[c].phase = "idle"
          /\ Claims(c) /\ reply'.outcome \in {"Ok", "Replayed"} =>
                \E g : g.node = calls[c].node /\ g \notin granted /\ granted' = granted \cup {g}
       \/ Claims(c) /\ Claims(c)' /\ calls'[c].node = calls[c].node /\ calls'[c].op = calls[c].op
       \/ Submits(c) /\ Submits(c)' /\ calls'[c].node = calls[c].node
    /\ \A a \in Attempts :
          \/ attempts'[a].operation = attempts[a].operation
          \/ Claims(c) /\ ~Claims(c)' /\ attempts'[a].operation = calls[c].op

\* A call that ends without a lease.
LEMMA CallEnds ==
    ASSUME SystemInv, NEW c \in Calls, Becomes(c, Idle), granted' = granted, HoldersKept,
           Claims(c) => reply'.outcome \notin {"Ok", "Replayed"}
    PROVE  Serves(c)
<1>1. calls'[c] = Idle /\ \A d \in Calls \ {c} : calls'[d] = calls[d]
  BY CallTyped DEF SystemInv, ControlInv, CallStates
<1> QED BY <1>1 DEF Serves, Idle, HoldersKept

LEMMA ReplayServes ==
    ASSUME SystemInv, NEW c \in Calls, ReplayClaim(c)
    PROVE  Serves(c)
<1>0. /\ UNCHANGED tables /\ Claims(c) /\ calls[c] \in ClaimCalls
  BY ClaimCallTyped DEF ReplayClaim, Claims, SystemInv, ControlInv
<1>1. {a \in Attempts : attempts[a].operation = calls[c].op} = {}
  BY <1>0 DEF SystemInv, OperationsAreFresh
<1>2. Becomes(c, [calls[c] EXCEPT !.phase = "claim"]) /\ granted' = granted
  BY <1>1 DEF ReplayClaim
<1>3. PICK call \in ClaimCalls :
         /\ call = [calls[c] EXCEPT !.phase = "claim"] /\ call.phase = "claim"
         /\ call.node = calls[c].node /\ call.op = calls[c].op
  <2>1. [calls[c] EXCEPT !.phase = "claim"] \in ClaimCalls
    BY <1>0 DEF ClaimCalls
  <2> QED BY <1>0, <2>1 DEF ClaimCalls
<1>4. calls'[c] = call /\ \A d \in Calls \ {c} : calls'[d] = calls[d]
  BY <1>2, <1>3, CallTyped DEF SystemInv, ControlInv, CallStates
<1> QED BY <1>0, <1>2, <1>3, <1>4 DEF Serves, Claims, tables

LEMMA FinishClaimServes ==
    ASSUME SystemInv, NEW c \in Calls, FinishClaim(c, {})
    PROVE  Serves(c)
<1>0. /\ Claims(c) /\ calls[c].node \in Nodes /\ calls[c].op \in Operations
      /\ calls[c].token \in Tokens /\ calls[c].now \in Times
  BY ClaimCallTyped DEF FinishClaim, Claims, SystemInv, ControlInv
<1>1. ClaimTask(calls[c].node, calls[c].token, calls[c].op, calls[c].declared, {}, calls[c].now)
  BY DEF FinishClaim
<1>2. CASE UNCHANGED tables /\ reply'.outcome # "Ok"
  <2>1. Becomes(c, Idle) /\ granted' = granted
    BY <1>2 DEF FinishClaim
  <2>2. reply'.outcome # "Replayed"
    BY <1>1 DEF ClaimTask, Reply
  <2> QED BY <1>2, <2>1, <2>2, CallEnds, NothingKeepsAll DEF SystemInv, ControlInv
<1>3. CASE /\ reply'.outcome = "Ok"
           /\ \E a \in Attempts :
                 /\ attempts'[a].operation = calls[c].op
                 /\ \A b \in Attempts \ {a} : attempts'[b] = attempts[b]
  <2>1. PICK a \in Attempts : /\ attempts'[a].operation = calls[c].op
                              /\ \A b \in Attempts \ {a} : attempts'[b] = attempts[b]
    BY <1>3
  <2>2. PICK b \in Attempts : Grant(c, b, calls[c].token)
    BY <1>3 DEF FinishClaim
  <2>3. PICK g \in Grants :
           /\ g = [node |-> calls[c].node, op |-> calls[c].op, attempt |-> b,
                   token |-> calls[c].token]
           /\ g.node = calls[c].node /\ g.token = calls[c].token /\ g.attempt = b
    <3>1. [node |-> calls[c].node, op |-> calls[c].op, attempt |-> b,
           token |-> calls[c].token] \in Grants
      BY <1>0 DEF Grants
    <3> QED BY <3>1
  <2>4. granted' = granted \cup {g} /\ Becomes(c, Idle)
    BY <2>2, <2>3 DEF Grant
  <2>5. g \notin granted
    BY <1>0, <2>3 DEF SystemInv, ControlInv, GrantsStand, ClaimsAreFresh
  <2>6. calls'[c] = Idle /\ \A d \in Calls \ {c} : calls'[d] = calls[d]
    BY <2>4, CallTyped DEF SystemInv, ControlInv, CallStates
  <2>7. calls'[c].phase = "idle" /\ ~Claims(c)'
    BY <2>6 DEF Idle, Claims
  <2> QED BY <1>0, <2>1, <2>3, <2>4, <2>5, <2>6, <2>7 DEF Serves
<1> QED BY <1>0, <1>1, <1>2, <1>3, ClaimEffect DEF SystemInv, ControlInv

LEMMA OthersServe ==
    ASSUME SystemInv, NEW c \in Calls, FinishRenew(c) \/ ReadOwner(c) \/ FinishSubmit(c)
    PROVE  Serves(c)
<1>1. CASE FinishRenew(c)
  <2>1. /\ RenewLease(calls[c].node, calls[c].evaluation, calls[c].attempt, calls[c].token, calls[c].now)
        /\ Becomes(c, Idle) /\ granted' = granted /\ calls[c].phase = "renew"
    BY <1>1 DEF FinishRenew
  <2>2. HoldersKept
    BY <2>1, RenewCallTyped, RenewKeeps DEF SystemInv, ControlInv
  <2> QED BY <2>1, <2>2, CallEnds DEF Claims
<1>2. CASE FinishSubmit(c)
  <2>1. /\ SubmitResult(calls[c].key, calls[c].token, calls[c].result, calls[c].now)
        /\ Becomes(c, Idle) /\ granted' = granted /\ Submits(c)
    BY <1>2 DEF FinishSubmit, Submits
  <2>2. HoldersKept
    BY <2>1, SubmitCallTyped, SubmitKeeps DEF SystemInv, ControlInv
  <2> QED BY <2>1, <2>2, CallEnds DEF Claims, Submits
<1>3. CASE ReadOwner(c)
  <2>1. UNCHANGED tables /\ granted' = granted /\ Submits(c) /\ calls[c] \in SubmitCalls
    BY <1>3, SubmitCallTyped DEF ReadOwner, Submits, SystemInv, ControlInv
  <2>2. CASE Becomes(c, Idle)
    BY <2>1, <2>2, CallEnds, NothingKeepsAll DEF Claims, Submits, SystemInv, ControlInv
  <2>3. CASE Becomes(c, [calls[c] EXCEPT !.phase = "submit"])
    <3>1. PICK call \in SubmitCalls :
             /\ call = [calls[c] EXCEPT !.phase = "submit"] /\ call.phase = "submit"
             /\ call.node = calls[c].node
      <4>1. [calls[c] EXCEPT !.phase = "submit"] \in SubmitCalls
        BY <2>1 DEF SubmitCalls
      <4> QED BY <2>1, <4>1 DEF SubmitCalls
    <3>2. calls'[c] = call /\ \A d \in Calls \ {c} : calls'[d] = calls[d]
      BY <2>3, <3>1, CallTyped DEF SystemInv, ControlInv, CallStates
    <3> QED BY <2>1, <3>1, <3>2 DEF Serves, Submits, tables
  <2> QED BY <1>3, <2>2, <2>3 DEF ReadOwner, Refuse, Becomes
<1> QED BY <1>1, <1>2, <1>3


\* Every step of the service, as the worker that waits for it sees it.
LEMMA ServeIsService ==
    ASSUME SystemInv, NEW c \in Calls, Serve(c)
    PROVE  Serves(c) /\ ControlInv'
<1>1. ControlInv
  BY DEF SystemInv
<1>2. CASE ReplayClaim(c)
  BY <1>1, <1>2, ReplayServes, ReplayClaimInv
<1>3. CASE FinishClaim(c, {})
  BY <1>1, <1>3, FinishClaimServes, FinishClaimInv
<1>4. CASE FinishRenew(c) \/ ReadOwner(c) \/ FinishSubmit(c)
  BY <1>1, <1>4, OthersServe, FinishRenewInv, ReadOwnerInv, FinishSubmitInv
<1> QED BY <1>2, <1>3, <1>4 DEF Serve

\* Worker n is answered, and goes on with what it was granted.
LEMMA AnsweredWorker ==
    ASSUME SystemInv, NEW c \in Calls, Serves(c), ControlInv', NEW n \in Nodes, Waiting(n, c),
           calls'[c].phase = "idle", NEW lease, lease = (CHOOSE g \in granted' : g \notin granted),
           workers'[n] = AfterAnswer(workers[n], reply', lease)
    PROVE  workers'[n] \in WorkerStates /\ WorkerOK(n)'
<1>0. WorkerOK(n) /\ workers[n] \in WorkerStates /\ n \in DOMAIN Policy /\ workers[n].call = c
  BY DEF SystemInv, WorkerOK, Waiting
<1>1. CASE workers'[n] \in {Exited, Ready}
  BY <1>0, <1>1, RestingWorker DEF WorkerStates
<1>2. CASE workers[n].phase = "claiming" /\ reply'.outcome \in {"Ok", "Replayed"}
  <2>1. PICK worker : worker = [phase |-> "leased", call |-> workers[n].call,
                                attempt |-> lease.attempt, token |-> lease.token,
                                status |-> "absent"]
    OBVIOUS
  <2>2. workers'[n] = worker
    BY <1>2, <2>1 DEF AfterAnswer
  <2>3. calls[c].node = n /\ Claims(c)
    BY <1>0, <1>2 DEF WorkerOK, AwaitsOwn
  <2>4. PICK g : g.node = n /\ g \notin granted /\ granted' = granted \cup {g}
    <3>1. ~Claims(c)' /\ ~Submits(c)'
      BY DEF Claims, Submits
    <3> QED BY <1>2, <2>3, <3>1 DEF Serves
  <2>5. lease = g /\ g \in granted'
    BY <2>4
  <2>6. lease.attempt \in Attempts /\ lease.token \in Tokens
    BY <2>5 DEF ControlInv, ServiceTypeOK, Grants
  <2>7. /\ worker \in LeasedWorkers /\ worker.phase = "leased"
        /\ worker.attempt = lease.attempt /\ worker.token = lease.token
    BY <1>0, <2>1, <2>6 DEF LeasedWorkers, LeasePhases
  <2>8. WorkerOK(n)'
    BY <1>0, <2>2, <2>4, <2>5, <2>7
    DEF WorkerOK, AwaitsOwn, HoldsGranted, HasResult, Waiting, Holding, LeasePhases
  <2> QED BY <2>2, <2>7, <2>8 DEF WorkerStates
<1>3. CASE workers[n].phase = "renewing" /\ reply'.outcome = "Continue"
  <2>1. PICK worker : worker = [workers[n] EXCEPT !.phase = "executing"]
    OBVIOUS
  <2>2. workers'[n] = worker
    BY <1>3, <2>1 DEF AfterAnswer
  <2>3. Holding(n)
    BY <1>3 DEF Holding, LeasePhases
  <2>4. /\ worker \in LeasedWorkers /\ worker.phase = "executing"
        /\ worker.attempt = workers[n].attempt /\ worker.token = workers[n].token
    BY <2>1, <2>3, LeasedWorkerTyped DEF LeasedWorkers, LeasePhases
  <2>5. PICK g \in granted' : g.node = n /\ g.attempt = worker.attempt /\ g.token = worker.token
    BY <2>3, <2>4, LeaseOfWorker DEF Serves
  <2>6. WorkerOK(n)'
    BY <1>0, <2>2, <2>4, <2>5
    DEF WorkerOK, AwaitsOwn, HoldsGranted, HasResult, Waiting, Holding, LeasePhases
  <2> QED BY <2>2, <2>4, <2>6 DEF WorkerStates
<1>4. workers[n].phase \in {"claiming", "renewing", "submitting"}
  BY DEF Waiting
<1>5. \/ workers'[n] \in {Exited, Ready}
      \/ workers[n].phase = "claiming" /\ reply'.outcome \in {"Ok", "Replayed"}
      \/ workers[n].phase = "renewing" /\ reply'.outcome = "Continue"
  BY <1>4 DEF AfterAnswer
<1> QED BY <1>1, <1>2, <1>3, <1>5

LEMMA ServeInv ==
    ASSUME SystemInv, NEW c \in Calls, Serve(c)
    PROVE  SystemInv'
<1>1. Serves(c) /\ ControlInv'
  BY ServeIsService
<1>2. workers' = [n \in Nodes |->
          IF Waiting(n, c) /\ calls'[c].phase = "idle"
          THEN AfterAnswer(workers[n], reply', CHOOSE g \in granted' : g \notin granted)
          ELSE workers[n]]
  BY DEF Serve
<1>3. ASSUME NEW n \in Nodes PROVE workers'[n] \in WorkerStates /\ WorkerOK(n)'
  <2>1. CASE Waiting(n, c) /\ calls'[c].phase = "idle"
    <3>1. PICK lease : lease = (CHOOSE g \in granted' : g \notin granted)
      OBVIOUS
    <3>2. workers'[n] = AfterAnswer(workers[n], reply', lease)
      BY <1>2, <2>1, <3>1
    <3> QED BY <1>1, <2>1, <3>1, <3>2, AnsweredWorker
  <2>2. CASE ~(Waiting(n, c) /\ calls'[c].phase = "idle")
    <3>1. workers'[n] = workers[n] /\ workers[n] \in WorkerStates
      BY <1>2, <2>2 DEF SystemInv
    <3>2. ASSUME NEW d \in Calls, Waiting(n, d)
          PROVE  /\ calls'[d].node = calls[d].node
                 /\ Claims(d) => Claims(d)'
                 /\ Submits(d) => Submits(d)'
                 /\ calls[d].phase = "renew" => calls'[d].phase = "renew"
      <4>1. CASE d # c
        BY <1>1, <4>1 DEF Serves, Claims, Submits
      <4>2. CASE d = c
        BY <1>1, <2>2, <3>2, <4>2 DEF Serves, Claims, Submits
      <4> QED BY <4>1, <4>2
    <3> QED BY <1>1, <3>1, <3>2, WorkerWaits DEF Serves
  <2> QED BY <2>1, <2>2
<1>4. workers' \in [Nodes -> WorkerStates]
  <2>1. DOMAIN workers' = Nodes /\ workers' = [n \in Nodes |-> workers'[n]]
    BY <1>2
  <2> QED BY <1>3, <2>1
<1>5. OperationsAreFresh'
  <2>1. \A d \in Calls : Claims(d)' => Claims(d) /\ calls'[d].op = calls[d].op
    BY <1>1 DEF Serves, Claims, Submits
  <2>2. CASE \A a \in Attempts : attempts'[a].operation = attempts[a].operation
    BY <2>1, <2>2, OperationsStay
  <2>3. CASE Claims(c) /\ ~Claims(c)'
    <3>1. \A a \in Attempts : attempts'[a].operation = attempts[a].operation
                              \/ attempts'[a].operation = calls[c].op
      BY <1>1 DEF Serves
    <3>2. \A d \in Calls : Claims(d)' => d # c /\ calls[d].op # calls[c].op
      BY <2>1, <2>3 DEF SystemInv, OperationsAreFresh
    <3> QED BY <2>1, <3>1, <3>2 DEF SystemInv, OperationsAreFresh
  <2> QED BY <1>1, <2>2, <2>3 DEF Serves
<1> QED BY <1>1, <1>3, <1>4, <1>5 DEF SystemInv

LEMMA SystemNextInv == SystemInv /\ [SystemNext]_systemVars => SystemInv'
<1> SUFFICES ASSUME SystemInv, [SystemNext]_systemVars PROVE SystemInv'
  OBVIOUS
<1>1. CASE UNCHANGED systemVars
  <2>1. UNCHANGED <<controlVars, workers>>
    BY <1>1 DEF systemVars
  <2>2. UNCHANGED <<calls, granted>> /\ UNCHANGED tables
    BY <2>1 DEF controlVars, service, vars, tables
  <2>3. ControlInv' /\ HoldersKept
    BY <2>1, <2>2, ControlNextInv, NothingKeepsAll DEF SystemInv, ControlInv
  <2> QED BY <2>1, <2>2, <2>3, OthersStep
<1>2. ASSUME NEW n \in Nodes, WorkerStep(n) \/ Crash(n) PROVE SystemInv'
  BY <1>2, ConnectInv, ClaimStepInv, RenewStepInv, ExecuteInv, SubmitStepInv, CrashInv DEF WorkerStep
<1>3. ASSUME NEW c \in Calls, Serve(c) \/ Abandon(c) PROVE SystemInv'
  BY <1>3, ServeInv, AbandonInv
<1> QED BY <1>1, <1>2, <1>3, LeaseTickInv, EnvironmentInv, SweepInv DEF SystemNext

\* The closed system keeps what the service keeps, although its handlers are
\* dropped, and what a worker believes of its call and its lease is true.
THEOREM SystemInvariance == SystemSpec => []SystemInv
BY SystemInitInv, SystemNextInv, PTL DEF SystemSpec


-----------------------------------------------------------------------------
(***************************************************************************)
(* The closed system is a service whose callers are these workers: each    *)
(* step of it is one of the service, or drops a handler.                   *)
(***************************************************************************)

LEMMA SystemSteps ==
    ASSUME SystemInv, [SystemNext]_systemVars
    PROVE  [ControlNext]_controlVars \/ \E c \in Calls : Abandon(c)
<1>0. ControlInv
  BY DEF SystemInv
<1>1. CASE UNCHANGED systemVars
  BY <1>1 DEF systemVars
<1>2. CASE LeaseTick
  BY <1>2 DEF LeaseTick, ControlNext
<1>3. CASE Environment
  <2>1. FreshResultKeys # {} => AnyOf(FreshResultKeys) \in ResultKeys
    BY DEF AnyOf, FreshResultKeys
  <2> QED BY <1>3, <2>1 DEF Environment, ControlNext
<1>4. ASSUME NEW n \in Nodes, Claim(n) PROVE ControlNext
  <2>1. n \in DOMAIN Policy
    BY <1>4 DEF SystemInv, WorkerOK, Claim
  <2>2. AnyOf(FreeCalls) \in Calls /\ AnyOf(FreshOperations) \in Operations /\ AnyOf(FreshTokens) \in Tokens
    BY <1>4 DEF Claim, AnyOf, FreeCalls, FreshOperations, FreshTokens
  <2>3. Policy[n] \in SUBSET Capabilities
    BY <2>1, PolicyAssumption
  <2> QED BY <1>4, <2>2, <2>3 DEF Claim, ControlNext
<1>5. ASSUME NEW n \in Nodes, Renew(n) PROVE ControlNext
  <2>1. PICK g \in granted : g.node = n /\ g.attempt = workers[n].attempt /\ g.token = workers[n].token
    BY <1>5, LeaseOfWorker DEF Renew, Holding, LeasePhases
  <2>2. PICK c \in Calls : c = AnyOf(FreeCalls)
    BY <1>5 DEF Renew, AnyOf, FreeCalls
  <2>3. StartRenew(c, g.node, attempts[g.attempt].request.evaluation, g.attempt, g.token)
    BY <1>5, <2>1, <2>2 DEF Renew
  <2> QED BY <2>3 DEF ControlNext
<1>6. ASSUME NEW n \in Nodes, SubmitExecuted(n) PROVE ControlNext
  <2>1. PICK g \in granted : g.node = n /\ g.attempt = workers[n].attempt /\ g.token = workers[n].token
    BY <1>6, LeaseOfWorker DEF SubmitExecuted, Holding, LeasePhases
  <2>2. PICK status \in {"completed", "failed"} : status = workers[n].status
    BY <1>6 DEF SystemInv, WorkerOK, HasResult, SubmitExecuted
  <2>3. PICK c \in Calls, key \in ResultKeys : c = AnyOf(FreeCalls) /\ key = AnyOf(FreshResultKeys)
    BY <1>6 DEF SubmitExecuted, AnyOf, FreeCalls, FreshResultKeys
  <2>4. StartSubmit(c, g.node, n, key, g.token, ResultOf(g.attempt, status))
    BY <1>6, <2>1, <2>2, <2>3 DEF SubmitExecuted
  <2> QED BY <2>4 DEF ControlNext
<1>7. ASSUME NEW n \in Nodes, Crash(n) \/ Execute(n) \/ \E declared : Connect(n, declared)
      PROVE  UNCHANGED controlVars
  BY <1>7 DEF Crash, Execute, Connect
<1>8. ASSUME NEW c \in Calls, Serve(c) PROVE ControlNext
  BY <1>8 DEF Serve, ControlNext
<1>9. ASSUME NEW s \in Sweepers, Sweep(s) PROVE ControlNext
  <2> DEFINE ids == {id \in Attempts \X Keys : FreshIds(id[1], id[2])}
  <2>1. ids # {} => AnyOf(ids) \in Attempts \X Keys
    BY DEF AnyOf
  <2>2. \A id \in Attempts \X Keys : id[1] \in Attempts /\ id[2] \in Keys
    OBVIOUS
  <2>3. ScanFresh(s) => \E a \in Attempts, key \in Keys : Scan(s, a, key)
    BY <2>1, <2>2 DEF ScanFresh
  <2> QED BY <1>9, <2>3 DEF Sweep, ControlNext
<1> QED BY <1>1, <1>2, <1>3, <1>4, <1>5, <1>6, <1>7, <1>8, <1>9 DEF SystemNext, WorkerStep

\* A dropped handler leaves the rows, the clock and the sweepers as they are.
LEMMA AbandonLeaves ==
    ASSUME NEW c \in Calls, Abandon(c)
    PROVE  UNCHANGED <<tables, reply, clock, sweeps, granted>> /\ UNCHANGED vars
BY DEF Abandon, vars, tables

\* For the store, every step of the closed system is a transaction or nothing.
LEMMA SystemTransactions ==
    ASSUME SystemInv, [SystemNext]_systemVars
    PROVE  Next \/ UNCHANGED tables
<1>1. CASE [ControlNext]_controlVars
  BY <1>1, ServiceSteps DEF SystemInv
<1> QED BY <1>1, SystemSteps, AbandonLeaves

\* With real workers, too: the rows agree, an operation id gets one lease, an
\* attempt goes to one caller, and no node holds work it may not run.
THEOREM SystemIsSafe == SystemSpec => [](TypeOK /\ Safety /\ ClaimIsIdempotent /\ LeaseWithinPolicy)
<1>1. SystemInv => TypeOK /\ Safety /\ ClaimIsIdempotent /\ LeaseWithinPolicy
  BY InvIdempotent DEF SystemInv, ControlInv, IInv
<1> QED BY <1>1, SystemInvariance, PTL

\* Two processes never work on the same attempt: not after a crash and a
\* restart, not when a lease ran out and its holder does not know.
THEOREM OneWorkerEach == SystemSpec => []OneWorkerPerAttempt
<1>1. SystemInv => OneWorkerPerAttempt
  <2> SUFFICES ASSUME SystemInv, NEW n \in Nodes, NEW m \in Nodes, Holding(n), Holding(m),
                      workers[n].attempt = workers[m].attempt
               PROVE  n = m
    BY DEF OneWorkerPerAttempt
  <2>1. PICK g \in granted : g.node = n /\ g.attempt = workers[n].attempt
    BY LeaseOfWorker
  <2>2. PICK h \in granted : h.node = m /\ h.attempt = workers[m].attempt
    BY LeaseOfWorker
  <2>3. ClaimIsIdempotent
    BY InvIdempotent DEF SystemInv
  <2> QED BY <2>1, <2>2, <2>3 DEF ClaimIsIdempotent
<1> QED BY <1>1, SystemInvariance, PTL

\* With real workers, too, the first terminal write is the last.
THEOREM SystemKeepsVerdicts == SystemSpec => TerminalIsFinal
<1>1. SystemInv /\ [SystemNext]_systemVars =>
         [\A e \in Evaluations : evaluations[e].state \in TerminalStates => Frozen(e)]_vars
  <2> SUFFICES ASSUME SystemInv, [SystemNext]_systemVars, NEW e \in Evaluations,
                      evaluations[e].state \in TerminalStates
               PROVE  Frozen(e)
    OBVIOUS
  <2>1. CASE Next
    BY <2>1, NextFrozen DEF SystemInv, ControlInv
  <2>2. CASE UNCHANGED tables
    BY <2>2 DEF tables, Frozen, AttemptsOf
  <2> QED BY <2>1, <2>2, SystemTransactions
<1> QED BY <1>1, SystemInvariance, PTL DEF SystemSpec, TerminalIsFinal

\* The closed system implements the lifecycle of the domain.
THEOREM SystemImplementsLifecycle == SystemSpec => ImplementsLifecycle
<1>1. SystemInit => Lifecycle!Init
  BY DEF SystemInit, ControlInit, Init, Lifecycle!Init, AbsentEvaluation, AbsentAttempt
<1>2. SystemInv /\ [SystemNext]_systemVars => [Lifecycle!Next]_(Lifecycle!lifecycleVars)
  <2> SUFFICES ASSUME SystemInv, [SystemNext]_systemVars
               PROVE  [Lifecycle!Next]_(Lifecycle!lifecycleVars)
    OBVIOUS
  <2>1. CASE Next
    BY <2>1, NextMaps DEF SystemInv, ControlInv
  <2>2. CASE UNCHANGED tables
    BY <2>2, Stutter DEF tables
  <2> QED BY <2>1, <2>2, SystemTransactions
<1> QED BY <1>1, <1>2, SystemInvariance, PTL DEF SystemSpec, ImplementsLifecycle, Lifecycle!Spec

\* With real workers, too, a lease is only taken away once it has run out.
THEOREM SystemExpiresLate == SystemSpec => ExpiryIsReal
<1>1. SystemInv /\ [SystemNext]_systemVars =>
        [\A a \in Attempts : attempts[a].state = "leased" /\ attempts'[a].state = "expired"
             => attempts[a].expires < clock]_controlVars
  <2> SUFFICES ASSUME SystemInv, [SystemNext]_systemVars, NEW a \in Attempts,
                      attempts[a].state = "leased", attempts'[a].state = "expired"
               PROVE  [attempts[a].expires < clock]_controlVars
    OBVIOUS
  <2>1. CASE [ControlNext]_controlVars
    BY <2>1, ExpiryStep DEF SystemInv
  <2>2. CASE \E c \in Calls : Abandon(c)
    BY <2>2, AbandonLeaves DEF tables
  <2> QED BY <2>1, <2>2, SystemSteps
<1> QED BY <1>1, SystemInvariance, PTL DEF SystemSpec, ExpiryIsReal


\* With real workers, too, an attempt is leased at most once.
THEOREM SystemLeasesOnce == SystemSpec => LeasedOnce
<1>1. SystemInv /\ [SystemNext]_systemVars =>
         [\A a \in Attempts : attempts[a].state # "absent" => HolderKept(a)]_vars
  <2> SUFFICES ASSUME SystemInv, [SystemNext]_systemVars, NEW a \in Attempts,
                      attempts[a].state # "absent"
               PROVE  HolderKept(a)
    OBVIOUS
  <2>1. CASE Next
    BY <2>1, NextHolderKept DEF SystemInv, ControlInv
  <2>2. CASE UNCHANGED tables
    BY <2>2 DEF tables, HolderKept
  <2> QED BY <2>1, <2>2, SystemTransactions
<1> QED BY <1>1, SystemInvariance, PTL DEF SystemSpec, LeasedOnce

\* With real workers, too, a pass of recover_expired does not come back to a
\* row it has skipped.
THEOREM SystemSkipsMoved == SystemSpec => SkipMeansMoved
<1>1. SystemInv /\ [SystemNext]_systemVars =>
        [\A s \in Sweepers :
          /\ sweeps[s].phase = "retry"
          /\ sweeps'[s].phase = "scan"
          => \A e \in Expired(sweeps[s].now)' :
                \/ e # sweeps[s].request.evaluation
                \/ attempts[evaluations[e].current].request.number
                      >= sweeps[s].request.number]_controlVars
  <2> SUFFICES ASSUME SystemInv, [SystemNext]_systemVars, NEW s \in Sweepers,
                      sweeps[s].phase = "retry", sweeps'[s].phase = "scan",
                      NEW e \in Expired(sweeps[s].now)', e = sweeps[s].request.evaluation
               PROVE  [attempts[evaluations[e].current].request.number
                          >= sweeps[s].request.number]_controlVars
    OBVIOUS
  <2>1. CASE [ControlNext]_controlVars
    BY <2>1, SkipStep DEF SystemInv
  <2>2. CASE \E c \in Calls : Abandon(c)
    BY <2>2, AbandonLeaves
  <2> QED BY <2>1, <2>2, SystemSteps
<1> QED BY <1>1, SystemInvariance, PTL DEF SystemSpec, SkipMeansMoved

-----------------------------------------------------------------------------
(***************************************************************************)
(* AnswerInv is inductive, given SystemInv.  A command dates the rows that *)
(* it inserts, and no others, and writes one result key at most.           *)
(***************************************************************************)

DatesKept(now) ==
    /\ \A a \in Attempts :
          IF attempts[a].state # "absent" THEN attempts'[a].created = attempts[a].created
          ELSE attempts'[a].state # "absent" =>
                   attempts'[a].created = now /\ attempts'[a].request.attempt = a
    /\ \A e \in Evaluations :
          IF Stored(e) THEN evaluations'[e].created = evaluations[e].created
          ELSE Stored(e)' => evaluations'[e].created = now

KeysKept(key) ==
    \A e \in Evaluations : evaluations'[e].result_key \in {evaluations[e].result_key, key}

LEMMA NothingKeepsDates ==
    ASSUME NEW now, NEW key, UNCHANGED <<evaluations, attempts>>
    PROVE  DatesKept(now) /\ KeysKept(key)
BY DEF DatesKept, KeysKept, Stored

LEMMA CreateDates ==
    ASSUME IInv, NEW r \in Requests, NEW now \in Times, CreateEvaluation(r, now)
    PROVE  DatesKept(now) /\ KeysKept(Null)
<1>1. CASE CreateOutcome(r) = "Ok"
  <2>1. /\ evaluations[r.evaluation].state = "absent" /\ attempts[r.attempt].state = "absent"
        /\ evaluations'[r.evaluation] = InsertedEvaluation(r, now)
        /\ \A f \in Evaluations \ {r.evaluation} : evaluations'[f] = evaluations[f]
        /\ attempts'[r.attempt] = InsertedAttempt(r, now)
        /\ \A b \in Attempts \ {r.attempt} : attempts'[b] = attempts[b]
    BY <1>1, CreateEffect
  <2>2. /\ InsertedEvaluation(r, now).created = now /\ InsertedEvaluation(r, now).result_key = Null
        /\ InsertedAttempt(r, now).created = now /\ InsertedAttempt(r, now).request = r
    BY DEF InsertedEvaluation, InsertedAttempt, AbsentEvaluation, AbsentAttempt
  <2> QED BY <2>1, <2>2 DEF DatesKept, KeysKept, Stored
<1>2. CASE CreateOutcome(r) # "Ok"
  BY <1>2, NothingKeepsDates DEF CreateEvaluation, tables
<1> QED BY <1>1, <1>2

LEMMA ClaimDates ==
    ASSUME IInv, NEW node \in Nodes, NEW token \in Tokens, NEW op \in Operations,
           NEW declared, NEW locked, NEW now \in Times, NEW any,
           ClaimTask(node, token, op, declared, locked, now)
    PROVE  DatesKept(any) /\ KeysKept(Null)
<1>1. CASE UNCHANGED tables
  BY <1>1, NothingKeepsDates DEF tables
<1>2. ASSUME NEW a \in Candidates(declared, locked), ClaimWrites(a, node, token, op, now)
      PROVE  DatesKept(any) /\ KeysKept(Null)
  <2>1. a \in Attempts /\ Claimable(a, declared) /\ attempts[a].state = "queued"
    BY DEF Candidates, Claimable
  <2>2. PICK e \in Evaluations : e = attempts[a].request.evaluation /\ Stored(e)
    BY <2>1, ClaimableIsCurrent DEF Stored
  <2>3. attempts \in [Attempts -> AttemptRows] /\ evaluations \in [Evaluations -> EvaluationRows]
    BY DEF IInv, TypeOK
  <2>4. /\ attempts'[a].created = attempts[a].created
        /\ \A b \in Attempts \ {a} : attempts'[b] = attempts[b]
    BY <1>2, <2>1, <2>3 DEF ClaimWrites, ClaimedAttempt, AttemptRows
  <2>5. /\ evaluations'[e].created = evaluations[e].created
        /\ evaluations'[e].result_key = evaluations[e].result_key
        /\ \A f \in Evaluations \ {e} : evaluations'[f] = evaluations[f]
    BY <1>2, <2>2, <2>3 DEF ClaimWrites, EvaluationRows
  <2> QED BY <2>1, <2>2, <2>4, <2>5 DEF DatesKept, KeysKept, Stored
<1> QED BY <1>1, <1>2 DEF ClaimTask

LEMMA RenewDates ==
    ASSUME IInv, NEW node, NEW e, NEW a \in Attempts, NEW token, NEW now, NEW any,
           RenewLease(node, e, a, token, now)
    PROVE  DatesKept(any) /\ KeysKept(Null)
<1>1. evaluations' = evaluations
  BY DEF RenewLease
<1>2. \A b \in Attempts : /\ attempts'[b].created = attempts[b].created
                          /\ attempts'[b].state = attempts[b].state
  <2>1. attempts \in [Attempts -> AttemptRows]
    BY DEF IInv, TypeOK
  <2> QED BY <2>1 DEF RenewLease, AttemptRows
<1> QED BY <1>1, <1>2 DEF DatesKept, KeysKept, Stored

LEMMA RetryDates ==
    ASSUME IInv, NEW r \in Requests, NEW now \in Times, RetryExpired(r, now)
    PROVE  DatesKept(now) /\ KeysKept(Null)
<1>1. CASE RetryOutcome(r, now) = "Ok"
  <2>1. PICK e \in Evaluations, new \in Attempts : e = r.evaluation /\ new = r.attempt /\ Stored(e)
    BY <1>1 DEF Requests, RetryOutcome
  <2>2. PICK old \in Attempts : old = evaluations[e].current
    BY <2>1, CurrentTyped
  <2>3. attempts[old].state = "leased" /\ attempts[new].state = "absent"
    BY <1>1, <2>1, <2>2, RetryEffect
  <2>4. ReplaceAttempt(old, r, now)
    BY <1>1, <2>1, <2>2 DEF RetryExpired
  <2>5. attempts \in [Attempts -> AttemptRows] /\ evaluations \in [Evaluations -> EvaluationRows]
    BY DEF IInv, TypeOK
  <2>6. attempts'[old].created = attempts[old].created
    BY <2>1, <2>3, <2>4, <2>5 DEF ReplaceAttempt, AttemptsReplaced, AttemptRows
  <2>7. attempts'[new].created = now /\ attempts'[new].request.attempt = new
    <3>1. attempts'[new] = InsertedAttempt(r, now)
      BY <1>1, <2>1, <2>2, RetryEffect
    <3> QED BY <2>1, <3>1 DEF InsertedAttempt, AbsentAttempt
  <2>8. \A b \in Attempts \ {old, new} : attempts'[b] = attempts[b]
    BY <1>1, <2>1, <2>2, RetryEffect
  <2>9. /\ evaluations'[e].created = evaluations[e].created
        /\ evaluations'[e].result_key = evaluations[e].result_key
        /\ \A f \in Evaluations \ {e} : evaluations'[f] = evaluations[f]
    BY <2>1, <2>4, <2>5 DEF ReplaceAttempt, EvaluationRequeued, EvaluationRows
  <2>10. \A a \in Attempts :
          IF attempts[a].state # "absent" THEN attempts'[a].created = attempts[a].created
          ELSE attempts'[a].state # "absent" =>
                   attempts'[a].created = now /\ attempts'[a].request.attempt = a
    BY <2>3, <2>6, <2>7, <2>8
  <2> QED BY <2>1, <2>9, <2>10 DEF DatesKept, KeysKept, Stored
<1>2. CASE RetryOutcome(r, now) # "Ok"
  BY <1>2, NothingKeepsDates DEF RetryExpired
<1> QED BY <1>1, <1>2

LEMMA TerminalDates ==
    ASSUME IInv, NEW key, NEW result \in Results, Stored(result.evaluation),
           attempts[result.attempt].state # "absent", WriteTerminal(key, result), NEW any
    PROVE  DatesKept(any) /\ KeysKept(key)
<1>1. PICK e \in Evaluations, a \in Attempts : e = result.evaluation /\ a = result.attempt /\ Stored(e)
  BY DEF Results
<1>2. attempts \in [Attempts -> AttemptRows] /\ evaluations \in [Evaluations -> EvaluationRows]
  BY DEF IInv, TypeOK
<1>3. /\ attempts'[a].created = attempts[a].created
      /\ \A b \in Attempts \ {a} : attempts'[b] = attempts[b]
  BY <1>1, <1>2 DEF WriteTerminal, AttemptRows
<1>4. /\ evaluations'[e].created = evaluations[e].created /\ evaluations'[e].result_key = key
      /\ \A f \in Evaluations \ {e} : evaluations'[f] = evaluations[f]
  BY <1>1, <1>2 DEF WriteTerminal, EvaluationRows
<1> QED BY <1>1, <1>3, <1>4 DEF DatesKept, KeysKept, Stored


LEMMA SubmitDates ==
    ASSUME IInv, NEW key, NEW token, NEW result \in Results, NEW now, NEW any,
           SubmitResult(key, token, result, now)
    PROVE  DatesKept(any) /\ KeysKept(key)
<1>1. CASE SubmitOutcome(key, token, result, now) = "Ok"
  <2>1. result.evaluation \in Evaluations /\ Stored(result.evaluation)
    BY <1>1 DEF Results, SubmitOutcome
  <2>2. evaluations[result.evaluation].current = result.attempt
    BY <1>1 DEF SubmitOutcome, SubmitCheck, ReplayOutcome
  <2>3. attempts[result.attempt].state # "absent"
    BY <2>1, <2>2, CurrentTyped
  <2>4. WriteTerminal(key, result)
    BY <1>1 DEF SubmitResult
  <2> QED BY <2>1, <2>3, <2>4, TerminalDates
<1>2. CASE SubmitOutcome(key, token, result, now) # "Ok"
  BY <1>2, NothingKeepsDates DEF SubmitResult
<1> QED BY <1>1, <1>2

LEMMA CancelDates ==
    ASSUME IInv, NEW key, NEW e \in Evaluations, NEW result \in Results, NEW now, NEW any,
           CancelEvaluation(key, e, result, now)
    PROVE  DatesKept(any) /\ KeysKept(key)
<1>1. CASE CancelOutcome(key, e, result, now) = "Ok"
  <2>1. result.evaluation = e /\ Stored(e)
    BY <1>1 DEF CancelOutcome
  <2>2. evaluations[e].current = result.attempt
    BY <1>1 DEF CancelOutcome, CancelCheck, ReplayOutcome
  <2>3. attempts[result.attempt].state # "absent"
    BY <2>1, <2>2, CurrentTyped
  <2>4. WriteTerminal(key, result)
    BY <1>1 DEF CancelEvaluation
  <2> QED BY <2>1, <2>3, <2>4, TerminalDates
<1>2. CASE CancelOutcome(key, e, result, now) # "Ok"
  BY <1>2, NothingKeepsDates DEF CancelEvaluation
<1> QED BY <1>1, <1>2

\* The calls that name a lease stay as they are, or end, and no row that a
\* submission names is rewritten with its key.
CallsKept ==
    \A c \in Calls :
        /\ calls'[c].phase = "renew" => calls[c].phase = "renew"
        /\ Submits(c)' => Submits(c)
        /\ calls'[c].phase = "renew" \/ Submits(c)' =>
              /\ calls'[c].node = calls[c].node /\ calls'[c].token = calls[c].token
              /\ calls'[c].now = calls[c].now
        /\ calls'[c].phase = "renew" => /\ calls'[c].attempt = calls[c].attempt
                                        /\ calls'[c].evaluation = calls[c].evaluation
        /\ Submits(c)' => calls'[c].key = calls[c].key /\ calls'[c].result = calls[c].result

\* The rows that a granted lease names.
LEMMA LeaseRows ==
    ASSUME ControlInv, NEW g \in granted
    PROVE  \E a \in Attempts, e \in Evaluations :
              /\ a = g.attempt /\ e = attempts[a].request.evaluation
              /\ attempts[a].state # "absent" /\ Stored(e)
<1>1. PICK a \in Attempts, e \in Evaluations :
         a = g.attempt /\ e = attempts[a].request.evaluation /\ attempts[a].state # "absent"
  BY GrantedTyped
<1>2. Stored(e)
  BY <1>1 DEF ControlInv, IInv, Safety, AttemptHistory, History
<1> QED BY <1>1, <1>2

LEMMA FutureStays ==
    ASSUME SystemInv, AnswerInv, RowsKept, NEW now \in Times, now <= clock', clock' \in Times,
           clock <= clock', DatesKept(now), IInv'
    PROVE  NoRowFromFuture'
<1>0. clock \in Times
  BY DEF SystemInv, ControlInv, ServiceTypeOK
<1>1. \A e \in Evaluations : Stored(e)' => evaluations'[e].created <= clock'
  <2> SUFFICES ASSUME NEW e \in Evaluations, Stored(e)' PROVE evaluations'[e].created <= clock'
    OBVIOUS
  <2>1. CASE Stored(e)
    <3>1. evaluations'[e].created = evaluations[e].created /\ evaluations[e].created <= clock
      BY <2>1 DEF DatesKept, AnswerInv, NoRowFromFuture
    <3>2. evaluations[e].created \in Times
      BY DEF SystemInv, ControlInv, IInv, TypeOK, EvaluationRows
    <3> QED BY <1>0, <3>1, <3>2 DEF Times
  <2> QED BY <2>1 DEF DatesKept
<1>2. \A a \in Attempts : attempts'[a].state # "absent" => attempts'[a].created <= clock'
  <2> SUFFICES ASSUME NEW a \in Attempts, attempts'[a].state # "absent"
               PROVE attempts'[a].created <= clock'
    OBVIOUS
  <2>1. CASE attempts[a].state # "absent"
    <3>1. attempts'[a].created = attempts[a].created /\ attempts[a].created <= clock
      BY <2>1 DEF DatesKept, AnswerInv, NoRowFromFuture
    <3>2. attempts[a].created \in Times
      BY DEF SystemInv, ControlInv, IInv, TypeOK, AttemptRows
    <3> QED BY <1>0, <3>1, <3>2 DEF Times
  <2> QED BY <2>1 DEF DatesKept
<1> QED BY <1>1, <1>2 DEF NoRowFromFuture

\* A lease that a call names keeps its rows and their dates.
LEMMA LeaseNameStays ==
    ASSUME SystemInv, RowsKept, NEW now, DatesKept(now), granted \subseteq granted',
           CallsKept, NEW c \in Calls, NamesOwnLease(c), calls'[c].phase = "renew" \/ Submits(c)'
    PROVE  NamesOwnLease(c)'
<1>1. PICK g \in granted :
        /\ g.node = calls[c].node /\ g.token = calls[c].token
        /\ calls[c].phase = "renew" =>
              /\ g.attempt = calls[c].attempt
              /\ calls[c].evaluation = attempts[g.attempt].request.evaluation
        /\ Submits(c) =>
              /\ g.attempt = calls[c].result.attempt
              /\ IdentityMatches(attempts[g.attempt].request, calls[c].result)
        /\ attempts[g.attempt].created <= calls[c].now
        /\ evaluations[attempts[g.attempt].request.evaluation].created <= calls[c].now
  BY DEF NamesOwnLease
<1>2. PICK a \in Attempts, e \in Evaluations :
         /\ a = g.attempt /\ e = attempts[a].request.evaluation
         /\ attempts[a].state # "absent" /\ Stored(e)
  BY LeaseRows DEF SystemInv
<1>3. /\ attempts'[a].request = attempts[a].request
      /\ attempts'[a].created = attempts[a].created
      /\ evaluations'[e].created = evaluations[e].created
  BY <1>2 DEF RowsKept, DatesKept
<1>4. /\ calls'[c].node = calls[c].node /\ calls'[c].token = calls[c].token
      /\ calls'[c].now = calls[c].now
      /\ calls'[c].phase = "renew" => /\ calls[c].phase = "renew"
                                      /\ calls'[c].attempt = calls[c].attempt
                                      /\ calls'[c].evaluation = calls[c].evaluation
      /\ Submits(c)' => Submits(c) /\ calls'[c].result = calls[c].result
  BY DEF CallsKept
<1>5. g \in granted' /\ g.node = calls'[c].node /\ g.token = calls'[c].token
  BY <1>1, <1>4
<1>6. calls'[c].phase = "renew" =>
         /\ g.attempt = calls'[c].attempt
         /\ calls'[c].evaluation = attempts'[g.attempt].request.evaluation
  BY <1>1, <1>2, <1>3, <1>4
<1>7. Submits(c)' => /\ g.attempt = calls'[c].result.attempt
                     /\ IdentityMatches(attempts'[g.attempt].request, calls'[c].result)
  BY <1>1, <1>2, <1>3, <1>4
<1>8. /\ attempts'[g.attempt].created <= calls'[c].now
      /\ evaluations'[attempts'[g.attempt].request.evaluation].created <= calls'[c].now
  BY <1>1, <1>2, <1>3, <1>4
<1> QED BY <1>5, <1>6, <1>7, <1>8 DEF NamesOwnLease, IdentityMatches

\* A step that makes no call for a lease, at a time that has come.
LEMMA AnswersStay ==
    ASSUME SystemInv, AnswerInv, SystemInv', RowsKept, NEW now \in Times, now <= clock',
           clock <= clock', DatesKept(now), granted \subseteq granted', CallsKept,
           NEW key, KeysKept(key), \A c \in Calls : Submits(c)' => calls[c].key # key
    PROVE  AnswerInv'
<1>1. IInv' /\ clock' \in Times
  BY DEF SystemInv, ControlInv, ServiceTypeOK
<1>2. NoRowFromFuture'
  BY <1>1, FutureStays
<1>3. \A c \in Calls : calls'[c].phase = "renew" \/ Submits(c)' => NamesOwnLease(c)'
  BY LeaseNameStays DEF AnswerInv, CallsKept
<1>4. RowsNameThemselves'
  BY DEF AnswerInv, RowsNameThemselves, RowsKept, DatesKept
<1>5. \A c \in Calls : Submits(c)' => KeyIsFresh(c)'
  <2> SUFFICES ASSUME NEW c \in Calls, Submits(c)' PROVE KeyIsFresh(c)'
    OBVIOUS
  <2>1. KeyIsFresh(c) /\ Submits(c) /\ calls'[c].key = calls[c].key
    BY DEF AnswerInv, CallsKept
  <2>2. \A d \in Calls : Submits(d)' => Submits(d) /\ calls'[d].key = calls[d].key
    BY DEF CallsKept
  <2>3. \A e \in Evaluations : evaluations'[e].result_key # calls'[c].key
    BY <2>1 DEF KeysKept, KeyIsFresh
  <2> QED BY <2>1, <2>2, <2>3 DEF KeyIsFresh
<1> QED BY <1>2, <1>3, <1>4, <1>5 DEF AnswerInv


LEMMA AnswerInitInv == SystemInit => AnswerInv
<1> SUFFICES ASSUME SystemInit PROVE AnswerInv
  OBVIOUS
<1>1. \A c \in Calls : calls[c].phase = "idle"
  BY DEF SystemInit, ControlInit, Idle
<1>2. (\A e \in Evaluations : ~Stored(e)) /\ \A a \in Attempts : attempts[a].state = "absent"
  BY DEF SystemInit, ControlInit, Init, Stored, AbsentEvaluation, AbsentAttempt
<1> QED BY <1>1, <1>2 DEF AnswerInv, NoRowFromFuture, RowsNameThemselves, Submits

\* No call for a lease is made, and at most one call changes.
LEMMA OneCallChanges ==
    ASSUME NEW c \in Calls, \A d \in Calls \ {c} : calls'[d] = calls[d],
           calls'[c].phase \notin {"renew", "submit_owner", "submit"}
    PROVE  CallsKept
BY DEF CallsKept, Submits

LEMMA KeyIsNotNull ==
    ASSUME SystemInv, CallsKept
    PROVE  \A c \in Calls : Submits(c)' => calls[c].key # Null
BY SubmitCallTyped, NullAssumption DEF SystemInv, ControlInv, CallsKept

\* A step that leaves the rows alone and makes no call for a lease.
LEMMA QuietAnswers ==
    ASSUME SystemInv, AnswerInv, SystemInv', UNCHANGED tables, clock <= clock',
           granted \subseteq granted', CallsKept
    PROVE  AnswerInv'
<1>1. RowsKept /\ clock' \in Times
  BY NothingKeepsAll DEF SystemInv, ControlInv, ServiceTypeOK
<1>2. clock' <= clock' /\ DatesKept(clock') /\ KeysKept(Null)
  BY <1>1, NothingKeepsDates DEF tables, Times
<1> QED BY <1>1, <1>2, AnswersStay, KeyIsNotNull

LEMMA EnvironmentAnswers ==
    ASSUME SystemInv, AnswerInv, SystemInv', Environment
    PROVE  AnswerInv'
<1>0. ControlInv /\ IInv /\ clock \in Times
  BY DEF SystemInv, ControlInv, ServiceTypeOK
<1>1. ASSUME NEW r \in Submissions, Submit(r) PROVE AnswerInv'
  <2>1. CreateEvaluation(r, clock) /\ UNCHANGED <<clock, calls, granted>> /\ r \in Requests
    BY <1>1, SubmissionsAssumption DEF Submit, service
  <2>2. RowsKept /\ DatesKept(clock) /\ KeysKept(Null)
    BY <1>0, <2>1, CreateKeeps, CreateDates DEF ControlInv
  <2>3. CallsKept /\ clock <= clock'
    BY <1>0, <2>1 DEF CallsKept, Submits, Times
  <2> QED BY <1>0, <2>1, <2>2, <2>3, AnswersStay, KeyIsNotNull
<1>2. ASSUME NEW e \in Evaluations, Stored(e), FreshResultKeys # {},
             Cancel(AnyOf(FreshResultKeys), e, ResultOf(evaluations[e].current, "cancelled"))
      PROVE  AnswerInv'
  <2>1. PICK key \in FreshResultKeys : key = AnyOf(FreshResultKeys)
    BY <1>2 DEF AnyOf
  <2>2. PICK result \in Results : result = ResultOf(evaluations[e].current, "cancelled")
    BY <1>0, <1>2, CurrentTyped, ResultTyped DEF TerminalStates
  <2>3. CancelEvaluation(key, e, result, clock) /\ UNCHANGED <<clock, calls, granted>>
    BY <1>2, <2>1, <2>2 DEF Cancel, service
  <2>4. RowsKept /\ DatesKept(clock) /\ KeysKept(key)
    BY <1>0, <2>3, CancelKeeps, CancelDates
  <2>5. CallsKept /\ clock <= clock'
    BY <1>0, <2>3 DEF CallsKept, Submits, Times
  <2>6. \A c \in Calls : Submits(c)' => calls[c].key # key
    BY <2>1, <2>3 DEF FreshResultKeys, Submits
  <2> QED BY <1>0, <2>3, <2>4, <2>5, <2>6, AnswersStay
<1> QED BY <1>1, <1>2 DEF Environment

LEMMA SweepAnswers ==
    ASSUME SystemInv, AnswerInv, SystemInv', NEW s \in Sweepers, Sweep(s)
    PROVE  AnswerInv'
<1>0. ControlInv /\ IInv /\ clock \in Times
  BY DEF SystemInv, ControlInv, ServiceTypeOK
<1>1. CASE StartSweep(s) \/ ScanFresh(s)
  <2>1. UNCHANGED <<clock, calls, granted>> /\ UNCHANGED tables
    BY <1>1 DEF StartSweep, ScanFresh, Scan, vars, tables
  <2>2. CallsKept /\ clock <= clock'
    BY <1>0, <2>1 DEF CallsKept, Submits, Times
  <2> QED BY <2>1, <2>2, QuietAnswers
<1>2. CASE Retry(s)
  <2>1. /\ Retries(s) /\ RetryExpired(sweeps[s].request, sweeps[s].now)
        /\ UNCHANGED <<clock, calls, granted>>
    BY <1>2 DEF Retry, Retries
  <2>2. PICK r \in Requests, now \in Times : r = sweeps[s].request /\ now = sweeps[s].now
    BY <1>0, <2>1, RetriesTyped DEF ControlInv
  <2>3. now <= clock'
    BY <1>0, <2>1, <2>2 DEF ControlInv, SweepsFollow, Retries, Idle
  <2>4. RowsKept /\ DatesKept(now) /\ KeysKept(Null)
    BY <1>0, <2>1, <2>2, RetryKeeps, RetryDates DEF ControlInv
  <2>5. CallsKept /\ clock <= clock'
    BY <1>0, <2>1 DEF CallsKept, Submits, Times
  <2> QED BY <2>1, <2>3, <2>4, <2>5, AnswersStay, KeyIsNotNull
<1> QED BY <1>1, <1>2 DEF Sweep


\* A call for lease g is made, in a slot that was free.
LEMMA LeaseCallMade ==
    ASSUME SystemInv, AnswerInv, NEW c \in Calls, Free(c), NEW g \in granted,
           UNCHANGED <<tables, clock, granted>>, \A d \in Calls \ {c} : calls'[d] = calls[d],
           calls'[c].node = g.node, calls'[c].token = g.token, calls'[c].now = clock,
           calls'[c].phase = "renew" =>
               /\ g.attempt = calls'[c].attempt
               /\ calls'[c].evaluation = attempts[g.attempt].request.evaluation,
           Submits(c)' =>
               /\ calls'[c].key \in FreshResultKeys
               /\ \E status \in TerminalStates : calls'[c].result = ResultOf(g.attempt, status)
    PROVE  AnswerInv'
<1>1. PICK a \in Attempts, e \in Evaluations :
         /\ a = g.attempt /\ e = attempts[a].request.evaluation
         /\ attempts[a].state # "absent" /\ Stored(e)
  BY LeaseRows DEF SystemInv
<1>2. attempts' = attempts /\ evaluations' = evaluations /\ clock' = clock /\ granted' = granted
  BY DEF tables
<1>3. NoRowFromFuture' /\ RowsNameThemselves'
  BY <1>2 DEF AnswerInv, NoRowFromFuture, RowsNameThemselves, Stored
<1>4. NamesOwnLease(c)'
  <2>1. attempts[a].created <= clock /\ evaluations[e].created <= clock
    BY <1>1 DEF AnswerInv, NoRowFromFuture
  <2>2. Submits(c)' => /\ a = calls'[c].result.attempt
                       /\ IdentityMatches(attempts[a].request, calls'[c].result)
    <3> SUFFICES ASSUME Submits(c)'
                 PROVE  /\ a = calls'[c].result.attempt
                        /\ IdentityMatches(attempts[a].request, calls'[c].result)
      OBVIOUS
    <3>1. PICK status \in TerminalStates : calls'[c].result = ResultOf(a, status)
      BY <1>1
    <3>2. attempts[a].request.attempt = a
      BY <1>1 DEF AnswerInv, RowsNameThemselves
    <3> QED BY <3>1, <3>2 DEF ResultOf, IdentityMatches
  <2>3. IdentityMatches(attempts[a].request, calls'[c].result)
            => IdentityMatches(attempts[a].request, calls[c].result)'
    BY <1>2 DEF IdentityMatches
  <2> QED BY <1>1, <1>2, <2>1, <2>2, <2>3 DEF NamesOwnLease
<1>5. \A d \in Calls \ {c} : /\ calls'[d] = calls[d] /\ (Submits(d)' <=> Submits(d))
  BY DEF Submits
<1>6. ~Submits(c)
  BY DEF Free, Submits
<1>7. \A d \in Calls : calls'[d].phase = "renew" \/ Submits(d)' => NamesOwnLease(d)'
  <2> SUFFICES ASSUME NEW d \in Calls \ {c}, calls'[d].phase = "renew" \/ Submits(d)'
               PROVE  NamesOwnLease(d)'
    BY <1>4
  <2>1. NamesOwnLease(d)
    BY <1>5 DEF AnswerInv
  <2> QED BY <1>2, <1>5, <2>1 DEF NamesOwnLease
<1>8. \A d \in Calls : Submits(d)' => KeyIsFresh(d)'
  <2> SUFFICES ASSUME NEW d \in Calls, Submits(d)' PROVE KeyIsFresh(d)'
    OBVIOUS
  <2>1. CASE d = c
    <3>1. /\ \A f \in Evaluations : evaluations[f].result_key # calls'[c].key
          /\ \A f \in Calls : Submits(f) => calls[f].key # calls'[c].key
      BY <2>1 DEF FreshResultKeys, Submits
    <3> QED BY <1>2, <1>5, <2>1, <3>1 DEF KeyIsFresh
  <2>2. CASE d # c
    <3>1. KeyIsFresh(d) /\ Submits(d) /\ calls'[d].key = calls[d].key
      BY <1>5, <2>2 DEF AnswerInv
    <3>2. Submits(c)' => calls'[c].key # calls[d].key
      BY <3>1 DEF FreshResultKeys, Submits
    <3> QED BY <1>2, <1>5, <1>6, <2>2, <3>1, <3>2 DEF KeyIsFresh
  <2> QED BY <2>1, <2>2
<1> QED BY <1>3, <1>7, <1>8 DEF AnswerInv

LEMMA WorkerAnswersStay ==
    ASSUME SystemInv, AnswerInv, SystemInv', NEW n \in Nodes, WorkerStep(n) \/ Crash(n)
    PROVE  AnswerInv'
<1>0. ControlInv /\ clock \in Times
  BY DEF SystemInv, ControlInv, ServiceTypeOK
<1>1. CASE Crash(n) \/ Execute(n) \/ \E declared : Connect(n, declared)
  <2>1. UNCHANGED <<clock, calls, granted>> /\ UNCHANGED tables
    BY <1>1 DEF Crash, Execute, Connect, controlVars, service, vars, tables
  <2>2. CallsKept /\ clock <= clock'
    BY <1>0, <2>1 DEF CallsKept, Submits, Times
  <2> QED BY <2>1, <2>2, QuietAnswers
<1>2. CASE Claim(n)
  <2>0. PICK c \in Calls : \E op, token : StartClaim(c, n, op, Policy[n], token)
    BY <1>2 DEF Claim, AnyOf, FreeCalls
  <2>1. PICK op, token : StartClaim(c, n, op, Policy[n], token)
    BY <2>0
  <2>2. UNCHANGED <<tables, clock, granted>>
    BY <2>1 DEF StartClaim
  <2>3. PICK call : Becomes(c, call) /\ call.phase \in {"idle", "claim_replay"}
    <3>1. CASE Authorized(n, Policy[n])
      <4>1. PICK call : call = [phase |-> "claim_replay", node |-> n, op |-> op, token |-> token,
                                declared |-> Policy[n], now |-> clock]
        OBVIOUS
      <4>2. Becomes(c, call) /\ call.phase = "claim_replay"
        BY <2>1, <3>1, <4>1 DEF StartClaim
      <4> QED BY <4>2
    <3>2. CASE ~Authorized(n, Policy[n])
      <4>1. Becomes(c, Idle) /\ Idle.phase = "idle"
        BY <2>1, <3>2 DEF StartClaim, Refuse, Becomes, Idle
      <4> QED BY <4>1
    <3> QED BY <3>1, <3>2
  <2>4. calls'[c] = call /\ \A d \in Calls \ {c} : calls'[d] = calls[d]
    BY <1>0, <2>3 DEF ControlInv, ServiceTypeOK, Becomes
  <2>5. CallsKept /\ clock <= clock'
    BY <1>0, <2>2, <2>3, <2>4, OneCallChanges DEF Times
  <2> QED BY <2>2, <2>5, QuietAnswers
<1>3. CASE Renew(n)
  <2>1. n \in DOMAIN Policy /\ Holding(n)
    BY <1>3, LeasedWorkerTyped DEF Renew, Holding, LeasePhases
  <2>2. PICK g \in granted : g.node = n /\ g.attempt = workers[n].attempt /\ g.token = workers[n].token
    BY <2>1, LeaseOfWorker
  <2>3. PICK c \in FreeCalls : StartRenew(c, n, attempts[g.attempt].request.evaluation, g.attempt, g.token)
    BY <1>3, <2>2 DEF Renew, AnyOf
  <2>4. c \in Calls /\ Free(c) /\ UNCHANGED <<tables, clock, granted>>
    BY <2>3 DEF FreeCalls, StartRenew
  <2>5. PICK call : /\ call = [phase |-> "renew", node |-> n,
                               evaluation |-> attempts[g.attempt].request.evaluation,
                               attempt |-> g.attempt, token |-> g.token, now |-> clock]
                    /\ calls' = [calls EXCEPT ![c] = call]
    BY <2>1, <2>3 DEF StartRenew, Becomes
  <2>6. calls'[c] = call /\ \A d \in Calls \ {c} : calls'[d] = calls[d]
    BY <1>0, <2>4, <2>5 DEF ControlInv, ServiceTypeOK
  <2>7. /\ calls'[c].node = g.node /\ calls'[c].token = g.token /\ calls'[c].now = clock
        /\ g.attempt = calls'[c].attempt
        /\ calls'[c].evaluation = attempts[g.attempt].request.evaluation
        /\ calls'[c].phase = "renew"
    BY <2>2, <2>5, <2>6
  <2>8. ~Submits(c)'
    BY <2>7 DEF Submits
  <2> QED BY <2>4, <2>6, <2>7, <2>8, LeaseCallMade
<1>4. CASE SubmitExecuted(n)
  <2>1. /\ n \in DOMAIN Policy /\ Holding(n) /\ workers[n].status \in TerminalStates
    BY <1>4, LeasedWorkerTyped DEF SubmitExecuted, Holding, LeasePhases, TerminalStates,
                                   SystemInv, WorkerOK, HasResult
  <2>2. PICK g \in granted : g.node = n /\ g.attempt = workers[n].attempt /\ g.token = workers[n].token
    BY <2>1, LeaseOfWorker
  <2>3. PICK c \in FreeCalls, key \in FreshResultKeys :
           StartSubmit(c, n, n, key, g.token, ResultOf(g.attempt, workers[n].status))
    BY <1>4, <2>2 DEF SubmitExecuted, AnyOf
  <2>4. c \in Calls /\ Free(c) /\ UNCHANGED <<tables, clock, granted>>
    BY <2>3 DEF FreeCalls, StartSubmit
  <2>5. PICK call : /\ call = [phase |-> "submit_owner", node |-> n, key |-> key,
                               token |-> g.token,
                               result |-> ResultOf(g.attempt, workers[n].status), now |-> clock]
                    /\ calls' = [calls EXCEPT ![c] = call]
    BY <2>1, <2>3 DEF StartSubmit, Becomes
  <2>6. calls'[c] = call /\ \A d \in Calls \ {c} : calls'[d] = calls[d]
    BY <1>0, <2>4, <2>5 DEF ControlInv, ServiceTypeOK
  <2>7. /\ calls'[c].node = g.node /\ calls'[c].token = g.token /\ calls'[c].now = clock
        /\ calls'[c].key \in FreshResultKeys /\ calls'[c].phase = "submit_owner"
        /\ calls'[c].result = ResultOf(g.attempt, workers[n].status)
    BY <2>2, <2>5, <2>6
  <2>8. \E status \in TerminalStates : calls'[c].result = ResultOf(g.attempt, status)
    BY <2>1, <2>7
  <2> QED BY <2>4, <2>6, <2>7, <2>8, LeaseCallMade
<1> QED BY <1>1, <1>2, <1>3, <1>4 DEF WorkerStep

LEMMA ServeAnswers ==
    ASSUME SystemInv, AnswerInv, SystemInv', NEW c \in Calls, Serve(c)
    PROVE  AnswerInv'
<1>0. ControlInv /\ IInv /\ ServiceTypeOK /\ clock \in Times /\ HoldersDiffer
  BY DEF SystemInv, ControlInv, ServiceTypeOK
<1>1. Serves(c) /\ granted \subseteq granted' /\ \A d \in Calls \ {c} : calls'[d] = calls[d]
  BY ServeIsService DEF Serves
<1>2. CASE ReplayClaim(c)
  <2>1. UNCHANGED tables /\ clock' = clock /\ Claims(c)
    BY <1>2 DEF ReplayClaim, Claims
  <2>2. calls'[c].phase \notin {"renew", "submit_owner", "submit"}
    BY <1>1, <2>1 DEF Serves, Claims, Submits
  <2>3. CallsKept /\ clock <= clock'
    BY <1>0, <1>1, <2>1, <2>2, OneCallChanges DEF Times
  <2> QED BY <1>1, <2>1, <2>3, QuietAnswers
<1>3. CASE FinishClaim(c, {})
  <2>1. /\ clock' = clock /\ Claims(c)
        /\ ClaimTask(calls[c].node, calls[c].token, calls[c].op, calls[c].declared, {}, calls[c].now)
    BY <1>3 DEF FinishClaim, Claims
  <2>2. /\ calls[c].node \in Nodes /\ calls[c].op \in Operations
        /\ calls[c].token \in Tokens /\ calls[c].now \in Times
    BY <1>0, <2>1, ClaimCallTyped
  <2>3. DatesKept(clock) /\ KeysKept(Null)
    BY <1>0, <2>1, <2>2, ClaimDates
  <2>4. RowsKept
    BY <1>0, <2>1, <2>2, ClaimEffect, NothingKeepsAll
  <2>5. calls'[c].phase \notin {"renew", "submit_owner", "submit"}
    BY <1>1, <2>1 DEF Serves, Claims, Submits
  <2>6. CallsKept /\ clock <= clock'
    BY <1>0, <1>1, <2>1, <2>5, OneCallChanges DEF Times
  <2> QED BY <1>0, <1>1, <2>1, <2>3, <2>4, <2>6, AnswersStay, KeyIsNotNull
<1>4. CASE FinishRenew(c)
  <2>1. /\ clock' = clock /\ calls[c].phase = "renew" /\ Becomes(c, Idle)
        /\ RenewLease(calls[c].node, calls[c].evaluation, calls[c].attempt, calls[c].token, calls[c].now)
    BY <1>4 DEF FinishRenew
  <2>2. /\ calls[c].node \in Nodes /\ calls[c].evaluation \in Evaluations
        /\ calls[c].attempt \in Attempts /\ calls[c].token \in Tokens /\ calls[c].now \in Times
    BY <1>0, <2>1, RenewCallTyped
  <2>3. RowsKept /\ DatesKept(clock) /\ KeysKept(Null)
    BY <1>0, <2>1, <2>2, RenewKeeps, RenewDates
  <2>4. calls'[c].phase = "idle"
    BY <1>0, <2>1 DEF Becomes, Idle, ServiceTypeOK
  <2>5. CallsKept /\ clock <= clock'
    BY <1>0, <1>1, <2>1, <2>4, OneCallChanges DEF Times
  <2> QED BY <1>0, <1>1, <2>1, <2>3, <2>5, AnswersStay, KeyIsNotNull
<1>5. CASE ReadOwner(c)
  <2>1. UNCHANGED tables /\ clock' = clock /\ Submits(c) /\ calls[c] \in SubmitCalls
    BY <1>0, <1>5, SubmitCallTyped DEF ReadOwner, Submits
  <2>2. CASE Becomes(c, Idle)
    <3>1. calls'[c].phase = "idle"
      BY <1>0, <2>2 DEF Becomes, Idle, ServiceTypeOK
    <3>2. CallsKept /\ clock <= clock'
      BY <1>0, <1>1, <2>1, <3>1, OneCallChanges DEF Times
    <3> QED BY <1>1, <2>1, <3>2, QuietAnswers
  <2>3. CASE Becomes(c, [calls[c] EXCEPT !.phase = "submit"])
    <3>1. PICK call \in SubmitCalls :
             /\ call = [calls[c] EXCEPT !.phase = "submit"] /\ call.phase = "submit"
             /\ call.node = calls[c].node /\ call.token = calls[c].token
             /\ call.now = calls[c].now /\ call.key = calls[c].key
             /\ call.result = calls[c].result
      <4>1. [calls[c] EXCEPT !.phase = "submit"] \in SubmitCalls
        BY <2>1 DEF SubmitCalls
      <4> QED BY <2>1, <4>1 DEF SubmitCalls
    <3>2. calls'[c] = call
      BY <1>0, <2>3, <3>1 DEF Becomes, ServiceTypeOK
    <3>3. CallsKept /\ clock <= clock'
      <4>1. \A d \in Calls \ {c} : (Submits(d)' <=> Submits(d)) /\ calls'[d] = calls[d]
        BY <1>1 DEF Submits
      <4>2. /\ calls'[c].phase = "submit"
            /\ calls'[c].node = calls[c].node /\ calls'[c].token = calls[c].token
            /\ calls'[c].now = calls[c].now /\ calls'[c].key = calls[c].key
            /\ calls'[c].result = calls[c].result
        BY <3>1, <3>2
      <4>3. clock <= clock'
        BY <1>0, <2>1 DEF Times
      <4>4. CallsKept
        BY <2>1, <4>1, <4>2 DEF CallsKept
      <4> QED BY <4>3, <4>4
    <3> QED BY <1>1, <2>1, <3>3, QuietAnswers
  <2> QED BY <1>5, <2>2, <2>3 DEF ReadOwner, Refuse, Becomes
<1>6. CASE FinishSubmit(c)
  <2>1. /\ clock' = clock /\ Submits(c) /\ Becomes(c, Idle)
        /\ SubmitResult(calls[c].key, calls[c].token, calls[c].result, calls[c].now)
    BY <1>6 DEF FinishSubmit, Submits
  <2>2. calls[c].result \in Results /\ calls[c].key \in ResultKeys /\ calls[c].now \in Times
        /\ calls[c].token \in Tokens
    BY <1>0, <2>1, SubmitCallTyped
  <2>3. RowsKept /\ DatesKept(clock) /\ KeysKept(calls[c].key)
    BY <1>0, <2>1, <2>2, SubmitKeeps, SubmitDates
  <2>4. calls'[c].phase = "idle"
    BY <1>0, <2>1 DEF Becomes, Idle, ServiceTypeOK
  <2>5. CallsKept /\ clock <= clock'
    BY <1>0, <1>1, <2>1, <2>4, OneCallChanges DEF Times
  <2>6. \A d \in Calls : Submits(d)' => calls[d].key # calls[c].key
    <3> SUFFICES ASSUME NEW d \in Calls, Submits(d)' PROVE calls[d].key # calls[c].key
      OBVIOUS
    <3>1. d # c
      BY <2>4 DEF Submits
    <3> QED BY <1>1, <2>1, <3>1 DEF AnswerInv, KeyIsFresh, Submits
  <2> QED BY <1>0, <1>1, <2>1, <2>3, <2>5, <2>6, AnswersStay
<1> QED BY <1>2, <1>3, <1>4, <1>5, <1>6 DEF Serve

LEMMA AbandonAnswers ==
    ASSUME SystemInv, AnswerInv, SystemInv', NEW c \in Calls, Abandon(c)
    PROVE  AnswerInv'
<1>1. ControlInv /\ ServiceTypeOK /\ clock \in Times
  BY DEF SystemInv, ControlInv, ServiceTypeOK
<1>2. UNCHANGED <<clock, granted>> /\ UNCHANGED tables /\ Becomes(c, Idle)
  BY DEF Abandon, vars, tables
<1>3. calls'[c].phase = "idle" /\ \A d \in Calls \ {c} : calls'[d] = calls[d]
  BY <1>1, <1>2 DEF Becomes, Idle, ServiceTypeOK
<1>4. CallsKept /\ clock <= clock'
  BY <1>1, <1>2, <1>3, OneCallChanges DEF Times
<1> QED BY <1>2, <1>4, QuietAnswers

LEMMA AnswerNextInv == SystemInv /\ AnswerInv /\ [SystemNext]_systemVars => AnswerInv'
<1> SUFFICES ASSUME SystemInv, AnswerInv, [SystemNext]_systemVars PROVE AnswerInv'
  OBVIOUS
<1>1. SystemInv'
  BY SystemNextInv
<1>2. clock \in Times
  BY DEF SystemInv, ControlInv, ServiceTypeOK
<1>3. CASE UNCHANGED systemVars \/ LeaseTick
  <2>1. UNCHANGED <<calls, granted>> /\ UNCHANGED tables
    BY <1>3 DEF systemVars, controlVars, service, vars, tables, LeaseTick, Tick
  <2>2. clock <= clock'
    <3>1. clock' = clock \/ clock' = clock + 1
      BY <1>3 DEF systemVars, controlVars, service, LeaseTick, Tick
    <3> QED BY <1>2, <3>1 DEF Times
  <2>3. CallsKept
    BY <2>1 DEF CallsKept, Submits
  <2> QED BY <1>1, <2>1, <2>2, <2>3, QuietAnswers
<1>4. ASSUME NEW n \in Nodes, WorkerStep(n) \/ Crash(n) PROVE AnswerInv'
  BY <1>1, <1>4, WorkerAnswersStay
<1>5. ASSUME NEW c \in Calls, Serve(c) \/ Abandon(c) PROVE AnswerInv'
  BY <1>1, <1>5, ServeAnswers, AbandonAnswers
<1>6. ASSUME NEW s \in Sweepers, Sweep(s) PROVE AnswerInv'
  BY <1>1, <1>6, SweepAnswers
<1> QED BY <1>1, <1>3, <1>4, <1>5, <1>6, EnvironmentAnswers DEF SystemNext

\* A call for a lease names that lease, at a time no earlier than its rows,
\* and a submission carries a result key that no row and no other call has.
THEOREM AnswerInvariance == SystemSpec => []AnswerInv
BY AnswerInitInv, AnswerNextInv, SystemInvariance, PTL DEF SystemSpec

-----------------------------------------------------------------------------
(***************************************************************************)
(* What the calls of workers are answered.                                 *)
(***************************************************************************)

\* The call that a live worker waits for only ends where it is served.
LEMMA WaitingCallIsServed ==
    ASSUME SystemInv, [SystemNext]_systemVars, NEW n \in Nodes, NEW c \in Calls, Waiting(n, c),
           calls'[c].phase = "idle", calls[c].phase # "idle"
    PROVE  Serve(c)
<1>0. calls'[c] # calls[c] /\ ControlInv /\ ServiceTypeOK
  BY DEF SystemInv, ControlInv
<1>1. ASSUME NEW d \in Calls, NEW call, Becomes(d, call) PROVE d = c
  BY <1>0, <1>1 DEF Becomes, ServiceTypeOK
<1>2. ASSUME NEW d \in Calls, NEW op, NEW outcome, Refuse(d, op, outcome) PROVE d = c
  BY <1>1, <1>2 DEF Refuse, Becomes
<1>3. ASSUME NEW m \in Nodes, WorkerStep(m) \/ Crash(m) PROVE FALSE
  <2>1. ~UNCHANGED calls
    BY <1>0
  <2>2. CASE Claim(m)
    <3>1. PICK d \in Calls : \E op, token : StartClaim(d, m, op, Policy[m], token)
      BY <2>2 DEF Claim, AnyOf, FreeCalls
    <3> QED BY <1>1, <1>2, <3>1 DEF StartClaim, Free
  <2>3. CASE Renew(m)
    <3>1. PICK d \in Calls : \E e, a, token : StartRenew(d, m, e, a, token)
      BY <2>3 DEF Renew, AnyOf, FreeCalls
    <3> QED BY <1>1, <1>2, <3>1 DEF StartRenew, Free
  <2>4. CASE SubmitExecuted(m)
    <3>1. PICK d \in Calls : \E key, token, result : StartSubmit(d, m, m, key, token, result)
      BY <2>4 DEF SubmitExecuted, AnyOf, FreeCalls
    <3> QED BY <1>1, <1>2, <3>1 DEF StartSubmit, Free
  <2>5. CASE Crash(m) \/ Execute(m) \/ \E declared : Connect(m, declared)
    BY <2>1, <2>5 DEF Crash, Execute, Connect, controlVars, service
  <2> QED BY <1>3, <2>2, <2>3, <2>4, <2>5 DEF WorkerStep
<1>4. ASSUME NEW d \in Calls, Abandon(d) PROVE FALSE
  BY <1>1, <1>4 DEF Abandon, Orphan
<1>5. ASSUME NEW d \in Calls, Serve(d) PROVE d = c
  BY <1>0, <1>5, ServeIsService DEF Serves
<1>6. ~UNCHANGED calls
  BY <1>0
<1>7. ~UNCHANGED systemVars /\ ~LeaseTick /\ ~Environment
  BY <1>6 DEF systemVars, controlVars, service, LeaseTick, Tick, Environment, Submit, Cancel
<1>8. \A s \in Sweepers : ~Sweep(s)
  BY <1>6 DEF Sweep, StartSweep, ScanFresh, Scan, Retry
<1> QED BY <1>3, <1>4, <1>5, <1>7, <1>8 DEF SystemNext

\* A claim finds no row with its operation.
LEMMA ClaimAnswered ==
    ASSUME SystemInv, NEW c \in Calls, ReplayClaim(c) \/ FinishClaim(c, {}), calls'[c].phase = "idle"
    PROVE  reply'.outcome \in {"Ok", "NoTaskAvailable", "InvalidTime", "Unavailable"}
<1>1. CASE ReplayClaim(c)
  <2>1. Claims(c) /\ calls[c] \in ClaimCalls
    BY <1>1, ClaimCallTyped DEF ReplayClaim, Claims, SystemInv, ControlInv
  <2>2. {a \in Attempts : attempts[a].operation = calls[c].op} = {}
    BY <2>1 DEF SystemInv, OperationsAreFresh
  <2>3. Becomes(c, [calls[c] EXCEPT !.phase = "claim"])
    BY <1>1, <2>2 DEF ReplayClaim
  <2>4. calls'[c] = [calls[c] EXCEPT !.phase = "claim"]
    BY <2>3 DEF Becomes, SystemInv, ControlInv, ServiceTypeOK
  <2>5. [calls[c] EXCEPT !.phase = "claim"].phase = "claim"
    BY <2>1 DEF ClaimCalls
  <2> QED BY <2>4, <2>5
<1>2. CASE FinishClaim(c, {})
  BY <1>2 DEF FinishClaim, ClaimTask, Reply
<1> QED BY <1>1, <1>2

LEMMA RenewAnswered ==
    ASSUME SystemInv, AnswerInv, NEW c \in Calls, FinishRenew(c)
    PROVE  reply'.outcome \in {"Continue", "Cancel", "StaleLease", "InvalidTime", "CorruptData"}
<1>1. /\ calls[c].phase = "renew"
      /\ RenewLease(calls[c].node, calls[c].evaluation, calls[c].attempt, calls[c].token, calls[c].now)
  BY DEF FinishRenew
<1>2. PICK g \in granted :
         /\ g.attempt = calls[c].attempt
         /\ calls[c].evaluation = attempts[g.attempt].request.evaluation
         /\ attempts[g.attempt].created <= calls[c].now
  BY <1>1 DEF AnswerInv, NamesOwnLease
<1>3. Stored(calls[c].evaluation)
  BY <1>2, LeaseRows DEF SystemInv
<1>4. ~(attempts[calls[c].attempt].created > calls[c].now)
  <2>1. calls[c].now \in Times /\ calls[c].attempt \in Attempts
    BY <1>1, RenewCallTyped DEF SystemInv, ControlInv
  <2>2. attempts[calls[c].attempt].created \in Times
    BY <2>1 DEF SystemInv, ControlInv, IInv, TypeOK, AttemptRows
  <2> QED BY <1>2, <2>1, <2>2 DEF Times
<1>5. reply'.outcome = RenewOutcome(calls[c].node, calls[c].evaluation, calls[c].attempt,
                                    calls[c].token, calls[c].now)
  BY <1>1 DEF RenewLease, Reply
<1> QED BY <1>3, <1>4, <1>5 DEF RenewOutcome

LEMMA SubmitAnswered ==
    ASSUME SystemInv, AnswerInv, NEW c \in Calls, FinishSubmit(c)
    PROVE  reply'.outcome \in {"Ok", "StaleLease", "TerminalConflict"}
<1>1. /\ Submits(c)
      /\ SubmitResult(calls[c].key, calls[c].token, calls[c].result, calls[c].now)
  BY DEF FinishSubmit, Submits
<1>2. PICK g \in granted :
         /\ g.attempt = calls[c].result.attempt
         /\ IdentityMatches(attempts[g.attempt].request, calls[c].result)
         /\ attempts[g.attempt].created <= calls[c].now
         /\ evaluations[attempts[g.attempt].request.evaluation].created <= calls[c].now
  BY <1>1 DEF AnswerInv, NamesOwnLease
<1>3. PICK a \in Attempts, e \in Evaluations :
         /\ a = calls[c].result.attempt /\ e = calls[c].result.evaluation /\ Stored(e)
         /\ IdentityMatches(attempts[a].request, calls[c].result)
         /\ attempts[a].created <= calls[c].now /\ evaluations[e].created <= calls[c].now
  BY <1>2, LeaseRows DEF SystemInv, IdentityMatches
<1>4. ~(attempts[a].created > calls[c].now) /\ ~(evaluations[e].created > calls[c].now)
  <2>1. calls[c].now \in Times
    BY <1>1, SubmitCallTyped DEF SystemInv, ControlInv
  <2>2. attempts[a].created \in Times /\ evaluations[e].created \in Times
    BY DEF SystemInv, ControlInv, IInv, TypeOK, AttemptRows, EvaluationRows
  <2> QED BY <1>3, <2>1, <2>2 DEF Times
<1>5. \A f \in Evaluations : evaluations[f].result_key # calls[c].key
  BY <1>1 DEF AnswerInv, KeyIsFresh
<1>6. reply'.outcome = SubmitOutcome(calls[c].key, calls[c].token, calls[c].result, calls[c].now)
  BY <1>1 DEF SubmitResult, Reply
<1>7. SubmitCheck(calls[c].key, calls[c].token, calls[c].result, calls[c].now)
         \in {"Ok", "StaleLease", "TerminalConflict"}
  BY <1>3, <1>5 DEF SubmitCheck, ReplayOutcome
<1>8. WriteOutcome(e, a, calls[c].key, calls[c].now) = "Ok"
  BY <1>4, <1>5 DEF WriteOutcome
<1> QED BY <1>3, <1>6, <1>7, <1>8 DEF SubmitOutcome

\* A live worker is never told that it is not permitted, that its operation or
\* result key belongs to another, or that its result is of another attempt: it
\* gets what it asked for, or learns that its lease or the time has passed.
THEOREM WorkersGetTheirAnswers == SystemSpec => WorkersAreAnswered
<1>1. SystemInv /\ AnswerInv /\ [SystemNext]_systemVars =>
        [\A n \in Nodes, c \in Calls :
          Waiting(n, c) /\ calls'[c].phase = "idle" /\ calls[c].phase # "idle"
          => reply'.outcome \in Answers(workers[n].phase)]_systemVars
  <2> SUFFICES ASSUME SystemInv, AnswerInv, [SystemNext]_systemVars, NEW n \in Nodes,
                      NEW c \in Calls, Waiting(n, c), calls'[c].phase = "idle",
                      calls[c].phase # "idle"
               PROVE  reply'.outcome \in Answers(workers[n].phase)
    OBVIOUS
  <2>1. Serve(c)
    BY WaitingCallIsServed
  <2>2. /\ workers[n].phase = "claiming" => Claims(c)
        /\ workers[n].phase = "renewing" => calls[c].phase = "renew"
        /\ workers[n].phase = "submitting" => Submits(c)
        /\ workers[n].phase \in {"claiming", "renewing", "submitting"}
    BY DEF SystemInv, WorkerOK, AwaitsOwn, Waiting
  <2>3. CASE ReplayClaim(c) \/ FinishClaim(c, {})
    <3>1. workers[n].phase = "claiming"
      BY <2>2, <2>3 DEF ReplayClaim, FinishClaim, Submits
    <3> QED BY <2>3, <3>1, ClaimAnswered DEF Answers
  <2>4. CASE FinishRenew(c)
    <3>1. workers[n].phase = "renewing"
      BY <2>2, <2>4 DEF FinishRenew, Claims, Submits
    <3> QED BY <2>4, <3>1, RenewAnswered DEF Answers
  <2>5. CASE ReadOwner(c) \/ FinishSubmit(c)
    <3>1. workers[n].phase = "submitting" /\ calls[c] \in SubmitCalls
      BY <2>2, <2>5, SubmitCallTyped DEF ReadOwner, FinishSubmit, Claims, Submits, SystemInv, ControlInv
    <3>2. CASE ReadOwner(c)
      <4>1. ASSUME Becomes(c, [calls[c] EXCEPT !.phase = "submit"]) PROVE FALSE
        <5>1. calls'[c] = [calls[c] EXCEPT !.phase = "submit"]
          BY <4>1 DEF Becomes, SystemInv, ControlInv, ServiceTypeOK
        <5>2. [calls[c] EXCEPT !.phase = "submit"].phase = "submit"
          BY <3>1 DEF SubmitCalls
        <5> QED BY <5>1, <5>2
      <4>2. reply'.outcome \in {"StaleLease", "Unavailable"}
        <5>1. \/ Refuse(c, "submit", "StaleLease") \/ Refuse(c, "submit", "Unavailable")
              \/ Becomes(c, [calls[c] EXCEPT !.phase = "submit"])
          BY <3>2 DEF ReadOwner
        <5> QED BY <4>1, <5>1 DEF Refuse, Reply
      <4> QED BY <3>1, <4>2 DEF Answers
    <3> QED BY <2>5, <3>1, <3>2, SubmitAnswered DEF Answers
  <2> QED BY <2>1, <2>3, <2>4, <2>5 DEF Serve
<1> QED BY <1>1, SystemInvariance, AnswerInvariance, PTL DEF SystemSpec, WorkersAreAnswered

=============================================================================
