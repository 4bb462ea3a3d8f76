---------------------------- MODULE JudgeControl ----------------------------
(***************************************************************************)
(* The Judge Control service (apps/openoj-control-plane) on top of the     *)
(* store: the RPC handlers and the lease sweeper, broken at the points     *)
(* where they leave the database and come back.  A handler reads the clock *)
(* and draws a lease token before it reaches the store; claim_replay and   *)
(* the owner read of judge_submit_result run outside the transaction that  *)
(* acts on them; the sweeper scans without a lock and then retries the row *)
(* it found.  Anything may commit in between.                              *)
(***************************************************************************)
EXTENDS ControlSpine

CONSTANTS
    Calls,        \* slots for RPCs the service handles at the same time
    Sweepers,     \* control-plane processes, each with its sweeper
    Policy,       \* NodePolicy: the capabilities of each node on the allowlist
    Submissions   \* the requests that are submitted for evaluation

ASSUME PolicyAssumption ==
    /\ DOMAIN Policy \subseteq Nodes
    /\ \A n \in DOMAIN Policy : Policy[n] \subseteq Capabilities /\ Policy[n] # {}

ASSUME SubmissionsAssumption == Submissions \subseteq Requests

VARIABLES
    clock,     \* the control plane's clock, read by every handler
    calls,     \* the RPCs in the service, by slot
    sweeps,    \* recover_expired, by sweeper
    granted    \* history: every lease a claim returned, and to whom

service == <<clock, calls, sweeps, granted>>
controlVars == <<vars, service>>

Idle == [phase |-> "idle"]

\* A call that the service answers without asking the store.
Refuse(c, op, outcome) == Reply(op, outcome) /\ calls' = [calls EXCEPT ![c] = Idle]

ControlInit ==
    /\ Init
    /\ clock = 0
    /\ calls = [c \in Calls |-> Idle]
    /\ sweeps = [s \in Sweepers |-> Idle]
    /\ granted = {}

Free(c) == calls[c].phase = "idle"

\* The outcome of a call that ends is in reply.
Becomes(c, call) == calls' = [calls EXCEPT ![c] = call]

-----------------------------------------------------------------------------
(***************************************************************************)
(* claim                                                                   *)
(***************************************************************************)

\* Fault: what the node declares is not compared with its allowlist entry.
AuthorizedByName(node, declared) == node \in DOMAIN Policy

\* NodePolicy::authorize
Authorized(node, declared) ==
    /\ node \in DOMAIN Policy
    /\ declared # {}
    /\ declared \subseteq Policy[node]

\* SystemControlSource::lease_token: 24 random bytes, never drawn twice.
FreshToken(token) ==
    /\ \A a \in Attempts : attempts[a].token # token
    /\ \A c \in Calls : calls[c].phase \in {"claim_replay", "claim"} => calls[c].token # token

\* The handler up to the store: authorize, draw a token, read the clock.
StartClaim(c, node, op, declared, token) ==
    /\ Free(c)
    /\ FreshToken(token)
    /\ \/ /\ ~Authorized(node, declared)
          /\ Refuse(c, "claim", "PermissionDenied")
       \/ /\ Authorized(node, declared)
          /\ Becomes(c, [phase |-> "claim_replay", node |-> node, op |-> op, token |-> token,
                         declared |-> declared, now |-> clock])
          /\ UNCHANGED reply
    /\ UNCHANGED <<tables, clock, sweeps, granted>>

\* Attempt a is handed to the caller of call c.
Grant(c, a, token) ==
    /\ Becomes(c, Idle)
    /\ granted' = granted \cup {[node |-> calls[c].node, op |-> calls[c].op,
                                 attempt |-> a, token |-> token]}

\* claim_replay: one SELECT by operation id, before the claim's transaction.
ReplayClaim(c) ==
    LET call == calls[c]
        found == {a \in Attempts : attempts[a].operation = call.op} IN
    /\ call.phase = "claim_replay"
    /\ \/ /\ found = {}
          /\ Becomes(c, [call EXCEPT !.phase = "claim"])
          /\ UNCHANGED <<reply, granted>>
       \/ \E a \in found :
            \/ /\ attempts[a].node # call.node
               /\ Refuse(c, "claim", "IdempotencyConflict")
               /\ UNCHANGED granted
            \/ /\ attempts[a].node = call.node
               /\ attempts[a].state # "leased"
               /\ Refuse(c, "claim", "LeaseConflict")
               /\ UNCHANGED granted
            \/ /\ attempts[a].node = call.node
               /\ attempts[a].state = "leased"
               /\ Reply("claim", "Replayed")
               /\ Grant(c, a, attempts[a].token)
    /\ UNCHANGED <<tables, clock, sweeps>>

\* The transaction, with the token and the time of the handler's start.
FinishClaim(c, locked) ==
    LET call == calls[c] IN
    /\ call.phase = "claim"
    /\ ClaimTask(call.node, call.token, call.op, call.declared, locked, call.now)
    /\ \/ /\ reply'.outcome # "Ok"
          /\ Becomes(c, Idle)
          /\ UNCHANGED granted
       \/ /\ reply'.outcome = "Ok"
          /\ \E a \in Attempts : /\ attempts'[a] # attempts[a]
                                 /\ Grant(c, a, call.token)
    /\ UNCHANGED <<clock, sweeps>>

-----------------------------------------------------------------------------
(***************************************************************************)
(* renew_lease and submit_result                                           *)
(***************************************************************************)

StartRenew(c, node, e, a, token) ==
    /\ Free(c)
    /\ \/ /\ node \notin DOMAIN Policy
          /\ Refuse(c, "renew", "PermissionDenied")
       \/ /\ node \in DOMAIN Policy
          /\ Becomes(c, [phase |-> "renew", node |-> node, evaluation |-> e, attempt |-> a,
                         token |-> token, now |-> clock])
          /\ UNCHANGED reply
    /\ UNCHANGED <<tables, clock, sweeps, granted>>

FinishRenew(c) ==
    LET call == calls[c] IN
    /\ call.phase = "renew"
    /\ RenewLease(call.node, call.evaluation, call.attempt, call.token, call.now)
    /\ Becomes(c, Idle)
    /\ UNCHANGED <<clock, sweeps, granted>>

\* author: the node the result's provenance names.
StartSubmit(c, node, author, key, token, result) ==
    /\ Free(c)
    /\ \/ /\ node \notin DOMAIN Policy
          /\ Refuse(c, "submit", "PermissionDenied")
       \/ /\ node \in DOMAIN Policy /\ author # node
          /\ Refuse(c, "submit", "IdentityConflict")
       \/ /\ node \in DOMAIN Policy /\ author = node
          /\ Becomes(c, [phase |-> "submit_owner", node |-> node, key |-> key,
                         token |-> token, result |-> result, now |-> clock])
          /\ UNCHANGED reply
    /\ UNCHANGED <<tables, clock, sweeps, granted>>

\* The owner of the current attempt, read outside the transaction.  A current
\* attempt that was never leased has a NULL owner, which does not decode.
ReadOwner(c) ==
    LET call == calls[c]
        e == call.result.evaluation
        owner == attempts[evaluations[e].current].node IN
    /\ call.phase = "submit_owner"
    /\ \/ /\ ~Stored(e)
          /\ Refuse(c, "submit", "StaleLease")
       \/ /\ Stored(e) /\ owner = Null
          /\ Refuse(c, "submit", "Unavailable")
       \/ /\ Stored(e) /\ owner \notin {Null, call.node}
          /\ Refuse(c, "submit", "StaleLease")
       \/ /\ Stored(e) /\ owner = call.node
          /\ Becomes(c, [call EXCEPT !.phase = "submit"])
          /\ UNCHANGED reply
    /\ UNCHANGED <<tables, clock, sweeps, granted>>

FinishSubmit(c) ==
    LET call == calls[c] IN
    /\ call.phase = "submit"
    /\ SubmitResult(call.key, call.token, call.result, call.now)
    /\ Becomes(c, Idle)
    /\ UNCHANGED <<clock, sweeps, granted>>

-----------------------------------------------------------------------------
(***************************************************************************)
(* recover_expired, run by the sweeper of every control-plane process      *)
(***************************************************************************)

\* Fault: a lease counts as expired at the very time it runs out.
ExpiredAtDeadline(now) ==
    {e \in Evaluations :
        /\ evaluations[e].state = "leased"
        /\ attempts[evaluations[e].current].state = "leased"
        /\ attempts[evaluations[e].current].expires <= now}

\* What the scan's WHERE clause selects: evaluations whose lease ran out.
Expired(now) ==
    {e \in Evaluations :
        /\ evaluations[e].state = "leased"
        /\ attempts[evaluations[e].current].state = "leased"
        /\ attempts[evaluations[e].current].expires < now}

\* A tick of the interval: one pass with the time of its start.
StartSweep(s) ==
    /\ sweeps[s].phase = "idle"
    /\ sweeps' = [sweeps EXCEPT ![s] = [phase |-> "scan", now |-> clock]]
    /\ UNCHANGED <<vars, clock, calls, granted>>

\* Random ids that no row, no client and no other sweeper has.
FreshIds(a, key) ==
    /\ attempts[a].state = "absent"
    /\ ~AttemptKeyTaken(key)
    /\ \A r \in Submissions : r.attempt # a /\ r.key # key
    /\ \A s \in Sweepers : sweeps[s].phase = "retry" =>
          sweeps[s].request.attempt # a /\ sweeps[s].request.key # key

\* Fault: the number is not counted up.
NextWithSameNumber(r, a, key) == [r EXCEPT !.attempt = a, !.key = key]

\* EvaluationRequest::with_next_attempt
NextAttempt(r, a, key) == [r EXCEPT !.attempt = a, !.key = key, !.number = r.number + 1]

\* ORDER BY a.lease_expires_at_ms LIMIT 1
FirstExpired(now) ==
    LET expiry(e) == attempts[evaluations[e].current].expires IN
    {e \in Expired(now) : \A f \in Expired(now) : expiry(e) <= expiry(f)}

\* The scan, and the request of the next attempt with new ids a and key.  A
\* number that cannot be counted up ends the pass with an error, as a row that
\* does not decode would; no row left ends it without.
Scan(s, a, key) ==
    LET now == sweeps[s].now IN
    /\ sweeps[s].phase = "scan"
    /\ \/ /\ Expired(now) = {}
          /\ sweeps' = [sweeps EXCEPT ![s] = Idle]
       \/ \E e \in FirstExpired(now) :
            LET r == attempts[evaluations[e].current].request IN
            \/ /\ r.number = MaxAttemptNumber
               /\ sweeps' = [sweeps EXCEPT ![s] = Idle]
            \/ /\ r.number < MaxAttemptNumber
               /\ FreshIds(a, key)
               /\ sweeps' = [sweeps EXCEPT ![s] = [phase |-> "retry", now |-> now,
                                                   request |-> NextAttempt(r, a, key)]]
    /\ UNCHANGED <<vars, clock, calls, granted>>

\* The errors that mean another transaction moved the row first.
Skipped == {"LeaseConflict", "InvalidTransition", "IdentityConflict", "NotFound"}

Retry(s) ==
    /\ sweeps[s].phase = "retry"
    /\ RetryExpired(sweeps[s].request, sweeps[s].now)
    /\ sweeps' = [sweeps EXCEPT ![s] =
          IF reply'.outcome \in {"Ok", "Replayed"} \cup Skipped
          THEN [phase |-> "scan", now |-> sweeps[s].now] ELSE Idle]
    /\ UNCHANGED <<clock, calls, granted>>

-----------------------------------------------------------------------------
(***************************************************************************)
(* The service and its callers.  A caller knows the tokens it was granted: *)
(* tokens are random, and are told to nobody else.                         *)
(***************************************************************************)

Tick ==
    /\ clock < MaxTime
    /\ clock' = clock + 1
    /\ UNCHANGED <<vars, calls, sweeps, granted>>

\* create_evaluation and cancel_evaluation, from outside the judge protocol.
Submit(r) == CreateEvaluation(r, clock) /\ UNCHANGED service
Cancel(key, e, result) == CancelEvaluation(key, e, result, clock) /\ UNCHANGED service

\* A result of the request of attempt a.
ResultOf(a, status) ==
    LET r == attempts[a].request IN
    [evaluation |-> r.evaluation, attempt |-> a, reference |-> r.reference,
     digest |-> r.digest, status |-> status]

ControlNext ==
    \/ Tick
    \/ \E r \in Submissions : Submit(r)
    \/ \E key \in ResultKeys, e \in Evaluations :
          Stored(e) /\ Cancel(key, e, ResultOf(evaluations[e].current, "cancelled"))
    \/ \E c \in Calls :
          \/ \E node \in Nodes, op \in Operations, declared \in SUBSET Capabilities,
                token \in Tokens : StartClaim(c, node, op, declared, token)
          \/ ReplayClaim(c)
          \/ \E locked \in SUBSET {a \in Attempts : tasks[a] = "ready"} : FinishClaim(c, locked)
          \/ \E own \in granted, g \in granted :
                \/ StartRenew(c, own.node, attempts[g.attempt].request.evaluation, g.attempt,
                              own.token)
                \/ \E key \in ResultKeys, status \in {"completed", "failed"}, author \in Nodes :
                      StartSubmit(c, own.node, author, key, own.token,
                                  ResultOf(g.attempt, status))
          \/ FinishRenew(c)
          \/ ReadOwner(c)
          \/ FinishSubmit(c)
    \/ \E s \in Sweepers : \/ StartSweep(s)
                           \/ \E a \in Attempts, key \in Keys : Scan(s, a, key)
                           \/ Retry(s)

ControlSpec == ControlInit /\ [][ControlNext]_controlVars

-----------------------------------------------------------------------------
(***************************************************************************)
(* Properties.                                                             *)
(***************************************************************************)

\* However the claims of several handlers interleave, an operation id of a
\* node is answered with one lease only (claim_replay and the unique index on
\* node and operation id), and no two callers hold a lease of one attempt.
ClaimIsIdempotent ==
    \A g, h \in granted :
        \/ g.node = h.node /\ g.op = h.op
        \/ g.attempt = h.attempt
        => g = h

\* A result that became the verdict was submitted by the node that holds the
\* lease, with the token of that lease, although the owner is read before the
\* transaction and may change (judge_submit_result).
VerdictFromHolder ==
    [][\A c \in Calls :
          /\ calls[c].phase = "submit" /\ calls'[c].phase = "idle"
          /\ reply'.outcome = "Ok"
          => /\ attempts[calls[c].result.attempt].node = calls[c].node
             /\ attempts[calls[c].result.attempt].token = calls[c].token]_controlVars

\* No node holds work that asks for more than its allowlist entry grants.
LeaseWithinPolicy ==
    \A a \in Attempts : attempts[a].node # Null =>
        /\ attempts[a].node \in DOMAIN Policy
        /\ Range(attempts[a].request.required) \subseteq Policy[attempts[a].node]

\* An attempt is only taken from its holder after its lease ran out on the
\* control plane's clock, though the sweeper decides on an old scan and a
\* renewal may come between the scan and the retry.
ExpiryIsReal ==
    [][\A a \in Attempts :
          attempts[a].state = "leased" /\ attempts'[a].state = "expired"
          => attempts[a].expires < clock]_controlVars

\* recover_expired cannot loop on a row: when the retry of a scanned row is
\* skipped, that row is no longer among the expired ones.
SkipMeansMoved ==
    [][\A s \in Sweepers :
          /\ sweeps[s].phase = "retry"
          /\ sweeps'[s].phase = "scan"
          => \A e \in Expired(sweeps[s].now)' :
                \/ e # sweeps[s].request.evaluation
                \/ attempts[evaluations[e].current].request.number
                      >= sweeps[s].request.number]_controlVars

-----------------------------------------------------------------------------
(***************************************************************************)
(* What the design documents say and the handlers do not do.               *)
(***************************************************************************)

\* "The same operation ID from a different node returns conflict": an
\* operation id is never answered with leases to two nodes.
OperationOfOneNode ==
    \A g, h \in granted : g.op = h.op => g.node = h.node

\* "An expired lease returns stale and is not extended": the renewal of a
\* lease that ran out before the renewal's own time leaves it as it is.
RenewalKeepsExpired ==
    [][\A c \in Calls :
          /\ calls[c].phase = "renew" /\ calls'[c].phase = "idle"
          /\ attempts[calls[c].attempt].expires < calls[c].now
          => attempts' = attempts]_controlVars

\* "An old Attempt returns stale": the renewal of an attempt that was replaced
\* is answered with stale, or with cancel.
OldRenewalIsStale ==
    [][\A c \in Calls :
          /\ calls[c].phase = "renew" /\ calls'[c].phase = "idle"
          /\ attempts[calls[c].attempt].state = "expired"
          => reply'.outcome \in {"StaleLease", "Cancel", "InvalidTime"}]_controlVars

\* "Any other late or stale result returns stale_lease or terminal_conflict":
\* so does the result of an attempt that was replaced.
LateResultIsStale ==
    [][\A c \in Calls :
          /\ calls[c].phase \in {"submit_owner", "submit"} /\ calls'[c].phase = "idle"
          /\ attempts[calls[c].result.attempt].state = "expired"
          => reply'.outcome \in {"StaleLease", "TerminalConflict"}]_controlVars
=============================================================================
