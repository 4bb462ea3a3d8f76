------------------------- MODULE CanonicalProtocol --------------------------
(***************************************************************************)
(* The canonical documents of crates/openoj-protocol and the path they     *)
(* take: a client's request is decoded, stored, leased to a judge node and *)
(* run there (StagePipeline); the node encodes the result, the control     *)
(* plane decodes it and the store encodes it again.  Every rule of the     *)
(* path is written more than once: in the schema, in the protocol's        *)
(* semantic checks, in the domain's constructors and in the run that       *)
(* builds the result.                                                      *)
(*                                                                         *)
(* A document is a record of what the rules look at: policy stands for the *)
(* five ranges of the resource policy, attempt for the identifiers of a    *)
(* result, and large says whether the bytes exceed the document's limit.   *)
(***************************************************************************)
EXTENDS StagePipeline, Tokens, FiniteSets

CONSTANTS
    RequestDocuments,   \* the requests that clients may send
    ResultDocuments,    \* the results that a peer may send without a run
    Executors,          \* the executors that nodes may have
    MaxCapabilities,    \* MAX_CAPABILITIES
    MaxNumber,          \* u32::MAX
    MaxPolicy,          \* the hard limit of a resource policy
    MaxDocument         \* MAX_EVALUATION_REQUEST_BYTES

ASSUME CanonicalAssumption ==
    /\ {MaxCapabilities, MaxNumber, MaxPolicy, MaxDocument} \subseteq Nat \ {0}
    \* The schema requires the fields of a document, gives them their types and
    \* allows no other.
    /\ \A d \in RequestDocuments :
          /\ d = [request_id |-> d.request_id, attempt_number |-> d.attempt_number,
                  digest |-> d.digest,
                  plan |-> [profile |-> d.plan.profile, stages |-> d.plan.stages],
                  policy |-> [limit |-> d.policy.limit, network |-> d.policy.network],
                  required_capabilities |-> d.required_capabilities]
          /\ d.request_id \in Seq(Characters) /\ d.attempt_number \in Nat
          /\ d.policy.limit \in Nat /\ d.required_capabilities \in Seq(Seq(Characters))
    /\ \A d \in ResultDocuments :
          /\ d = [attempt |-> d.attempt, status |-> d.status, verdict |-> d.verdict,
                  score |-> d.score, stages |-> d.stages, usage |-> d.usage,
                  provenance |-> d.provenance, large |-> d.large]
          /\ d.status \in {"completed", "failed", "cancelled"} /\ d.large \in BOOLEAN
          /\ d.score \in [earned : Nat, possible : Nat]
          /\ d.stages \in Seq(Reports) /\ d.usage \in Usages

VARIABLES
    client,     \* the request document that the client sent
    request,    \* the EvaluationRequest in the node's lease
    provenance, \* EvaluationRun::provenance
    submission, \* the result document on its way to the control plane
    reply       \* what the last step on the path answered

canonicalVars == <<pipelineVars, client, request, provenance, submission, reply>>

None == [state |-> "none"]
Refused(error) == [state |-> "refused", error |-> error]
Accepted(value) == [state |-> "accepted", value |-> value]

-----------------------------------------------------------------------------
(***************************************************************************)
(* Requests.                                                               *)
(***************************************************************************)

NoDuplicates(list) == Cardinality(Range(list)) = Len(list)

\* $defs/EvaluationRequest
SchemaRequest(d) ==
    /\ SchemaOpaqueId(d.request_id)
    /\ d.attempt_number \in 1 .. MaxNumber
    /\ d.plan.profile = "algorithm_batch" /\ d.policy.network = "denied"
    /\ d.plan.stages # << >> /\ NoDuplicates(d.plan.stages)
    /\ d.policy.limit \in 1 .. MaxPolicy
    /\ Len(d.required_capabilities) <= MaxCapabilities
    /\ NoDuplicates(d.required_capabilities)
    /\ \A c \in Range(d.required_capabilities) : SchemaCapability(c)

\* EvaluationRequest::new, and the constructors of its parts: RequestId::parse,
\* Capability::parse, EvaluationPlan::try_algorithm_batch, ResourcePolicy::new.
DomainRequest(r) ==
    /\ ValidOpaque(r.request_id)
    /\ \A c \in Range(r.required_capabilities) : ValidLowerToken(c)
    /\ r.plan = Stages
    /\ r.policy >= 1 /\ r.policy <= MaxPolicy
    /\ r.attempt_number >= 1 /\ r.attempt_number <= MaxNumber
    /\ Len(r.required_capabilities) <= MaxCapabilities
    /\ NoDuplicates(r.required_capabilities)

\* request_from_value, before the constructors
RequestParts(d) ==
    [request_id |-> d.request_id, attempt_number |-> d.attempt_number, digest |-> d.digest,
     plan |-> d.plan.stages, policy |-> d.policy.limit,
     required_capabilities |-> d.required_capabilities]

\* Fault: the plan is left to its default.
DefaultPlan(r) ==
    [request_id |-> r.request_id, attempt_number |-> r.attempt_number, digest |-> r.digest,
     plan |-> [profile |-> "algorithm_batch", stages |-> SubSeq(r.plan, 1, 4)],
     policy |-> [limit |-> r.policy, network |-> "denied"],
     required_capabilities |-> r.required_capabilities]

\* request_to_value
RequestToValue(r) ==
    [request_id |-> r.request_id, attempt_number |-> r.attempt_number, digest |-> r.digest,
     plan |-> [profile |-> "algorithm_batch", stages |-> r.plan],
     policy |-> [limit |-> r.policy, network |-> "denied"],
     required_capabilities |-> r.required_capabilities]

\* decode_evaluation_request
DecodeRequest(d) ==
    IF ~SchemaRequest(d) THEN Refused("SchemaViolation") ELSE
    IF ~DomainRequest(RequestParts(d)) THEN Refused("Domain") ELSE Accepted(RequestParts(d))

\* encode_evaluation_request
EncodeRequest(r) ==
    IF ~SchemaRequest(RequestToValue(r)) THEN Refused("SchemaViolation")
    ELSE Accepted(RequestToValue(r))

\* The control plane decodes the stored payload for a claim and encodes it for
\* the wire, and the node decodes that.
Carried(d) ==
    LET stored == DecodeRequest(d)
        sent == EncodeRequest(stored.value) IN
    IF stored.state = "refused" THEN Refused("CorruptData") ELSE
    IF sent.state = "refused" THEN Refused("stored_request_invalid") ELSE DecodeRequest(sent.value)

-----------------------------------------------------------------------------
(***************************************************************************)
(* Results.                                                                *)
(***************************************************************************)

\* validate_terminal_pattern
ProtocolPattern(statuses, index, status) ==
    /\ index \in DOMAIN statuses /\ statuses[index] = status
    /\ Range(SubSeq(statuses, 1, index - 1)) \subseteq {"succeeded"}
    /\ Range(SubSeq(statuses, index + 1, Len(statuses))) \subseteq {"skipped"}

\* validate_any_terminal_pattern
AnyTerminalPattern(statuses, status) ==
    /\ status \in Range(statuses)
    /\ ProtocolPattern(statuses, SelectInSeq(statuses, LAMBDA s : s = status), status)

\* validate_result_stages
ResultStages(d) ==
    LET statuses == [i \in DOMAIN d.stages |-> d.stages[i].status] IN
    /\ [i \in DOMAIN d.stages |-> d.stages[i].stage] = Stages
    /\ CASE d.status = "completed" /\ d.verdict \in {"accepted", "wrong_answer"} ->
                Range(statuses) = {"succeeded"}
         [] d.status = "completed" /\ d.verdict = "compile_error" ->
                ProtocolPattern(statuses, 2, "failed")
         [] d.status = "completed" /\ d.verdict \in Rejections \ {"compile_error"} ->
                ProtocolPattern(statuses, 3, "failed")
         [] d.status = "failed" /\ d.verdict = "system_error" ->
                AnyTerminalPattern(statuses, "failed")
         [] d.status = "cancelled" /\ d.verdict = "cancelled" ->
                AnyTerminalPattern(statuses, "cancelled")
         [] OTHER -> FALSE

\* Fault: the totals are taken as they come.
AnyUsage(d) == UsageFits(d.usage)

\* The loop of validate_aggregate_usage: the totals after every stage.
Totals(stages) ==
    LET total[i \in 0 .. Len(stages)] ==
            IF i = 0 THEN NoUsage ELSE
            [spent |-> total[i - 1].spent + stages[i].usage.spent,
             peak |-> IF total[i - 1].peak < stages[i].usage.peak THEN stages[i].usage.peak
                      ELSE total[i - 1].peak] IN
    total

\* validate_aggregate_usage
AggregateUsage(d) == d.usage = Totals(d.stages)[Len(d.stages)]

\* validate_result_semantics
ResultSemantics(d) ==
    /\ d.score.earned <= d.score.possible
    /\ d.status = "completed" => d.verdict \notin {"cancelled", "system_error"}
    /\ d.status = "failed" => d.verdict = "system_error" /\ d.score.earned = 0
    /\ d.status = "cancelled" => d.verdict = "cancelled" /\ d.score.earned = 0
    /\ d.status = "completed" /\ d.verdict \in Rejections => d.score.earned = 0
    /\ ResultStages(d)
    /\ AggregateUsage(d)
    /\ d.provenance.eligible => d.provenance.kind # "development_mock" /\ d.provenance.named

\* $defs/EvaluationResult
SchemaResult(d) == d.score.possible >= 1 /\ d.stages # << >>

\* result_to_value.  The runtime digest is the provenance's; the identity's is
\* not written.
ResultToValue(r) ==
    [attempt |-> r.identity.attempt, status |-> r.status, verdict |-> r.verdict,
     score |-> r.score, stages |-> r.stages, usage |-> r.usage, provenance |-> r.provenance,
     large |-> r.large]

\* result_from_value, before the constructors
ResultParts(d) ==
    [identity |-> [attempt |-> d.attempt, digest |-> d.provenance.digest],
     status |-> d.status, verdict |-> d.verdict, score |-> d.score, stages |-> d.stages,
     usage |-> d.usage, provenance |-> d.provenance, large |-> d.large]

\* Score::new, ResourceUsage::new, ExecutionProvenance::new, EvaluationResult::new
DomainResult(r) ==
    /\ r.score.possible >= 1 /\ r.score.earned <= r.score.possible
    /\ UsageFits(r.usage) /\ \A i \in DOMAIN r.stages : UsageFits(r.stages[i].usage)
    /\ ValidProvenance(r.provenance.kind, r.provenance.eligible, r.provenance.named)
    /\ [i \in DOMAIN r.stages |-> r.stages[i].stage] = Stages
    /\ r.provenance.digest = r.identity.digest
    /\ ValidTerminal([status |-> r.status, verdict |-> r.verdict, earned |-> r.score.earned],
                     r.stages)

\* encode_evaluation_result
EncodeResult(r) ==
    LET d == ResultToValue(r) IN
    IF ~ResultSemantics(d) THEN Refused("SemanticViolation") ELSE
    IF ~SchemaResult(d) THEN Refused("SchemaViolation") ELSE
    IF d.large THEN Refused("MessageTooLarge") ELSE Accepted(d)

\* decode_evaluation_result_domain
DecodeResult(d) ==
    IF d.large THEN Refused("MessageTooLarge") ELSE
    IF ~SchemaResult(d) THEN Refused("SchemaViolation") ELSE
    IF ~ResultSemantics(d) THEN Refused("SemanticViolation") ELSE
    IF ~DomainResult(ResultParts(d)) THEN Refused("Domain") ELSE Accepted(ResultParts(d))

\* EvaluationIdentity::from_request
Identity(r) == [attempt |-> r.attempt_number, digest |-> r.digest]

\* The result that evaluate built, whose decision was out of so many points.
RunResult(possible, large) ==
    [identity |-> Identity(request), status |-> outcome.status, verdict |-> outcome.verdict,
     score |-> [earned |-> outcome.earned, possible |-> possible], stages |-> reports,
     usage |-> usage, provenance |-> provenance, large |-> large]

-----------------------------------------------------------------------------
(***************************************************************************)
(* The path.                                                               *)
(***************************************************************************)

CanonicalInit ==
    /\ PipelineInit
    /\ client = None /\ request = None /\ provenance = None /\ submission = None /\ reply = None

\* read_bounded of the CLI: the bytes it returns of a file that had one length
\* when it was opened and has another when it is read.
ReadBounded(seen, length) ==
    LET limit == MaxDocument + 1
        bytes == IF length < limit THEN length ELSE limit IN
    IF seen > MaxDocument \/ bytes > MaxDocument THEN Refused("InputTooLarge")
    ELSE Accepted(bytes)

\* The CLI's submit: a request is read and decoded, and create_evaluation
\* encodes it.
Create ==
    /\ client = None
    /\ \E d \in RequestDocuments, seen \in 1 .. MaxDocument + 1, length \in 1 .. MaxDocument + 2 :
          LET input == ReadBounded(seen, length)
              decoded == IF input.state = "refused" THEN input ELSE
                         IF input.value # length THEN Refused("MalformedDocument")
                         ELSE DecodeRequest(d) IN
          /\ client' = d
          /\ reply' = IF decoded.state = "refused" THEN decoded ELSE EncodeRequest(decoded.value)
    /\ UNCHANGED <<pipelineVars, request, provenance, submission>>

\* The payload is leased to a node, whose run begins.
Lease(executor) ==
    LET leased == Carried(reply.value) IN
    /\ client # None /\ request = None /\ reply.state = "accepted"
    /\ IF leased.state = "refused"
       THEN reply' = leased /\ UNCHANGED <<pipelineVars, request, provenance>>
       ELSE /\ request' = leased.value
            /\ provenance' = [kind |-> executor.kind, eligible |-> executor.eligible,
                              named |-> executor.named, digest |-> leased.value.digest]
            /\ Begin(Range(leased.value.required_capabilities) \subseteq executor.supports,
                     executor.kind, executor.eligible, executor.named)
            /\ reply' = None
    /\ UNCHANGED <<client, submission>>

Run(execution) ==
    /\ submission = None
    /\ Record(execution)
    /\ UNCHANGED <<client, request, provenance, submission, reply>>

\* The scores a decision may be out of; a result without one has zero of one.
Possible ==
    IF outcome.state = "result" /\ outcome.verdict \in {"accepted", "wrong_answer"}
    THEN {n \in 1 .. MaxScore : outcome.earned <= n} ELSE {1}

\* submit of the node's client
Submit(possible, large) ==
    LET encoded == EncodeResult(RunResult(possible, large)) IN
    /\ outcome.state = "result" /\ submission = None /\ reply = None
    /\ submission' = IF encoded.state = "accepted" THEN encoded.value ELSE None
    /\ reply' = IF encoded.state = "accepted" THEN None ELSE encoded
    /\ UNCHANGED <<pipelineVars, client, request, provenance>>

\* A peer that holds the lease sends a document that no run produced.
SubmitForeign ==
    /\ outcome = Running /\ reports = << >> /\ submission = None
    /\ submission' \in ResultDocuments
    /\ UNCHANGED <<pipelineVars, client, request, provenance, reply>>

\* submit_result of the control plane and of the store, for the lease's holder.
Deliver ==
    LET decoded == DecodeResult(submission)
        result == decoded.value IN
    /\ submission # None /\ reply = None
    /\ reply' = IF decoded.state = "refused" THEN decoded ELSE
                IF result.identity.attempt # request.attempt_number
                THEN Refused("result_identity_mismatch") ELSE
                IF EncodeResult(result).state = "refused" THEN Refused("CorruptData") ELSE
                IF result.identity # Identity(request) THEN Refused("IdentityConflict")
                ELSE EncodeResult(result)
    /\ UNCHANGED <<pipelineVars, client, request, provenance, submission>>

CanonicalNext ==
    \/ Create
    \/ \E executor \in Executors : Lease(executor)
    \/ \E execution \in Executions : Run(execution)
    \/ \E possible \in Possible, large \in BOOLEAN : Submit(possible, large)
    \/ SubmitForeign
    \/ Deliver

CanonicalSpec == CanonicalInit /\ [][CanonicalNext]_canonicalVars

-----------------------------------------------------------------------------
(***************************************************************************)
(* Properties.                                                             *)
(***************************************************************************)

\* Type correctness of what is added to the run.
CanonicalTypeOK ==
    /\ PipelineTypeOK
    /\ request # None => DomainRequest(request)
    /\ provenance = None <=> request = None
    /\ reply.state \in {"none", "refused", "accepted"}

\* A request that a client was told is in order reaches a node as the client
\* sent it: neither the store's copy nor the wire's adds, drops or refuses
\* anything, and a file that grew while it was read was not cut to the limit
\* and taken for a malformed one.
RequestSurvives ==
    /\ request # None => RequestToValue(request) = client
    /\ reply.state = "refused" =>
          reply.error \notin {"CorruptData", "stored_request_invalid", "MalformedDocument"}

\* The hand-written parsers of value.rs and the patterns of the schema are
\* the same grammar, so that a request the domain holds can always be
\* encoded, and one the schema admits is refused for its plan at most.
ParsersMatchSchema ==
    client # None =>
        LET r == RequestParts(client) IN
        /\ DomainRequest(r) => SchemaRequest(RequestToValue(r))
        /\ SchemaRequest(client) /\ r.plan = Stages => DomainRequest(r)

\* Whatever an executor returned, the result that the run built of it is
\* stored, unless its text is too large for a document, and what is stored is
\* what was built: the same end, score, reports and usage, under the request
\* that was leased.
RunsAreStored ==
    outcome.state = "result" /\ reply # None =>
        IF reply.state = "refused" THEN reply.error = "MessageTooLarge"
        ELSE \E possible \in Possible : reply.value = ResultToValue(RunResult(possible, FALSE))

\* What the stages spent, added up.
Spent(stages) ==
    LET sum[i \in 0 .. Len(stages)] ==
            IF i = 0 THEN 0 ELSE sum[i - 1] + stages[i].usage.spent IN
    sum[Len(stages)]

\* The protocol's rules and the domain's, which say the same twice, agree on
\* every document: one is stored exactly if its text fits, the domain can
\* hold it under the leased identity, and its usage is that of its stages.
\* What the domain would refuse the protocol's own checks have refused before.
FailsClosed ==
    submission # None /\ reply # None =>
        /\ reply.state = "accepted" <=>
              /\ ~submission.large
              /\ DomainResult(ResultParts(submission))
              /\ ResultParts(submission).identity = Identity(request)
              /\ submission.usage.spent = Spent(submission.stages)
              /\ \A i \in DOMAIN submission.stages :
                    submission.stages[i].usage.peak <= submission.usage.peak
              /\ \E i \in DOMAIN submission.stages :
                    submission.stages[i].usage.peak = submission.usage.peak
        /\ reply.state = "refused" => reply.error # "Domain"

\* "Elements match the capability token": the CHECK on a task's capabilities
\* admits those of every request that was found in order.
CapabilitiesAreStorable ==
    client # None /\ reply.state = "accepted" /\ request = None =>
        \A c \in Range(client.required_capabilities) : StorableCapability(c)
=============================================================================
