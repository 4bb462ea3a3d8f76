# A TLA+ verification of OpenOJ

OpenOJ judges submissions: a control plane keeps evaluations in PostgreSQL and
leases them to judge nodes, a judge node runs the stages of an evaluation in a
Firecracker microVM, and an agent in the guest runs the commands. This
directory holds TLA+ models of these parts, TLC runs that check them on small
instances, and TLAPS proofs about every part.
`PROJECT.json` maps every definition to the source lines it models and lists the runs, the findings, the
hazards and the theorems. The models describe one commit of the repository.

## 1. Inventory

| Component | State | Operations | Hard behaviour | Correct when |
|---|---|---|---|---|
| Store, `crates/openoj-storage` (+ migrations) | tables `evaluations`, `evaluation_attempts`, `evaluation_tasks`, the immutable references | `create_evaluation`, `claim_task`, `judge_claim_task`, `judge_renew_lease`, `retry_expired`, `recover_expired`, `submit_result`, `judge_submit_result`, `cancel_evaluation` | every order of commands; times that go backwards; ids and keys shared by evaluations; unique indexes and CHECKs as part of the control flow; transactions that lock rows in different orders | the row locks make commands atomic, transactions end, the tables agree, one live attempt per evaluation, the first terminal write wins, no result without a lease |
| Lifecycle, `crates/openoj-domain/src/control.rs` | `EvaluationState`, `AttemptState` | `transition_to` | the store's SQL repeats it by hand | the store implements it |
| Judge Control service, `apps/openoj-control-plane` | RPCs in flight, the allowlist, the sweeper's pass | `negotiate`, `claim`, `renew_lease`, `submit_result`, sweeper | clock, token and reads taken before the transaction that uses them | claims are idempotent, verdicts come from the holder, expiry is real, nobody gets more than the policy allows |
| Judge node, `apps/openoj-judge-node`, `crates/openoj-judge-core` | the worker's step, its lease | claim, renew once, execute, submit; exit on error | crash at any step, orphaned calls, restart | evaluations end, expired leases are freed |
| Stage pipeline, `crates/openoj-application/src/lib.rs` | reports, usage, decision | `evaluate`, `record`, `finish` | any outcome at any stage; validated twice | no fabricated success, both validators agree |
| Firecracker executor, `firecracker_executor.rs`, `crates/openoj-evaluator` | session, negotiated, last exit, terminated | stages, `ensure_session`, `teardown` | failure and crash at every step, reuse across attempts | nothing is left behind, outputs belong to their attempt, attempts return |
| microVM, `crates/openoj-firecracker` | lifecycle phase, child, socket paths | `bootstrap`, `open_guest_channel`, `terminate` | partial bootstrap; paths outlive handles | every VM is reclaimed |
| Guest agent, `crates/openoj-guest-agent` | session, command, pipes | `serve_frame`, `handle`, `run_command` | a command that writes, forks, hangs or dies | answers in order, one command at a time, stages end |
| Canonical protocol, `crates/openoj-protocol`, `crates/openoj-domain` (`evaluation.rs`, `value.rs`), the JSON schema, the CLI's `submit` | none of its own: documents on their way | decode, encode, `validate_result_semantics`, `read_bounded` | one rule written in the schema, the protocol, the domain, the run and a SQL CHECK; a file that grows | the copies of a rule agree, requests survive the path, exactly what a run built is stored |
| Guest channel and codec, `vsock.rs`, `crates/openoj-guest-protocol` | bytes on the stream, the reader's buffer | `send`, `recv`, `serve_frame`, `encode`, `decode` | partial reads and writes, a peer that drips, stops or leaves, bounds that differ by direction | a session of whole frames; a call ends |
| Firecracker API client, `api.rs` | the bounded buffer, the deadline | `request`, `read_response` | responses that are cut, too long, slow | a success was read in full; a request ends |
| VM configuration `config.rs`, pool, migrations, the rest of the CLI | none | validation, start-up | - | not modelled, see 7 |

The control plane calls the store; judge nodes call the control plane over a
unix socket; the executor calls the VM, the VM's process and, over vsock, the
guest agent. The store is the only shared state of control planes; socket
paths on the host are the shared state of successive node processes.

## 2. Modules

    EvaluationLifecycle        abstract: the domain's transition tables
          ^ implemented by
    ControlSpine               the store, one action per transaction
      |     ^-- ControlSpineProofs   (TLAPS)
      v extended by
    JudgeControl               RPC handlers and sweeper, between transactions
      v extended by
    JudgeNode                  worker processes: the closed system

    ControlSpineTx             the statements of the transactions, with locks;
                               implements ControlSpine, which it extends

    StagePipeline   MicroVm    evaluate and EvaluationResult::new;  VM, VMMs, paths
      |   \           /
      |  FirecrackerExecutor   the executor of a node, composed of both
      v extended by
    CanonicalProtocol          documents from the client to the store and back
      (with Tokens)            grammars of identifiers and capabilities

    GuestAgent                 the command of a stage: budget, pipe, forks
    GuestChannel               the byte stream between executor and agent
      implements GuestSession  abstract: a session of whole frames
    ControlApi                 requests to a VMM
    VmmStreams                 both streams of a node to one VMM

Eight modules hold the proofs (section 5). Each extends the module it is about:
`ControlSpineProofs`, and on top of it `ControlSpineTxProofs` and
`JudgeControlProofs`; `StagePipelineProofs`, and on top of it
`FirecrackerExecutorProofs` and `CanonicalProtocolProofs`; `GuestAgentProofs`;
`VmmStreamsProofs`, for both streams.

The `MC` modules give constants their values for TLC; the other modules need no
more than a `.cfg`.

**ControlSpine.** A row is a record in a function from ids; state `absent`
means that it was never inserted. `CreateOutcome`, `RenewOutcome`,
`RetryOutcome`, `SubmitOutcome` and `CancelOutcome` are the early returns of
the code in their order, the constraints of the schema included; the action
writes when the outcome is `Ok` and leaves the outcome in `reply`. A canonical
payload is a record, so comparing bytes is comparing records. The four
immutable references of a request are one reference with a digest. Capabilities
are numbers so that their order (which the schema constrains) can be stated.
`now` is an input of every command: nothing orders the times of two commands.
`locked` in `ClaimTask` is what `SKIP LOCKED` may skip.

**ControlSpineTx.** `tx` is, by session of the pool, the command it runs, the
label of its next statement and the rows its `SELECT` left it with; `held` is
the rows and unique index entries its transaction holds. A statement that
needs (`Needs`) what another session holds waits. The tables of ControlSpine
are what is committed, and `Commit` writes what the statements wrote, whatever
the tables hold by then: that this is the same as the command of ControlSpine
run alone is `ImplementsStore`, not an assumption. Modelled of PostgreSQL, and
external: locks kept to the end of the transaction, READ COMMITTED snapshots
per statement, conditions evaluated again on the version that was locked
(`StillReady`, `JoinHolds`), `SKIP LOCKED`, the deadlock detector, lost
connections. The decisions are those of ControlSpine (`RetryCheck`,
`SubmitCheck`, `CancelCheck`).

**JudgeControl.** A call is a record in a slot. `StartX` is the handler up to
the store (authorize, draw a token, read the clock), and each later action is
one statement or transaction of the store. `granted` is a history of the
leases that were returned; callers only use tokens that were told to them. The
sweeper scans (`Scan`) and then retries what it found (`Retry`), with the time
of the start of its pass.

**JudgeNode.** A worker is `exited`, `ready`, or at one of the steps of
`run_once_async`. Every error is `exited`, and an exited process may start
again. `Crash` leaves the worker's call in the service, where it finishes or is
dropped (`Abandon`). Fresh ids are drawn with `CHOOSE` from the ids nobody has
(`FreshOperations`, `FreshResultKeys`, `FreshTokens`), since nobody else
knows them and which one is drawn makes no difference; a step that needs one
waits when the bounded set of ids is used up, as it does for a free slot.

**StagePipeline.** `Record(execution)` is one turn of `evaluate`'s loop with
any outcome of the type `StageExecution`; `ValidTerminal` is the domain's own
validation, written from `evaluation.rs` and not from `record`. The three
cumulative usage counters are one.

**MicroVm, FirecrackerExecutor.** `processes`, `api` and `uds` are the host:
VMM processes and who bound which path. `vm` is the handle. The control API of
Firecracker is external: it refuses configuration once booted, does not bind a
path that exists, and may die. `owner` is a history of who spawned what. The
executor's `step` is where `execute` is; `fail` is the error path of a stage
and `end` the end of `execute`, and both lead through `teardown`. The guest
answers its frames in order or not at all, which is what `GuestChannel` is shown
to provide; a send or a connect may fail at any time.

**GuestAgent.** stdout and stderr, which are read the same way one after the
other, are one pipe; output and time are counted in units. The command, what
it forks and the kernel's pipe are external.

**CanonicalProtocol, Tokens.** A document is a record of what the rules look
at. `SchemaRequest` and `SchemaResult` are the JSON schema, `ResultSemantics`
the checks of the protocol crate, `DomainRequest` and `DomainResult` the
constructors of the domain (the latter with `ValidTerminal` of StagePipeline),
each written from its own source. `RequestToValue`, `RequestParts`,
`ResultToValue` and `ResultParts` are the four conversions; the runtime digest
of a result travels in its provenance only. The path is `Create` (the CLI reads
and decodes, the store encodes), `Lease` (the payload is decoded, encoded and
decoded again), `Run` (StagePipeline), `Submit`, `Deliver`; `SubmitForeign` is a
peer with the lease whose document no run produced. Tokens are sequences of
character classes, so that the hand-written scanners can be run against the
patterns; `Scanned` keeps the scanner's way of telling the first segment by the
value of its first byte.

**GuestChannel, GuestSession, ControlApi, VmmStreams.** A byte is known by its
frame and its place in it: what a reader takes for a length prefix may be
anything once it is out of step. A read takes what has arrived, up to what it
has room for. `Encodes` and `Decodes` keep the different bounds of the two
directions. `host.why` and `guest.why` say how an end left. `ControlApi` makes
the requests of `configure` and `start` one after the other, each on a
connection of its own; the VMM sends any response of `Responses`, byte by byte,
and closes when it likes. `VmmStreams` runs the channel once the VM is
configured, as `ensure_session` does.

Operators introduced with "Fault" are plausible bugs. They are used nowhere in
the models: replacing a definition by its fault makes TLC violate the property
named in `PROJECT.json` under `mutants`.

## 3. Runs that pass

| Run | Instance | Shows |
|---|---|---|
| `retries` | 1 evaluation, 3 attempts, 3 keys, times 0..4, lease 1 | `TypeOK`, `RowsAgree`, `AttemptHistory`, `LeaseBeforeResult`, `TerminalIsFinal`, `LeasedOnce`, and the refinement `ImplementsLifecycle` |
| `locks` | 2 sessions, 2 evaluations, 3 attempts, 3 keys, one reference with 2 contents, commands of all six kinds | `ImplementsStore` (every change of the tables is one command of ControlSpine), `DecisionStands` (what was decided on a locked row still holds when it is written), `OnlyClaimsCross` (which commands can deadlock), `ReferencesAgree` when ids, keys and references collide, `EveryTransactionEnds` (liveness), `TxTypeOK` |
| `handlers` | 2 nodes with different allowlist entries, 2 capabilities, 2 calls, 1 sweeper, 2 attempts, times 0..3 | `ClaimIsIdempotent` (no two callers hold a lease of one attempt), `LeaseWithinPolicy`, `VerdictFromHolder`, `ExpiryIsReal`, `SkipMeansMoved` |
| `recovery` | 1 node, 1 crash, 2 attempts, times 0..9 | `EvaluationEnds`, `ExpiredLeaseIsFreed` (liveness) |
| `canonical` | usage 0..2, score 0..1, all stage outcomes, documents on both sides of every rule, tokens up to the bound | `RequestSurvives`, `ParsersMatchSchema`, `RunsAreStored` (as they were built), `FailsClosed` (and nothing else is), and of the run itself `NoFabricatedSuccess`, `DomainAcceptsRun`; `CanonicalTypeOK` |
| `guest` | pipe 2, limit 3, output up to 4, budget 2, 2 frames | `AnswersInOrder`, `OneCommandAtATime`, `StageEndsUnlessHeld` (liveness) |
| `streams` | prefix of 2 bytes, frames up to 8, 3 frames, messages that exercise every kind of field check, 2 API requests | `FramesAligned`, `FramesDecode`, `AcceptedInFull`, the refinement `ImplementsSession`, `NobodyLeftWaiting` (liveness), `StreamsTypeOK` |
| `executor` | 3 attempts, 3 VMMs, 1 crash of the node | `NothingLeftBehind`, `SessionOnOwnVm`, `OutputIsOwn`, `AttemptReturns` (liveness) |

*Bounds.* Three attempts are the fewest with one that is neither first nor
current. Times 0..4 with a lease of 1 let a lease run out twice and still have
a time that overflows (`ExpiryFits`) and one below a row's creation. Two calls
are the fewest that race for one operation id. `MaxAttemptNumber` is the last
number that is used or one above it. In `recovery`, `MaxTime` lets every attempt
run out and be renewed once more; the clock stands still while no lease runs,
when no guard looks at it, so the bound is not met. The pipe is
smaller than the limit and the limit smaller than the largest output, as
64 KiB, 1 MiB and "anything" are. In `executor` every attempt can boot a VM of
its own, and the third attempt is one after a failed or orphaned second. In
`locks` two sessions are enough for every pair of commands to cross
(`MCLocksThree.cfg` has three and takes hours). In `streams` the length prefix has two bytes,
the fewest that can be cut, and three frames let one be read out of step and one be asked
after it; the largest inline input takes more room than a frame
has, as in the code. In `canonical` a token of `MaxToken` classes has a
separator, a repeated separator and a digit in every place.

*Symmetry* is used where no liveness is checked, over sets that no definition
picks from with `CHOOSE`. The `VIEW` of some runs leaves out `reply`, which is
only read in the step that writes it. `CHECK_DEADLOCK FALSE` is set for the
node, guest and executor runs: these stop when a bound is reached or the agent
exited.

*Fairness.* `JudgeNode`: weak fairness of each worker, of each call, of each
sweeper and of time, for the tokio runtime polls every task and the sweeper's
interval goes on after an error. Not fair: crashes, submissions,
cancellations. That an exited worker is started again is the service
manager's part. `GuestAgent`: weak fairness of the agent and of the clock; a
command never has to exit. `FirecrackerExecutor`: weak fairness of the
executor's own steps, each of which has a deadline in the code; neither VMM nor
guest has to do anything. `ControlSpineTx`: strong fairness of a session's
statements, for PostgreSQL's lock queues are first come first served, and weak
fairness of the deadlock detector; lost connections are not fair.
`VmmStreams`: the node's own reads go on and time passes, the kernel delivers
what was written, and an agent that can read does; that the guest or the VMM
ever answers is not assumed.

## 4. Where the code and its documents disagree

Each of these runs checks one sentence of a document or a comment and ends in a
counterexample; `PROJECT.json` quotes the sentence under `findings`.

| Run | The code |
|---|---|
| `create_race` | answers one of two identical creations at the same time with `IdentityConflict`, although its request is stored |
| `renew_timer` | renews once, before execution |
| `attempt_overflow` | ends every sweep at an attempt number that cannot be counted up, so that the leases behind it stay |
| `pipe_full` | lets a command block on a full pipe until it times out |

Further disagreements have a configuration that reproduces them, with the
property in it violated, and are not among the runs:

| Configuration (module) | The code | The text |
|---|---|---|
| `MCExpiredRenewal` (`MCJudgeControl`) | extends a lease that has run out, until it is swept | "过期 ... 均返回 stale/revoked，不延长租约", `docs/superpowers/specs/2026-08-17-p0c-judge-control-design.md:118` |
| `MCOldRenewal` (`MCJudgeControl`) | answers the renewal of a replaced attempt with `CorruptData` while the new one is queued | "旧 Attempt ... 均返回 stale/revoked", same line |
| `MCLateResult` (`MCJudgeControl`) | answers the late result of a replaced attempt with `Unavailable` while the new one is queued | "其他 late/stale result 返回 `stale_lease` 或 `terminal_conflict`", `docs/superpowers/specs/2026-08-17-p0b-durable-control-spine-design.md:106` |
| `MCOperationRace` (`MCJudgeControl`) | gives two nodes a lease for one operation id when their replays both precede both claims (the unique index includes the node) | "同 operation ID 不同 node/输入返回 conflict", `docs/superpowers/specs/2026-08-17-p0c-judge-control-design.md:75` |
| `MCStaleJoin` (`MCControlSpineTx`) | answers a late result with `NotFound` when the attempt is replaced while it waits for the row, because the join no longer holds | "其他 late/stale result 返回 `stale_lease` 或 `terminal_conflict`", `docs/superpowers/specs/2026-08-17-p0b-durable-control-spine-design.md:106` |
| `MCBuildBudget` (`FirecrackerExecutor`) | waits 15 s for a build with a budget of 30 s | "Default build stage wall-clock budget in milliseconds.", `apps/openoj-judge-node/src/firecracker_executor.rs:27` |
| `MCStorable` (`MCCanonical`) | accepts capabilities with `_` and `:` that the CHECK on tasks refuses, so that a valid request fails as `Unavailable` | "元素符合 capability token", `docs/superpowers/specs/2026-08-17-p0c-judge-control-design.md:153` |
| `MCFrameIsRead` (`MCVmmStreams`) | ends the agent when a length prefix arrives in two reads | "Reads one message frame and writes one response frame over a vsock stream.", `crates/openoj-guest-agent/src/lib.rs:296` |
| `MCInlineFits` (`MCVmmStreams`) | writes inline bytes as decimal numbers, so that an input of 262144 bytes may exceed the frame it has to fit | "inline input/evidence `262_144` 字节", `docs/protocol/guest-vsock-v0alpha1.md:26` |
| `MCCapabilityOrder` (`MCControlSpine`) | stores capabilities unsorted against a constraint that wants them sorted | "排序、去重 `required_capabilities`", `docs/superpowers/specs/2026-08-17-p0c-judge-control-design.md:74` |
| `MCPipeHeld` (`GuestAgent`) | reads a pipe beyond the budget while a forked process holds it | "Runs a validated command with a wall-clock budget", `crates/openoj-guest-agent/src/lib.rs:140` |
| `MCGuestCancel` (`GuestAgent`) | reads a cancel after the stage it is meant for | "取消当前阶段并收敛终态", `docs/protocol/guest-vsock-v0alpha1.md:42` |
| `MCVmmOrphan` (`FirecrackerExecutor`) | has no reconciler for VMMs of a node that crashed | "宿主重启后 reconciler 清理残留", `docs/superpowers/specs/2026-08-17-p0d-execution-plane-design.md:60` |
| `MCDiagnostics` (`FirecrackerExecutor`) | fails an attempt for a diagnostic that the guest protocol allows | "单诊断 `4096` 字节（超限截断并标记 `truncated`）", `docs/protocol/guest-vsock-v0alpha1.md:27` |

None of them breaks a safety property of section 3: one operation id used by
two nodes yields leases of two different attempts, a revived lease is still
held by one node, the wrong error code is returned without a write, and an
agent that ends closes its stream.

## 5. Proofs

Each theorem holds for every value of the constants that the assumptions admit:
any number of evaluations, attempts, nodes, sessions, calls, sweepers, VMMs,
frames, any set of documents, messages and responses, any bound. Every
inductive invariant was first checked by TLC, on the run of its module or, for
the closed system, on an instance with two nodes. All safety invariants and all
safety action properties of the runs that pass are proved.

| Module | Inductive invariant | Theorems about properties of the runs | Others |
|---|---|---|---|
| `ControlSpineProofs` | `IInv` | `TypeOK`, `RowsAgree`, `AttemptHistory`, `ReferencesAgree`, `LeaseBeforeResult`, `TerminalIsFinal`, `LeasedOnce`, `ImplementsLifecycle` | |
| `ControlSpineTxProofs` | `TxInv`, `LockInv` | `TxTypeOK`, `DecisionStands`, `ImplementsStore`, `OnlyClaimsCross`; `TerminalIsFinal` and `ImplementsLifecycle` again, for interleaved transactions | `SessionsKeepTables`: the store's invariants for interleaved transactions |
| `JudgeControlProofs`, the service | `ControlInv` | `ClaimIsIdempotent`, `LeaseWithinPolicy`, `VerdictFromHolder`, `ExpiryIsReal`, `SkipMeansMoved`; `TerminalIsFinal`, `LeasedOnce`, `ImplementsLifecycle` again, for the service | `ServiceKeepsTables` |
| `JudgeControlProofs`, the closed system | `SystemInv`, `AnswerInv` | all of these but `VerdictFromHolder` again, with real workers, crashes and dropped handlers | `OneWorkerEach`, `WorkersGetTheirAnswers` |
| `StagePipelineProofs` | `PipelineInv` | `NoFabricatedSuccess`, `DomainAcceptsRun` | |
| `FirecrackerExecutorProofs` | `ExecutorInv` | `NothingLeftBehind`, `SessionOnOwnVm`, `OutputIsOwn`; `NoFabricatedSuccess` again, through microVMs and crashes | `StagesInTurn` |
| `GuestAgentProofs` | `GuestInv` | `AnswersInOrder`, `OneCommandAtATime` | `GuestTyped` |
| `VmmStreamsProofs` | `ApiInv`, `ChannelInv` | `StreamsTypeOK`, `AcceptedInFull`, `FramesDecode`, `FramesAligned`, `ImplementsSession` | |
| `CanonicalProtocolProofs` | `CanonicalInv`, `StoreInv` | `CanonicalTypeOK`, `RequestSurvives`, `ParsersMatchSchema`, `RunsAreStored`, `FailsClosed`; `NoFabricatedSuccess` again, on the path of the documents | |

### The store

`IInv == TypeOK /\ RowsAgree /\ AttemptHistory /\ ReferencesAgree /\
LeaseBeforeResult`. No part of it is inductive alone. A claim, a retry or a
terminal write finds an attempt through `current` and writes rows found through
the attempt's own request: `RowsAgree` says that these are the same rows. That
a write to one evaluation leaves the others alone needs `CurrentOfOne` (no
attempt is current in two), which also follows from `RowsAgree`. That a retry
does not produce a second attempt with a number needs `AttemptHistory`, whose
own step needs the state of the current attempt from `RowsAgree`. There is one
lemma per action (`CreateInv`, `ClaimInv`, `RenewInv`, `RetryInv`,
`WriteTerminalInv` for both `SubmitInv` and `CancelInv`) and one step per
conjunct that the action can disturb. For the refinement every action maps to
one abstract step (`CreateMaps`, `ClaimMaps`, `RetryMaps`,
`WriteTerminalMaps`) or to a stutter (`RenewMaps`, `Stutter`).

### Transactions

`TxInv` says of every session, by the statement it is at, which rows and index
entries it holds and what of what it read is still so (`CreateStands`,
`ClaimStands`, `JoinStands`), and that nothing is held twice. The step of one
session is a lemma per statement; that it leaves the others' share alone is
`StatementInv` and, for a commit, `WritesSpare`: a commit only writes what it
holds (`Writes`), and what a session relies on is either held by it or cannot
be undone. A claim is the interesting case: it decides on an attempt and an
evaluation that it has not locked, and `ReadyIsClaimable` shows that the task it
has locked says enough about them. `CommitIsCommand` then gives
`ImplementsStore`, through which every theorem of the store holds for
interleaved transactions.

`LockInv` lists the kinds of rows a session can hold before each statement.
`OnlyClaimsCross` follows by a rank: among claims, and among the other commands,
whoever waits, waits for a transaction that is further on in the order of the
statements, so there is no cycle of one sort. The theorem has the hypothesis
`RetriesDrawIds`: the attempt id of a retry is not one that a request has for
another evaluation. `next_attempt_id` draws 24 random bytes; the ids of
creations, which clients choose, may collide. Without the hypothesis the
property is false, although TLC's instance does not show it: two retries of
different evaluations, each of whose new attempt ids is the current attempt of
the other evaluation, would wait for each other at the insertion.

### Judge Control

A handler or a sweeper reads, and comes back to the store later. `ControlInv`
is `IInv` and what is still true of such a reading: a claim's token is still
nobody's (`ClaimsAreFresh`), a submitter has a lease, maybe of another attempt
(`SubmitsAreGranted`), the row of a sweep may have been moved on but never back,
and its new attempt is nobody else's (`SweepsFollow`), and the history of
granted leases is what the tables say (`GrantsStand`, `HoldersDiffer`). The
store's commands are used through what they leave alone (`RowsKept`,
`HoldersKept`), once per command.

`SkipMeansMoved` did not hold as the module stood: a sweeper's new attempt id
could be one that a client's pending submission would use. `FreshIds` now
excludes the ids of pending `Submissions`, as random ids do in the code.

### The closed system

`JudgeNode` closes the service with its real callers. Each of its steps is a
step of `ControlNext` or `Abandon`, the dropping of a handler whose process is
gone (`SystemSteps`); `ControlNext` has no such step, so the closed system does
not implement `ControlSpec` to the letter, and its theorems rest on an
invariant of its own. `SystemInv` is `ControlInv`, `OperationsAreFresh` (a claim
under way has an operation id of its own) and `WorkerOK`: the call a worker
waits for is its own and of the kind it waits for (`AwaitsOwn`), a lease it
works under was granted to it (`HoldsGranted`), and it submits a status that
its executor returned (`HasResult`). For the store a dropped handler is a
stutter (`SystemTransactions`), which carries over the theorems of the store and
of the service. `VerdictFromHolder` is left out: it reads the outcome of a
call that ends from `reply`, which a dropped handler does not write.

Two results need the workers. `OneWorkerEach`: no two processes hold one
attempt at the same time, though a process that lost its lease goes on until it
is told. `WorkersGetTheirAnswers`: which errors a live worker can meet. It is never
refused for its policy entry, for a key or an operation that someone else has,
for a result that is not of its attempt, or for an evaluation that does not
exist. What remains is in `Answers`: an out-of-date lease, a terminal result that
came first, times that do not fit, and the two answers of a NULL owner
(`CorruptData` to a renewal, `Unavailable` to a submission, after the attempt
was replaced). This is where `AnswerInv` is needed: a renewal or submission
under way names a granted lease and its rows, which are no younger than the
call (`NamesOwnLease`, `NoRowFromFuture`; otherwise the tables' time constraints
fail), and result keys under way are distinct and in no row (`KeyIsFresh`).

### Pipeline, executor, documents

`PipelineInv` adds to `NoFabricatedSuccess`, which speaks about finished runs,
what a run may count on before its last stage (`GoesOn`) and that reports follow
the plan.

`ExecutorInv` relates where `execute` is to the phase of the handle and to the
session (`StepAgrees`), the handle to the processes and paths of the host
(`HandleHasChild`, `ChildAlone`, `PathIsChilds`), and the frames under way to
the stage that asked (`OneInFlight`). Processes and paths left by an earlier,
crashed node process are told apart by `owner`, and nothing is claimed of them
that the code does not ensure. A result of its own is `StagesInTurn`: with this
executor the guards of `execute` against a terminated executor and against a
check before a run are never taken, `last_run_exit` is 0 whenever a check is
made (so `host_check_decision` never decides `wrong_answer`), and `evaluate`
never meets `InvalidExecutorOutput`.

`CanonicalInv` says that the stored document is the client's, that the schema
and the domain accept it, and that taking it apart and putting it together
gives it back (`Carriable`); the lemmas `RequestRebuilds`, `RequestCarried` and
`ResultRebuilds` are about the conversions alone.

The loops of the code, the scanners of `Tokens` and the sums over a result's
stages, are recursive functions (`Scans`, `Totals`). What they compute for every
input is proved by induction over sets of natural numbers
(`NatSetInduction`, from the library's well-founded minimum), instantiated with
the set of the lengths for which the claim holds: `ScanMeaning` gives the state
of a scanner after any prefix, from which `CapabilityGrammar` and
`OpaqueGrammar` follow, hence `ParsersMatchSchema` for tokens of every length;
`TotalsMeaning` says that the loop adds the counters up and that its peak is the
greatest of the stages.

`StoreInv` is what `RunsAreStored` and `FailsClosed` rest on: the usage that a
run has counted is the sum over its reports (`RecordAddsUp`, one turn of the loop
of `evaluate`), the way it ended is one the domain accepts, a submission for a
run that ended is that run's document, and the answer to a submission is that of
one rule, `Storable`. `RulesAgree` shows that the checks of the protocol
decode and those of the domain, in their different orders, accept the same
documents.

### Guest agent and streams

`GuestInv` ties the state of the agent to the command and to the request that
it answers next; `Matches` is `AnswersInOrder` frame by frame.

`ChannelInv` is about bytes: what a reader has in its buffer, what has arrived
and what is on the way are consecutive pieces of one frame (`Flow`, `Piece`), of
the frame that follows those already handled. A read moves bytes from one piece
to the other (`FlowRead`), a write begins a frame on an empty stream
(`FlowWritten`), in part when it fails. From this a length prefix is read as it
was written (`LengthIsRead`), hence no frame is refused. `ImplementsSession`
maps the bytes to whole frames; every step is a step of `GuestSession` or a
stutter. `ApiInv` says how far a response is read against what was sent and
declared.

### Assumptions

TLC evaluates all of them on the instances. `BoundsAssumption`,
`NullAssumption`, `CommandsAssumption`, `PolicyAssumption`,
`SubmissionsAssumption`, `PipelineAssumption` and `GuestAssumption` give
constants their types, and say that NULL and "none" are no values. With content:

- `ExecutorAssumption`: a score of one point is within the bound, for
  `host_check_decision` awards it, and no exit code is taken for the lack of one;
- `ChannelAssumption`: a frame has room for a diagnostic (1 MiB against 4 KiB in
  `guest-protocol`), and the host asks none of the two messages that only the
  guest sends;
- `ControlApiAssumption`: the bound on a head is below the bound on a whole
  response (16 KiB and 64 KiB in `api.rs`), and `configure` makes at least one
  request; otherwise the bounded buffer could be asked for more than it holds;
- `CanonicalAssumption`: a document has the schema's fields and no others
  (`additionalProperties: false`).

### Only model-checked

- Liveness (`EveryTransactionEnds`, `EvaluationEnds`, `ExpiredLeaseIsFreed`,
  `StageEndsUnlessHeld`, `AttemptReturns`, `NobodyLeftWaiting`): the prover does
  not reason about fairness and `ENABLED`.
- `VerdictFromHolder` for the closed system, as said above.

## 6. Plan

1. `ControlSpine`, `EvaluationLifecycle`, their proofs - done.
2. `JudgeControl`, `JudgeNode`, the closed system - done.
3. `StagePipeline`, `GuestAgent`, `MicroVm`, `FirecrackerExecutor` - done.
4. `ControlSpineTx`, the transactions under row locks - done.
5. `CanonicalProtocol` and `Tokens`, the documents - done.
6. `GuestChannel`, `GuestSession`, `ControlApi`, `VmmStreams`, the streams - done.
7. Proofs of the safety properties of every module - done.
8. The theorems of the service for the closed system of node processes - done.
9. Left: the composition of `JudgeNode` with `FirecrackerExecutor`, and liveness
   beyond small instances.

## 7. Not modelled

- JSON and protobuf text: a document is a record, a malformed one is refused.
  The digests, media types and artifact references of a document are carried
  as model values. (Read side by side, `MediaType` of the domain accepts names
  that begin with a character such as `+`, which the schema's pattern refuses.)
- `config.rs` of `openoj-firecracker`: bounds on paths and numbers that are
  checked once, before there is any state.
- The pool, schema migration at start-up, socket setup, environment parsing,
  and the CLI but for `submit`.
- A composition of `JudgeNode` with `FirecrackerExecutor` (how long an attempt
  takes against its lease): `renew_timer` shows that no bound relates the two.
- Evidence and artifact identifiers, and the text of diagnostics.
- The production profile of the executor, which `validate` refuses.

## 8. Running

    tlc -config MCRetries.cfg MCControlSpine
    tlc -config MCLocks.cfg MCControlSpineTx
    tlc -config MCStreams.cfg MCVmmStreams
    tlapm ControlSpineProofs.tla       (likewise the other *Proofs modules)

`PROJECT.json` lists the module of every configuration.
