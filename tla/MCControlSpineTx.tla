-------------------------- MODULE MCControlSpineTx --------------------------
(* Instances of ControlSpineTx for TLC: one evaluation that is created,      *)
(* leased, renewed, retried once and finished or cancelled, beside another   *)
(* that is created, leased and cancelled with the same keys.                 *)
EXTENDS ControlSpineTx, TLC, SequencesExt

MCOneCapability == {<<1>>}

Nth(S, n) == SetToSeq(S)[n]

\* Two requests of the first evaluation and one of the second.
MCRequest(n) ==
    [evaluation |-> Nth(Evaluations, IF n = 3 THEN 2 ELSE 1), attempt |-> Nth(Attempts, n),
     number |-> IF n = 2 THEN 2 ELSE 1, key |-> Nth(Keys, n),
     reference |-> Nth(References, 1), digest |-> Nth(Digests, 1), required |-> <<1>>]
MCResult(n, status) ==
    [evaluation |-> MCRequest(n).evaluation, attempt |-> MCRequest(n).attempt,
     reference |-> Nth(References, 1), digest |-> Nth(Digests, 1), status |-> status]

MCCreate(n) == [op |-> "create", request |-> MCRequest(n), now |-> 0]
\* The second evaluation, with other content for the reference they share.
MCCreateOther ==
    [MCCreate(3) EXCEPT !.request.digest = Nth(Digests, Cardinality(Digests))]
MCClaim(o) ==
    [op |-> "claim", node |-> Nth(Nodes, 1), token |-> Nth(Tokens, 1), operation |-> o,
     declared |-> {1}, now |-> 0]
MCRenew(n, now) ==
    [op |-> "renew", node |-> Nth(Nodes, 1), evaluation |-> MCRequest(n).evaluation,
     attempt |-> MCRequest(n).attempt, token |-> Nth(Tokens, 1), now |-> now]
MCRetry(now) == [op |-> "retry", request |-> MCRequest(2), now |-> now]
MCSubmit(n, now) ==
    [op |-> "submit", key |-> Nth(ResultKeys, 1), token |-> Nth(Tokens, 1),
     result |-> MCResult(n, "completed"), now |-> now]
MCCancel(n, now) ==
    [op |-> "cancel", key |-> Nth(ResultKeys, 1), evaluation |-> MCRequest(n).evaluation,
     result |-> MCResult(n, "cancelled"), now |-> now]

MCCommands ==
    {MCCreate(1), MCCreate(3), MCCreateOther, MCRenew(1, 1), MCRetry(2), MCSubmit(1, 1), MCCancel(1, 1),
     MCCancel(3, 1)}
       \cup {MCClaim(o) : o \in Operations}

\* The commands on the first evaluation, for three sessions.
MCOneEvaluation ==
    {MCCreate(1), MCClaim(Null), MCRenew(1, 1), MCRetry(2), MCSubmit(1, 1), MCCancel(1, 1),
     MCCancel(2, 2)}

SessionSymmetry == Permutations(Sessions)
=============================================================================
