----------------------------- MODULE MCCanonical -----------------------------
(* An instance of CanonicalProtocol for TLC: requests that differ from one   *)
(* in order in a capability, the identifier, the plan, the policy or a       *)
(* limit, and results with every combination of end, score and stages.       *)
EXTENDS CanonicalProtocol

MCTokens == UNION {[1 .. n -> Characters] : n \in 0 .. MaxToken + 1}

MCRequest ==
    [request_id |-> <<"a">>, attempt_number |-> 1, digest |-> "asked",
     plan |-> [profile |-> "algorithm_batch", stages |-> Stages],
     policy |-> [limit |-> 1, network |-> "denied"],
     required_capabilities |-> <<<<"a">>>>]

\* No executor of the instance has this one.
MCMissing == <<"a", "1">>

MCRequests ==
    {[MCRequest EXCEPT !.required_capabilities = <<t>>] : t \in MCTokens}
    \cup {[MCRequest EXCEPT !.request_id = t, !.required_capabilities = <<MCMissing>>] :
             t \in MCTokens}
    \cup {[MCRequest EXCEPT !.required_capabilities = list, !.attempt_number = n] :
             n \in {0, MaxNumber, MaxNumber + 1},
             list \in {<<MCMissing>>, <<MCMissing, <<"a">>>>, <<MCMissing, MCMissing>>,
                       <<<<"a">>, MCMissing, <<"a", "a">>>>}}
    \cup {[MCRequest EXCEPT !.plan.stages = stages] :
             stages \in {<< >>, SubSeq(Stages, 1, 4), Reverse(Stages), Append(Stages, "run")}}
    \cup {[MCRequest EXCEPT !.policy.limit = n, !.required_capabilities = <<MCMissing>>] :
             n \in 0 .. MaxPolicy + 1}
    \cup {[MCRequest EXCEPT !.plan.profile = "engineering_project"],
          [MCRequest EXCEPT !.policy.network = "allowed"]}

MCExecutors ==
    {[kind |-> "development_mock", eligible |-> FALSE, named |-> FALSE, supports |-> {}],
     [kind |-> "development_mock", eligible |-> TRUE, named |-> TRUE, supports |-> {<<"a">>}],
     [kind |-> "firecracker", eligible |-> TRUE, named |-> TRUE, supports |-> {<<"a">>}]}

MCStages(statuses) ==
    [i \in DOMAIN Stages |-> [stage |-> Stages[i], status |-> statuses[i], usage |-> NoUsage]]

MCResult ==
    [attempt |-> 1, status |-> "completed", verdict |-> "accepted",
     score |-> [earned |-> 1, possible |-> 1],
     stages |-> MCStages([i \in DOMAIN Stages |-> "succeeded"]), usage |-> NoUsage,
     provenance |-> [kind |-> "firecracker", eligible |-> FALSE, named |-> TRUE,
                     digest |-> "asked"],
     large |-> FALSE]

MCUsed == [MCResult.stages EXCEPT ![2].usage = [spent |-> 1, peak |-> 1],
                                  ![3].usage = [spent |-> 1, peak |-> 2]]

MCResults ==
    {[MCResult EXCEPT !.status = status, !.verdict = verdict, !.score.earned = earned,
                      !.stages = MCStages(statuses)] :
        status \in {"completed", "failed", "cancelled"}, verdict \in Verdicts,
        earned \in {0, 1}, statuses \in [DOMAIN Stages -> StageStatuses]}
    \cup {[MCResult EXCEPT !.score = score] :
             score \in [earned : 0 .. 2, possible : 0 .. 2]}
    \cup {[MCResult EXCEPT !.stages = stages] :
             stages \in {<< >>, Front(MCResult.stages), Reverse(MCResult.stages),
                         Append(MCResult.stages, MCResult.stages[1])}}
    \cup {[MCResult EXCEPT !.stages = MCUsed, !.usage = total] : total \in Usages}
    \cup {[MCResult EXCEPT !.provenance = p, !.attempt = attempt, !.large = large] :
             p \in [kind : {"development_mock", "firecracker"}, eligible : BOOLEAN,
                    named : BOOLEAN, digest : {"asked", "other"}],
             attempt \in {1, 2}, large \in BOOLEAN}
=============================================================================
