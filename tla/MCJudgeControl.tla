-------------------------- MODULE MCJudgeControl ---------------------------
(* Instances of JudgeControl for TLC. *)
EXTENDS JudgeControl, TLC

CONSTANTS e1, a1, k1, r1, d1, n1, n2

MCTwoCapabilities == {<<1>>, <<1, 2>>}

\* n1 may run what asks for capability 1 only, n2 everything.
MCUnequalNodes == n1 :> {1} @@ n2 :> {1, 2}

\* The first evaluation, as a request for one or for both capabilities.
MCEither ==
    {[evaluation |-> e1, attempt |-> a1, number |-> 1, key |-> k1, reference |-> r1,
      digest |-> d1, required |-> required] : required \in MCTwoCapabilities}

\* reply is only read in the step that writes it.
WithoutReply == <<tables, service>>

HandlerSymmetry ==
    Permutations(Calls) \cup Permutations(Tokens) \cup Permutations(Operations)
=============================================================================
