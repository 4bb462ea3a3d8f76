---------------------------- MODULE MCJudgeNode -----------------------------
(* Instances of JudgeNode for TLC. *)
EXTENDS JudgeNode, TLC

CONSTANTS e1, e2, a1, a2, k1, k2, r1, d1, n1, n2

MCOneCapability == {<<1>>}
MCOneNode == n1 :> {1}

Request(e, a, key, number) ==
    [evaluation |-> e, attempt |-> a, number |-> number, key |-> key,
     reference |-> r1, digest |-> d1, required |-> <<1>>]

\* A first evaluation whose attempts start at number 1.
MCOne == {Request(e1, a1, k1, 1)}

\* Beside it, one that was created with the largest attempt number.
MCLargestNumber == {Request(e1, a1, k1, 1), Request(e2, a2, k2, MaxAttemptNumber)}

\* reply is only read in the step that writes it.
WithoutReply == <<tables, service, workers, crashes>>
=============================================================================
