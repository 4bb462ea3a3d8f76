--------------------------- MODULE MCControlSpine ---------------------------
(* Instances of ControlSpine for TLC. *)
EXTENDS ControlSpine, TLC

\* A node with capability 1 fits <<1>>; <<2, 1>> is a request the domain
\* accepts whose capabilities are not in ascending order.
MCOneCapability == {<<1>>}
MCUnordered == {<<1>>, <<2, 1>>}

Symmetry == Permutations(Attempts) \cup Permutations(Keys) \cup Permutations(Tokens)
=============================================================================
