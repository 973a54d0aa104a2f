------------------------- MODULE MCKennelRegistry --------------------------
(* Small instances of KennelRegistry for TLC.                              *)
EXTENDS KennelRegistry, TLC

CONSTANTS c1, c2, q1, q2, s1, a, b

\* An operator may type a name of the shape the spawn path uses, even one that
\* spawn_name is about to mint.
MCOperatorNames == {a, <<1, q1>>}
\* Connections are interchangeable.
RegistrySymmetry == Permutations({c1, c2})
=============================================================================
