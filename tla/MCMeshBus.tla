------------------------------ MODULE MCMeshBus -----------------------------
(* Small instances of MeshBus for TLC.                                     *)
EXTENDS MeshBus, TLC

\* Consumers and context numbers are interchangeable in a run that checks no
\* liveness property.
MeshSymmetry == Permutations(Consumers) \cup Permutations(Ctxs)
=============================================================================
