-------------------------- MODULE MCTtlCustodian ---------------------------
(* Small instances of TtlCustodian for TLC.                                *)
EXTENDS TtlCustodian
=============================================================================
