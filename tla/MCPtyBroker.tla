---------------------------- MODULE MCPtyBroker ----------------------------
(* Small instances of PtyBroker for TLC.                                   *)
EXTENDS PtyBroker
=============================================================================
