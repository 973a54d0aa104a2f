----------------------- MODULE MCProviderSupervision -----------------------
(* Small instances of ProviderSupervision for TLC.                         *)
EXTENDS ProviderSupervision
=============================================================================
