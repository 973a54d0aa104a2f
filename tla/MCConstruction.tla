---------------------------- MODULE MCConstruction --------------------------
(* Small instances of Construction for TLC.                                *)
EXTENDS Construction

\* Every policy; the inbound mirror matters to the proxied modes only.
MCPolicies ==
    {p \in [mode : {"none", "host", "proxied"}, mirror : BOOLEAN, exclusive : BOOLEAN,
            seccomp : BOOLEAN, stdio : BOOLEAN, operator : {"op", "root"}] :
        p.mirror => p.mode = "proxied"}
=============================================================================
