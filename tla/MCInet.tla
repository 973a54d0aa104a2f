------------------------------- MODULE MCInet -------------------------------
(* The network of a kennel for TLC: egress through kenneld, inbound        *)
(* mirrors, a tun session, and the audit of all of it.  The four share no  *)
(* state, so a behaviour takes one path; the product would add nothing.    *)
EXTENDS InetEgress, InboundMirror, TunBroker, AuditTrail, TLC

VARIABLE path

MCInit ==
    /\ path \in {"egress", "inbound", "tun", "audit"}
    /\ EgressInit /\ MirrorInit /\ Init /\ AuditInit
    /\ path # "egress" => policy = CHOOSE p \in Policies : TRUE
    /\ path # "audit" => level = "full"

MCNext ==
    /\ UNCHANGED path
    /\ \/ path = "egress" /\ EgressNext /\ UNCHANGED <<mirrorVars, vars, auditVars>>
       \/ path = "inbound" /\ MirrorNext /\ UNCHANGED <<egressVars, vars, auditVars>>
       \/ path = "tun" /\ Next /\ UNCHANGED <<egressVars, mirrorVars, auditVars>>
       \/ path = "audit" /\ AuditNext /\ UNCHANGED <<egressVars, mirrorVars, vars>>

MCSpec == MCInit /\ [][MCNext]_<<path, egressVars, mirrorVars, vars, auditVars>>

MCSymmetry == Permutations(Conduits) \cup Permutations(Loopers)

----------------------------------------------------------------------------
(* Addresses of two octets of two bits each, written A(family, o1, o2).    *)

A(f, o1, o2) == [fam |-> f, oct |-> <<o1, o2>>]

Entry(a, len, ports, protocol) ==
    [cidr |-> a, prefix_len |-> len, ports |-> ports, protocol |-> protocol]

Deny(a, len) == [cidr |-> a, prefix_len |-> len]

Name(dot, labels, ports, protocol) ==
    [name |-> [dot |-> dot, labels |-> labels], ports |-> ports, protocol |-> protocol]

Net(mode, allow, names, invariant, author, socket) ==
    [mode |-> mode, allow |-> allow, allow_names |-> names, deny_invariant |-> invariant,
     deny_policy |-> author, services |-> {<<A(4, 0, 1), 1>>}, socket |-> socket]

\* Prefixes inside an octet, at its edge, across both and longer than the
\* address; ports as a list, as one, and left out; a name, an apex with what is under it, and neither.
MCPolicies ==
    {Net("constrained", {Entry(A(4, 2, 0), 2, {}, "tcp"), Entry(A(6, 2, 2), 3, {0, 2}, "any")},
         {Name(FALSE, <<"a">>, {2}, "tcp")}, {Deny(A(4, 2, 1), 4)}, {}, TRUE),
     Net("constrained", {Entry(A(4, 1, 0), 1, {1}, "udp"), Entry(A(4, 2, 1), 5, {}, "any")},
         {Name(TRUE, <<"a">>, {}, "any")}, {Deny(A(4, 3, 0), 2)}, {Deny(A(6, 2, 0), 1)}, TRUE),
     Net("unconstrained", {}, {}, {Deny(A(4, 2, 0), 3)},
         {Deny(A(6, 0, 0), 0), Deny(A(4, 3, 2), 5)}, TRUE),
     Net("unconstrained", {}, {}, {}, {}, FALSE),
     Net("none", {Entry(A(4, 0, 0), 0, {}, "any")}, {Name(TRUE, <<"a">>, {}, "any")}, {}, {}, FALSE),
     Net("host", {Entry(A(4, 0, 0), 0, {}, "any")}, {}, {}, {}, FALSE)}

MCRequests ==
    [kind : {"addr"}, addr : Addrs, name : {<<>>}, port : 0 .. MaxPort, transport : {"tcp"}]
    \cup [kind : {"addr"}, addr : {A(4, 1, 1), A(6, 2, 3)}, name : {<<>>}, port : {1}, transport : {"udp"}]
    \cup [kind : {"name"}, addr : {A(4, 0, 0)}, name : {<<"a">>, <<"w", "a">>, <<"b">>},
          port : 1 .. 2, transport : {"tcp", "udp"}]

\* One to three addresses, in several orders: public, denied by one policy or
\* another, special-use.
MCAnswers ==
    LET some == {A(4, 2, 1), A(4, 3, 2), A(4, 0, 1), A(6, 2, 2), A(6, 3, 0)}
    IN {<<a>> : a \in some} \cup {<<a, b>> : a \in some, b \in some}
       \cup {<<A(4, 3, 2), a, A(6, 3, 0)>> : a \in some}

\* The loopback block of each family.
MCSpecialUse == {A(f, 0, o) : f \in {4, 6}, o \in 0 .. 3}

----------------------------------------------------------------------------
(* A wildcard grant and an exact name with one port; names inside and      *)
(* outside them.                                                           *)

MCRules == <<[name |-> <<"com">>, dot |-> TRUE, ports |-> {}],
             [name |-> <<"org">>, dot |-> FALSE, ports |-> {443}]>>

MCNames == {<<"a", "com">>, <<"b", "com">>, <<"c", "com">>, <<"org">>, <<"x", "org">>}

(* Ring events of two sizes, one of which is not this kennel's.            *)

MCKinds == {[outcome |-> "allow", size |-> 1], [outcome |-> "deny", size |-> 2],
            [outcome |-> "foreign", size |-> 1]}

MCSinkOrder == <<"file", "log">>
=============================================================================
