----------------------------- MODULE InetEgress -----------------------------
(***************************************************************************)
(* One CONNECT_INET request from the policy's text to the dialled socket:  *)
(* the compiler's translation of [net.proxy] into settled rules            *)
(* (kennel-lib-compile/src/translate.rs), the runtime ruleset kenneld      *)
(* builds from them and the decision (kenneld/src/inet.rs, inet/allow.rs), *)
(* the resolver, whose answers may change from one query to the next       *)
(* (inet/dns.rs), and the delegate that dials (netproxy/conduit.rs).       *)
(*                                                                         *)
(* An address has NOctets octets of Width bits, a port is 0 .. MaxPort, a  *)
(* name is a sequence of labels.                                           *)
(***************************************************************************)
EXTENDS Naturals, Sequences

CONSTANTS
    Width, NOctets,     \* bits of an octet, octets of an address
    MaxPort,            \* u16::MAX
    Policies,           \* [net] sections a kennel may run under
    Requests,           \* what the workload may ask for
    Answers,            \* what the resolver may answer
    SpecialUse,         \* the addresses is_special_use holds of
    MaxAddrs,           \* conduit::MAX_ADDRS
    Nil

\* The powers of two up to the size of the address space (the provers have no
\* exponentiation).
Pow2[n \in 0 .. Width * NOctets] == IF n = 0 THEN 1 ELSE 2 * Pow2[n - 1]

Octets == 0 .. Pow2[Width] - 1
Addrs == [fam : {4, 6}, oct : [1 .. NOctets -> Octets]]

ASSUME EgressAssumption ==
    /\ {Width, NOctets, MaxPort, MaxAddrs} \subseteq Nat \ {0}
    /\ SpecialUse \subseteq Addrs /\ Nil \notin Addrs \cup {"denied"}
    /\ \A a \in Answers : a \in Seq(Addrs)
    /\ \A net \in Policies :
         /\ \A e \in net.allow : e.cidr \in Addrs /\ e.prefix_len \in Nat /\ e.ports \subseteq 0 .. MaxPort
         /\ \A e \in net.deny_invariant \cup net.deny_policy : e.cidr \in Addrs /\ e.prefix_len \in Nat
    /\ Nil \notin Requests
    /\ \A r \in Requests : r.kind \in {"addr", "name"} /\ r.addr \in Addrs

VARIABLES
    policy,     \* the [net] section in force
    req,        \* the request being served, or Nil
    phase,      \* where it is
    pinned,     \* the vetted addresses, then the delegate's command
    reply,      \* what the facade was answered
    upstream    \* the address the delegate connected to

egressVars == <<policy, req, phase, pinned, reply, upstream>>

EgressTypeOK ==
    /\ policy \in Policies /\ req \in Requests \cup {Nil}
    /\ phase \in {"idle", "decide", "resolve", "dial", "command", "spliced", "done"}
    /\ pinned \in Seq(Addrs)
    /\ reply \in {Nil, "denied", "notfound", "fd"}
    /\ upstream \in Addrs \cup {Nil}

EgressInit ==
    /\ policy \in Policies
    /\ req = Nil /\ phase = "idle" /\ pinned = <<>> /\ reply = Nil /\ upstream = Nil

----------------------------------------------------------------------------
(* translate_proxy: the policy's text to settled rules.                    *)

\* collect_net_allow: one rule for each port, or one for the full range.
AllowRules(entry) ==
    IF entry.ports = {}
    THEN {[cidr |-> entry.cidr, prefix_len |-> entry.prefix_len, port_min |-> 0,
           port_max |-> MaxPort, protocol |-> entry.protocol]}
    ELSE {[cidr |-> entry.cidr, prefix_len |-> entry.prefix_len, port_min |-> p,
           port_max |-> p, protocol |-> entry.protocol] : p \in entry.ports}

\* any_rule.
DenyRuleOf(entry) ==
    [cidr |-> entry.cidr, prefix_len |-> entry.prefix_len, port_min |-> 0,
     port_max |-> MaxPort, protocol |-> "any"]

Settled(net) ==
    [mode |-> net.mode,
     allow |-> UNION {AllowRules(e) : e \in net.allow},
     allow_names |-> net.allow_names,
     deny |-> {DenyRuleOf(e) : e \in net.deny_invariant \cup net.deny_policy}]

----------------------------------------------------------------------------
(* NetRuntime::from_policy: settled rules to the ruleset.                  *)

\* The full range is any port, written as the empty set.
ports_for(lo, hi) == IF lo = 0 /\ hi = MaxPort THEN {} ELSE lo .. hi

\* A rule whose prefix is longer than the address is dropped.
ValidCidr(rule) == rule.prefix_len <= Width * NOctets

RuntimeRule(rule) ==
    [cidr |-> rule.cidr, prefix_len |-> rule.prefix_len, protocol |-> rule.protocol,
     ports |-> ports_for(rule.port_min, rule.port_max)]

Ruleset(net) ==
    LET s == Settled(net) IN
    [mode |-> IF s.mode \in {"constrained", "unconstrained"} THEN s.mode ELSE "none",
     allow |-> {RuntimeRule(r) : r \in {x \in s.allow : ValidCidr(x)}},
     allow_names |-> s.allow_names,
     deny |-> {RuntimeRule(r) : r \in {x \in s.deny : ValidCidr(x)}}]

----------------------------------------------------------------------------
(* inet/allow.rs.                                                          *)

\* top_bits_mask applied: the top n bits of an octet; no bits outside 1 .. Width - 1.
Masked(o, n) == IF n \in 1 .. Width - 1 THEN o - (o % Pow2[Width - n]) ELSE 0

\* Mutant: a prefix that ends at an octet's edge takes the masked branch.
OctetMatchesEdge(b, a, bits) ==
    CASE bits = 0     -> TRUE
      [] bits > Width -> b = a
      [] OTHER        -> Masked(b, bits) = Masked(a, bits)

\* One turn of octets_match's loop, with `bits` of the prefix left.
OctetMatches(b, a, bits) ==
    CASE bits = 0      -> TRUE
      [] bits >= Width -> b = a
      [] OTHER         -> Masked(b, bits) = Masked(a, bits)

BitsLeft(prefix_len, i) ==
    IF prefix_len > Width * (i - 1) THEN prefix_len - Width * (i - 1) ELSE 0

octets_match(base, addr, prefix_len) ==
    \A i \in 1 .. NOctets : OctetMatches(base[i], addr[i], BitsLeft(prefix_len, i))

\* Cidr::contains.
contains(rule, addr) ==
    rule.cidr.fam = addr.fam /\ octets_match(rule.cidr.oct, addr.oct, rule.prefix_len)

port_matches(ports, port) == ports = {} \/ port \in ports

admits(protocol, transport) == protocol \in {"any", transport}

\* A pattern with a leading dot names the apex and everything under it.
name_matches(pattern, name) ==
    \/ name = pattern.labels
    \/ /\ pattern.dot
       /\ Len(name) > Len(pattern.labels)
       /\ SubSeq(name, Len(name) - Len(pattern.labels) + 1, Len(name)) = pattern.labels

denied_addr(rs, addr, port) ==
    \E r \in rs.deny : contains(r, addr) /\ port_matches(r.ports, port)

allow_addr_match(rs, addr, port, transport) ==
    \E r \in rs.allow :
        contains(r, addr) /\ admits(r.protocol, transport) /\ port_matches(r.ports, port)

allow_name_match(rs, name, port, transport) ==
    \E r \in rs.allow_names :
        name_matches(r.name, name) /\ admits(r.protocol, transport) /\ port_matches(r.ports, port)

\* Ruleset::decide_request.
decide_request(rs, r) ==
    CASE rs.mode = "none" -> "deny"
      [] rs.mode # "none" /\ r.kind = "addr" ->
            IF /\ ~ denied_addr(rs, r.addr, r.port)
               /\ rs.mode = "unconstrained" \/ allow_addr_match(rs, r.addr, r.port, r.transport)
            THEN "allow" ELSE "deny"
      [] OTHER ->
            IF rs.mode = "unconstrained" \/ allow_name_match(rs, r.name, r.port, r.transport)
            THEN "resolve" ELSE "deny"

----------------------------------------------------------------------------
(* inet_connect on a looper, and the delegate.                             *)

Request(r) ==
    /\ phase = "idle"
    /\ req' = r /\ phase' = "decide"
    /\ UNCHANGED <<policy, pinned, reply, upstream>>

Answered(status) == reply' = status /\ phase' = "done"

\* decide, up to the resolver: the host services, the special-use gate for a
\* literal, the ruleset.
Decide ==
    /\ phase = "decide"
    /\ LET verdict == CASE req.kind = "addr" /\ <<req.addr, req.port>> \in policy.services -> "allow"
                        [] /\ req.kind = "addr"
                           /\ <<req.addr, req.port>> \notin policy.services
                           /\ req.addr \in SpecialUse -> "deny"
                        [] OTHER -> decide_request(Ruleset(policy), req)
       IN \/ verdict = "deny" /\ Answered("denied") /\ UNCHANGED pinned
          \/ verdict = "allow" /\ pinned' = <<req.addr>> /\ phase' = "dial" /\ UNCHANGED reply
          \/ verdict = "resolve" /\ phase' = "resolve" /\ UNCHANGED <<pinned, reply>>
    /\ UNCHANGED <<policy, req, upstream>>

\* The addresses of an answer that pass the re-check, in the answer's order.
Vetted(rs, answer, port) ==
    LET kept[i \in 0 .. Len(answer)] ==
          IF i = 0 THEN <<>>
          ELSE IF ~ denied_addr(rs, answer[i], port) /\ answer[i] \notin SpecialUse
               THEN Append(kept[i - 1], answer[i])
               ELSE kept[i - 1]
    IN kept[Len(answer)]

\* The resolver's answer, each address checked again.
Resolve ==
    /\ phase = "resolve"
    /\ \E answer \in Answers : pinned' = Vetted(Ruleset(policy), answer, req.port)
    /\ IF pinned' = <<>> THEN Answered("notfound") ELSE phase' = "dial" /\ UNCHANGED reply
    /\ UNCHANGED <<policy, req, upstream>>

ResolveFails ==
    /\ phase = "resolve"
    /\ Answered("notfound")
    /\ UNCHANGED <<policy, req, pinned, upstream>>

\* dial_via_delegate sends the command and returns the kennel's end;
\* encode_command keeps the first MAX_ADDRS addresses.
DialViaDelegate ==
    /\ phase = "dial"
    /\ policy.socket
    /\ pinned' = SubSeq(pinned, 1, IF Len(pinned) < MaxAddrs THEN Len(pinned) ELSE MaxAddrs)
    /\ reply' = "fd" /\ phase' = "command"
    /\ UNCHANGED <<policy, req, upstream>>

\* No delegate, or the send failed.
DialFails ==
    /\ phase = "dial"
    /\ Answered("notfound")
    /\ UNCHANGED <<policy, req, pinned, upstream>>

\* handle_conduit tries the pinned addresses in order ...
DelegateConnects ==
    /\ phase = "command"
    /\ pinned # <<>>
    /\ upstream' = Head(pinned)
    /\ phase' = "spliced"
    /\ UNCHANGED <<policy, req, pinned, reply>>

DelegateSkips ==
    /\ phase = "command"
    /\ pinned # <<>>
    /\ pinned' = Tail(pinned)
    /\ UNCHANGED <<policy, req, phase, reply, upstream>>

\* ... and drops the conduit when none is left.
DelegateGivesUp ==
    /\ phase = "command"
    /\ pinned = <<>>
    /\ phase' = "done"
    /\ UNCHANGED <<policy, req, pinned, reply, upstream>>

NextRequest ==
    /\ phase \in {"spliced", "done"}
    /\ req' = Nil /\ phase' = "idle" /\ pinned' = <<>> /\ reply' = Nil /\ upstream' = Nil
    /\ UNCHANGED policy

EgressNext ==
    \/ \E r \in Requests : Request(r)
    \/ Decide \/ Resolve \/ ResolveFails \/ DialViaDelegate \/ DialFails
    \/ DelegateConnects \/ DelegateSkips \/ DelegateGivesUp \/ NextRequest

EgressSpec == EgressInit /\ [][EgressNext]_egressVars

----------------------------------------------------------------------------
(* The reference: what the text of the policy permits.                     *)

\* An address as the number its octets write.
Value(addr) ==
    LET V[i \in 0 .. NOctets] == IF i = 0 THEN 0 ELSE V[i - 1] * Pow2[Width] + addr.oct[i]
    IN V[NOctets]

\* The block of 2^(size - prefix) addresses the entry's base lies in; a prefix
\* longer than the address names no block.
InBlock(entry, addr) ==
    LET size == Pow2[Width * NOctets - entry.prefix_len] IN
    /\ addr.fam = entry.cidr.fam
    /\ entry.prefix_len <= Width * NOctets
    /\ Value(addr) \div size = Value(entry.cidr) \div size

\* Whether r may reach addr: a host service by its literal, else an address
\* that is public, outside every denied block, and allowed by the entry that
\* covers what was asked for.
Permitted(net, r, addr) ==
    \/ r.kind = "addr" /\ r.addr = addr /\ <<addr, r.port>> \in net.services
    \/ /\ r.kind = "addr" => r.addr = addr
       /\ net.mode \in {"constrained", "unconstrained"}
       /\ addr \notin SpecialUse
       /\ \A e \in net.deny_invariant \cup net.deny_policy : ~ InBlock(e, addr)
       /\ \/ net.mode = "unconstrained"
          \/ \E e \in IF r.kind = "addr" THEN net.allow ELSE net.allow_names :
               /\ IF r.kind = "addr" THEN InBlock(e, addr) ELSE name_matches(e.name, r.name)
               /\ e.protocol \in {"any", r.transport}
               /\ e.ports = {} \/ r.port \in e.ports

----------------------------------------------------------------------------
(* Property.                                                               *)

\* Whatever the resolver answers, the delegate dials only an address the text
\* of the policy permits for this request, and a request is denied only when
\* the policy permits it no address: the translation, the port ranges, the
\* octet comparison and the re-check lose nothing and admit nothing
\* (translate_proxy, from_policy, decide, handle_conduit).
DecisionExact ==
    /\ upstream # Nil => Permitted(policy, req, upstream)
    /\ reply = "denied" => \A a \in Addrs : ~ Permitted(policy, req, a)
=============================================================================
