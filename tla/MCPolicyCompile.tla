-------------------------- MODULE MCPolicyCompile ---------------------------
(* A policy for TLC, from its source to what it grants and what it offers: *)
(* PolicyCompile, and ServiceCatalogue for a provider's settled policies.  *)
(* The two share no state, so a behaviour takes one path.                  *)
EXTENDS PolicyCompile, ServiceCatalogue, TLC

CONSTANTS meta, d1, d2, k1, r1, r2, f1, f2

VARIABLE path

MCInit ==
    \/ /\ path = "compile"
       /\ linked = CHOOSE t \in Tables : TRUE
       /\ consumes = CHOOSE c \in ConsumeLists : TRUE
       /\ CatInit /\ Init
    \/ /\ path = "catalogue"
       /\ LET i == CHOOSE j \in Inputs : TRUE
          IN entry = i.entry /\ lib = i.lib /\ trust = i.trust /\ store = i.store
       /\ Init /\ CatInit

MCNext ==
    /\ UNCHANGED path
    /\ \/ path = "compile" /\ Next /\ UNCHANGED catVars
       \/ path = "catalogue" /\ CatNext /\ UNCHANGED vars

MCSpec == MCInit /\ [][MCNext]_<<path, vars, catVars>>

----------------------------------------------------------------------------
(* Three families of inputs: who signs and who provides, what the fields   *)
(* say, and what is spawned.                                               *)

Plain == [base |-> NoName, sig |-> "vendor", valid |-> TRUE, include |-> <<>>,
          scalar |-> NoScalar, spawn |-> NoScalar, floor |-> {meta}, provides |-> {},
          lists |-> [l \in Lists |-> Absent]]

Lib(base, mid, frag1, frag2) ==
    BaseName :> base @@ "mid" :> mid @@ "f1" :> frag1 @@ "f2" :> frag2

TrustOf(kind, signer) ==
    [keys |-> kind # "dev", require |-> kind = "require", signer |-> signer]

\* Signatures and provides vary along a chain that may be cyclic or broken.
Signed(base, sigs) ==
    {[Plain EXCEPT !.base = base, !.sig = s, !.provides = p] :
        s \in sigs, p \in {{}, {"hosted"}, {"reserved"}}}

AuthInputs ==
    {[entry |-> [Plain EXCEPT !.base = "mid", !.provides = p, !.include = i],
      lib |-> Lib(b, m, [Plain EXCEPT !.sig = "user"], [Plain EXCEPT !.sig = "unsigned"]),
      trust |-> t, store |-> NoTarget] :
        p \in {{}, {"plain"}, {"reserved"}}, i \in {<<>>, <<"f1">>, <<"f2">>},
        b \in Signed(NoName, {"user", "vendor", "forged"}) \cup {[Plain EXCEPT !.base = "mid"]},
        m \in Signed(BaseName, {"unsigned", "user", "host", "vendor"})
                \cup {[Plain EXCEPT !.base = "gone"]},
        t \in {TrustOf("require", 1), TrustOf("keys", 0), TrustOf("keys", 3), TrustOf("dev", 0)}}

\* The fields vary: a set, an addition, a removal, nothing.
Field(kind, items, remove) == [kind |-> kind, items |-> items, remove |-> remove]

Proxies == {Absent, Field("set", k1 :> r1, {}), Field("delta", k1 :> r2, {}),
            Field("delta", <<>>, {k1})}

Content(floors, proxies, udps) ==
    {[Plain EXCEPT !.floor = f, !.lists = ("proxy" :> p @@ "udp" :> u)] :
        f \in floors, p \in proxies, u \in udps}

ContentInputs ==
    {[entry |-> [e EXCEPT !.base = "mid", !.include = <<"f1", "f2">>],
      lib |-> Lib(b, [m EXCEPT !.base = BaseName], f, [g EXCEPT !.base = BaseName]),
      trust |-> TrustOf("keys", 1), store |-> NoTarget] :
        e \in Content({{d1}}, Proxies, {Absent}),
        b \in Content({{meta}, {d1}}, Proxies, {Absent, Field("set", k1 :> r1, {})}),
        m \in Content({{}, {d2}}, Proxies, {Absent}),
        f \in Content({{f1}}, Proxies, {Absent, Field("set", k1 :> r2, {})}),
        g \in Content({{f2}}, {Absent, Field("delta", k1 :> r1, {})}, {Absent})}

\* The spawn target: signed, replaced, re-signed by the same key, tampered with.
Target(key, sig, signed, verifies, eligible, manifest) ==
    [key |-> key, sig |-> sig, signed |-> signed, verifies |-> verifies,
     eligible |-> eligible, manifest |-> manifest]

MCTargets ==
    {Target("u", 1, TRUE, TRUE, TRUE, {"argv", "write"}), Target("u", 1, TRUE, FALSE, TRUE, {"write"}),
     Target("u", 2, TRUE, TRUE, TRUE, {"argv", "read", "write"}),
     Target("u", 3, TRUE, TRUE, FALSE, {}), Target("", 0, FALSE, FALSE, TRUE, {"argv"})}

SpawnInputs ==
    {[entry |-> [Plain EXCEPT !.spawn = n, !.valid = v], lib |-> Lib(Plain, Plain, Plain, Plain),
      trust |-> t, store |-> s] :
        n \in {{}, {"argv"}, {"read"}}, v \in BOOLEAN, s \in MCTargets \cup {NoTarget},
        t \in {TrustOf("require", 1), TrustOf("keys", 1), TrustOf("dev", 0)}}

MCInputs == AuthInputs \cup ContentInputs \cup SpawnInputs

MCRequiredTier == [plain |-> 0, hosted |-> 2, reserved |-> 3]

----------------------------------------------------------------------------
(* Providers: one shared name with and without a key, a second capability  *)
(* of another shape, and a policy whose signature fails.                   *)

Offer(name, key, shape) == [name |-> <<name>>, key |-> key, shape |-> shape, leaf |-> "sock"]

Provider(verifies, offers) == [verifies |-> verifies, offers |-> offers]

Keyed == Provider(TRUE, {Offer("n", "K", "af-unix"), Offer("m", NoKey, "binder-connector")})
Keyless == Provider(TRUE, {Offer("n", NoKey, "af-unix"), Offer("m", "K", "binder-connector")})
Unverified == Provider(FALSE, {Offer("n", "K", "af-unix")})

MCPolicies == {Keyed, Keyless, Unverified}

\* Links of user/autorun, user/ondemand, host/autorun and host/ondemand, each
\* for two providers.  The same capability from the user and from the host;
\* and the other key in the preferred tier, with a link that fails above one
\* that does not.
Pair(x, y) == <<x, y>>
Bare == Pair(NoLink, NoLink)

MCTables ==
    {<<Bare, Pair(NoLink, Keyed), Pair(Keyed, NoLink), Bare>>,
     <<Pair(Unverified, NoLink), Pair(NoLink, Keyless), Bare, Pair(Keyed, NoLink)>>}

MCMaxChanges == [event |-> 1, reload |-> 1]

Want(name, key, shape) == [name |-> <<name>>, key |-> key, shape |-> shape]

MCConsumeLists ==
    {<<Want("n", "K", "af-unix")>>,
     <<Want("n", NoKey, "af-unix"), Want("m", NoKey, "binder-connector")>>}
=============================================================================
