--------------------------- MODULE PolicyCompile ----------------------------
(***************************************************************************)
(* From source to instance.  The compiler (kennel-lib-compile) walks a     *)
(* policy's template chain, folds it root first, applies the included      *)
(* fragments, gates reserved capability names and pins the templates the   *)
(* policy may spawn.  Later kenneld instantiates a pinned template out of  *)
(* a trust store that may have changed meanwhile, under a patch from the   *)
(* workload.                                                               *)
(*                                                                         *)
(* An artefact keeps one field of each way of composing: a scalar, a union *)
(* floor (exec.deny, env.deny, seccomp.deny, deny_families and the         *)
(* invariant denies fold alike), [[provides]], the includes, and two list  *)
(* fields that each live in an optional section: net.proxy.allow and       *)
(* net.udp.allow.  A list is a function from entry keys to rules.          *)
(***************************************************************************)
EXTENDS Naturals, Sequences, FiniteSets

CONSTANTS
    Inputs,         \* what is compiled: [entry, lib, trust, store], where lib maps
                    \* names to artefacts and trust is [keys, require, signer]
    NoName, NoScalar,
    BaseName,       \* "base-confined"
    Mandatory,      \* the floor entry every policy must carry (cloud metadata)
    RequiredTier,   \* the tier each reserved capability name needs
    MaxChainDepth,
    Targets,        \* settled forms the spawn target's name may resolve to
    NoTarget,       \* no settled form is in the store
    PatchFields,    \* the fields a workload may try to patch
    MaxPublishes    \* bound: changes to the trust store after the compile

Tier == [unsigned |-> 0, forged |-> 0, user |-> 1, host |-> 2, vendor |-> 3]

Fields == {"base", "sig", "valid", "include", "scalar", "spawn", "floor", "provides", "lists"}

Artefact(a) == DOMAIN a = Fields /\ a.sig \in DOMAIN Tier

\* Trust::require takes a key set.  A signature that verifies commits to the
\* content it covers, and an unsigned form carries no signature.
ASSUME PolicyAssumption ==
    /\ \A i \in Inputs : /\ Artefact(i.entry)
                         /\ \A n \in DOMAIN i.lib : Artefact(i.lib[n])
                         /\ i.trust \in [keys : BOOLEAN, require : BOOLEAN, signer : 0 .. 3]
                         /\ i.trust.require => i.trust.keys
                         /\ i.store \in Targets \cup {NoTarget}
    /\ \A s, t \in Targets :
         /\ s.verifies /\ t.verifies /\ s.key = t.key /\ s.sig = t.sig => s = t
         /\ s.signed /\ ~t.signed => s.key # t.key \/ s.sig # t.sig
    /\ MaxChainDepth \in Nat /\ MaxPublishes \in Nat

VARIABLES
    entry, lib, trust,  \* the inputs of one compile
    phase,      \* where compile is
    current,    \* the artefact whose base is resolved next
    links,      \* the chain, leaf first: [name, tier]
    origin,     \* where the effective [[provides]] came from: [kind, tier]
    acc,        \* the policy folded so far
    pos,        \* the links still to fold, then the includes applied
    seenNet,    \* the net rules fragments have added
    fragLinks,  \* the fragments applied: [name, tier]
    pin,        \* the content-pin of the spawn target: [key, sig], or NoTarget
    pinned,     \* history: the settled form that was pinned
    store,      \* what the spawn target's name resolves to now
    publishes,
    instance    \* the last instance kenneld made, or NoTarget

inputs == <<entry, lib, trust>>
chainVars == <<current, links, origin>>
foldVars == <<acc, pos, seenNet, fragLinks>>
spawnVars == <<pin, pinned, store, publishes, instance>>
vars == <<inputs, phase, chainVars, foldVars, spawnVars>>

Lists == {"proxy", "udp"}
Absent == [kind |-> "none", items |-> <<>>, remove |-> {}]
Nowhere == [kind |-> "absent", tier |-> 0]

\* What is read out of a folded field: an increment that was never folded
\* counts as empty.
Resolved(f) == IF f.kind = "set" THEN f.items ELSE <<>>
-----------------------------------------------------------------------------
(* The fold of a child over its parent.                                    *)

OrElse(child, parent) == IF child # NoScalar THEN child ELSE parent

\* Mutant: a child's deny list replaces the inherited one.
UnionNamesReplaced(parent, child) == IF child # {} THEN child ELSE parent

UnionNames(parent, child) == parent \cup child

Extend(base, add) ==
    [k \in DOMAIN base \cup DOMAIN add |-> IF k \in DOMAIN base THEN base[k] ELSE add[k]]

\* A set replaces, an empty one inherits, a delta increments; merge copies a
\* section only one side has.
FoldList(parent, child) ==
    CASE child.kind = "none" -> parent
      [] child.kind # "none" /\ parent.kind = "none" -> child
      [] child.kind = "set" /\ parent.kind # "none" ->
           IF DOMAIN child.items = {} THEN parent ELSE child
      [] OTHER ->
           LET base == IF parent.kind = "set" THEN parent.items ELSE <<>>
               all == Extend(base, child.items)
           IN [kind |-> "set", items |-> [k \in DOMAIN all \ child.remove |-> all[k]],
               remove |-> {}]

FoldProvides(parent, child) == IF child = {} THEN parent ELSE child

UnionStrings(parent, child) ==
    parent \o SelectSeq(child, LAMBDA s : \A i \in DOMAIN parent : parent[i] # s)

Fold(parent, child) ==
    [base |-> child.base, sig |-> child.sig, valid |-> child.valid,
     scalar |-> OrElse(child.scalar, parent.scalar),
     spawn |-> OrElse(child.spawn, parent.spawn),
     floor |-> UnionNames(parent.floor, child.floor),
     lists |-> [l \in Lists |-> FoldList(parent.lists[l], child.lists[l])],
     provides |-> FoldProvides(parent.provides, child.provides),
     include |-> UnionStrings(parent.include, child.include)]

\* A fragment contributes capability, never identity.
ApplyFragment(base, fragment) ==
    [Fold(base, fragment) EXCEPT !.base = base.base, !.include = base.include]
-----------------------------------------------------------------------------
(* The chain.                                                              *)

\* Trust::check.
Checked(a) ==
    /\ ~(trust.keys /\ a.sig = "forged")
    /\ ~(trust.require /\ a.sig = "unsigned")

VerifiedTier(a) == IF trust.keys THEN Tier[a.sig] ELSE 0

Link(name) == [name |-> name, tier |-> VerifiedTier(lib[name])]

Followable(name) ==
    /\ \A i \in DOMAIN links : links[i].name # name
    /\ Len(links) < MaxChainDepth
    /\ name \in DOMAIN lib /\ lib[name].valid
    /\ Checked(lib[name])

EntryRefused ==
    /\ phase = "start" /\ ~entry.valid
    /\ phase' = "failed"
    /\ UNCHANGED <<inputs, chainVars, foldVars, spawnVars>>

EntryValid ==
    /\ phase = "start" /\ entry.valid
    /\ phase' = "walk"
    /\ UNCHANGED <<inputs, chainVars, foldVars, spawnVars>>

FollowRefused ==
    /\ phase = "walk" /\ current.base # NoName
    /\ ~Followable(current.base)
    /\ phase' = "failed"
    /\ UNCHANGED <<inputs, chainVars, foldVars, spawnVars>>

Follow ==
    /\ phase = "walk" /\ current.base # NoName
    /\ Followable(current.base)
    /\ links' = Append(links, Link(current.base))
    /\ current' = lib[current.base]
    /\ UNCHANGED <<inputs, phase, origin, foldVars, spawnVars>>

Suppliers == {i \in DOMAIN links : lib[links[i].name].provides # {}}

\* Mutant: the ancestor nearest the root is taken for the supplier.
SupplierRoot == CHOOSE i \in Suppliers : \A j \in Suppliers : j <= i

\* The most derived ancestor that provides anything.
Supplier == CHOOSE i \in Suppliers : \A j \in Suppliers : i <= j

ProvidesOrigin ==
    CASE entry.provides # {} -> [kind |-> "entry", tier |-> 0]
      [] entry.provides = {} /\ Suppliers # {} ->
           [kind |-> "ancestor", tier |-> links[Supplier].tier]
      [] OTHER -> Nowhere

\* The root is the accumulator the rest is folded onto; without a parent it
\* is the entry itself.
RootReached ==
    /\ phase = "walk" /\ current.base = NoName
    /\ origin' = ProvidesOrigin
    /\ acc' = IF links = <<>> THEN entry ELSE lib[links[Len(links)].name]
    /\ pos' = IF links = <<>> THEN 0 ELSE Len(links) - 1
    /\ phase' = "fold"
    /\ UNCHANGED <<inputs, current, links, seenNet, fragLinks, spawnVars>>

FoldAncestor ==
    /\ phase = "fold" /\ pos > 0
    /\ acc' = Fold(acc, lib[links[pos].name])
    /\ pos' = pos - 1
    /\ UNCHANGED <<inputs, phase, chainVars, seenNet, fragLinks, spawnVars>>

FoldEntry ==
    /\ phase = "fold" /\ pos = 0
    /\ acc' = [Fold(acc, entry) EXCEPT !.base = NoName]
    /\ phase' = "include"
    /\ UNCHANGED <<inputs, chainVars, pos, seenNet, fragLinks, spawnVars>>
-----------------------------------------------------------------------------
(* The includes.                                                           *)

Additive(f) == CASE f.kind = "none" -> TRUE
                 [] f.kind = "set" -> DOMAIN f.items = {}
                 [] OTHER -> f.remove = {}

\* Mutant: a fragment's removals pass the gate.
IsAdditiveOnlyLax(a) ==
    a.scalar = NoScalar /\ a.spawn = NoScalar /\ a.provides = {}

\* is_additive_only: net.udp is not among the fields it looks at.
IsAdditiveOnly(a) ==
    /\ Additive(a.lists["proxy"])
    /\ a.scalar = NoScalar /\ a.spawn = NoScalar /\ a.provides = {}

NetAllowAdds(a) ==
    IF a.lists["proxy"].kind = "delta" THEN a.lists["proxy"].items ELSE <<>>

Conflicts(a) ==
    \E k \in DOMAIN NetAllowAdds(a) \cap DOMAIN seenNet : NetAllowAdds(a)[k] # seenNet[k]

Includable(name) ==
    /\ name \in DOMAIN lib
    /\ IsAdditiveOnly(lib[name])
    /\ lib[name].base \in {NoName, BaseName}
    /\ Checked(lib[name])
    /\ ~Conflicts(lib[name])

IncludeRefused ==
    /\ phase = "include" /\ pos < Len(acc.include)
    /\ ~Includable(acc.include[pos + 1])
    /\ phase' = "failed"
    /\ UNCHANGED <<inputs, chainVars, foldVars, spawnVars>>

Include ==
    /\ phase = "include" /\ pos < Len(acc.include)
    /\ LET name == acc.include[pos + 1] IN
         /\ Includable(name)
         /\ acc' = ApplyFragment(acc, lib[name])
         /\ seenNet' = Extend(seenNet, NetAllowAdds(lib[name]))
         /\ fragLinks' = Append(fragLinks, Link(name))
    /\ pos' = pos + 1
    /\ UNCHANGED <<inputs, phase, chainVars, spawnVars>>
-----------------------------------------------------------------------------
(* The reserved-namespace gate, the spawn grant and the settled policy.    *)

Enforced == trust.keys /\ ~(origin.kind = "entry" /\ trust.signer = 0)

DeclaringTier == IF origin.kind = "entry" THEN trust.signer ELSE origin.tier

Permits(cap) == ~Enforced \/ DeclaringTier >= RequiredTier[cap]

IncludesDone == phase = "include" /\ pos = Len(acc.include)

\* The gate, or one of the section validators, or translate, refuses.
ValidationRefused ==
    /\ IncludesDone
    /\ phase' = "failed"
    /\ UNCHANGED <<inputs, chainVars, foldVars, spawnVars>>

MeshValidated ==
    /\ IncludesDone
    /\ \A cap \in acc.provides : Permits(cap)
    /\ phase' = "grant"
    /\ UNCHANGED <<inputs, chainVars, foldVars, spawnVars>>

\* Depth one, a TTL and the resource ceilings.
SpawnEligible(t) == t.eligible

\* A signed target is verified when there are keys, an unsigned one refused
\* only when signatures are required.
Grantable(t) ==
    /\ t # NoTarget
    /\ IF t.signed THEN trust.keys => t.verifies ELSE ~trust.require
    /\ SpawnEligible(t)
    /\ acc.spawn \subseteq t.manifest

GrantRefused ==
    /\ phase = "grant" /\ acc.spawn # NoScalar /\ ~Grantable(store)
    /\ phase' = "failed"
    /\ UNCHANGED <<inputs, chainVars, foldVars, spawnVars>>

Settle ==
    /\ phase = "grant"
    /\ acc.spawn # NoScalar => Grantable(store)
    /\ phase' = IF Mandatory \in acc.floor THEN "settled" ELSE "failed"
    /\ IF acc.spawn = NoScalar
       THEN UNCHANGED <<pin, pinned>>
       ELSE /\ pin' = [key |-> store.key, sig |-> store.sig]
            /\ pinned' = store
    /\ UNCHANGED <<inputs, chainVars, foldVars, store, publishes, instance>>
-----------------------------------------------------------------------------
(* SPAWN, in kenneld.                                                      *)

\* Somebody re-signs, replaces or removes the target.
Publish ==
    /\ phase = "settled" /\ publishes < MaxPublishes
    /\ store' \in (Targets \cup {NoTarget}) \ {store}
    /\ publishes' = publishes + 1
    /\ UNCHANGED <<inputs, phase, chainVars, foldVars, pin, pinned, instance>>

\* Mutant: the pin is compared by key only.
PinMatchesByKey(t) == t.key = pin.key

PinMatches(t) == t.key = pin.key /\ t.sig = pin.sig

\* Mutant: the requester's narrowing is not applied.
BuildPatchWide(fields) == fields \subseteq PatchFields

\* An empty narrowing leaves the manifest as it is.
BuildPatch(fields) == acc.spawn = {} \/ fields \subseteq acc.spawn

\* resolve_template, verify_pinned, spawn_eligible, build_patch, instantiate.
Spawn(fields) ==
    /\ phase = "settled" /\ acc.spawn # NoScalar
    /\ store # NoTarget /\ PinMatches(store)
    /\ store.signed /\ store.verifies
    /\ SpawnEligible(store)
    /\ BuildPatch(fields)
    /\ fields \subseteq store.manifest
    /\ instance' = [from |-> store, wrote |-> fields]
    /\ UNCHANGED <<inputs, phase, chainVars, foldVars, pin, pinned, store, publishes>>
-----------------------------------------------------------------------------
Init ==
    /\ \E i \in Inputs :
         entry = i.entry /\ lib = i.lib /\ trust = i.trust /\ store = i.store
    /\ phase = "start"
    /\ current = entry /\ links = <<>> /\ origin = Nowhere
    /\ acc = entry /\ pos = 0 /\ seenNet = <<>> /\ fragLinks = <<>>
    /\ pin = NoTarget /\ pinned = NoTarget /\ publishes = 0 /\ instance = NoTarget

Next ==
    \/ EntryRefused \/ EntryValid \/ FollowRefused \/ Follow \/ RootReached
    \/ FoldAncestor \/ FoldEntry \/ IncludeRefused \/ Include
    \/ ValidationRefused \/ MeshValidated \/ GrantRefused \/ Settle
    \/ Publish \/ \E fields \in SUBSET PatchFields : Spawn(fields)

Spec == Init /\ [][Next]_vars
-----------------------------------------------------------------------------
(* Properties.                                                             *)

Ancestors == {links[i].name : i \in DOMAIN links}
Fragments == {fragLinks[i].name : i \in DOMAIN fragLinks}

\* What any artefact of the chain or any fragment denies, the settled policy
\* denies: a floor can be added to but never narrowed, whatever the order of
\* the fold and whichever sections are absent (union_names, fold_seccomp).
FloorsKept ==
    phase \in {"grant", "settled"} =>
        /\ entry.floor \subseteq acc.floor
        /\ \A n \in Ancestors \cup Fragments : lib[n].floor \subseteq acc.floor

\* With signatures required, every artefact whose content is in the policy
\* was verified, ancestors and fragments alike (resolve_verified,
\* apply_includes).
AllVerified ==
    trust.require =>
        \A n \in Ancestors \cup Fragments : Tier[lib[n].sig] > 0

\* A reserved capability name is in the policy only when an artefact that
\* declares it carries the tier: an ancestor by its verified signature, the
\* entry by the key the output is signed with (provides_origin,
\* reserved_authority; inspection without a signer is not enforced).
ReservedByAuthority ==
    phase \in {"grant", "settled"} /\ trust.keys =>
        \A cap \in acc.provides :
            RequiredTier[cap] > 0 =>
                \/ cap \in entry.provides /\ trust.signer \in {0} \cup RequiredTier[cap] .. 3
                \/ \E i \in DOMAIN links : /\ cap \in lib[links[i].name].provides
                                           /\ links[i].tier >= RequiredTier[cap]

Kept(list) ==
    phase = "include" /\ phase' = "include" =>
        \A k \in DOMAIN Resolved(acc.lists[list]) :
            /\ k \in DOMAIN Resolved(acc'.lists[list])
            /\ Resolved(acc'.lists[list])[k] = Resolved(acc.lists[list])[k]

\* An included fragment takes no net.proxy.allow rule away and changes none
\* (is_additive_only, apply_fragment).
IncludesKeepProxy == [][Kept("proxy")]_vars

\* "It may **add** rules but never remove or override" (is_additive_only),
\* of net.udp.allow.
IncludesKeepUdp == [][Kept("udp")]_vars

\* An instance is made from the very artefact the spawner's compile verified
\* and pinned, however the store has changed since, and writes only what its
\* manifest and the requester's narrowing open (verify_pinned, build_patch).
\* A compile without keys pins a signature it has not verified.
SpawnedAsPinned ==
    instance # NoTarget /\ trust.keys =>
        /\ instance.from = pinned
        /\ instance.wrote \subseteq pinned.manifest
        /\ acc.spawn # {} => instance.wrote \subseteq acc.spawn
=============================================================================
