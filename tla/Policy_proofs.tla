--------------------------- MODULE Policy_proofs ---------------------------
(***************************************************************************)
(* Proofs about what a policy comes to: PolicyCompile, for every library   *)
(* of templates and fragments, chain length, trust configuration and spawn *)
(* target; DbusMediation, where a session's rules decide which of its      *)
(* calls reach the bus, for any sessions, calls, rules and orders in which *)
(* the bus answers; and ServiceCatalogue, where the policies behind the    *)
(* enablement links decide which provider a consumer is handed, for any    *)
(* providers, links, policies and consumes.                                *)
(***************************************************************************)
EXTENDS PolicyCompile, DbusMediation, ServiceCatalogue,
        FiniteSetTheorems, SequenceTheorems, WellFoundedInduction, TLAPS

(* What has to be carried along to make the invariants inductive.          *)

\* The inputs are what the assumption says of them, and every link of the
\* chain and every applied fragment resolves.
InputsFit ==
    /\ Artefact(entry)
    /\ \A n \in DOMAIN lib : Artefact(lib[n])
    /\ trust \in [keys : BOOLEAN, require : BOOLEAN, signer : 0 .. 3]
    /\ trust.require => trust.keys
    /\ store \in Targets \cup {NoTarget}

Phases == {"start", "walk", "fold", "include", "grant", "settled", "failed"}

LinksFit ==
    /\ phase \in Phases
    /\ DOMAIN links = 1 .. Len(links) /\ Len(links) \in Nat
    /\ DOMAIN fragLinks = 1 .. Len(fragLinks) /\ Len(fragLinks) \in Nat
    /\ \A i \in DOMAIN links : links[i].name \in DOMAIN lib /\ Checked(lib[links[i].name])
    /\ \A i \in DOMAIN fragLinks :
         fragLinks[i].name \in DOMAIN lib /\ Checked(lib[fragLinks[i].name])

\* How far the fold has come: the links above pos are in acc.
Folded ==
    /\ phase \in {"start", "walk", "fold"} => fragLinks = <<>>
    /\ phase = "fold" =>
         /\ pos \in 0 .. Len(links)
         /\ \A i \in DOMAIN links : i > pos => lib[links[i].name].floor \subseteq acc.floor
    /\ phase \in {"include", "grant", "settled"} =>
         /\ entry.floor \subseteq acc.floor
         /\ \A i \in DOMAIN links : lib[links[i].name].floor \subseteq acc.floor
         /\ \A i \in DOMAIN fragLinks : lib[fragLinks[i].name].floor \subseteq acc.floor

FoldInv == InputsFit /\ LinksFit /\ Folded
-----------------------------------------------------------------------------
\* The inputs establish the invariant.
LEMMA InitFold == Init => FoldInv
BY PolicyAssumption DEF PolicyAssumption, Init, FoldInv, InputsFit, LinksFit, Folded, Phases

\* Folding a child over a parent keeps the floors of both.
LEMMA FoldFloor ==
    ASSUME NEW parent, NEW child
    PROVE  Fold(parent, child).floor = parent.floor \cup child.floor
BY DEF Fold, UnionNames

\* What applying a fragment does to each field.
LEMMA FragmentFloor ==
    ASSUME NEW parent, NEW child
    PROVE  /\ ApplyFragment(parent, child).floor = parent.floor \cup child.floor
           /\ ApplyFragment(parent, child).spawn = OrElse(child.spawn, parent.spawn)
           /\ ApplyFragment(parent, child).provides = FoldProvides(parent.provides, child.provides)
           /\ ApplyFragment(parent, child).lists =
                [l \in Lists |-> FoldList(parent.lists[l], child.lists[l])]
BY DEF ApplyFragment, Fold, UnionNames

\* The entry is folded like any child, and its base forgotten.
LEMMA EntryFolded ==
    ASSUME NEW parent, NEW child
    PROVE  /\ [Fold(parent, child) EXCEPT !.base = NoName].floor = parent.floor \cup child.floor
           /\ [Fold(parent, child) EXCEPT !.base = NoName].provides
                = FoldProvides(parent.provides, child.provides)
BY DEF Fold, UnionNames

\* Every step of the compile keeps the invariant.
LEMMA NextFold == FoldInv /\ [Next]_vars => FoldInv'
<1> SUFFICES ASSUME FoldInv, [Next]_vars PROVE FoldInv'
  OBVIOUS
<1> USE DEF FoldInv
<1>1. InputsFit'
  <2>1. UNCHANGED inputs /\ store' \in Targets \cup {NoTarget}
    BY DEF InputsFit, Next, EntryRefused, EntryValid, FollowRefused, Follow, RootReached,
           FoldAncestor, FoldEntry, IncludeRefused, Include, ValidationRefused, MeshValidated,
           GrantRefused, Settle, Publish, Spawn, spawnVars, vars
  <2> QED BY <2>1 DEF InputsFit, inputs
<1>2. CASE EntryRefused \/ EntryValid \/ FollowRefused \/ IncludeRefused
           \/ ValidationRefused \/ MeshValidated \/ GrantRefused
  <2>1. /\ UNCHANGED <<inputs, chainVars, foldVars>>
        /\ \/ phase' = "failed"
           \/ phase = "start" /\ phase' = "walk"
           \/ phase = "include" /\ phase' = "grant"
    BY <1>2 DEF EntryRefused, EntryValid, FollowRefused, IncludeRefused, ValidationRefused,
                MeshValidated, GrantRefused, IncludesDone
  <2>2. LinksFit'
    BY <2>1 DEF LinksFit, inputs, chainVars, foldVars, Checked, Phases
  <2>3. Folded'
    BY <2>1 DEF Folded, inputs, chainVars, foldVars
  <2> QED BY <1>1, <2>2, <2>3
<1>3. CASE Follow
  <2>1. /\ UNCHANGED <<inputs, foldVars, phase>> /\ phase = "walk"
        /\ links' = Append(links, Link(current.base))
        /\ current.base \in DOMAIN lib /\ Checked(lib[current.base])
    BY <1>3 DEF Follow, Followable
  <2>2. LinksFit'
    BY <2>1 DEF LinksFit, Link, inputs, foldVars, Checked
  <2>3. Folded'
    BY <2>1 DEF Folded, foldVars
  <2> QED BY <1>1, <2>2, <2>3
<1>4. CASE RootReached
  <2>1. /\ UNCHANGED <<inputs, links, fragLinks>> /\ phase = "walk" /\ phase' = "fold"
        /\ acc' = IF links = <<>> THEN entry ELSE lib[links[Len(links)].name]
        /\ pos' = IF links = <<>> THEN 0 ELSE Len(links) - 1
    BY <1>4 DEF RootReached
  <2>2. LinksFit'
    BY <2>1 DEF LinksFit, inputs, Checked, Phases
  <2>3. Folded'
    BY <2>1 DEF Folded, LinksFit, inputs
  <2> QED BY <1>1, <2>2, <2>3
<1>5. CASE FoldAncestor
  <2>1. /\ UNCHANGED <<inputs, links, fragLinks, phase>> /\ phase = "fold"
        /\ acc' = Fold(acc, lib[links[pos].name])
        /\ pos > 0 /\ pos' = pos - 1
    BY <1>5 DEF FoldAncestor, chainVars
  <2>2. LinksFit'
    BY <2>1 DEF LinksFit, inputs, Checked
  <2>3. acc'.floor = acc.floor \cup lib[links[pos].name].floor
    BY <2>1, FoldFloor
  <2>4. Folded'
    BY <2>1, <2>3 DEF Folded, LinksFit, inputs
  <2> QED BY <1>1, <2>2, <2>4
<1>6. CASE FoldEntry
  <2>1. /\ UNCHANGED <<inputs, links, fragLinks>> /\ phase = "fold" /\ pos = 0
        /\ phase' = "include"
        /\ acc' = [Fold(acc, entry) EXCEPT !.base = NoName]
    BY <1>6 DEF FoldEntry, chainVars
  <2>2. LinksFit'
    BY <2>1 DEF LinksFit, inputs, Checked, Phases
  <2>3. acc'.floor = acc.floor \cup entry.floor
    BY <2>1, EntryFolded
  <2>4. Folded'
    BY <2>1, <2>3 DEF Folded, LinksFit, inputs
  <2> QED BY <1>1, <2>2, <2>4
<1>7. CASE Include
  <2>1. PICK name \in DOMAIN lib :
          /\ Checked(lib[name])
          /\ acc' = ApplyFragment(acc, lib[name])
          /\ fragLinks' = Append(fragLinks, Link(name))
    BY <1>7 DEF Include, Includable
  <2>2. UNCHANGED <<inputs, links, phase>> /\ phase = "include"
    BY <1>7 DEF Include, chainVars
  <2>3. LinksFit'
    BY <2>1, <2>2 DEF LinksFit, Link, inputs, Checked
  <2>4. acc'.floor = acc.floor \cup lib[name].floor
    BY <2>1, FragmentFloor
  <2>5. \A i \in DOMAIN fragLinks' :
          \/ fragLinks'[i].name = name
          \/ i \in DOMAIN fragLinks /\ fragLinks'[i] = fragLinks[i]
    BY <2>1 DEF LinksFit, Link
  <2>6. Folded'
    BY <2>2, <2>4, <2>5 DEF Folded, inputs
  <2> QED BY <1>1, <2>3, <2>6
<1>8. CASE Settle
  <2>1. /\ UNCHANGED <<inputs, chainVars, foldVars>> /\ phase = "grant"
        /\ phase' \in {"settled", "failed"}
    BY <1>8 DEF Settle
  <2>2. LinksFit'
    BY <2>1 DEF LinksFit, inputs, chainVars, foldVars, Checked, Phases
  <2>3. Folded'
    BY <2>1 DEF Folded, inputs, chainVars, foldVars
  <2> QED BY <1>1, <2>2, <2>3
<1>9. CASE Publish \/ (\E fields \in SUBSET PatchFields : Spawn(fields)) \/ UNCHANGED vars
  <2>1. UNCHANGED <<inputs, chainVars, foldVars, phase>>
    BY <1>9 DEF Publish, Spawn, vars
  <2>2. LinksFit'
    BY <2>1 DEF LinksFit, inputs, chainVars, foldVars, Checked
  <2>3. Folded'
    BY <2>1 DEF Folded, inputs, chainVars, foldVars
  <2> QED BY <1>1, <2>2, <2>3
<1> QED BY <1>2, <1>3, <1>4, <1>5, <1>6, <1>7, <1>8, <1>9 DEF Next

\* FoldInv is an inductive invariant of the compile.
THEOREM FoldInvariant == Spec => []FoldInv
BY InitFold, NextFold, PTL DEF Spec

\* No floor of any link or fragment is lost, however long the chain.
THEOREM FloorsKeptTheorem == Spec => []FloorsKept
<1>1. FoldInv => FloorsKept
  BY DEF FoldInv, Folded, FloorsKept, Ancestors, Fragments
<1> QED BY <1>1, FoldInvariant, PTL

\* Under a required signature nothing unverified is folded in.
THEOREM AllVerifiedTheorem == Spec => []AllVerified
<1>1. FoldInv => AllVerified
  <2> SUFFICES ASSUME FoldInv, trust.require, NEW n \in Ancestors \cup Fragments
               PROVE  Tier[lib[n].sig] > 0
    BY DEF AllVerified
  <2>1. n \in DOMAIN lib /\ Checked(lib[n])
    BY DEF FoldInv, LinksFit, Ancestors, Fragments
  <2>2. lib[n].sig \in {"user", "host", "vendor"}
    BY <2>1 DEF FoldInv, InputsFit, Artefact, Checked, Tier
  <2> QED BY <2>2 DEF Tier
<1> QED BY <1>1, FoldInvariant, PTL

\* A fragment that passes is_additive_only takes no proxy rule away.
THEOREM IncludesKeepProxyTheorem == Spec => IncludesKeepProxy
<1>1. [Next]_vars => [Kept("proxy")]_vars
  <2> SUFFICES ASSUME Next, phase = "include", phase' = "include",
                      NEW k \in DOMAIN Resolved(acc.lists["proxy"])
               PROVE  /\ k \in DOMAIN Resolved(acc'.lists["proxy"])
                      /\ Resolved(acc'.lists["proxy"])[k] = Resolved(acc.lists["proxy"])[k]
    BY DEF Kept
  <2> DEFINE p == acc.lists["proxy"]
  <2>1. CASE Include
    <3>1. PICK name : IsAdditiveOnly(lib[name]) /\ acc' = ApplyFragment(acc, lib[name])
      BY <2>1 DEF Include, Includable
    <3> DEFINE c == lib[name].lists["proxy"]
    <3>2. acc'.lists["proxy"] = FoldList(p, c)
      <4>1. acc'.lists = [l \in Lists |-> FoldList(acc.lists[l], lib[name].lists[l])]
        BY <3>1, FragmentFloor
      <4>2. "proxy" \in Lists
        BY DEF Lists
      <4> QED BY <4>1, <4>2
    <3>3. Additive(c)
      BY <3>1 DEF IsAdditiveOnly
    <3>4. p.kind = "set" /\ Resolved(p) = p.items
      BY DEF Resolved
    <3> HIDE DEF c, p
    <3>5. CASE c.kind = "none"
      BY <3>2, <3>5 DEF FoldList, p
    <3>6. CASE c.kind = "set"
      BY <3>2, <3>3, <3>4, <3>6 DEF FoldList, Additive, p
    <3>7. CASE c.kind \notin {"none", "set"}
      <4> DEFINE all == Extend(p.items, c.items)
      <4>1. c.remove = {}
        BY <3>3, <3>7 DEF Additive
      <4>2. Resolved(FoldList(p, c)) = [j \in DOMAIN all \ c.remove |-> all[j]]
        BY <3>4, <3>7 DEF FoldList, Resolved
      <4>3. k \in DOMAIN all /\ all[k] = p.items[k]
        BY <3>4 DEF Extend, p
      <4> QED BY <3>2, <3>4, <4>1, <4>2, <4>3 DEF p
    <3> QED BY <3>5, <3>6, <3>7
  <2>2. CASE UNCHANGED acc
    BY <2>2
  <2>3. Include \/ UNCHANGED acc
    BY DEF Next, EntryRefused, EntryValid, FollowRefused, Follow, RootReached,
           FoldAncestor, FoldEntry, IncludeRefused, ValidationRefused, MeshValidated,
           GrantRefused, Settle, Publish, Spawn, foldVars
  <2> QED BY <2>1, <2>2, <2>3
<1> QED BY <1>1, PTL DEF Spec, IncludesKeepProxy
-----------------------------------------------------------------------------
(* The spawn pin.                                                          *)

\* Once settled with a grant, the pin is the signature of a target the compile
\* had verified, if it had keys.
PinFits ==
    /\ phase = "settled" /\ acc.spawn # NoScalar =>
         /\ pinned \in Targets
         /\ pin.key = pinned.key /\ pin.sig = pinned.sig
         /\ trust.keys /\ pinned.signed => pinned.verifies
    /\ instance # NoTarget => phase = "settled"

SpawnInv == PinFits /\ SpawnedAsPinned

\* Every step keeps a spawned instance within its pin and its patch.
LEMMA SpawnStep ==
    ASSUME FoldInv, SpawnInv, [Next]_vars
    PROVE  SpawnInv'
<1> USE DEF SpawnInv
<1>1. CASE phase \notin {"grant", "settled"} \/ GrantRefused
  <2>1. UNCHANGED instance /\ (phase' # "settled" \/ UNCHANGED vars)
    BY <1>1 DEF Next, EntryRefused, EntryValid, FollowRefused, Follow, RootReached,
           FoldAncestor, FoldEntry, IncludeRefused, Include, ValidationRefused, MeshValidated,
           GrantRefused, Settle, Publish, Spawn, spawnVars, vars, IncludesDone
  <2>2. instance = NoTarget
    BY <1>1 DEF PinFits, GrantRefused
  <2>3. CASE UNCHANGED vars
    BY <1>1, <2>2, <2>3 DEF PinFits, SpawnedAsPinned, vars, spawnVars, GrantRefused
  <2> QED BY <2>1, <2>2, <2>3 DEF PinFits, SpawnedAsPinned
<1>2. CASE Settle
  <2>1. UNCHANGED <<acc, trust, instance>> /\ phase = "grant"
    BY <1>2 DEF Settle, foldVars, inputs
  <2>2. instance = NoTarget
    BY <2>1 DEF PinFits
  <2>3. ASSUME acc.spawn # NoScalar
        PROVE  /\ pinned' \in Targets
               /\ pin'.key = pinned'.key /\ pin'.sig = pinned'.sig
               /\ trust.keys /\ pinned'.signed => pinned'.verifies
    BY <1>2, <2>3 DEF Settle, Grantable, FoldInv, InputsFit
  <2> QED BY <2>1, <2>2, <2>3 DEF PinFits, SpawnedAsPinned
<1>3. CASE Publish \/ UNCHANGED vars
  <2>1. UNCHANGED <<acc, trust, instance, phase, pin, pinned>>
    BY <1>3 DEF Publish, vars, inputs, foldVars, spawnVars
  <2> QED BY <2>1 DEF PinFits, SpawnedAsPinned
<1>4. ASSUME NEW fields \in SUBSET PatchFields, Spawn(fields) PROVE SpawnInv'
  <2>1. /\ UNCHANGED <<acc, trust, phase, pin, pinned>>
        /\ phase = "settled" /\ acc.spawn # NoScalar
        /\ store \in Targets
        /\ store.key = pin.key /\ store.sig = pin.sig /\ store.signed /\ store.verifies
        /\ acc.spawn = {} \/ fields \subseteq acc.spawn
        /\ fields \subseteq store.manifest
        /\ instance' = [from |-> store, wrote |-> fields]
    BY <1>4 DEF Spawn, PinMatches, BuildPatch, foldVars, inputs, FoldInv, InputsFit
  <2>2. ASSUME trust.keys PROVE store = pinned
    <3>1. pinned \in Targets /\ pin.key = pinned.key /\ pin.sig = pinned.sig
      BY <2>1 DEF PinFits
    <3>2. pinned.signed
      BY <2>1, <3>1, PolicyAssumption DEF PolicyAssumption
    <3>3. pinned.verifies
      BY <2>1, <2>2, <3>2 DEF PinFits
    <3> QED BY <2>1, <3>1, <3>3, PolicyAssumption DEF PolicyAssumption
  <2> QED BY <2>1, <2>2 DEF PinFits, SpawnedAsPinned
<1>5. \/ phase \notin {"grant", "settled"} \/ GrantRefused
      \/ Settle \/ Publish \/ UNCHANGED vars
      \/ \E fields \in SUBSET PatchFields : Spawn(fields)
  BY DEF Next, EntryRefused, EntryValid, FollowRefused, Follow, RootReached,
         FoldAncestor, FoldEntry, IncludeRefused, Include, ValidationRefused, MeshValidated,
         IncludesDone
<1> QED BY <1>1, <1>2, <1>3, <1>4, <1>5

\* An instance is made from the artefact that was pinned, for every history
\* of the store.
THEOREM SpawnedAsPinnedTheorem == Spec => []SpawnedAsPinned
<1>1. Init => SpawnInv
  BY DEF Init, SpawnInv, PinFits, SpawnedAsPinned
<1>2. FoldInv /\ SpawnInv /\ [Next]_vars => SpawnInv'
  BY SpawnStep
<1>3. SpawnInv => SpawnedAsPinned
  BY DEF SpawnInv
<1> QED BY <1>1, <1>2, <1>3, FoldInvariant, PTL DEF Spec
-----------------------------------------------------------------------------
(* Reserved capability names.                                              *)

ProvidesAt(i) == lib[links[i].name].provides

\* While the chain is folded acc carries the provides of the most derived link
\* folded so far; afterwards the entry's, or those of the link the origin names.
ProvidesFolded ==
    /\ phase = "fold" =>
         \/ links = <<>>
         \/ /\ acc.provides = {}
            /\ \A i \in DOMAIN links : i > pos => ProvidesAt(i) = {}
         \/ \E i \in DOMAIN links :
              /\ i > pos /\ acc.provides = ProvidesAt(i) /\ ProvidesAt(i) # {}
              /\ \A j \in DOMAIN links : j > pos /\ j < i => ProvidesAt(j) = {}
    /\ phase = "fold" /\ links = <<>> => acc.provides = entry.provides
    /\ phase \in {"fold", "include", "grant", "settled"} => origin = ProvidesOrigin
    /\ phase \in {"include", "grant", "settled"} =>
         IF entry.provides # {} THEN acc.provides = entry.provides
         ELSE \/ acc.provides = {}
              \/ Suppliers # {} /\ acc.provides = ProvidesAt(Supplier)
    /\ phase \in {"grant", "settled"} => \A cap \in acc.provides : Permits(cap)

\* A set of naturals has a least element.
LEMMA Least ==
    ASSUME NEW S \in SUBSET Nat, S # {}
    PROVE  \E i \in S : \A j \in S : i <= j
<1>1. \E i \in S : \A j \in S : ~ (<<j, i>> \in OpToRel(<, Nat))
  BY NatLessThanWellFounded, WFMin
<1>2. \A i, j \in Nat : j < i => <<j, i>> \in OpToRel(<, Nat)
  BY Zenon DEF OpToRel
<1>3. \E i \in S : \A j \in S : ~ (j < i)
  BY <1>1, <1>2
<1> QED BY <1>3

\* The first supplier of the chain is the one Supplier chooses.
LEMMA SupplierIs ==
    ASSUME LinksFit, NEW i \in DOMAIN links, ProvidesAt(i) # {},
           \A j \in DOMAIN links : j < i => ProvidesAt(j) = {}
    PROVE  Suppliers # {} /\ Supplier = i
<1>1. i \in Suppliers /\ Suppliers \subseteq Nat
  BY DEF Suppliers, ProvidesAt, LinksFit
<1>2. \A j \in Suppliers : i <= j
  BY <1>1 DEF Suppliers, ProvidesAt, LinksFit
<1>3. \A k \in Suppliers : (\A j \in Suppliers : k <= j) => k = i
  BY <1>1, <1>2
<1>4. Supplier \in Suppliers /\ \A j \in Suppliers : Supplier <= j
  BY <1>1, <1>2 DEF Supplier
<1> QED BY <1>1, <1>3, <1>4

\* What Permits and ProvidesOrigin read does not change after the walk.
LEMMA GateStill ==
    ASSUME UNCHANGED <<inputs, links, origin>>
    PROVE  /\ ProvidesOrigin' = ProvidesOrigin
           /\ Suppliers' = Suppliers /\ Supplier' = Supplier
           /\ \A i : ProvidesAt(i)' = ProvidesAt(i)
           /\ \A cap : Permits(cap)' = Permits(cap)
BY DEF ProvidesOrigin, Suppliers, Supplier, ProvidesAt, Permits, Enforced, DeclaringTier, inputs

\* Every step keeps the provides with the link that declared them.
LEMMA ProvidesStep ==
    ASSUME FoldInv, ProvidesFolded, [Next]_vars
    PROVE  ProvidesFolded'
<1>1. CASE phase' \in {"start", "walk", "failed"}
  BY <1>1 DEF ProvidesFolded
<1>2. CASE RootReached
  <2>1. /\ UNCHANGED <<inputs, links>> /\ phase' = "fold" /\ origin' = ProvidesOrigin
        /\ acc' = IF links = <<>> THEN entry ELSE lib[links[Len(links)].name]
        /\ pos' = IF links = <<>> THEN 0 ELSE Len(links) - 1
    BY <1>2 DEF RootReached
  <2>2. ProvidesOrigin' = ProvidesOrigin /\ \A i : ProvidesAt(i)' = ProvidesAt(i)
    BY <2>1 DEF ProvidesOrigin, Suppliers, Supplier, ProvidesAt, inputs
  <2>3. CASE links = <<>>
    BY <2>1, <2>2, <2>3 DEF ProvidesFolded, inputs
  <2>4. CASE links # <<>>
    <3>1. /\ Len(links) \in DOMAIN links /\ Len(links) \in Nat
          /\ \A i \in DOMAIN links : i > pos' => i = Len(links)
      BY <2>1, <2>4 DEF FoldInv, LinksFit
    <3>2. acc'.provides = ProvidesAt(Len(links)) /\ Len(links) > pos'
      BY <2>1, <2>4, <3>1 DEF ProvidesAt
    <3>3. CASE ProvidesAt(Len(links)) = {}
      BY <2>1, <2>2, <2>4, <3>1, <3>2, <3>3 DEF ProvidesFolded
    <3>4. CASE ProvidesAt(Len(links)) # {}
      <4>1. \A j \in DOMAIN links : ~(j > pos' /\ j < Len(links))
        BY <3>1
      <4> QED BY <2>1, <2>2, <2>4, <3>1, <3>2, <3>4, <4>1 DEF ProvidesFolded
    <3> QED BY <3>3, <3>4
  <2> QED BY <2>3, <2>4
<1>3. CASE FoldAncestor
  <2>1. /\ UNCHANGED <<inputs, links, origin, phase>> /\ phase = "fold"
        /\ acc'.provides = FoldProvides(acc.provides, ProvidesAt(pos))
        /\ pos > 0 /\ pos' = pos - 1
    BY <1>3 DEF FoldAncestor, chainVars, Fold, ProvidesAt
  <2>2. pos \in DOMAIN links /\ pos \in Nat /\ links # <<>>
        /\ \A i \in DOMAIN links : i \in Nat
    BY <2>1 DEF FoldInv, Folded, LinksFit
  <2>3. \A i \in DOMAIN links : i > pos' <=> i > pos \/ i = pos
    BY <2>1, <2>2
  <2>4. ProvidesOrigin' = ProvidesOrigin /\ \A i : ProvidesAt(i)' = ProvidesAt(i)
    BY <2>1, GateStill
  <2>5. CASE ProvidesAt(pos) # {}
    <3>1. acc'.provides = ProvidesAt(pos)
      BY <2>1, <2>5 DEF FoldProvides
    <3>2. \A j \in DOMAIN links : ~(j > pos' /\ j < pos)
      BY <2>2, <2>3
    <3>3. pos > pos'
      BY <2>1, <2>2
    <3> QED BY <2>1, <2>2, <2>4, <2>5, <3>1, <3>2, <3>3 DEF ProvidesFolded
  <2>6. CASE ProvidesAt(pos) = {}
    <3>1. acc'.provides = acc.provides
      BY <2>1, <2>6 DEF FoldProvides
    <3>2. CASE acc.provides = {} /\ \A i \in DOMAIN links : i > pos => ProvidesAt(i) = {}
      BY <2>1, <2>2, <2>3, <2>4, <2>6, <3>1, <3>2 DEF ProvidesFolded
    <3>3. CASE \E i \in DOMAIN links :
              /\ i > pos /\ acc.provides = ProvidesAt(i) /\ ProvidesAt(i) # {}
              /\ \A j \in DOMAIN links : j > pos /\ j < i => ProvidesAt(j) = {}
      <4>1. PICK i \in DOMAIN links :
              /\ i > pos /\ acc.provides = ProvidesAt(i) /\ ProvidesAt(i) # {}
              /\ \A j \in DOMAIN links : j > pos /\ j < i => ProvidesAt(j) = {}
        BY <3>3
      <4>2. i > pos' /\ \A j \in DOMAIN links : j > pos' /\ j < i => ProvidesAt(j) = {}
        BY <2>3, <2>6, <4>1
      <4> QED BY <2>1, <2>2, <2>4, <3>1, <4>1, <4>2 DEF ProvidesFolded
    <3> QED BY <2>1, <2>2, <3>2, <3>3 DEF ProvidesFolded
  <2> QED BY <2>5, <2>6
<1>4. CASE FoldEntry
  <2>1. /\ UNCHANGED <<inputs, links, origin>> /\ phase = "fold" /\ pos = 0
        /\ phase' = "include"
        /\ acc'.provides = FoldProvides(acc.provides, entry.provides)
    BY <1>4, EntryFolded DEF FoldEntry, chainVars
  <2>2. /\ ProvidesOrigin' = ProvidesOrigin /\ \A i : ProvidesAt(i)' = ProvidesAt(i)
        /\ Suppliers' = Suppliers /\ Supplier' = Supplier /\ entry' = entry
    BY <2>1, GateStill DEF inputs
  <2>3. \A i \in DOMAIN links : i > pos
    BY <2>1 DEF FoldInv, LinksFit
  <2>4. entry.provides = {} =>
          \/ acc.provides = {}
          \/ Suppliers # {} /\ acc.provides = ProvidesAt(Supplier)
    <3> SUFFICES ASSUME entry.provides = {}, acc.provides # {}
                 PROVE  Suppliers # {} /\ acc.provides = ProvidesAt(Supplier)
      OBVIOUS
    <3>1. PICK i \in DOMAIN links :
            /\ acc.provides = ProvidesAt(i) /\ ProvidesAt(i) # {}
            /\ \A j \in DOMAIN links : j < i => ProvidesAt(j) = {}
      BY <2>1, <2>3 DEF ProvidesFolded
    <3> QED BY <3>1, SupplierIs DEF FoldInv
  <2>5. IF entry.provides # {} THEN acc'.provides = entry.provides
        ELSE acc'.provides = acc.provides
    BY <2>1 DEF FoldProvides
  <2>6. origin' = ProvidesOrigin'
    BY <2>1, <2>2 DEF ProvidesFolded
  <2> QED BY <2>1, <2>2, <2>4, <2>5, <2>6 DEF ProvidesFolded
<1>5. CASE Include
  <2>1. /\ UNCHANGED <<inputs, links, origin, phase>> /\ phase = "include"
    BY <1>5 DEF Include, chainVars
  <2>2. acc'.provides = acc.provides
    <3>1. PICK name : IsAdditiveOnly(lib[name]) /\ acc' = ApplyFragment(acc, lib[name])
      BY <1>5 DEF Include, Includable
    <3>2. lib[name].provides = {}
      BY <3>1 DEF IsAdditiveOnly
    <3>3. acc'.provides = FoldProvides(acc.provides, lib[name].provides)
      BY <3>1, FragmentFloor
    <3> QED BY <3>2, <3>3 DEF FoldProvides
  <2> QED BY <2>1, <2>2, GateStill DEF ProvidesFolded, inputs
<1>6. CASE MeshValidated
  <2>1. /\ UNCHANGED <<inputs, links, origin, acc>> /\ phase = "include" /\ phase' = "grant"
        /\ \A cap \in acc.provides : Permits(cap)
    BY <1>6 DEF MeshValidated, IncludesDone, chainVars, foldVars
  <2> QED BY <2>1, GateStill DEF ProvidesFolded, inputs
<1>7. CASE Settle \/ Publish \/ (\E fields \in SUBSET PatchFields : Spawn(fields))
  <2>1. /\ UNCHANGED <<inputs, links, origin, acc>> /\ phase \in {"grant", "settled"}
        /\ phase' \in {"settled", "failed"}
    BY <1>7 DEF Settle, Publish, Spawn, chainVars, foldVars
  <2> QED BY <2>1, GateStill DEF ProvidesFolded, inputs
<1>8. CASE UNCHANGED vars
  <2>1. UNCHANGED <<inputs, links, origin, acc, phase, pos>>
    BY <1>8 DEF vars, chainVars, foldVars
  <2> QED BY <2>1, GateStill DEF ProvidesFolded, inputs
<1>9. CASE EntryRefused \/ EntryValid \/ FollowRefused \/ Follow \/ IncludeRefused
           \/ ValidationRefused \/ GrantRefused
  BY <1>1, <1>9 DEF EntryRefused, EntryValid, FollowRefused, Follow, IncludeRefused,
                    ValidationRefused, GrantRefused
<1> QED BY <1>2, <1>3, <1>4, <1>5, <1>6, <1>7, <1>8, <1>9 DEF Next

\* A reserved name is backed by the tier of an artefact that declares it,
\* however the chain and its signatures are arranged.
THEOREM ReservedByAuthorityTheorem == Spec => []ReservedByAuthority
<1>1. Init => ProvidesFolded
  BY DEF Init, ProvidesFolded
<1>2. FoldInv /\ ProvidesFolded /\ [Next]_vars => ProvidesFolded'
  BY ProvidesStep
<1>3. FoldInv /\ ProvidesFolded => ReservedByAuthority
  <2> SUFFICES ASSUME FoldInv, ProvidesFolded, phase \in {"grant", "settled"}, trust.keys,
                      NEW cap \in acc.provides, RequiredTier[cap] > 0
               PROVE  \/ /\ cap \in entry.provides
                         /\ trust.signer \in {0} \cup RequiredTier[cap] .. 3
                      \/ \E i \in DOMAIN links : /\ cap \in ProvidesAt(i)
                                                 /\ links[i].tier >= RequiredTier[cap]
    BY DEF ReservedByAuthority, ProvidesAt
  <2>1. Permits(cap) /\ origin = ProvidesOrigin
    BY DEF ProvidesFolded
  <2>2. CASE entry.provides # {}
    <3>1. cap \in entry.provides /\ origin.kind = "entry"
      BY <2>1, <2>2 DEF ProvidesFolded, ProvidesOrigin
    <3>2. trust.signer = 0 \/ trust.signer >= RequiredTier[cap]
      BY <2>1, <3>1 DEF Permits, Enforced, DeclaringTier
    <3>3. trust.signer \in 0 .. 3
      BY DEF FoldInv, InputsFit
    <3> QED BY <3>1, <3>2, <3>3
  <2>3. CASE entry.provides = {}
    <3>1. Suppliers # {} /\ acc.provides = ProvidesAt(Supplier)
      BY <2>3 DEF ProvidesFolded
    <3>2. origin.kind = "ancestor" /\ origin.tier = links[Supplier].tier
      BY <2>1, <2>3, <3>1 DEF ProvidesOrigin
    <3>3. links[Supplier].tier >= RequiredTier[cap]
      BY <2>1, <3>2 DEF Permits, Enforced, DeclaringTier
    <3>4. Suppliers \subseteq Nat
      BY DEF Suppliers, FoldInv, LinksFit
    <3>5. \E i \in Suppliers : \A j \in Suppliers : i <= j
      BY <3>1, <3>4, Least
    <3>6. Supplier \in DOMAIN links
      BY <3>5 DEF Supplier, Suppliers
    <3> QED BY <3>1, <3>3, <3>6
  <2> QED BY <2>2, <2>3
<1> QED BY <1>1, <1>2, <1>3, FoldInvariant, PTL DEF Spec

----------------------------------------------------------------------------
(* The D-Bus data plane.  A call is in one place at a time: with the       *)
(* broker's thread, in the socketpair, on the bus, in either queue back,   *)
(* or answered.  No variable says where, so the invariant says that such   *)
(* an assignment loc exists.                                               *)

Places == {"send", "conduit", "bus", "back", "inbound", "got"}
Frames == AnswerFrames \cup SignalFrames

DbusShape ==
    /\ wl \in [Sessions -> {"off", "read", "send", "close", "join", "done"}]
    /\ issued \in [Sessions -> Seq(UNION {Calls[s] : s \in Sessions})]
    /\ got \in [Sessions -> SUBSET AnswerFrames]
    /\ back \in [Sessions -> Seq(Frames)] /\ inbound \in [Sessions -> Seq(Frames)]
    /\ conduit \in [Sessions -> Seq(Nat)]
    /\ next \in [Sessions -> 2 .. MaxSerial]
    /\ onBus \in [Sessions -> SUBSET [serial : Nat, of : Nat]]
    /\ DOMAIN pending = Sessions

\* What a frame on its way to the workload that made these calls says is right.
FrameOK(s, calls, f) ==
    /\ f.kind = "reply" =>
         f.of = f.serial /\ (calls[f.serial] # Hello => decide(Rules[s], calls[f.serial]))
    /\ f.kind = "denied" => ~ decide(Rules[s], calls[f.serial])
    /\ f.kind = "signal" => signal_allowed(Rules[s], f.of)
    /\ f.kind # "signal" => f.serial \in 1 .. Len(calls)

\* The answers in queue q are at `place`, each once.
Lies(s, calls, q, loc, place) ==
    /\ \A i \in 1 .. Len(q) :
         FrameOK(s, calls, q[i]) /\ (q[i].kind # "signal" => loc[q[i].serial] = place)
    /\ \A i, j \in 1 .. Len(q) :
         q[i].kind # "signal" /\ q[j].kind # "signal" /\ q[i].serial = q[j].serial => i = j

\* The answers the workload has had.
Had(s, calls, frames, loc) ==
    \A f \in frames : FrameOK(s, calls, f) /\ loc[f.serial] = "got"

\* The calls in the socketpair, in the order they were made.
InLine(calls, q, loc) ==
    /\ \A i \in 1 .. Len(q) : q[i] \in 1 .. Len(calls) /\ loc[q[i]] = "conduit"
    /\ \A i, j \in 1 .. Len(q) : i < j => q[i] < q[j]

\* pending pairs each serial of the bus with one call, the one the bus has.
Paired(s, calls, pend, bus, loc) ==
    /\ \A n \in DOMAIN pend :
         /\ n \in Nat /\ n > 1 /\ pend[n] \in 1 .. Len(calls) /\ loc[pend[n]] = "bus"
         /\ decide(Rules[s], calls[pend[n]])
    /\ \A m, n \in DOMAIN pend : pend[m] = pend[n] => m = n
    /\ \A m \in bus :
         /\ m.of # 0 => m.of \in 1 .. Len(calls) /\ decide(Rules[s], calls[m.of])
         /\ m.serial \in DOMAIN pend => pend[m.serial] = m.of
    /\ \A m, n \in bus : m.serial = n.serial => m = n

\* The counter of bus serials has not come round for call k.
Fresh(k, nx, pend, bus) ==
    /\ nx <= k + 1
    /\ \A n \in DOMAIN pend : n < nx
    /\ \A m \in bus : m.serial < nx

Engaged(s) == broker \in {<<"pull", s>>, <<"write", s>>}

\* The last call is still to be handed to the mediation.
Sending(s) == wl[s] = "send" \/ Engaged(s)

\* The calls the mediation has still to see.
Coming(s, k) ==
    \/ \E i \in 1 .. Len(conduit[s]) : k = conduit[s][i]
    \/ Sending(s) /\ k = Len(issued[s])
    \/ k \in Len(issued[s]) + 1 .. NCalls[s]

SessionOK(s, loc) ==
    /\ Len(issued[s]) <= NCalls[s]
    /\ Sending(s) => Len(issued[s]) >= 1 /\ loc[Len(issued[s])] = "send"
    /\ Engaged(s) => wl[s] \in {"send", "done"}
    /\ Had(s, issued[s], got[s], loc)
    /\ InLine(issued[s], conduit[s], loc)
    /\ Paired(s, issued[s], pending[s], onBus[s], loc)
    /\ \A k \in 1 .. NCalls[s] : Coming(s, k) => Fresh(k, next[s], pending[s], onBus[s])
    /\ Lies(s, issued[s], back[s], loc, "back") /\ Lies(s, issued[s], inbound[s], loc, "inbound")

DbusInv == DbusShape /\ \A s \in Sessions : \E loc \in [Nat -> Places] : SessionOK(s, loc)

----------------------------------------------------------------------------
(* Queues of answers, the calls in line, and the pairing of serials.       *)

\* More calls have been made, and none has changed.
Extends(calls, more) ==
    /\ Len(calls) \in Nat /\ Len(more) \in Nat /\ Len(calls) <= Len(more)
    /\ \A k \in 1 .. Len(calls) : more[k] = calls[k]

\* A frame stays right.
LEMMA FrameKept ==
    ASSUME NEW s, NEW calls, NEW more, NEW f, FrameOK(s, calls, f), Extends(calls, more),
           f.kind \in {"reply", "denied", "signal"}
    PROVE  FrameOK(s, more, f)
<1>1. f.kind # "signal" => f.serial \in 1 .. Len(more) /\ more[f.serial] = calls[f.serial]
  BY DEF FrameOK, Extends
<1>. QED
  BY <1>1 DEF FrameOK

\* The kinds of frames.
LEMMA FrameKind ==
    ASSUME NEW f \in Frames
    PROVE  /\ f.kind \in {"reply", "denied", "signal"}
           /\ f \in SignalFrames <=> f.kind = "signal"
           /\ f.kind # "signal" => f \in AnswerFrames /\ f.serial \in Nat
  BY DEF Frames, AnswerFrames, SignalFrames

\* A queue none of whose answers is moved.
LEMMA LiesKept ==
    ASSUME NEW s, NEW calls, NEW more, NEW q \in Seq(Frames), NEW loc, NEW loc2, NEW place,
           Lies(s, calls, q, loc, place), Extends(calls, more),
           \A k \in 1 .. Len(calls) : loc[k] = place => loc2[k] = place
    PROVE  Lies(s, more, q, loc2, place)
<1>1. ASSUME NEW i \in 1 .. Len(q)
      PROVE  FrameOK(s, more, q[i]) /\ (q[i].kind # "signal" => loc2[q[i].serial] = place)
  <2>1. FrameOK(s, calls, q[i]) /\ (q[i].kind # "signal" => loc[q[i].serial] = place)
    BY DEF Lies
  <2>2. q[i] \in Frames
    OBVIOUS
  <2>3. FrameOK(s, more, q[i])
    BY <2>1, <2>2, FrameKept, FrameKind
  <2>4. q[i].kind # "signal" => q[i].serial \in 1 .. Len(calls)
    BY <2>1 DEF FrameOK
  <2>. QED
    BY <2>1, <2>3, <2>4
<1>. QED
  BY <1>1 DEF Lies

\* An empty queue, ...
LEMMA LiesEmpty ==
    ASSUME NEW s, NEW calls, NEW loc, NEW place PROVE Lies(s, calls, <<>>, loc, place)
  BY DEF Lies

\* ... one without its head, ...
LEMMA LiesTail ==
    ASSUME NEW s, NEW calls, NEW q \in Seq(Frames), q # <<>>, NEW loc, NEW loc2, NEW place,
           Lies(s, calls, q, loc, place),
           \A k \in Nat : (Head(q).kind = "signal" \/ k # Head(q).serial) => loc2[k] = loc[k]
    PROVE  /\ Head(q) \in Frames /\ Tail(q) \in Seq(Frames) /\ FrameOK(s, calls, Head(q))
           /\ Head(q).kind # "signal" => loc[Head(q).serial] = place
           /\ Lies(s, calls, Tail(q), loc2, place)
<1>1. /\ Len(q) \in Nat /\ Len(q) > 0 /\ Head(q) = q[1] /\ Head(q) \in Frames
      /\ Tail(q) \in Seq(Frames) /\ Len(Tail(q)) = Len(q) - 1
      /\ \A i \in 1 .. Len(Tail(q)) : i + 1 \in 1 .. Len(q) /\ i + 1 # 1 /\ Tail(q)[i] = q[i + 1]
  BY HeadTailProperties
<1>2. 1 \in 1 .. Len(q)
  BY <1>1
<1>3. FrameOK(s, calls, Head(q)) /\ (Head(q).kind # "signal" => loc[Head(q).serial] = place)
  BY <1>1, <1>2 DEF Lies
<1>4. ASSUME NEW i \in 1 .. Len(Tail(q))
      PROVE  /\ FrameOK(s, calls, Tail(q)[i])
             /\ Tail(q)[i].kind # "signal" => loc2[Tail(q)[i].serial] = place
  <2>1. i + 1 \in 1 .. Len(q) /\ i + 1 # 1 /\ Tail(q)[i] = q[i + 1] /\ q[i + 1] \in Frames
    BY <1>1
  <2>2. /\ FrameOK(s, calls, q[i + 1]) /\ (q[i + 1].kind # "signal" => loc[q[i + 1].serial] = place)
        /\ q[i + 1].kind # "signal" /\ Head(q).kind # "signal" => q[i + 1].serial # Head(q).serial
    BY <1>1, <1>2, <2>1 DEF Lies
  <2>3. q[i + 1].kind # "signal" => q[i + 1].serial \in Nat
    BY <2>1, FrameKind
  <2>. QED
    BY <2>1, <2>2, <2>3
<1>5. \A i, j \in 1 .. Len(Tail(q)) :
        Tail(q)[i].kind # "signal" /\ Tail(q)[j].kind # "signal" /\ Tail(q)[i].serial = Tail(q)[j].serial => i = j
  <2>. SUFFICES ASSUME NEW i \in 1 .. Len(Tail(q)), NEW j \in 1 .. Len(Tail(q)),
                       Tail(q)[i].kind # "signal", Tail(q)[j].kind # "signal",
                       Tail(q)[i].serial = Tail(q)[j].serial
                PROVE  i = j
    OBVIOUS
  <2>1. i + 1 \in 1 .. Len(q) /\ j + 1 \in 1 .. Len(q) /\ Tail(q)[i] = q[i + 1] /\ Tail(q)[j] = q[j + 1]
    BY <1>1
  <2>2. i + 1 = j + 1
    BY <2>1 DEF Lies
  <2>. QED
    BY <1>1, <2>2
<1>. QED
  BY <1>1, <1>3, <1>4, <1>5 DEF Lies

\* ... one with a frame more, ...
LEMMA LiesAppend ==
    ASSUME NEW s, NEW calls, NEW q \in Seq(Frames), NEW r \in Seq(Frames), NEW f \in Frames,
           NEW loc, NEW loc2, NEW place,
           Lies(s, calls, q, loc, place), FrameOK(s, calls, f),
           Len(r) = Len(q) + 1, r[Len(q) + 1] = f, \A i \in 1 .. Len(q) : r[i] = q[i],
           f.kind # "signal" => loc[f.serial] # place /\ loc2[f.serial] = place,
           \A k \in Nat : (f.kind = "signal" \/ k # f.serial) => loc2[k] = loc[k]
    PROVE  Lies(s, calls, r, loc2, place)
<1>1. /\ Len(q) \in Nat /\ \A i \in 1 .. Len(q) : q[i] \in Frames
      /\ \A i \in 1 .. Len(r) : i \in 1 .. Len(q) \/ i = Len(q) + 1
  OBVIOUS
<1>2. ASSUME NEW i \in 1 .. Len(q)
      PROVE  /\ FrameOK(s, calls, q[i])
             /\ q[i].kind # "signal" => /\ loc2[q[i].serial] = place
                                        /\ f.kind # "signal" => q[i].serial # f.serial
  <2>1. FrameOK(s, calls, q[i]) /\ (q[i].kind # "signal" => loc[q[i].serial] = place)
    BY DEF Lies
  <2>2. q[i].kind # "signal" => q[i].serial \in Nat
    BY <1>1, FrameKind
  <2>. QED
    BY <2>1, <2>2
<1>3. ASSUME NEW i \in 1 .. Len(r)
      PROVE  FrameOK(s, calls, r[i]) /\ (r[i].kind # "signal" => loc2[r[i].serial] = place)
  BY <1>1, <1>2
<1>4. ASSUME NEW i \in 1 .. Len(r), NEW j \in 1 .. Len(r),
             r[i].kind # "signal", r[j].kind # "signal", r[i].serial = r[j].serial
      PROVE  i = j
  <2>1. CASE i \in 1 .. Len(q) /\ j \in 1 .. Len(q)
    BY <1>4, <2>1 DEF Lies
  <2>2. CASE i = Len(q) + 1 /\ j \in 1 .. Len(q)
    BY <1>2, <1>4, <2>2
  <2>3. CASE j = Len(q) + 1 /\ i \in 1 .. Len(q)
    BY <1>2, <1>4, <2>3
  <2>. QED
    BY <1>1, <2>1, <2>2, <2>3
<1>. QED
  BY <1>3, <1>4 DEF Lies

\* ... and a prefix of one.
LEMMA LiesPrefix ==
    ASSUME NEW s, NEW calls, NEW q \in Seq(Frames), NEW n \in 0 .. Len(q), NEW loc, NEW place,
           Lies(s, calls, q, loc, place)
    PROVE  SubSeq(q, 1, n) \in Seq(Frames) /\ Lies(s, calls, SubSeq(q, 1, n), loc, place)
<1>1. /\ SubSeq(q, 1, n) \in Seq(Frames) /\ Len(SubSeq(q, 1, n)) = n
      /\ \A i \in 1 .. n : SubSeq(q, 1, n)[i] = q[i] /\ i \in 1 .. Len(q)
  OBVIOUS
<1>. QED
  BY <1>1 DEF Lies

\* The answers the workload has had, when none is moved.
LEMMA HadKept ==
    ASSUME NEW s, NEW calls, NEW more, NEW frames \in SUBSET AnswerFrames, NEW fewer \in SUBSET frames,
           NEW loc, NEW loc2, Had(s, calls, frames, loc), Extends(calls, more),
           \A k \in 1 .. Len(calls) : loc[k] = "got" => loc2[k] = "got"
    PROVE  Had(s, more, fewer, loc2)
<1>. SUFFICES ASSUME NEW f \in fewer PROVE FrameOK(s, more, f) /\ loc2[f.serial] = "got"
  BY DEF Had
<1>1. FrameOK(s, calls, f) /\ loc[f.serial] = "got" /\ f \in Frames /\ f.kind \in {"reply", "denied"}
  BY DEF Had, Frames, AnswerFrames
<1>2. FrameOK(s, more, f)
  BY <1>1, FrameKept
<1>3. f.serial \in 1 .. Len(calls)
  BY <1>1 DEF FrameOK
<1>. QED
  BY <1>1, <1>2, <1>3

\* The calls in line, when none is moved, ...
LEMMA LineKept ==
    ASSUME NEW calls, NEW more, NEW q, NEW loc, NEW loc2, InLine(calls, q, loc), Extends(calls, more),
           \A k \in 1 .. Len(calls) : loc[k] = "conduit" => loc2[k] = "conduit"
    PROVE  InLine(more, q, loc2)
<1>1. \A k \in 1 .. Len(calls) : k \in 1 .. Len(more)
  BY DEF Extends
<1>. QED
  BY <1>1 DEF InLine

\* ... when the first is taken, ...
LEMMA LineTail ==
    ASSUME NEW calls, NEW q \in Seq(Nat), q # <<>>, NEW loc, NEW loc2, InLine(calls, q, loc),
           \A k \in Nat : k # Head(q) => loc2[k] = loc[k]
    PROVE  /\ Head(q) \in 1 .. Len(calls) /\ loc[Head(q)] = "conduit"
           /\ Tail(q) \in Seq(Nat) /\ InLine(calls, Tail(q), loc2)
           /\ \A i \in 1 .. Len(Tail(q)) : Head(q) < Tail(q)[i] /\ \E j \in 1 .. Len(q) : Tail(q)[i] = q[j]
<1>1. /\ Len(q) \in Nat /\ Len(q) > 0 /\ Head(q) = q[1] /\ 1 \in 1 .. Len(q) /\ Head(q) \in Nat
      /\ Tail(q) \in Seq(Nat) /\ Len(Tail(q)) = Len(q) - 1
      /\ \A i \in 1 .. Len(Tail(q)) : /\ i + 1 \in 1 .. Len(q) /\ 1 < i + 1 /\ Tail(q)[i] = q[i + 1]
                                      /\ q[i + 1] \in Nat
  BY HeadTailProperties
<1>2. Head(q) \in 1 .. Len(calls) /\ loc[Head(q)] = "conduit"
  BY <1>1 DEF InLine
<1>3. \A i \in 1 .. Len(Tail(q)) : Head(q) < Tail(q)[i] /\ \E j \in 1 .. Len(q) : Tail(q)[i] = q[j]
  BY <1>1 DEF InLine
<1>4. \A i \in 1 .. Len(Tail(q)) : Tail(q)[i] # Head(q)
  BY <1>1, <1>3
<1>5. \A i \in 1 .. Len(Tail(q)) : Tail(q)[i] \in 1 .. Len(calls) /\ loc2[Tail(q)[i]] = "conduit"
  BY <1>1, <1>4 DEF InLine
<1>6. \A i, j \in 1 .. Len(Tail(q)) : i < j => Tail(q)[i] < Tail(q)[j]
  <2>. SUFFICES ASSUME NEW i \in 1 .. Len(Tail(q)), NEW j \in 1 .. Len(Tail(q)), i < j
                PROVE  Tail(q)[i] < Tail(q)[j]
    OBVIOUS
  <2>1. i + 1 \in 1 .. Len(q) /\ j + 1 \in 1 .. Len(q) /\ Tail(q)[i] = q[i + 1] /\ Tail(q)[j] = q[j + 1]
    BY <1>1
  <2>2. i + 1 < j + 1
    BY <1>1
  <2>. QED
    BY <2>1, <2>2 DEF InLine
<1>. QED
  BY <1>1, <1>2, <1>3, <1>5, <1>6 DEF InLine

\* ... and when the last call made joins them.
LEMMA LineAppend ==
    ASSUME NEW calls, NEW q \in Seq(Nat), NEW loc, NEW loc2, InLine(calls, q, loc),
           Len(calls) \in Nat, Len(calls) >= 1, loc[Len(calls)] # "conduit", loc2[Len(calls)] = "conduit",
           \A k \in Nat : k # Len(calls) => loc2[k] = loc[k]
    PROVE  Append(q, Len(calls)) \in Seq(Nat) /\ InLine(calls, Append(q, Len(calls)), loc2)
<1>. DEFINE n == Len(calls)  r == Append(q, n)
<1>1. /\ Len(q) \in Nat /\ r \in Seq(Nat) /\ Len(r) = Len(q) + 1 /\ r[Len(q) + 1] = n
      /\ \A i \in 1 .. Len(q) : r[i] = q[i] /\ q[i] \in Nat
  OBVIOUS
<1>2. \A i \in 1 .. Len(r) : i \in 1 .. Len(q) \/ i = Len(q) + 1
  BY <1>1
<1>3. \A i \in 1 .. Len(q) : q[i] \in 1 .. n /\ q[i] # n /\ q[i] < n
  BY <1>1 DEF InLine
<1>4. n \in 1 .. n
  OBVIOUS
<1>. HIDE DEF r, n
<1>5. \A i \in 1 .. Len(r) : r[i] \in 1 .. Len(calls) /\ loc2[r[i]] = "conduit"
  BY <1>1, <1>2, <1>3, <1>4, ZenonT(40) DEF InLine, n
<1>6. ASSUME NEW i \in 1 .. Len(r), NEW j \in 1 .. Len(r), i < j PROVE r[i] < r[j]
  <2>1. i \in 1 .. Len(q)
    BY <1>1, <1>6
  <2>2. CASE j \in 1 .. Len(q)
    BY <1>1, <1>6, <2>1, <2>2 DEF InLine
  <2>3. CASE j = Len(q) + 1
    BY <1>1, <1>3, <2>1, <2>3
  <2>. QED
    BY <1>2, <2>2, <2>3
<1>. QED
  BY <1>1, <1>5, <1>6 DEF InLine, r, n

\* The pairing, when no call is moved.
LEMMA PairedKept ==
    ASSUME NEW s, NEW calls, NEW more, NEW pend, NEW bus, NEW loc, NEW loc2,
           Paired(s, calls, pend, bus, loc), Extends(calls, more),
           \A k \in 1 .. Len(calls) : loc[k] = "bus" => loc2[k] = "bus"
    PROVE  Paired(s, more, pend, bus, loc2)
<1>1. \A k \in 1 .. Len(calls) : k \in 1 .. Len(more) /\ more[k] = calls[k]
  BY DEF Extends
<1>. QED
  BY <1>1 DEF Paired

----------------------------------------------------------------------------
(* One session's step, and the sessions it leaves alone.                   *)

\* A step that leaves session t as it was.
Same(t) ==
    /\ wl'[t] = wl[t] /\ issued'[t] = issued[t] /\ got'[t] = got[t] /\ conduit'[t] = conduit[t]
    /\ pending'[t] = pending[t] /\ next'[t] = next[t] /\ onBus'[t] = onBus[t]
    /\ back'[t] = back[t] /\ inbound'[t] = inbound[t]
    /\ (broker' \in {<<"pull", t>>, <<"write", t>>}) => Engaged(t)

\* What a session has in its queues is of the right kind.
LEMMA ShapeOf ==
    ASSUME DbusShape, NEW s \in Sessions
    PROVE  /\ issued[s] \in Seq(UNION {Calls[t] : t \in Sessions}) /\ got[s] \in SUBSET AnswerFrames
           /\ back[s] \in Seq(Frames) /\ inbound[s] \in Seq(Frames) /\ conduit[s] \in Seq(Nat)
           /\ next[s] \in 2 .. MaxSerial /\ onBus[s] \in SUBSET [serial : Nat, of : Nat]
           /\ Len(issued[s]) \in Nat /\ Len(conduit[s]) \in Nat /\ Extends(issued[s], issued[s])
<1>1. /\ issued[s] \in Seq(UNION {Calls[t] : t \in Sessions}) /\ got[s] \in SUBSET AnswerFrames
      /\ back[s] \in Seq(Frames) /\ inbound[s] \in Seq(Frames) /\ conduit[s] \in Seq(Nat)
      /\ next[s] \in 2 .. MaxSerial /\ onBus[s] \in SUBSET [serial : Nat, of : Nat]
  BY DEF DbusShape
<1>. QED
  BY <1>1 DEF Extends

\* A step in which no call of s moves: some are forgotten with a queue.
LEMMA NoneMoves ==
    ASSUME NEW s \in Sessions, NEW loc \in [Nat -> Places], DbusShape, SessionOK(s, loc),
           issued'[s] = issued[s], got'[s] \subseteq got[s], conduit'[s] \in {conduit[s], <<>>},
           pending'[s] = pending[s], next'[s] = next[s], onBus'[s] = onBus[s],
           Sending(s)' => Sending(s), Engaged(s)' => wl'[s] \in {"send", "done"},
           Lies(s, issued[s], back'[s], loc, "back"), Lies(s, issued[s], inbound'[s], loc, "inbound")
    PROVE  SessionOK(s, loc)'
<1>1. Had(s, issued'[s], got'[s], loc)
  BY ShapeOf, HadKept DEF SessionOK
<1>2. InLine(issued'[s], conduit'[s], loc)
  BY DEF SessionOK, InLine
<1>3. \A k \in 1 .. NCalls[s] : Coming(s, k)' => Coming(s, k)
  BY DEF Coming
<1>4. Sending(s)' => Len(issued'[s]) >= 1 /\ loc[Len(issued'[s])] = "send"
  BY DEF SessionOK
<1>. QED
  BY <1>1, <1>2, <1>3, <1>4 DEF SessionOK

\* A session that is left alone.
LEMMA OthersKept ==
    ASSUME NEW t \in Sessions, NEW loc \in [Nat -> Places], DbusShape, SessionOK(t, loc), Same(t)
    PROVE  SessionOK(t, loc)'
<1>1. /\ issued'[t] = issued[t] /\ got'[t] = got[t] /\ conduit'[t] = conduit[t]
      /\ pending'[t] = pending[t] /\ next'[t] = next[t] /\ onBus'[t] = onBus[t]
      /\ back'[t] = back[t] /\ inbound'[t] = inbound[t] /\ wl'[t] = wl[t]
  BY DEF Same
<1>2. Engaged(t)' => Engaged(t)
  BY DEF Same, Engaged
<1>3. (Sending(t)' => Sending(t)) /\ (Engaged(t)' => wl'[t] \in {"send", "done"})
  BY <1>1, <1>2 DEF Sending, SessionOK
<1>4. /\ Lies(t, issued[t], back'[t], loc, "back") /\ Lies(t, issued[t], inbound'[t], loc, "inbound")
      /\ got'[t] \subseteq got[t] /\ conduit'[t] \in {conduit[t], <<>>}
  BY <1>1 DEF SessionOK
<1>. QED
  BY <1>1, <1>3, <1>4, NoneMoves

\* The step of one session.
LEMMA OneSteps ==
    ASSUME DbusInv, NEW s \in Sessions, DbusShape', NEW loc \in [Nat -> Places], SessionOK(s, loc)',
           \A t \in Sessions \ {s} : Same(t)
    PROVE  DbusInv'
<1>. SUFFICES ASSUME NEW t \in Sessions PROVE \E l \in [Nat -> Places] : SessionOK(t, l)'
  BY DEF DbusInv
<1>1. CASE t = s
  BY <1>1
<1>2. CASE t # s
  <2>1. PICK l \in [Nat -> Places] : SessionOK(t, l)
    BY DEF DbusInv
  <2>2. SessionOK(t, l)'
    BY <1>2, <2>1, OthersKept DEF DbusInv
  <2>. QED
    BY <2>2
<1>. QED
  BY <1>1, <1>2

----------------------------------------------------------------------------
(* The facade and the broker's thread.                                     *)

\* The broker's thread, when it waits for nothing, is engaged by nobody.
LEMMA IdleBroker ==
    ASSUME broker = None, NEW t \in Sessions PROVE ~ Engaged(t)
  BY DbusAssumption DEF Engaged

\* Steps in which calls stay where they are or are forgotten.
LEMMA QuietSteps ==
    ASSUME DbusInv, NEW s \in Sessions,
           \/ NewSession(s) \/ WorkloadEnds(s) \/ FacadeJoins(s) \/ KennelDies(s)
           \/ HandleClose(s) \/ Release(s) \/ ReaderEnds(s)
    PROVE  DbusInv'
<1>. USE DEF facadeVars, brokerVars, medVars
<1>1. PICK loc \in [Nat -> Places] : SessionOK(s, loc)
  BY DEF DbusInv
<1>2. DbusShape
  BY DEF DbusInv
<1>3. /\ issued' = issued /\ conduit' = conduit /\ pending' = pending /\ next' = next /\ onBus' = onBus
      /\ back' = back /\ broker' = broker
  BY DEF NewSession, WorkloadEnds, FacadeJoins, KennelDies, HandleClose, Release, ReaderEnds, DropSession
<1>4. /\ wl' = wl \/ \E x \in {"read", "close", "join", "done"} : wl' = [wl EXCEPT ![s] = x]
      /\ got' = got \/ got' = [got EXCEPT ![s] = {}]
      /\ inbound' = inbound \/ inbound' = [inbound EXCEPT ![s] = <<>>]
  BY DEF NewSession, WorkloadEnds, FacadeJoins, KennelDies, HandleClose, Release, ReaderEnds, DropSession
<1>5. Engaged(s) => wl'[s] \in {wl[s], "done"}
  <2>1. CASE broker = None
    BY <2>1, IdleBroker
  <2>2. CASE wl[s] \in {"read", "join"}
    BY <1>1, <2>2 DEF SessionOK
  <2>3. CASE KennelDies(s)
    BY <1>2, <2>3 DEF KennelDies, DbusShape
  <2>4. CASE ReaderEnds(s)
    BY <2>4 DEF ReaderEnds
  <2>. QED
    BY <2>1, <2>2, <2>3, <2>4 DEF NewSession, WorkloadEnds, FacadeJoins, HandleClose, Release
<1>6. DbusShape'
  <2>1. got' \in [Sessions -> SUBSET AnswerFrames]
    BY <1>2, <1>4 DEF DbusShape
  <2>2. inbound' \in [Sessions -> Seq(Frames)]
    <3>1. inbound \in [Sessions -> Seq(Frames)] /\ <<>> \in Seq(Frames)
      BY <1>2 DEF DbusShape
    <3>. QED
      BY <1>4, <3>1
  <2>3. wl' \in [Sessions -> {"off", "read", "send", "close", "join", "done"}]
    BY <1>2, <1>4 DEF DbusShape
  <2>. QED
    BY <1>2, <1>3, <2>1, <2>2, <2>3 DEF DbusShape
<1>7. \A t \in Sessions \ {s} : Same(t)
  <2>1. \A t \in Sessions \ {s} : wl'[t] = wl[t] /\ got'[t] = got[t] /\ inbound'[t] = inbound[t]
    BY <1>2, <1>4 DEF DbusShape
  <2>. QED
    BY <1>3, <2>1 DEF Same, Engaged
<1>8. got'[s] \subseteq got[s] /\ inbound'[s] \in {inbound[s], <<>>} /\ wl'[s] \in {wl[s], "read", "close", "join", "done"}
  BY <1>2, <1>4 DEF DbusShape
<1>9. (Engaged(s)' => Engaged(s)) /\ (Engaged(s)' => wl'[s] \in {"send", "done"}) /\ (Sending(s)' => Sending(s))
  BY <1>1, <1>3, <1>5, <1>8 DEF Engaged, Sending, SessionOK
<1>10. /\ Lies(s, issued[s], back'[s], loc, "back") /\ Lies(s, issued[s], inbound'[s], loc, "inbound")
       /\ conduit'[s] \in {conduit[s], <<>>}
  BY <1>1, <1>3, <1>8, LiesEmpty DEF SessionOK
<1>11. SessionOK(s, loc)'
  BY <1>1, <1>2, <1>3, <1>8, <1>9, <1>10, NoneMoves
<1>. QED
  BY <1>6, <1>7, <1>11, OneSteps

\* The workload makes a call.
LEMMA CallStep ==
    ASSUME DbusInv, NEW s \in Sessions, NEW c \in Calls[s], WorkloadCalls(s, c) PROVE DbusInv'
<1>1. PICK loc \in [Nat -> Places] : SessionOK(s, loc)
  BY DEF DbusInv
<1>2. DbusShape
  BY DEF DbusInv
<1>3. PICK k : k = Len(issued[s]) + 1
  OBVIOUS
<1>4. k \in Nat /\ k \in 1 .. NCalls[s] /\ Len(issued[s]) \in Nat /\ wl[s] = "read"
  BY <1>2, <1>3, ShapeOf, DbusAssumption DEF WorkloadCalls
<1>5. PICK calls : calls = Append(issued[s], c)
  OBVIOUS
<1>6. /\ calls \in Seq(UNION {Calls[t] : t \in Sessions}) /\ Len(calls) = k /\ calls[k] = c
      /\ Extends(issued[s], calls)
  BY <1>2, <1>3, <1>5, ShapeOf DEF Extends
<1>7. /\ issued' = [issued EXCEPT ![s] = calls]
      /\ conduit' = conduit /\ pending' = pending /\ next' = next /\ onBus' = onBus
      /\ back' = back /\ inbound' = inbound /\ broker' = broker
  BY <1>5 DEF WorkloadCalls, brokerVars, medVars
<1>8. \/ c = Hello /\ got' = [got EXCEPT ![s] = @ \cup {Reply(k, k)}] /\ wl' = wl
      \/ is_refused(c.dest) /\ got' = [got EXCEPT ![s] = @ \cup {Denied(k)}] /\ wl' = wl
      \/ wl' = [wl EXCEPT ![s] = "send"] /\ got' = got
  BY <1>3 DEF WorkloadCalls
<1>9. Reply(k, k) \in AnswerFrames /\ Denied(k) \in AnswerFrames
  BY <1>4 DEF Reply, Denied, AnswerFrames
<1>10. DbusShape'
  <2>1. issued' \in [Sessions -> Seq(UNION {Calls[t] : t \in Sessions})]
    BY <1>2, <1>6, <1>7 DEF DbusShape
  <2>2. got' \in [Sessions -> SUBSET AnswerFrames]
    <3>1. got \in [Sessions -> SUBSET AnswerFrames]
      BY <1>2 DEF DbusShape
    <3>. QED
      BY <1>8, <1>9, <3>1
  <2>3. wl' \in [Sessions -> {"off", "read", "send", "close", "join", "done"}]
    BY <1>2, <1>8 DEF DbusShape
  <2>. QED
    BY <1>2, <1>7, <2>1, <2>2, <2>3 DEF DbusShape
<1>11. \A t \in Sessions \ {s} : Same(t)
  <2>1. \A t \in Sessions \ {s} : wl'[t] = wl[t] /\ got'[t] = got[t] /\ issued'[t] = issued[t]
    BY <1>2, <1>7, <1>8 DEF DbusShape
  <2>. QED
    BY <1>7, <2>1 DEF Same, Engaged
<1>12. issued'[s] = calls
  BY <1>2, <1>7 DEF DbusShape
<1>13. ~ Engaged(s) /\ ~ Engaged(s)'
  BY <1>1, <1>4, <1>7 DEF SessionOK, Engaged
<1>14. PICK place \in {"got", "send"} :
         /\ place = "send" => wl'[s] = "send" /\ got'[s] = got[s]
         /\ place = "got" => /\ wl'[s] = "read"
                             /\ \E f \in AnswerFrames : /\ f.serial = k /\ FrameOK(s, calls, f)
                                                        /\ got'[s] = got[s] \cup {f}
  <2>1. CASE c = Hello /\ got' = [got EXCEPT ![s] = @ \cup {Reply(k, k)}] /\ wl' = wl
    <3>1. FrameOK(s, calls, Reply(k, k)) /\ Reply(k, k).serial = k
      BY <1>4, <1>6, <2>1 DEF FrameOK, Reply
    <3>2. got'[s] = got[s] \cup {Reply(k, k)}
      BY <1>2, <2>1 DEF DbusShape
    <3>. QED
      BY <1>4, <1>9, <2>1, <3>1, <3>2
  <2>2. CASE is_refused(c.dest) /\ got' = [got EXCEPT ![s] = @ \cup {Denied(k)}] /\ wl' = wl
    <3>1. FrameOK(s, calls, Denied(k)) /\ Denied(k).serial = k
      BY <1>4, <1>6, <2>2 DEF FrameOK, Denied, decide
    <3>2. got'[s] = got[s] \cup {Denied(k)}
      BY <1>2, <2>2 DEF DbusShape
    <3>. QED
      BY <1>4, <1>9, <2>2, <3>1, <3>2
  <2>3. CASE wl' = [wl EXCEPT ![s] = "send"] /\ got' = got
    BY <1>2, <2>3 DEF DbusShape
  <2>. QED
    BY <1>8, <2>1, <2>2, <2>3
<1>15. PICK l : l = [loc EXCEPT ![k] = place]
  OBVIOUS
<1>16. /\ l \in [Nat -> Places] /\ l[k] = place
       /\ \A j \in Nat : j # k => l[j] = loc[j]
       /\ \A j \in 1 .. Len(issued[s]) : l[j] = loc[j]
  BY <1>3, <1>4, <1>15 DEF Places
<1>17. Had(s, calls, got'[s], l)
  <2>1. Had(s, calls, got[s], l)
    BY <1>1, <1>2, <1>6, <1>16, ShapeOf, HadKept DEF SessionOK
  <2>. QED
    BY <1>14, <1>16, <2>1 DEF Had
<1>18. InLine(calls, conduit[s], l)
  BY <1>1, <1>6, <1>16, LineKept DEF SessionOK
<1>19. Paired(s, calls, pending[s], onBus[s], l)
  BY <1>1, <1>6, <1>16, PairedKept DEF SessionOK
<1>20. Lies(s, calls, back[s], l, "back") /\ Lies(s, calls, inbound[s], l, "inbound")
  <2>1. /\ Lies(s, issued[s], back[s], loc, "back") /\ Lies(s, issued[s], inbound[s], loc, "inbound")
        /\ back[s] \in Seq(Frames) /\ inbound[s] \in Seq(Frames)
    BY <1>1, <1>2, ShapeOf DEF SessionOK
  <2>2. Lies(s, calls, back[s], l, "back")
    BY <1>6, <1>16, <2>1, LiesKept, SMTT(40)
  <2>3. Lies(s, calls, inbound[s], l, "inbound")
    BY <1>6, <1>16, <2>1, LiesKept, SMTT(40)
  <2>. QED
    BY <2>2, <2>3
<1>21. \A j \in 1 .. NCalls[s] : Coming(s, j)' => Coming(s, j)
  BY <1>3, <1>4, <1>6, <1>7, <1>12 DEF Coming
<1>22. Sending(s)' => Len(calls) >= 1 /\ l[Len(calls)] = "send"
  BY <1>4, <1>6, <1>13, <1>14, <1>16 DEF Sending
<1>23. SessionOK(s, l)'
  BY <1>1, <1>4, <1>6, <1>7, <1>12, <1>13, <1>17, <1>18, <1>19, <1>20, <1>21, <1>22 DEF SessionOK
<1>. QED
  BY <1>10, <1>11, <1>16, <1>23, OneSteps

\* The call being sent is in the socketpair.
LEMMA Written ==
    ASSUME DbusInv, NEW s \in Sessions, Sending(s), NEW q \in {conduit[s], <<>>},
           conduit' = [conduit EXCEPT ![s] = Append(q, Len(issued[s]))],
           Sent(s, "read"), broker' = None,
           UNCHANGED <<issued, got, pending, next, onBus, back, inbound>>
    PROVE  DbusInv'
<1>1. PICK loc \in [Nat -> Places] : SessionOK(s, loc)
  BY DEF DbusInv
<1>2. DbusShape
  BY DEF DbusInv
<1>3. PICK n : n = Len(issued[s])
  OBVIOUS
<1>4. n \in Nat /\ n >= 1 /\ loc[n] = "send" /\ n \in 1 .. NCalls[s]
  BY <1>1, <1>2, <1>3, ShapeOf, DbusAssumption DEF SessionOK
<1>5. PICK l : l = [loc EXCEPT ![n] = "conduit"]
  OBVIOUS
<1>6. l \in [Nat -> Places] /\ l[n] = "conduit" /\ \A j \in Nat : j # n => l[j] = loc[j]
  BY <1>4, <1>5 DEF Places
<1>7. \A p \in Places \ {"send"} : \A j \in 1 .. Len(issued[s]) : loc[j] = p => l[j] = p
  BY <1>4, <1>6
<1>8. q \in Seq(Nat) /\ InLine(issued[s], q, loc)
  <2>1. CASE q = conduit[s]
    BY <1>1, <1>2, <2>1, ShapeOf DEF SessionOK
  <2>2. CASE q = <<>>
    BY <2>2 DEF InLine
  <2>. QED
    BY <2>1, <2>2
<1>9. Append(q, n) \in Seq(Nat) /\ InLine(issued[s], Append(q, n), l)
  BY <1>3, <1>4, <1>6, <1>8, LineAppend
<1>10. /\ conduit'[s] = Append(q, n)
       /\ \A t \in Sessions \ {s} : conduit'[t] = conduit[t]
       /\ conduit' \in [Sessions -> Seq(Nat)]
  BY <1>2, <1>3, <1>9 DEF DbusShape
<1>11. /\ wl' \in [Sessions -> {"off", "read", "send", "close", "join", "done"}]
       /\ wl'[s] # "send" /\ \A t \in Sessions \ {s} : wl'[t] = wl[t]
  BY <1>2 DEF DbusShape, Sent
<1>12. DbusShape'
  BY <1>2, <1>10, <1>11 DEF DbusShape
<1>13. \A t \in Sessions : broker' \notin {<<"pull", t>>, <<"write", t>>}
  BY DbusAssumption
<1>14. \A t \in Sessions \ {s} : Same(t)
  BY <1>10, <1>11, <1>13 DEF Same
<1>15. ~ Engaged(s)' /\ ~ Sending(s)'
  BY <1>11, <1>13 DEF Engaged, Sending
<1>16. Had(s, issued[s], got[s], l)
  BY <1>1, <1>2, <1>7, ShapeOf, HadKept DEF SessionOK, Places
<1>17. Paired(s, issued[s], pending[s], onBus[s], l)
  BY <1>1, <1>2, <1>7, ShapeOf, PairedKept DEF SessionOK, Places
<1>18. Lies(s, issued[s], back[s], l, "back") /\ Lies(s, issued[s], inbound[s], l, "inbound")
  <2>1. /\ Lies(s, issued[s], back[s], loc, "back") /\ Lies(s, issued[s], inbound[s], loc, "inbound")
        /\ back[s] \in Seq(Frames) /\ inbound[s] \in Seq(Frames) /\ Extends(issued[s], issued[s])
    BY <1>1, <1>2, ShapeOf DEF SessionOK
  <2>2. Lies(s, issued[s], back[s], l, "back")
    BY <1>7, <2>1, LiesKept DEF Places
  <2>3. Lies(s, issued[s], inbound[s], l, "inbound")
    BY <1>7, <2>1, LiesKept DEF Places
  <2>. QED
    BY <2>2, <2>3
<1>19. ASSUME NEW j \in 1 .. NCalls[s], Coming(s, j)' PROVE Coming(s, j)
  <2>1. CASE \E i \in 1 .. Len(conduit'[s]) : j = conduit'[s][i]
    <3>1. PICK i \in 1 .. Len(Append(q, n)) : j = Append(q, n)[i]
      BY <1>10, <2>1
    <3>2. (i \in 1 .. Len(q) /\ j = q[i]) \/ j = n
      BY <1>8, <3>1
    <3>3. CASE i \in 1 .. Len(q) /\ j = q[i]
      <4>1. q = conduit[s]
        BY <3>3
      <4>. QED
        BY <3>3, <4>1 DEF Coming
    <3>. QED
      BY <1>3, <3>2, <3>3 DEF Coming
  <2>. QED
    BY <1>15, <1>19, <2>1 DEF Coming
<1>20. SessionOK(s, l)'
  BY <1>1, <1>3, <1>9, <1>10, <1>15, <1>16, <1>17, <1>18, <1>19 DEF SessionOK
<1>. QED
  BY <1>6, <1>12, <1>14, <1>20, OneSteps

\* The call being sent is given up, and perhaps the session with it.
LEMMA NotWritten ==
    ASSUME DbusInv, NEW s \in Sessions, Sent(s, "close"), broker' = None,
           inbound' = inbound \/ inbound' = [inbound EXCEPT ![s] = <<>>],
           UNCHANGED <<issued, got, conduit, pending, next, onBus, back>>
    PROVE  DbusInv'
<1>1. PICK loc \in [Nat -> Places] : SessionOK(s, loc)
  BY DEF DbusInv
<1>2. DbusShape
  BY DEF DbusInv
<1>3. /\ inbound' \in [Sessions -> Seq(Frames)] /\ inbound'[s] \in {inbound[s], <<>>}
      /\ \A t \in Sessions \ {s} : inbound'[t] = inbound[t]
  <2>1. inbound \in [Sessions -> Seq(Frames)] /\ <<>> \in Seq(Frames)
    BY <1>2 DEF DbusShape
  <2>. QED
    BY <2>1
<1>4. /\ wl' \in [Sessions -> {"off", "read", "send", "close", "join", "done"}]
      /\ wl'[s] # "send" /\ \A t \in Sessions \ {s} : wl'[t] = wl[t]
  BY <1>2 DEF DbusShape, Sent
<1>5. DbusShape'
  BY <1>2, <1>3, <1>4 DEF DbusShape
<1>6. \A t \in Sessions : broker' \notin {<<"pull", t>>, <<"write", t>>}
  BY DbusAssumption
<1>7. \A t \in Sessions \ {s} : Same(t)
  BY <1>3, <1>4, <1>6 DEF Same
<1>8. ~ Engaged(s)' /\ ~ Sending(s)'
  BY <1>4, <1>6 DEF Engaged, Sending
<1>9. Lies(s, issued[s], back'[s], loc, "back") /\ Lies(s, issued[s], inbound'[s], loc, "inbound")
  BY <1>1, <1>3, LiesEmpty DEF SessionOK
<1>10. SessionOK(s, loc)'
  BY <1>1, <1>2, <1>8, <1>9, NoneMoves
<1>. QED
  BY <1>5, <1>7, <1>10, OneSteps

\* DBUS_SEND in the broker, with what it may block in.
LEMMA SendSteps ==
    ASSUME DbusInv, NEW s \in Sessions, HandleSend(s) \/ WriteUnblocked(s) \/ EnsureConduit(s)
    PROVE  DbusInv'
<1>. USE DEF facadeVars, brokerVars, medVars
<1>1. UNCHANGED <<issued, got, pending, next, onBus, back>>
  BY DEF HandleSend, WriteUnblocked, EnsureConduit
<1>2. ASSUME WriteAll(s), Sending(s), broker' = None PROVE DbusInv'
  <2>1. CASE /\ conduit' = [conduit EXCEPT ![s] = Append(@, Len(issued[s]))]
             /\ Sent(s, "read") /\ UNCHANGED <<sess, inbound>>
    BY <1>1, <1>2, <2>1, Written
  <2>2. CASE DropSession(s) /\ Sent(s, "close") /\ UNCHANGED conduit
    BY <1>1, <1>2, <2>2, NotWritten DEF DropSession
  <2>. QED
    BY <1>2, <2>1, <2>2 DEF WriteAll
<1>3. CASE WriteUnblocked(s)
  BY <1>2, <1>3 DEF WriteUnblocked, Sending, Engaged
<1>4. CASE EnsureConduit(s)
  <2>1. CASE conduit' = [conduit EXCEPT ![s] = <<Len(issued[s])>>] /\ Sent(s, "read")
    <3>1. <<Len(issued[s])>> = Append(<<>>, Len(issued[s]))
      OBVIOUS
    <3>2. Sending(s) /\ broker' = None /\ inbound' = inbound
      BY <1>4 DEF EnsureConduit, Sending, Engaged
    <3>. QED
      BY <1>1, <2>1, <3>1, <3>2, Written
  <2>2. CASE Sent(s, "close") /\ UNCHANGED conduit
    BY <1>1, <1>4, <2>2, NotWritten DEF EnsureConduit
  <2>. QED
    BY <1>4, <2>1, <2>2 DEF EnsureConduit
<1>5. CASE HandleSend(s)
  <2>1. broker = None /\ wl[s] = "send" /\ Sending(s)
    BY <1>5 DEF HandleSend, Sending
  <2>2. CASE WriteAll(s) /\ UNCHANGED broker
    BY <1>2, <2>1, <2>2
  <2>3. CASE Sent(s, "close") /\ UNCHANGED <<broker, sess, conduit, inbound>>
    BY <1>1, <2>1, <2>3, NotWritten
  <2>4. CASE broker' \in {<<"pull", s>>, <<"write", s>>} /\ UNCHANGED <<wl, sess, conduit, inbound>>
    <3>1. PICK loc \in [Nat -> Places] : SessionOK(s, loc)
      BY DEF DbusInv
    <3>2. DbusShape /\ DbusShape'
      BY <1>1, <2>4 DEF DbusInv, DbusShape
    <3>3. \A t \in Sessions \ {s} : Same(t)
      BY <1>1, <2>4 DEF Same
    <3>4. /\ Lies(s, issued[s], back'[s], loc, "back") /\ Lies(s, issued[s], inbound'[s], loc, "inbound")
          /\ wl'[s] \in {"send", "done"} /\ (Sending(s)' => Sending(s))
      BY <1>1, <2>1, <2>4, <3>1 DEF SessionOK
    <3>5. SessionOK(s, loc)'
      BY <1>1, <2>4, <3>1, <3>2, <3>4, NoneMoves
    <3>. QED
      BY <3>1, <3>2, <3>3, <3>5, OneSteps
  <2>. QED
    BY <1>5, <2>2, <2>3, <2>4 DEF HandleSend
<1>. QED
  BY <1>3, <1>4, <1>5

\* The head of a queue of answers, and the rest of the queue.
LEMMA LiesRest ==
    ASSUME NEW s, NEW calls, NEW q \in Seq(Frames), q # <<>>, NEW loc, NEW place, Lies(s, calls, q, loc, place)
    PROVE  /\ Head(q) \in Frames /\ Tail(q) \in Seq(Frames) /\ FrameOK(s, calls, Head(q))
           /\ Head(q).kind # "signal" => loc[Head(q).serial] = place
           /\ Lies(s, calls, Tail(q), loc, place)
<1>1. PICK l : l = loc
  OBVIOUS
<1>2. \A k \in Nat : (Head(q).kind = "signal" \/ k # Head(q).serial) => l[k] = loc[k]
  BY <1>1
<1>3. /\ Head(q) \in Frames /\ Tail(q) \in Seq(Frames) /\ FrameOK(s, calls, Head(q))
      /\ Head(q).kind # "signal" => loc[Head(q).serial] = place
      /\ Lies(s, calls, Tail(q), l, place)
  BY <1>2, LiesTail
<1>. QED
  BY <1>1, <1>3

\* Call k moves to place p: the queues it was not in are as they were.
LEMMA MoveKeeps ==
    ASSUME DbusShape, NEW s \in Sessions, NEW loc \in [Nat -> Places], SessionOK(s, loc),
           NEW k \in Nat, NEW p \in Places, NEW l, l = [loc EXCEPT ![k] = p]
    PROVE  /\ l \in [Nat -> Places] /\ l[k] = p /\ \A j \in Nat : j # k => l[j] = loc[j]
           /\ loc[k] # "got" => Had(s, issued[s], got[s], l)
           /\ loc[k] # "conduit" => InLine(issued[s], conduit[s], l)
           /\ loc[k] # "bus" => Paired(s, issued[s], pending[s], onBus[s], l)
           /\ loc[k] # "back" => Lies(s, issued[s], back[s], l, "back")
           /\ loc[k] # "inbound" => Lies(s, issued[s], inbound[s], l, "inbound")
<1>1. l \in [Nat -> Places] /\ l[k] = p /\ \A j \in Nat : j # k => l[j] = loc[j]
  OBVIOUS
<1>2. \A P : loc[k] # P => \A j \in 1 .. Len(issued[s]) : loc[j] = P => l[j] = P
  BY <1>1
<1>3. /\ back[s] \in Seq(Frames) /\ inbound[s] \in Seq(Frames) /\ Extends(issued[s], issued[s])
      /\ got[s] \in SUBSET AnswerFrames
  BY ShapeOf
<1>4. /\ Had(s, issued[s], got[s], loc) /\ InLine(issued[s], conduit[s], loc)
      /\ Paired(s, issued[s], pending[s], onBus[s], loc)
      /\ Lies(s, issued[s], back[s], loc, "back") /\ Lies(s, issued[s], inbound[s], loc, "inbound")
  BY DEF SessionOK
<1>5. loc[k] # "got" => Had(s, issued[s], got[s], l)
  BY <1>2, <1>3, <1>4, HadKept
<1>6. loc[k] # "conduit" => InLine(issued[s], conduit[s], l)
  BY <1>2, <1>3, <1>4, LineKept
<1>7. loc[k] # "bus" => Paired(s, issued[s], pending[s], onBus[s], l)
  <2>1. loc[k] # "bus" => \A j \in 1 .. Len(issued[s]) : loc[j] = "bus" => l[j] = "bus"
    BY <1>2
  <2>. QED
    BY <1>3, <1>4, <2>1, PairedKept
<1>8. loc[k] # "back" => Lies(s, issued[s], back[s], l, "back")
  BY <1>2, <1>3, <1>4, LiesKept
<1>9. loc[k] # "inbound" => Lies(s, issued[s], inbound[s], l, "inbound")
  BY <1>2, <1>3, <1>4, LiesKept
<1>. QED
  BY <1>1, <1>5, <1>6, <1>7, <1>8, <1>9

\* DBUS_RECV.
LEMMA RecvStep ==
    ASSUME DbusInv, NEW s \in Sessions, HandleRecv(s) PROVE DbusInv'
<1>1. PICK loc \in [Nat -> Places] : SessionOK(s, loc)
  BY DEF DbusInv
<1>2. DbusShape
  BY DEF DbusInv
<1>3. UNCHANGED <<wl, issued, broker, conduit, pending, next, onBus, back>>
  BY DEF HandleRecv, brokerVars, medVars
<1>4. /\ Sending(s)' <=> Sending(s)
      /\ Engaged(s)' => wl'[s] \in {"send", "done"}
      /\ \A k \in 1 .. NCalls[s] : Coming(s, k)' <=> Coming(s, k)
  BY <1>1, <1>3 DEF Sending, Engaged, Coming, SessionOK
<1>5. CASE UNCHANGED <<got, inbound>>
  <2>1. DbusShape' /\ \A t \in Sessions \ {s} : Same(t)
    BY <1>2, <1>3, <1>5 DEF DbusShape, Same, Engaged
  <2>2. Lies(s, issued[s], back'[s], loc, "back") /\ Lies(s, issued[s], inbound'[s], loc, "inbound")
    BY <1>1, <1>3, <1>5 DEF SessionOK
  <2>3. SessionOK(s, loc)'
    BY <1>1, <1>2, <1>3, <1>4, <1>5, <2>2, NoneMoves
  <2>. QED
    BY <2>1, <2>3, OneSteps
<1>6. CASE /\ inbound[s] # <<>> /\ inbound' = [inbound EXCEPT ![s] = Tail(@)]
           /\ got' = got \/ got' = [got EXCEPT ![s] = @ \cup ({Head(inbound[s])} \ SignalFrames)]
  <2>1. PICK f : f = Head(inbound[s])
    OBVIOUS
  <2>2. inbound[s] \in Seq(Frames) /\ Lies(s, issued[s], inbound[s], loc, "inbound")
    BY <1>1, <1>2, ShapeOf DEF SessionOK
  <2>3. /\ f \in Frames /\ Tail(inbound[s]) \in Seq(Frames) /\ FrameOK(s, issued[s], f)
        /\ f.kind # "signal" => loc[f.serial] = "inbound"
        /\ Lies(s, issued[s], Tail(inbound[s]), loc, "inbound")
    <3>1. PICK q, calls : q = inbound[s] /\ calls = issued[s]
      OBVIOUS
    <3>2. q \in Seq(Frames) /\ q # <<>> /\ Lies(s, calls, q, loc, "inbound")
      BY <1>6, <2>2, <3>1
    <3>3. /\ Head(q) \in Frames /\ Tail(q) \in Seq(Frames) /\ FrameOK(s, calls, Head(q))
          /\ Head(q).kind # "signal" => loc[Head(q).serial] = "inbound"
          /\ Lies(s, calls, Tail(q), loc, "inbound")
      BY <3>2, LiesRest
    <3>. QED
      BY <2>1, <3>1, <3>3
  <2>4. /\ f.kind \in {"reply", "denied", "signal"} /\ (f \in SignalFrames <=> f.kind = "signal")
        /\ f.kind # "signal" => f \in AnswerFrames /\ f.serial \in Nat
    BY <2>3, FrameKind
  <2>5. /\ inbound' \in [Sessions -> Seq(Frames)] /\ inbound'[s] = Tail(inbound[s])
        /\ \A t \in Sessions \ {s} : inbound'[t] = inbound[t]
    <3>1. inbound \in [Sessions -> Seq(Frames)]
      BY <1>2 DEF DbusShape
    <3>. QED
      BY <1>6, <2>3, <3>1
  <2>6. PICK g : g = {f} \ SignalFrames
    OBVIOUS
  <2>7. g \subseteq AnswerFrames
    BY <2>4, <2>6
  <2>8. /\ got' \in [Sessions -> SUBSET AnswerFrames] /\ got'[s] \in {got[s], got[s] \cup g}
        /\ \A t \in Sessions \ {s} : got'[t] = got[t]
    <3>1. got \in [Sessions -> SUBSET AnswerFrames]
      BY <1>2 DEF DbusShape
    <3>2. got' = got \/ got' = [got EXCEPT ![s] = @ \cup g]
      BY <1>6, <2>1, <2>6
    <3>. QED
      BY <2>7, <3>1, <3>2
  <2>9. DbusShape'
    BY <1>2, <1>3, <2>5, <2>8 DEF DbusShape
  <2>10. \A t \in Sessions \ {s} : Same(t)
    BY <1>3, <2>5, <2>8 DEF Same, Engaged
  <2>11. CASE got'[s] = got[s]
    <3>1. Lies(s, issued[s], back'[s], loc, "back") /\ Lies(s, issued[s], inbound'[s], loc, "inbound")
      BY <1>1, <1>3, <2>3, <2>5 DEF SessionOK
    <3>2. SessionOK(s, loc)'
      BY <1>1, <1>2, <1>3, <1>4, <2>11, <3>1, NoneMoves
    <3>. QED
      BY <2>9, <2>10, <3>2, OneSteps
  <2>12. CASE got'[s] # got[s]
    <3>1. g # {} /\ got'[s] = got[s] \cup {f} /\ f.kind # "signal"
      BY <2>4, <2>6, <2>8, <2>12
    <3>2. f \in AnswerFrames /\ f.serial \in Nat /\ loc[f.serial] = "inbound"
      BY <2>3, <2>4, <3>1
    <3>3. PICK l : l = [loc EXCEPT ![f.serial] = "got"]
      OBVIOUS
    <3>4. /\ l \in [Nat -> Places] /\ l[f.serial] = "got"
          /\ \A j \in Nat : j # f.serial => l[j] = loc[j]
          /\ Had(s, issued[s], got[s], l) /\ InLine(issued[s], conduit[s], l)
          /\ Paired(s, issued[s], pending[s], onBus[s], l) /\ Lies(s, issued[s], back[s], l, "back")
      <4>1. PICK k : k = f.serial
        OBVIOUS
      <4>2. k \in Nat /\ loc[k] = "inbound" /\ l = [loc EXCEPT ![k] = "got"] /\ "got" \in Places
        BY <3>2, <3>3, <4>1 DEF Places
      <4>3. /\ l \in [Nat -> Places] /\ l[k] = "got" /\ \A j \in Nat : j # k => l[j] = loc[j]
            /\ Had(s, issued[s], got[s], l) /\ InLine(issued[s], conduit[s], l)
            /\ Paired(s, issued[s], pending[s], onBus[s], l) /\ Lies(s, issued[s], back[s], l, "back")
        BY <1>1, <1>2, <4>2, MoveKeeps
      <4>. QED
        BY <4>1, <4>3
    <3>5. Had(s, issued[s], got'[s], l)
      BY <2>3, <3>1, <3>4 DEF Had
    <3>6. Lies(s, issued[s], inbound'[s], l, "inbound")
      BY <1>6, <2>1, <2>2, <2>5, <3>1, <3>4, LiesTail
    <3>7. Sending(s) => l[Len(issued[s])] = "send"
      BY <1>1, <1>2, <3>2, <3>4, ShapeOf DEF SessionOK
    <3>8. SessionOK(s, l)'
      BY <1>1, <1>3, <1>4, <3>4, <3>5, <3>6, <3>7 DEF SessionOK
    <3>. QED
      BY <2>9, <2>10, <3>4, <3>8, OneSteps
  <2>. QED
    BY <2>11, <2>12
<1>. QED
  BY <1>5, <1>6 DEF HandleRecv

\* The reader puts a frame in the queue of DBUS_RECV, or drops it.
LEMMA TakeStep ==
    ASSUME DbusInv, NEW s \in Sessions, ReaderTakes(s) PROVE DbusInv'
<1>1. PICK loc \in [Nat -> Places] : SessionOK(s, loc)
  BY DEF DbusInv
<1>2. DbusShape
  BY DEF DbusInv
<1>3. UNCHANGED <<wl, issued, got, broker, conduit, pending, next, onBus>>
  BY DEF ReaderTakes, facadeVars, brokerVars, medVars
<1>4. /\ Sending(s)' <=> Sending(s)
      /\ Engaged(s)' => wl'[s] \in {"send", "done"}
      /\ \A k \in 1 .. NCalls[s] : Coming(s, k)' <=> Coming(s, k)
  BY <1>1, <1>3 DEF Sending, Engaged, Coming, SessionOK
<1>5. PICK f : f = Head(back[s])
  OBVIOUS
<1>6. /\ back[s] \in Seq(Frames) /\ Lies(s, issued[s], back[s], loc, "back")
      /\ inbound[s] \in Seq(Frames) /\ Lies(s, issued[s], inbound[s], loc, "inbound") /\ back[s] # <<>>
  BY <1>1, <1>2, ShapeOf DEF SessionOK, ReaderTakes
<1>7. /\ f \in Frames /\ Tail(back[s]) \in Seq(Frames) /\ FrameOK(s, issued[s], f)
      /\ f.kind # "signal" => loc[f.serial] = "back"
      /\ Lies(s, issued[s], Tail(back[s]), loc, "back")
  <2>1. PICK q, calls : q = back[s] /\ calls = issued[s]
    OBVIOUS
  <2>2. q \in Seq(Frames) /\ q # <<>> /\ Lies(s, calls, q, loc, "back")
    BY <1>6, <2>1
  <2>3. /\ Head(q) \in Frames /\ Tail(q) \in Seq(Frames) /\ FrameOK(s, calls, Head(q))
        /\ Head(q).kind # "signal" => loc[Head(q).serial] = "back"
        /\ Lies(s, calls, Tail(q), loc, "back")
    BY <2>2, LiesRest
  <2>. QED
    BY <1>5, <2>1, <2>3
<1>8. f.kind # "signal" => f.serial \in Nat
  BY <1>7, FrameKind
<1>9. /\ back' \in [Sessions -> Seq(Frames)] /\ back'[s] = Tail(back[s])
      /\ \A t \in Sessions \ {s} : back'[t] = back[t]
  <2>1. back \in [Sessions -> Seq(Frames)]
    BY <1>2 DEF DbusShape
  <2>. QED
    BY <1>7, <2>1 DEF ReaderTakes
<1>10. PICK r : r = Append(inbound[s], f)
  OBVIOUS
<1>11. /\ r \in Seq(Frames) /\ Len(r) = Len(inbound[s]) + 1 /\ r[Len(inbound[s]) + 1] = f
       /\ \A i \in 1 .. Len(inbound[s]) : r[i] = inbound[s][i]
  BY <1>6, <1>7, <1>10
<1>12. /\ inbound' \in [Sessions -> Seq(Frames)] /\ inbound'[s] \in {inbound[s], r}
       /\ \A t \in Sessions \ {s} : inbound'[t] = inbound[t]
  <2>1. inbound \in [Sessions -> Seq(Frames)]
    BY <1>2 DEF DbusShape
  <2>2. inbound' = inbound \/ inbound' = [inbound EXCEPT ![s] = r]
    BY <1>5, <1>10 DEF ReaderTakes
  <2>. QED
    BY <1>11, <2>1, <2>2
<1>13. DbusShape'
  BY <1>2, <1>3, <1>9, <1>12 DEF DbusShape
<1>14. \A t \in Sessions \ {s} : Same(t)
  BY <1>3, <1>9, <1>12 DEF Same, Engaged
<1>15. CASE inbound'[s] = inbound[s]
  <2>1. SessionOK(s, loc)'
    BY <1>1, <1>2, <1>3, <1>4, <1>6, <1>7, <1>9, <1>15, NoneMoves
  <2>. QED
    BY <1>13, <1>14, <2>1, OneSteps
<1>16. CASE inbound'[s] = r /\ f.kind = "signal"
  <2>1. Lies(s, issued[s], r, loc, "inbound")
    BY <1>6, <1>7, <1>11, <1>16, LiesAppend, ZenonT(40)
  <2>2. SessionOK(s, loc)'
    BY <1>1, <1>2, <1>3, <1>4, <1>7, <1>9, <1>16, <2>1, NoneMoves
  <2>. QED
    BY <1>13, <1>14, <2>2, OneSteps
<1>17. CASE inbound'[s] = r /\ f.kind # "signal"
  <2>1. f.serial \in Nat /\ loc[f.serial] = "back"
    BY <1>7, <1>8, <1>17
  <2>2. PICK l : l = [loc EXCEPT ![f.serial] = "inbound"]
    OBVIOUS
  <2>3. /\ l \in [Nat -> Places] /\ l[f.serial] = "inbound"
        /\ \A j \in Nat : j # f.serial => l[j] = loc[j]
        /\ Had(s, issued[s], got[s], l) /\ InLine(issued[s], conduit[s], l)
        /\ Paired(s, issued[s], pending[s], onBus[s], l)
    <3>1. PICK k : k = f.serial
      OBVIOUS
    <3>2. k \in Nat /\ loc[k] = "back" /\ l = [loc EXCEPT ![k] = "inbound"] /\ "inbound" \in Places
      BY <2>1, <2>2, <3>1 DEF Places
    <3>3. /\ l \in [Nat -> Places] /\ l[k] = "inbound" /\ \A j \in Nat : j # k => l[j] = loc[j]
          /\ Had(s, issued[s], got[s], l) /\ InLine(issued[s], conduit[s], l)
          /\ Paired(s, issued[s], pending[s], onBus[s], l)
      BY <1>1, <1>2, <3>2, MoveKeeps
    <3>. QED
      BY <3>1, <3>3
  <2>4. Lies(s, issued[s], back'[s], l, "back")
    <3>1. PICK q, calls : q = back[s] /\ calls = issued[s]
      OBVIOUS
    <3>2. /\ q \in Seq(Frames) /\ q # <<>> /\ Lies(s, calls, q, loc, "back")
          /\ \A k \in Nat : (Head(q).kind = "signal" \/ k # Head(q).serial) => l[k] = loc[k]
      BY <1>5, <1>6, <1>17, <2>3, <3>1
    <3>3. Lies(s, calls, Tail(q), l, "back")
      BY <3>2, LiesTail
    <3>. QED
      BY <1>9, <3>1, <3>3
  <2>5. Lies(s, issued[s], inbound'[s], l, "inbound")
    <3>1. /\ f.kind # "signal" => loc[f.serial] # "inbound" /\ l[f.serial] = "inbound"
          /\ \A k \in Nat : (f.kind = "signal" \/ k # f.serial) => l[k] = loc[k]
      BY <1>17, <2>1, <2>3
    <3>2. Lies(s, issued[s], r, l, "inbound")
      <4>1. PICK q, calls : q = inbound[s] /\ calls = issued[s]
        OBVIOUS
      <4>2. /\ q \in Seq(Frames) /\ Lies(s, calls, q, loc, "inbound")
            /\ f \in Frames /\ FrameOK(s, calls, f)
        BY <1>6, <1>7, <4>1
      <4>3. /\ r \in Seq(Frames) /\ Len(r) = Len(q) + 1 /\ r[Len(q) + 1] = f
            /\ \A i \in 1 .. Len(q) : r[i] = q[i]
        BY <1>11, <4>1
      <4>4. Lies(s, calls, r, l, "inbound")
        BY <3>1, <4>2, <4>3, LiesAppend, SMTT(40)
      <4>. QED
        BY <4>1, <4>4
    <3>. QED
      BY <1>17, <3>2
  <2>6. Sending(s) => l[Len(issued[s])] = "send"
    BY <1>1, <1>2, <2>1, <2>3, ShapeOf DEF SessionOK
  <2>7. SessionOK(s, l)'
    BY <1>1, <1>3, <1>4, <2>3, <2>4, <2>5, <2>6 DEF SessionOK
  <2>. QED
    BY <1>13, <1>14, <2>3, <2>7, OneSteps
<1>. QED
  BY <1>12, <1>15, <1>16, <1>17

----------------------------------------------------------------------------
(* The mediation.                                                          *)

\* The pairing, when serials and calls of the bus are done with.
LEMMA PairedFewer ==
    ASSUME NEW s, NEW calls, NEW pend, NEW bus, NEW loc, Paired(s, calls, pend, bus, loc),
           NEW fewer, NEW less \in SUBSET bus, NEW l, DOMAIN fewer \subseteq DOMAIN pend,
           \A n \in DOMAIN fewer : fewer[n] = pend[n] /\ l[pend[n]] = "bus"
    PROVE  Paired(s, calls, fewer, less, l)
<1>1. \A n \in DOMAIN fewer : n \in DOMAIN pend /\ fewer[n] = pend[n] /\ l[fewer[n]] = "bus"
  OBVIOUS
<1>2. \A n \in DOMAIN fewer :
        /\ n \in Nat /\ n > 1 /\ fewer[n] \in 1 .. Len(calls) /\ l[fewer[n]] = "bus"
        /\ decide(Rules[s], calls[fewer[n]])
  BY <1>1 DEF Paired
<1>3. \A m, n \in DOMAIN fewer : fewer[m] = fewer[n] => m = n
  BY <1>1 DEF Paired
<1>4. \A m \in less :
        /\ m.of # 0 => m.of \in 1 .. Len(calls) /\ decide(Rules[s], calls[m.of])
        /\ m.serial \in DOMAIN fewer => fewer[m.serial] = m.of
  BY <1>1 DEF Paired
<1>5. \A m, n \in less : m.serial = n.serial => m = n
  BY DEF Paired
<1>. QED
  BY <1>2, <1>3, <1>4, <1>5 DEF Paired

\* The connection to the bus begins and ends.
LEMMA ConnectionSteps ==
    ASSUME DbusInv, NEW s \in Sessions, MedConnect(s) \/ MedEnds(s) PROVE DbusInv'
<1>1. PICK loc \in [Nat -> Places] : SessionOK(s, loc)
  BY DEF DbusInv
<1>2. DbusShape
  BY DEF DbusInv
<1>3. UNCHANGED <<wl, issued, got, broker, inbound>>
  BY DEF MedConnect, MedEnds, facadeVars, brokerVars
<1>4. /\ Sending(s)' <=> Sending(s)
      /\ Engaged(s)' => wl'[s] \in {"send", "done"}
  BY <1>1, <1>3 DEF Sending, Engaged, SessionOK
<1>5. CASE /\ onBus' = [onBus EXCEPT ![s] = {[serial |-> 1, of |-> 0]}]
           /\ UNCHANGED <<conduit, pending, next, back>>
  <2>1. PICK bus : bus = {[serial |-> 1, of |-> 0]}
    OBVIOUS
  <2>2. /\ onBus' \in [Sessions -> SUBSET [serial : Nat, of : Nat]] /\ onBus'[s] = bus
        /\ \A t \in Sessions \ {s} : onBus'[t] = onBus[t]
        /\ \A m \in bus : m.serial = 1 /\ m.of = 0
        /\ \A m, n \in bus : m = n
    BY <1>2, <1>5, <2>1 DEF DbusShape
  <2>3. DbusShape' /\ \A t \in Sessions \ {s} : Same(t)
    BY <1>2, <1>3, <1>5, <2>2 DEF DbusShape, Same, Engaged
  <2>4. Paired(s, issued[s], pending[s], bus, loc)
    BY <1>1, <2>2 DEF SessionOK, Paired
  <2>5. \A k \in 1 .. NCalls[s] : Coming(s, k)' => Coming(s, k)
    BY <1>3, <1>4, <1>5 DEF Coming
  <2>6. next[s] \in Nat /\ 1 < next[s]
    <3>1. MaxSerial \in Nat
      BY DbusAssumption
    <3>2. next[s] \in 2 .. MaxSerial
      BY <1>2, ShapeOf
    <3>. QED
      BY <3>1, <3>2
  <2>7. \A k \in 1 .. NCalls[s] : Coming(s, k)' => Fresh(k, next[s], pending[s], bus)
    BY <1>1, <2>2, <2>5, <2>6 DEF SessionOK, Fresh
  <2>8. SessionOK(s, loc)'
    BY <1>1, <1>3, <1>4, <1>5, <2>2, <2>4, <2>7 DEF SessionOK
  <2>. QED
    BY <2>3, <2>8, OneSteps
<1>6. CASE conduit' = [conduit EXCEPT ![s] = <<>>] /\ UNCHANGED <<onBus, pending, next, back>>
  <2>1. /\ conduit' \in [Sessions -> Seq(Nat)] /\ conduit'[s] = <<>>
        /\ \A t \in Sessions \ {s} : conduit'[t] = conduit[t]
    BY <1>2, <1>6 DEF DbusShape
  <2>2. DbusShape' /\ \A t \in Sessions \ {s} : Same(t)
    BY <1>2, <1>3, <1>6, <2>1 DEF DbusShape, Same, Engaged
  <2>3. Lies(s, issued[s], back'[s], loc, "back") /\ Lies(s, issued[s], inbound'[s], loc, "inbound")
    BY <1>1, <1>3, <1>6 DEF SessionOK
  <2>4. SessionOK(s, loc)'
    BY <1>1, <1>2, <1>3, <1>4, <1>6, <2>1, <2>3, NoneMoves
  <2>. QED
    BY <2>2, <2>4, OneSteps
<1>7. CASE MedEnds(s)
  <2>1. PICK n \in 0 .. Len(back[s]) : back' = [back EXCEPT ![s] = SubSeq(@, 1, n)]
    BY <1>7 DEF MedEnds
  <2>2. PICK q : q = SubSeq(back[s], 1, n)
    OBVIOUS
  <2>3. q \in Seq(Frames) /\ Lies(s, issued[s], q, loc, "back")
    BY <1>1, <1>2, <2>1, <2>2, ShapeOf, LiesPrefix DEF SessionOK
  <2>4. /\ back' \in [Sessions -> Seq(Frames)] /\ back'[s] = q
        /\ \A t \in Sessions \ {s} : back'[t] = back[t]
    BY <1>2, <2>1, <2>2, <2>3 DEF DbusShape
  <2>5. /\ onBus' \in [Sessions -> SUBSET [serial : Nat, of : Nat]] /\ onBus'[s] = {}
        /\ conduit' \in [Sessions -> Seq(Nat)] /\ conduit'[s] = <<>>
        /\ \A t \in Sessions \ {s} : onBus'[t] = onBus[t] /\ conduit'[t] = conduit[t]
    BY <1>2, <1>7 DEF MedEnds, DbusShape
  <2>6. /\ next' \in [Sessions -> 2 .. MaxSerial] /\ next'[s] = 2
        /\ \A t \in Sessions \ {s} : next'[t] = next[t]
    <3>1. 2 \in 2 .. MaxSerial
      <4>1. MaxSerial \in Nat
        BY DbusAssumption
      <4>2. next[s] \in 2 .. MaxSerial
        BY <1>2, ShapeOf
      <4>. QED
        BY <4>1, <4>2
    <3>. QED
      BY <1>2, <1>7, <3>1 DEF MedEnds, DbusShape
  <2>7. /\ DOMAIN pending' = Sessions /\ pending'[s] = <<>>
        /\ \A t \in Sessions \ {s} : pending'[t] = pending[t]
    BY <1>2, <1>7 DEF MedEnds, DbusShape
  <2>8. DbusShape' /\ \A t \in Sessions \ {s} : Same(t)
    BY <1>2, <1>3, <2>4, <2>5, <2>6, <2>7 DEF DbusShape, Same, Engaged
  <2>9. /\ Paired(s, issued[s], <<>>, {}, loc) /\ InLine(issued[s], <<>>, loc)
        /\ \A k \in 1 .. NCalls[s] : Fresh(k, 2, <<>>, {})
    BY DEF Paired, InLine, Fresh
  <2>10. SessionOK(s, loc)'
    BY <1>1, <1>3, <1>4, <2>3, <2>4, <2>5, <2>6, <2>7, <2>9 DEF SessionOK
  <2>. QED
    BY <2>8, <2>10, OneSteps
<1>. QED
  BY <1>5, <1>6, <1>7 DEF MedConnect

\* Answers of the bus, and its signals.
LEMMA BusSteps ==
    ASSUME DbusInv, NEW s \in Sessions,
           (\E n \in 1 .. MaxSerial : BusReplies(s, n)) \/ \E i \in Signals : BusSignals(s, i)
    PROVE  DbusInv'
<1>1. PICK loc \in [Nat -> Places] : SessionOK(s, loc)
  BY DEF DbusInv
<1>2. DbusShape
  BY DEF DbusInv
<1>3. UNCHANGED <<wl, issued, got, broker, conduit, next, inbound>>
  BY DEF BusReplies, BusSignals, facadeVars, brokerVars
<1>4. /\ Sending(s)' <=> Sending(s)
      /\ Engaged(s)' => wl'[s] \in {"send", "done"}
      /\ \A k \in 1 .. NCalls[s] : Coming(s, k)' <=> Coming(s, k)
  BY <1>1, <1>3 DEF Sending, Engaged, Coming, SessionOK
<1>5. /\ back \in [Sessions -> Seq(Frames)] /\ back[s] \in Seq(Frames)
      /\ Lies(s, issued[s], back[s], loc, "back") /\ Lies(s, issued[s], inbound[s], loc, "inbound")
  BY <1>1, <1>2, ShapeOf DEF SessionOK, DbusShape
<1>6. ASSUME NEW i \in Signals, BusSignals(s, i) PROVE DbusInv'
  <2>1. UNCHANGED <<pending, onBus>>
    BY <1>6 DEF BusSignals
  <2>2. PICK f : f = [kind |-> "signal", of |-> i]
    OBVIOUS
  <2>3. f \in Frames /\ f.kind = "signal" /\ f.of = i
    BY <2>2 DEF Frames, SignalFrames
  <2>4. PICK q, r : q = back[s] /\ r = Append(q, f)
    OBVIOUS
  <2>5. /\ q \in Seq(Frames) /\ r \in Seq(Frames) /\ Len(r) = Len(q) + 1 /\ r[Len(q) + 1] = f
        /\ \A j \in 1 .. Len(q) : r[j] = q[j]
    BY <1>5, <2>3, <2>4
  <2>6. (back' = back /\ back'[s] = q) \/ (signal_allowed(Rules[s], i) /\ back' = [back EXCEPT ![s] = r])
    BY <1>6, <2>2, <2>4 DEF BusSignals
  <2>7. back' \in [Sessions -> Seq(Frames)] /\ \A t \in Sessions \ {s} : back'[t] = back[t]
    BY <1>5, <2>5, <2>6
  <2>8. DbusShape' /\ \A t \in Sessions \ {s} : Same(t)
    BY <1>2, <1>3, <2>1, <2>7 DEF DbusShape, Same, Engaged
  <2>9. Lies(s, issued[s], back'[s], loc, "back")
    <3>1. CASE back' = back
      BY <1>5, <3>1
    <3>2. CASE signal_allowed(Rules[s], i) /\ back' = [back EXCEPT ![s] = r]
      <4>1. FrameOK(s, issued[s], f)
        BY <2>3, <3>2 DEF FrameOK
      <4>2. PICK l, calls : l = loc /\ calls = issued[s]
        OBVIOUS
      <4>3. /\ Lies(s, calls, q, loc, "back") /\ FrameOK(s, calls, f)
            /\ f.kind # "signal" => loc[f.serial] # "back" /\ l[f.serial] = "back"
            /\ \A k \in Nat : (f.kind = "signal" \/ k # f.serial) => l[k] = loc[k]
        BY <1>5, <2>3, <2>4, <4>1, <4>2
      <4>4. Lies(s, calls, r, l, "back")
        BY <2>3, <2>5, <4>3, LiesAppend, SMTT(40)
      <4>. QED
        BY <1>5, <3>2, <4>2, <4>4
    <3>. QED
      BY <2>6, <3>1, <3>2
  <2>10. SessionOK(s, loc)'
    BY <1>1, <1>2, <1>3, <1>4, <1>5, <2>1, <2>9, NoneMoves
  <2>. QED
    BY <2>8, <2>10, OneSteps
<1>7. ASSUME NEW n \in 1 .. MaxSerial, BusReplies(s, n) PROVE DbusInv'
  <2>1. PICK m \in onBus[s] : m.serial = n
    BY <1>7 DEF BusReplies
  <2>2. m = CHOOSE x \in onBus[s] : x.serial = n
    BY <1>1, <2>1 DEF SessionOK, Paired
  <2>3. PICK pend, bus : /\ pend = Restrict(pending[s], DOMAIN pending[s] \ InFlight(s, n))
                         /\ bus = {x \in onBus[s] : x.serial # n}
    OBVIOUS
  <2>4. /\ pending' = [pending EXCEPT ![s] = pend] /\ onBus' = [onBus EXCEPT ![s] = bus]
    BY <1>7, <2>3 DEF BusReplies
  <2>5. /\ DOMAIN pend = DOMAIN pending[s] \ {n}
        /\ \A x \in DOMAIN pend : pend[x] = pending[s][x]
        /\ bus \in SUBSET onBus[s]
    BY <2>3 DEF Restrict, InFlight
  <2>6. /\ onBus' \in [Sessions -> SUBSET [serial : Nat, of : Nat]] /\ onBus'[s] = bus
        /\ DOMAIN pending' = Sessions /\ pending'[s] = pend
        /\ \A t \in Sessions \ {s} : onBus'[t] = onBus[t] /\ pending'[t] = pending[t]
    BY <1>2, <2>4, <2>5 DEF DbusShape
  <2>7. \A k \in 1 .. NCalls[s] : Coming(s, k)' => Fresh(k, next[s], pend, bus)
    BY <1>1, <1>4, <2>5 DEF SessionOK, Fresh
  <2>8. PICK q, frames :
          /\ q = back[s]
          /\ frames = [i \in 1 .. Cardinality(InFlight(s, n)) |->
                         Reply(pending[s][CHOOSE p \in InFlight(s, n) : TRUE], m.of)]
    OBVIOUS
  <2>9. back' = [back EXCEPT ![s] = q \o frames]
    BY <1>7, <2>2, <2>8 DEF BusReplies
  <2>10. CASE n \notin DOMAIN pending[s]
    <3>1. InFlight(s, n) = {}
      BY <2>10 DEF InFlight
    <3>2. frames = <<>>
      BY <2>8, <3>1, FS_EmptySet
    <3>3. back' = back
      <4>1. q \o frames = q
        BY <1>5, <2>8, <3>2, ConcatEmptySeq
      <4>. QED
        BY <1>5, <2>8, <2>9, <4>1
    <3>4. DbusShape' /\ \A t \in Sessions \ {s} : Same(t)
      BY <1>2, <1>3, <2>6, <3>3 DEF DbusShape, Same, Engaged
    <3>5. Paired(s, issued[s], pend, bus, loc)
      <4>1. \A x \in DOMAIN pend : pend[x] = pending[s][x] /\ loc[pending[s][x]] = "bus"
        BY <1>1, <2>5 DEF SessionOK, Paired
      <4>2. Paired(s, issued[s], pending[s], onBus[s], loc) /\ DOMAIN pend \subseteq DOMAIN pending[s]
        BY <1>1, <2>5 DEF SessionOK
      <4>. QED
        BY <2>5, <4>1, <4>2, PairedFewer
    <3>6. SessionOK(s, loc)'
      BY <1>1, <1>3, <1>4, <2>6, <2>7, <3>3, <3>5 DEF SessionOK
    <3>. QED
      BY <3>4, <3>6, OneSteps
  <2>11. CASE n \in DOMAIN pending[s]
    <3>1. InFlight(s, n) = {n} /\ (CHOOSE p \in {n} : TRUE) = n
      BY <2>11 DEF InFlight
    <3>2. PICK k, f : k = pending[s][n] /\ f = Reply(k, k)
      OBVIOUS
    <3>3. /\ k = m.of /\ k \in 1 .. Len(issued[s]) /\ k \in Nat /\ loc[k] = "bus"
          /\ decide(Rules[s], issued[s][k])
          /\ \A x \in DOMAIN pend : pend[x] # k
      <4>1. /\ k = m.of /\ k \in 1 .. Len(issued[s]) /\ loc[k] = "bus"
            /\ decide(Rules[s], issued[s][k])
        BY <1>1, <2>1, <2>11, <3>2 DEF SessionOK, Paired
      <4>2. \A x \in DOMAIN pend : pend[x] # k
        BY <1>1, <2>5, <2>11, <3>2 DEF SessionOK, Paired
      <4>. QED
        BY <1>2, <4>1, <4>2, ShapeOf
    <3>4. frames = <<f>>
      <4>1. Cardinality(InFlight(s, n)) = 1
        BY <3>1, FS_Singleton
      <4>2. frames = [i \in 1 .. 1 |-> f]
        BY <2>8, <3>1, <3>2, <3>3, <4>1
      <4>. QED
        BY <4>2
    <3>5. f \in Frames /\ f.kind = "reply" /\ f.serial = k /\ FrameOK(s, issued[s], f)
      BY <3>2, <3>3 DEF Reply, Frames, AnswerFrames, FrameOK
    <3>6. PICK r : r = q \o <<f>>
      OBVIOUS
    <3>7. /\ q \in Seq(Frames) /\ r \in Seq(Frames) /\ Len(r) = Len(q) + 1 /\ r[Len(q) + 1] = f
          /\ \A j \in 1 .. Len(q) : r[j] = q[j]
      BY <1>5, <2>8, <3>5, <3>6
    <3>8. /\ back' \in [Sessions -> Seq(Frames)] /\ back'[s] = r
          /\ \A t \in Sessions \ {s} : back'[t] = back[t]
      BY <1>5, <2>9, <3>4, <3>6, <3>7
    <3>9. DbusShape' /\ \A t \in Sessions \ {s} : Same(t)
      BY <1>2, <1>3, <2>6, <3>8 DEF DbusShape, Same, Engaged
    <3>10. PICK l : l = [loc EXCEPT ![k] = "back"]
      OBVIOUS
    <3>11. /\ l \in [Nat -> Places] /\ l[k] = "back" /\ \A j \in Nat : j # k => l[j] = loc[j]
           /\ Had(s, issued[s], got[s], l) /\ InLine(issued[s], conduit[s], l)
           /\ Lies(s, issued[s], inbound[s], l, "inbound")
      <4>1. "back" \in Places
        BY DEF Places
      <4>. QED
        BY <1>1, <1>2, <3>3, <3>10, <4>1, MoveKeeps
    <3>12. Lies(s, issued[s], r, l, "back")
      <4>1. PICK calls : calls = issued[s]
        OBVIOUS
      <4>2. /\ f \in Frames /\ Lies(s, calls, q, loc, "back") /\ FrameOK(s, calls, f)
            /\ f.kind # "signal" => loc[f.serial] # "back" /\ l[f.serial] = "back"
            /\ \A j \in Nat : (f.kind = "signal" \/ j # f.serial) => l[j] = loc[j]
        BY <1>5, <2>8, <3>3, <3>5, <3>11, <4>1
      <4>3. Lies(s, calls, r, l, "back")
        BY <3>7, <4>2, LiesAppend, SMTT(40)
      <4>. QED
        BY <4>1, <4>3
    <3>13. Paired(s, issued[s], pend, bus, l)
      <4>1. \A x \in DOMAIN pend : /\ pend[x] = pending[s][x] /\ pending[s][x] \in Nat
                                   /\ loc[pending[s][x]] = "bus"
        BY <1>1, <1>2, <2>5, ShapeOf DEF SessionOK, Paired
      <4>2. \A x \in DOMAIN pend : pend[x] = pending[s][x] /\ l[pending[s][x]] = "bus"
        BY <3>3, <3>11, <4>1
      <4>3. Paired(s, issued[s], pending[s], onBus[s], loc) /\ DOMAIN pend \subseteq DOMAIN pending[s]
        BY <1>1, <2>5 DEF SessionOK
      <4>. QED
        BY <2>5, <4>2, <4>3, PairedFewer
    <3>14. Sending(s) => l[Len(issued[s])] = "send"
      BY <1>1, <1>2, <3>3, <3>11, ShapeOf DEF SessionOK
    <3>15. SessionOK(s, l)'
      BY <1>1, <1>3, <1>4, <2>6, <2>7, <3>8, <3>11, <3>12, <3>13, <3>14 DEF SessionOK
    <3>. QED
      BY <3>9, <3>11, <3>15, OneSteps
  <2>. QED
    BY <2>10, <2>11
<1>. QED
  BY <1>6, <1>7

\* The mediation takes a call from the socketpair: refused, or passed to the
\* bus under a serial of its own.
LEMMA ConduitStep ==
    ASSUME DbusInv, NEW s \in Sessions, ReadConduit(s) PROVE DbusInv'
<1>1. PICK loc \in [Nat -> Places] : SessionOK(s, loc)
  BY DEF DbusInv
<1>2. DbusShape
  BY DEF DbusInv
<1>3. UNCHANGED <<wl, issued, got, broker, inbound>>
  BY DEF ReadConduit, facadeVars, brokerVars
<1>4. /\ Sending(s)' <=> Sending(s)
      /\ Engaged(s)' => wl'[s] \in {"send", "done"}
  BY <1>1, <1>3 DEF Sending, Engaged, SessionOK
<1>5. PICK line, k, calls, nx :
        line = conduit[s] /\ k = Head(conduit[s]) /\ calls = issued[s] /\ nx = next[s]
  OBVIOUS
<1>6. MaxSerial \in Nat /\ NCalls[s] \in Nat /\ NCalls[s] < MaxSerial
  BY DbusAssumption
<1>7. /\ line \in Seq(Nat) /\ line # <<>> /\ InLine(calls, line, loc) /\ Len(calls) \in Nat /\ Len(line) \in Nat
      /\ Len(calls) <= NCalls[s] /\ nx \in 2 .. MaxSerial /\ Extends(calls, calls)
  BY <1>1, <1>2, <1>5, ShapeOf DEF SessionOK, ReadConduit
<1>8. k \in 1 .. Len(calls) /\ loc[k] = "conduit" /\ k \in Nat /\ k \in 1 .. NCalls[s]
  <2>1. 1 \in 1 .. Len(line) /\ k = line[1]
    BY <1>5, <1>7
  <2>. QED
    BY <1>6, <1>7, <2>1 DEF InLine
<1>9. Coming(s, k)
  <2>1. 1 \in 1 .. Len(line) /\ k = line[1]
    BY <1>5, <1>7
  <2>. QED
    BY <1>5, <2>1 DEF Coming
<1>10. Fresh(k, nx, pending[s], onBus[s])
  BY <1>1, <1>5, <1>8, <1>9 DEF SessionOK
<1>11. ASSUME NEW p \in Places
       PROVE  \E l \in [Nat -> Places] :
                /\ l[k] = p /\ \A j \in Nat : j # k => l[j] = loc[j]
                /\ Had(s, calls, got[s], l) /\ Paired(s, calls, pending[s], onBus[s], l)
                /\ Lies(s, calls, back[s], l, "back") /\ Lies(s, calls, inbound[s], l, "inbound")
                /\ Tail(line) \in Seq(Nat) /\ InLine(calls, Tail(line), l)
                /\ \A i \in 1 .. Len(Tail(line)) : k < Tail(line)[i] /\ \E j \in 1 .. Len(line) : Tail(line)[i] = line[j]
                /\ Sending(s) => l[Len(calls)] = "send"
  <2>1. PICK l : l = [loc EXCEPT ![k] = p]
    OBVIOUS
  <2>2. /\ l \in [Nat -> Places] /\ l[k] = p /\ \A j \in Nat : j # k => l[j] = loc[j]
        /\ Had(s, calls, got[s], l) /\ Paired(s, calls, pending[s], onBus[s], l)
        /\ Lies(s, calls, back[s], l, "back") /\ Lies(s, calls, inbound[s], l, "inbound")
    BY <1>1, <1>2, <1>5, <1>8, <2>1, MoveKeeps
  <2>3. \A j \in Nat : j # Head(line) => l[j] = loc[j]
    BY <1>5, <2>2
  <2>4. /\ Tail(line) \in Seq(Nat) /\ InLine(calls, Tail(line), l)
        /\ \A i \in 1 .. Len(Tail(line)) : /\ Head(line) < Tail(line)[i]
                                           /\ \E j \in 1 .. Len(line) : Tail(line)[i] = line[j]
    BY <1>7, <2>3, LineTail
  <2>5. Sending(s) => l[Len(calls)] = "send"
    BY <1>1, <1>5, <1>7, <1>8, <2>2 DEF SessionOK
  <2>. QED
    BY <1>5, <2>2, <2>4, <2>5
<1>12. PICK rest : rest = Tail(line)
  OBVIOUS
<1>13. /\ rest \in Seq(Nat) /\ conduit' \in [Sessions -> Seq(Nat)] /\ conduit'[s] = rest
       /\ \A t \in Sessions \ {s} : conduit'[t] = conduit[t]
  <2>1. rest \in Seq(Nat)
    BY <1>7, <1>12
  <2>2. conduit' = [conduit EXCEPT ![s] = rest] /\ conduit \in [Sessions -> Seq(Nat)]
    BY <1>2, <1>5, <1>12 DEF ReadConduit, DbusShape
  <2>. QED
    BY <2>1, <2>2
\* What is still to come was, and comes after k.
<1>14. ASSUME NEW j \in 1 .. NCalls[s], Coming(s, j)' PROVE Coming(s, j) /\ j > k
  <2>1. PICK l \in [Nat -> Places] :
          \A i \in 1 .. Len(rest) : k < rest[i] /\ \E h \in 1 .. Len(line) : rest[i] = line[h]
    <3>1. "back" \in Places
      BY DEF Places
    <3>. QED
      BY <1>11, <1>12, <3>1
  <2>2. CASE \E i \in 1 .. Len(rest) : j = rest[i]
    <3>1. PICK i \in 1 .. Len(rest) : j = rest[i]
      BY <2>2
    <3>2. k < j /\ \E h \in 1 .. Len(line) : j = line[h]
      BY <2>1, <3>1
    <3>. QED
      BY <1>5, <1>8, <3>2 DEF Coming
  <2>3. CASE Sending(s) /\ j = Len(calls)
    <3>1. Coming(s, j) /\ loc[j] = "send"
      BY <1>1, <1>5, <2>3 DEF Coming, SessionOK
    <3>. QED
      BY <1>7, <1>8, <2>3, <3>1
  <2>4. CASE j \in Len(calls) + 1 .. NCalls[s]
    BY <1>5, <1>6, <1>7, <1>8, <2>4 DEF Coming
  <2>. QED
    BY <1>3, <1>4, <1>5, <1>13, <1>14, <2>2, <2>3, <2>4 DEF Coming
<1>15. CASE ~ decide(Rules[s], calls[k]) /\ Refuse(s, k) /\ UNCHANGED <<pending, next, onBus>>
  <2>1. PICK f, q, r : f = Denied(k) /\ q = back[s] /\ r = Append(q, f)
    OBVIOUS
  <2>2. f \in Frames /\ f.kind = "denied" /\ f.serial = k /\ FrameOK(s, calls, f)
    BY <1>8, <1>15, <2>1 DEF Denied, Frames, AnswerFrames, FrameOK
  <2>3. /\ q \in Seq(Frames) /\ r \in Seq(Frames) /\ Len(r) = Len(q) + 1 /\ r[Len(q) + 1] = f
        /\ \A j \in 1 .. Len(q) : r[j] = q[j]
    <3>1. q \in Seq(Frames)
      BY <1>2, <2>1, ShapeOf
    <3>. QED
      BY <2>1, <2>2, <3>1
  <2>4. /\ back' \in [Sessions -> Seq(Frames)] /\ back'[s] = r
        /\ \A t \in Sessions \ {s} : back'[t] = back[t]
    BY <1>2, <1>15, <2>1, <2>3 DEF Refuse, DbusShape
  <2>5. DbusShape' /\ \A t \in Sessions \ {s} : Same(t)
    BY <1>2, <1>3, <1>13, <1>15, <2>4 DEF DbusShape, Same, Engaged
  <2>6. PICK l \in [Nat -> Places] :
          /\ l[k] = "back" /\ \A j \in Nat : j # k => l[j] = loc[j]
          /\ Had(s, calls, got[s], l) /\ Paired(s, calls, pending[s], onBus[s], l)
          /\ Lies(s, calls, inbound[s], l, "inbound")
          /\ InLine(calls, rest, l) /\ (Sending(s) => l[Len(calls)] = "send")
    <3>1. "back" \in Places
      BY DEF Places
    <3>. QED
      BY <1>11, <1>12, <3>1
  <2>7. Lies(s, calls, r, l, "back")
    <3>1. /\ Lies(s, calls, q, loc, "back")
          /\ f.kind # "signal" => loc[f.serial] # "back" /\ l[f.serial] = "back"
          /\ \A j \in Nat : (f.kind = "signal" \/ j # f.serial) => l[j] = loc[j]
      BY <1>1, <1>5, <1>8, <2>1, <2>2, <2>6 DEF SessionOK
    <3>. QED
      BY <2>2, <2>3, <3>1, LiesAppend, SMTT(40)
  <2>8. \A j \in 1 .. NCalls[s] : Coming(s, j)' => Fresh(j, next[s], pending[s], onBus[s])
    BY <1>1, <1>14 DEF SessionOK
  <2>9. SessionOK(s, l)'
    BY <1>1, <1>3, <1>4, <1>5, <1>13, <1>15, <2>4, <2>6, <2>7, <2>8 DEF SessionOK
  <2>. QED
    BY <2>5, <2>9, OneSteps
<1>16. CASE /\ decide(Rules[s], calls[k]) /\ next' = [next EXCEPT ![s] = take_bus_serial(@)] /\ UNCHANGED back
            /\ IF calls[k] \in BigEndian
               THEN UNCHANGED <<pending, onBus>>
               ELSE /\ pending' = [pending EXCEPT ![s] =
                            [n \in DOMAIN @ \cup {next[s]} |-> IF n = next[s] THEN k ELSE @[n]]]
                    /\ onBus' = [onBus EXCEPT ![s] = @ \cup {[serial |-> next[s], of |-> k]}]
  <2>1. PICK ny : ny = take_bus_serial(nx)
    OBVIOUS
  <2>2. /\ ny \in 2 .. MaxSerial /\ nx \in Nat /\ ny \in Nat /\ nx > 1
        /\ nx < MaxSerial => ny = nx + 1
    BY <1>6, <1>7, <2>1 DEF take_bus_serial
  <2>3. /\ next' \in [Sessions -> 2 .. MaxSerial] /\ next'[s] = ny
        /\ \A t \in Sessions \ {s} : next'[t] = next[t]
    BY <1>2, <1>5, <1>16, <2>1, <2>2 DEF DbusShape
  \* The counter comes round only when nothing is left to come.
  <2>4. ASSUME NEW j \in 1 .. NCalls[s], Coming(s, j)' PROVE ny = nx + 1 /\ ny <= j + 1
    <3>1. nx <= k + 1 /\ j > k /\ j \in Nat
      BY <1>6, <1>10, <1>14, <2>4 DEF Fresh
    <3>2. nx < MaxSerial
      BY <1>6, <1>8, <2>2, <3>1
    <3>. QED
      BY <1>8, <2>2, <3>1, <3>2
  <2>5. PICK l \in [Nat -> Places] :
          /\ l[k] = "bus" /\ \A j \in Nat : j # k => l[j] = loc[j]
          /\ Had(s, calls, got[s], l) /\ Paired(s, calls, pending[s], onBus[s], l)
          /\ Lies(s, calls, back[s], l, "back") /\ Lies(s, calls, inbound[s], l, "inbound")
          /\ InLine(calls, rest, l) /\ (Sending(s) => l[Len(calls)] = "send")
    <3>1. "bus" \in Places
      BY DEF Places
    <3>. QED
      BY <1>11, <1>12, <3>1
  <2>6. CASE UNCHANGED <<pending, onBus>>
    <3>1. DbusShape' /\ \A t \in Sessions \ {s} : Same(t)
      BY <1>2, <1>3, <1>13, <1>16, <2>3, <2>6 DEF DbusShape, Same, Engaged
    <3>2. ASSUME NEW j \in 1 .. NCalls[s], Coming(s, j)' PROVE Fresh(j, ny, pending[s], onBus[s])
      <4>1. ny = nx + 1 /\ ny <= j + 1
        BY <2>4, <3>2
      <4>2. \A n \in DOMAIN pending[s] : n \in Nat /\ n < nx
        BY <1>1, <1>10 DEF Fresh, SessionOK, Paired
      <4>3. \A m \in onBus[s] : m.serial \in Nat /\ m.serial < nx
        BY <1>2, <1>10, ShapeOf DEF Fresh
      <4>. QED
        BY <2>2, <4>1, <4>2, <4>3 DEF Fresh
    <3>3. SessionOK(s, l)'
      BY <1>1, <1>3, <1>4, <1>5, <1>13, <1>16, <2>3, <2>5, <2>6, <3>2 DEF SessionOK
    <3>. QED
      BY <3>1, <3>3, OneSteps
  <2>7. CASE /\ pending' = [pending EXCEPT ![s] =
                    [n \in DOMAIN @ \cup {next[s]} |-> IF n = next[s] THEN k ELSE @[n]]]
             /\ onBus' = [onBus EXCEPT ![s] = @ \cup {[serial |-> next[s], of |-> k]}]
    <3>0. PICK old, was, m : old = pending[s] /\ was = onBus[s] /\ m = [serial |-> nx, of |-> k]
      OBVIOUS
    <3>1. PICK pend, bus :
            /\ old = pending[s] /\ was = onBus[s] /\ m = [serial |-> nx, of |-> k]
            /\ pend = [n \in DOMAIN old \cup {nx} |-> IF n = nx THEN k ELSE old[n]]
            /\ bus = was \cup {m}
      BY <3>0
    <3>2. m.serial = nx /\ m.of = k /\ m \in [serial : Nat, of : Nat]
      BY <1>8, <2>2, <3>1
    <3>3. /\ onBus' \in [Sessions -> SUBSET [serial : Nat, of : Nat]] /\ onBus'[s] = bus
          /\ \A t \in Sessions \ {s} : onBus'[t] = onBus[t]
      BY <1>2, <1>5, <2>7, <3>1, <3>2 DEF DbusShape
    <3>4. /\ DOMAIN pending' = Sessions /\ pending'[s] = pend
          /\ \A t \in Sessions \ {s} : pending'[t] = pending[t]
      BY <1>2, <1>5, <2>7, <3>1 DEF DbusShape
    <3>5. DbusShape' /\ \A t \in Sessions \ {s} : Same(t)
      BY <1>2, <1>3, <1>13, <1>16, <2>3, <3>3, <3>4 DEF DbusShape, Same, Engaged
    <3>6. /\ \A n \in DOMAIN old : n \in Nat /\ n < nx /\ old[n] # k
          /\ \A x \in was : x.serial \in Nat /\ x.serial < nx
      <4>1. \A n \in DOMAIN old : n \in Nat /\ n < nx
        BY <1>1, <1>10, <3>1 DEF Fresh, SessionOK, Paired
      <4>2. \A n \in DOMAIN old : old[n] # k
        BY <1>1, <1>8, <3>1 DEF SessionOK, Paired
      <4>3. \A x \in was : x.serial \in Nat /\ x.serial < nx
        BY <1>2, <1>10, <3>1, ShapeOf DEF Fresh
      <4>. QED
        BY <4>1, <4>2, <4>3
    <3>7. /\ DOMAIN pend = DOMAIN old \cup {nx} /\ pend[nx] = k
          /\ \A n \in DOMAIN old : n # nx /\ pend[n] = old[n]
      BY <2>2, <3>1, <3>6
    <3>8. ASSUME NEW j \in 1 .. NCalls[s], Coming(s, j)' PROVE Fresh(j, ny, pend, bus)
      <4>1. ny = nx + 1 /\ ny <= j + 1
        BY <2>4, <3>8
      <4>2. \A n \in DOMAIN pend : n < ny
        BY <2>2, <3>6, <3>7, <4>1
      <4>3. \A x \in bus : x.serial < ny
        BY <2>2, <3>1, <3>2, <3>6, <4>1
      <4>. QED
        BY <4>1, <4>2, <4>3 DEF Fresh
    <3>9. Paired(s, calls, pend, bus, l)
      <4>1. Paired(s, calls, old, was, l)
        BY <2>5, <3>1
      <4>2. \A n \in DOMAIN pend :
              /\ n \in Nat /\ n > 1 /\ pend[n] \in 1 .. Len(calls) /\ l[pend[n]] = "bus"
              /\ decide(Rules[s], calls[pend[n]])
        BY <1>8, <1>16, <2>2, <2>5, <3>7, <4>1 DEF Paired
      <4>3. \A i, j \in DOMAIN pend : pend[i] = pend[j] => i = j
        BY <3>6, <3>7, <4>1 DEF Paired
      <4>4. \A x \in was : /\ x.of # 0 => x.of \in 1 .. Len(calls) /\ decide(Rules[s], calls[x.of])
                           /\ x.serial \in DOMAIN pend => pend[x.serial] = x.of
        <5>1. \A x \in was : x.serial # nx
          BY <2>2, <3>6
        <5>. QED
          BY <3>7, <4>1, <5>1 DEF Paired
      <4>5. /\ m.of # 0 => m.of \in 1 .. Len(calls) /\ decide(Rules[s], calls[m.of])
            /\ m.serial \in DOMAIN pend => pend[m.serial] = m.of
        BY <1>8, <1>16, <3>2, <3>7
      <4>6. \A x, y \in bus : x.serial = y.serial => x = y
        <5>1. \A x \in was : x.serial # m.serial
          BY <2>2, <3>2, <3>6
        <5>. QED
          BY <3>1, <4>1, <5>1 DEF Paired
      <4>. QED
        BY <3>1, <4>2, <4>3, <4>4, <4>5, <4>6 DEF Paired
    <3>10. SessionOK(s, l)'
      BY <1>1, <1>3, <1>4, <1>5, <1>13, <1>16, <2>3, <2>5, <3>3, <3>4, <3>8, <3>9 DEF SessionOK
    <3>. QED
      BY <3>5, <3>10, OneSteps
  <2>. QED
    BY <1>16, <2>6, <2>7
<1>. QED
  BY <1>5, <1>15, <1>16 DEF ReadConduit

----------------------------------------------------------------------------
(* The theorem.                                                            *)

\* The start of the sessions establishes the invariant.
LEMMA DbusBegins == ASSUME DbusInit PROVE DbusInv
<1>1. DbusShape
  <2>1. 2 \in 2 .. MaxSerial
    BY DbusAssumption
  <2>2. next \in [Sessions -> 2 .. MaxSerial]
    BY <2>1 DEF DbusInit
  <2>. QED
    BY <2>2 DEF DbusInit, DbusShape
<1>2. PICK loc : loc = [k \in Nat |-> "got"]
  OBVIOUS
<1>3. loc \in [Nat -> Places]
  BY <1>2 DEF Places
<1>4. ASSUME NEW s \in Sessions PROVE SessionOK(s, loc)
  <2>1. /\ wl[s] = "off" /\ issued[s] = <<>> /\ got[s] = {} /\ conduit[s] = <<>> /\ pending[s] = <<>>
        /\ next[s] = 2 /\ onBus[s] = {} /\ back[s] = <<>> /\ inbound[s] = <<>> /\ broker = None
    BY DEF DbusInit
  <2>2. ~ Engaged(s) /\ ~ Sending(s)
    BY <2>1, IdleBroker DEF Sending
  <2>3. /\ Had(s, <<>>, {}, loc) /\ InLine(<<>>, <<>>, loc) /\ Paired(s, <<>>, <<>>, {}, loc)
        /\ \A k \in 1 .. NCalls[s] : Fresh(k, 2, <<>>, {})
    BY DEF Had, InLine, Paired, Fresh
  <2>4. NCalls[s] \in Nat
    BY DbusAssumption
  <2>. QED
    BY <2>1, <2>2, <2>3, <2>4, LiesEmpty DEF SessionOK
<1>. QED
  BY <1>1, <1>3, <1>4 DEF DbusInv

\* Every step of a session, the broker and the bus keeps it.
LEMMA DbusStep == ASSUME DbusInv, [DbusNext]_dbusVars PROVE DbusInv'
<1>1. CASE UNCHANGED dbusVars
  <2>1. UNCHANGED <<wl, issued, got, broker, conduit, pending, next, onBus, back, inbound>>
    BY <1>1 DEF dbusVars, facadeVars, brokerVars, medVars
  <2>2. DbusShape /\ DbusShape' /\ \A t \in Sessions : Same(t)
    BY <2>1 DEF DbusInv, DbusShape, Same, Engaged
  <2>3. ASSUME NEW t \in Sessions PROVE \E l \in [Nat -> Places] : SessionOK(t, l)'
    <3>1. PICK l \in [Nat -> Places] : SessionOK(t, l)
      BY DEF DbusInv
    <3>2. SessionOK(t, l)'
      BY <2>2, <3>1, OthersKept
    <3>. QED
      BY <3>2
  <2>. QED
    BY <2>2, <2>3 DEF DbusInv
<1>2. ASSUME NEW s \in Sessions,
             \/ NewSession(s) \/ WorkloadEnds(s) \/ FacadeJoins(s) \/ KennelDies(s)
             \/ \E c \in Calls[s] : WorkloadCalls(s, c)
             \/ HandleSend(s) \/ EnsureConduit(s) \/ WriteUnblocked(s)
             \/ HandleRecv(s) \/ HandleClose(s) \/ Release(s)
             \/ MedConnect(s) \/ ReadConduit(s) \/ MedEnds(s)
             \/ \E n \in 1 .. MaxSerial : BusReplies(s, n)
             \/ \E i \in Signals : BusSignals(s, i)
             \/ ReaderTakes(s) \/ ReaderEnds(s)
      PROVE  DbusInv'
  <2>1. CASE \/ NewSession(s) \/ WorkloadEnds(s) \/ FacadeJoins(s) \/ KennelDies(s)
             \/ HandleClose(s) \/ Release(s) \/ ReaderEnds(s)
    BY <2>1, QuietSteps
  <2>2. CASE \E c \in Calls[s] : WorkloadCalls(s, c)
    BY <2>2, CallStep
  <2>3. CASE HandleSend(s) \/ EnsureConduit(s) \/ WriteUnblocked(s)
    BY <2>3, SendSteps
  <2>4. CASE HandleRecv(s)
    BY <2>4, RecvStep
  <2>5. CASE MedConnect(s) \/ MedEnds(s)
    BY <2>5, ConnectionSteps
  <2>6. CASE ReadConduit(s)
    BY <2>6, ConduitStep
  <2>7. CASE (\E n \in 1 .. MaxSerial : BusReplies(s, n)) \/ \E i \in Signals : BusSignals(s, i)
    BY <2>7, BusSteps
  <2>8. CASE ReaderTakes(s)
    BY <2>8, TakeStep
  <2>. QED
    BY <1>2, <2>1, <2>2, <2>3, <2>4, <2>5, <2>6, <2>7, <2>8
<1>. QED
  BY <1>1, <1>2 DEF DbusNext

\* A set with at most one element.
LEMMA AtMostOne ==
    ASSUME NEW A, \A x, y \in A : x = y
    PROVE  Cardinality(A) \in {0, 1} /\ (Cardinality(A) # 0 => A # {})
<1>1. CASE A = {}
  BY <1>1, FS_EmptySet
<1>2. CASE A # {}
  <2>1. PICK x \in A : TRUE
    BY <1>2
  <2>2. A = {x}
    BY <2>1
  <2>. QED
    BY <1>2, <2>2, FS_Singleton
<1>. QED
  BY <1>1, <1>2

\* A call is in one place, so there is one answer to it at most.
LEMMA InvMatches == ASSUME DbusInv PROVE RepliesMatched
<1>. SUFFICES ASSUME NEW s \in Sessions
              PROVE  LET frames == OnTheWay(s)
                     IN /\ \A f \in got[s] \cup Range(frames) :
                             /\ f.kind = "reply" =>
                                 f.of = f.serial /\ (issued[s][f.serial] # Hello => decide(Rules[s], issued[s][f.serial]))
                             /\ f.kind = "denied" => ~decide(Rules[s], issued[s][f.serial])
                             /\ f.kind = "signal" => signal_allowed(Rules[s], f.of)
                        /\ \A m \in onBus[s] : m.of # 0 => decide(Rules[s], issued[s][m.of])
                        /\ \A k \in Serials(s) :
                             Cardinality({i \in DOMAIN frames : frames[i].kind # "signal" /\ frames[i].serial = k})
                             + Cardinality({n \in DOMAIN pending[s] : pending[s][n] = k})
                             + Cardinality({i \in DOMAIN conduit[s] : conduit[s][i] = k})
                             + (IF Answered(s, k) THEN 1 ELSE 0) <= 1
  BY DEF RepliesMatched
<1>1. PICK loc \in [Nat -> Places] : SessionOK(s, loc)
  BY DEF DbusInv
<1>2. PICK b, q, calls, frames : b = back[s] /\ q = inbound[s] /\ calls = issued[s] /\ frames = OnTheWay(s)
  OBVIOUS
<1>3. /\ b \in Seq(Frames) /\ q \in Seq(Frames) /\ conduit[s] \in Seq(Nat)
      /\ Lies(s, calls, b, loc, "back") /\ Lies(s, calls, q, loc, "inbound")
      /\ Had(s, calls, got[s], loc) /\ InLine(calls, conduit[s], loc)
      /\ Paired(s, calls, pending[s], onBus[s], loc)
  BY <1>1, <1>2, ShapeOf DEF DbusInv, SessionOK
<1>4. /\ Len(b) \in Nat /\ Len(q) \in Nat /\ frames = b \o q /\ DOMAIN frames = 1 .. Len(b) + Len(q)
      /\ \A i \in 1 .. Len(b) : frames[i] = b[i]
      /\ \A i \in Len(b) + 1 .. Len(b) + Len(q) : frames[i] = q[i - Len(b)] /\ i - Len(b) \in 1 .. Len(q)
      /\ \A i \in DOMAIN frames : i \in 1 .. Len(b) \/ i \in Len(b) + 1 .. Len(b) + Len(q)
  <2>1. frames = b \o q
    BY <1>2 DEF OnTheWay
  <2>2. /\ Len(b) \in Nat /\ Len(q) \in Nat /\ b \o q \in Seq(Frames) /\ Len(b \o q) = Len(b) + Len(q)
        /\ \A i \in 1 .. Len(b) + Len(q) :
             (b \o q)[i] = IF i <= Len(b) THEN b[i] ELSE q[i - Len(b)]
    BY <1>3, ConcatProperties
  <2>3. DOMAIN frames = 1 .. Len(b) + Len(q)
    BY <2>1, <2>2
  <2>. QED
    BY <2>1, <2>2, <2>3
<1>5. \A i \in DOMAIN frames : FrameOK(s, calls, frames[i])
  BY <1>3, <1>4 DEF Lies
<1>6. \A f \in got[s] \cup Range(frames) : FrameOK(s, calls, f)
  BY <1>3, <1>5 DEF Had, Range
<1>7. ASSUME NEW k \in 1 .. Len(calls)
      PROVE  Cardinality({i \in DOMAIN frames : frames[i].kind # "signal" /\ frames[i].serial = k})
             + Cardinality({n \in DOMAIN pending[s] : pending[s][n] = k})
             + Cardinality({i \in DOMAIN conduit[s] : conduit[s][i] = k})
             + (IF Answered(s, k) THEN 1 ELSE 0) <= 1
  <2>1. PICK A : A = {i \in DOMAIN frames : frames[i].kind # "signal" /\ frames[i].serial = k}
    OBVIOUS
  <2>2. PICK B : B = {n \in DOMAIN pending[s] : pending[s][n] = k}
    OBVIOUS
  <2>3. PICK C : C = {i \in DOMAIN conduit[s] : conduit[s][i] = k}
    OBVIOUS
  <2>4. \A i \in A : \/ i \in 1 .. Len(b) /\ b[i].kind # "signal" /\ b[i].serial = k /\ loc[k] = "back"
                     \/ /\ i \in Len(b) + 1 .. Len(b) + Len(q) /\ i - Len(b) \in 1 .. Len(q)
                        /\ q[i - Len(b)].kind # "signal" /\ q[i - Len(b)].serial = k /\ loc[k] = "inbound"
    <3>. SUFFICES ASSUME NEW i \in A
                  PROVE  \/ i \in 1 .. Len(b) /\ b[i].kind # "signal" /\ b[i].serial = k /\ loc[k] = "back"
                         \/ /\ i \in Len(b) + 1 .. Len(b) + Len(q) /\ i - Len(b) \in 1 .. Len(q)
                            /\ q[i - Len(b)].kind # "signal" /\ q[i - Len(b)].serial = k /\ loc[k] = "inbound"
      OBVIOUS
    <3>1. i \in DOMAIN frames /\ frames[i].kind # "signal" /\ frames[i].serial = k
      BY <2>1
    <3>2. CASE i \in 1 .. Len(b)
      BY <1>3, <1>4, <3>1, <3>2, ZenonT(40) DEF Lies
    <3>3. CASE i \in Len(b) + 1 .. Len(b) + Len(q)
      <4>1. PICK j : j = i - Len(b)
        OBVIOUS
      <4>2. j \in 1 .. Len(q) /\ q[j].kind # "signal" /\ q[j].serial = k
        BY <1>4, <3>1, <3>3, <4>1
      <4>3. loc[k] = "inbound"
        BY <1>3, <4>2 DEF Lies
      <4>. QED
        BY <3>3, <4>1, <4>2, <4>3
    <3>. QED
      BY <1>4, <3>1, <3>2, <3>3
  <2>5. ASSUME NEW i \in A, NEW j \in A PROVE i = j
    <3>1. CASE loc[k] = "back"
      BY <1>3, <2>4, <3>1, ZenonT(40) DEF Lies
    <3>2. CASE loc[k] = "inbound"
      <4>1. PICK g, h : g = i - Len(b) /\ h = j - Len(b)
        OBVIOUS
      <4>2. /\ i \in Len(b) + 1 .. Len(b) + Len(q) /\ j \in Len(b) + 1 .. Len(b) + Len(q)
            /\ g \in 1 .. Len(q) /\ q[g].kind # "signal" /\ q[g].serial = k
            /\ h \in 1 .. Len(q) /\ q[h].kind # "signal" /\ q[h].serial = k
        BY <2>4, <3>2, <4>1
      <4>3. g = h
        BY <1>3, <4>2, SMTT(40) DEF Lies
      <4>. QED
        BY <1>4, <4>1, <4>2, <4>3
    <3>. QED
      BY <2>4, <3>1, <3>2
  <2>6. (\A i, j \in B : i = j) /\ (B # {} => loc[k] = "bus")
    BY <1>3, <2>2 DEF Paired
  <2>7. \A i \in C : i \in 1 .. Len(conduit[s]) /\ conduit[s][i] = k /\ loc[k] = "conduit"
    BY <1>3, <2>3 DEF InLine
  <2>8. \A i, j \in C : i = j
    <3>. SUFFICES ASSUME NEW i \in C, NEW j \in C PROVE i = j
      OBVIOUS
    <3>1. /\ i \in 1 .. Len(conduit[s]) /\ j \in 1 .. Len(conduit[s]) /\ Len(conduit[s]) \in Nat
          /\ conduit[s][i] = k /\ conduit[s][j] = k
      BY <1>3, <2>7
    <3>2. ~ (i < j) /\ ~ (j < i)
      BY <1>3, <3>1, SMTT(40) DEF InLine
    <3>. QED
      BY <3>1, <3>2
  <2>9. Answered(s, k) => loc[k] = "got"
    BY <1>3 DEF Answered, Had
  <2>10. /\ Cardinality(A) \in {0, 1} /\ (Cardinality(A) # 0 => loc[k] \in {"back", "inbound"})
         /\ Cardinality(B) \in {0, 1} /\ (Cardinality(B) # 0 => loc[k] = "bus")
         /\ Cardinality(C) \in {0, 1} /\ (Cardinality(C) # 0 => loc[k] = "conduit")
    <3>1. Cardinality(A) \in {0, 1} /\ (Cardinality(A) # 0 => loc[k] \in {"back", "inbound"})
      BY <2>4, <2>5, AtMostOne
    <3>2. Cardinality(B) \in {0, 1} /\ (Cardinality(B) # 0 => loc[k] = "bus")
      BY <2>6, AtMostOne
    <3>3. Cardinality(C) \in {0, 1} /\ (Cardinality(C) # 0 => loc[k] = "conduit")
      BY <2>7, <2>8, AtMostOne
    <3>. QED
      BY <3>1, <3>2, <3>3
  <2>11. Cardinality(A) + Cardinality(B) + Cardinality(C) + (IF Answered(s, k) THEN 1 ELSE 0) <= 1
    BY <2>9, <2>10
  <2>. QED
    BY <2>1, <2>2, <2>3, <2>11
<1>8. \A m \in onBus[s] : m.of # 0 => decide(Rules[s], calls[m.of])
  BY <1>3 DEF Paired
<1>9. \A k \in Serials(s) : k \in 1 .. Len(calls)
  BY <1>2 DEF Serials
<1>. QED
  BY <1>2, <1>6, <1>7, <1>8, <1>9 DEF FrameOK

\* Every answer on its way is the answer to the call of its serial, whatever
\* order the bus answers in, only what the filter allows reaches the bus, and
\* no call has two answers: for any number of sessions, calls and signals
\* (Delegate::on_conduit_call and on_bus_reply, delegate.rs).
THEOREM RepliesMatchedTheorem == DbusSpec => []RepliesMatched
<1>1. DbusInit => DbusInv
  BY DbusBegins
<1>2. DbusInv /\ [DbusNext]_dbusVars => DbusInv'
  BY DbusStep
<1>3. DbusInv => RepliesMatched
  BY InvMatches
<1>. QED
  BY <1>1, <1>2, <1>3, PTL DEF DbusSpec

----------------------------------------------------------------------------
(* The catalogue: what a scan finds, for any links.                        *)

Tabled(table) == table \in [DOMAIN Dirs -> [Ids -> Policies \cup {NoLink}]]

\* The directories enablement_dirs lists.
LEMMA FourDirs ==
    /\ DOMAIN Dirs = 1 .. 4
    /\ \A d \in 1 .. 4 : Dirs[d].tier \in {"user", "host"}
  BY DEF Dirs

\* A usable link leads to a policy that verifies.
LEMMA UsableIs ==
    ASSUME NEW table, Tabled(table), NEW d \in 1 .. 4, NEW p \in Ids, Usable(table[d][p])
    PROVE  table[d][p] \in Policies /\ table[d][p].verifies /\ table[d][p].offers \subseteq Offers
  <1>1. table[d][p] \in Policies \cup {NoLink}
    BY FourDirs DEF Tabled
  <1>2. table[d][p] # NoLink /\ table[d][p].verifies
    BY DEF Usable, Loads
  <1> QED
    BY <1>1, <1>2 DEF Offers

\* A provider is enabled in one directory at most.
LEMMA EnabledOnce ==
    ASSUME NEW table, NEW p, NEW d \in EnabledAt(table, p), NEW e \in EnabledAt(table, p)
    PROVE  d = e /\ d \in 1 .. 4 /\ Usable(table[d][p])
  <1>1. d \in 1 .. 4 /\ e \in 1 .. 4
    BY FourDirs DEF EnabledAt
  <1>2. /\ Usable(table[d][p]) /\ \A x \in 1 .. d - 1 : ~ Usable(table[x][p])
        /\ Usable(table[e][p]) /\ \A x \in 1 .. e - 1 : ~ Usable(table[x][p])
    BY DEF EnabledAt
  <1>3. ~ d < e /\ ~ e < d
    BY <1>1, <1>2
  <1> QED
    BY <1>1, <1>2, <1>3

\* What the first m directories come to.
Opened(table, m, a) ==
    /\ a.seen = {p \in Ids : \E d \in 1 .. m : Usable(table[d][p])}
    /\ \A e : e \in a.out <=>
         \E p \in Ids : \E d \in 1 .. m : d \in EnabledAt(table, p) /\ e = Enabled(table, d, p)

\* One more directory adds the providers it is the first to enable.
LEMMA OpenDir ==
    ASSUME NEW table, NEW m \in 0 .. 3, NEW a, Opened(table, m, a)
    PROVE  Opened(table, m + 1, ScanDir(table, m + 1, a))
  <1> DEFINE fresh == {p \in Ids \ a.seen : Usable(table[m + 1][p])}
             b == ScanDir(table, m + 1, a)
  <1>1. /\ b.seen = a.seen \cup fresh
        /\ b.out = a.out \cup {Enabled(table, m + 1, p) : p \in fresh}
    BY DEF ScanDir
  <1>2. \A d : d \in 1 .. m + 1 <=> d \in 1 .. m \/ d = m + 1
    OBVIOUS
  <1>3. b.seen = {p \in Ids : \E d \in 1 .. m + 1 : Usable(table[d][p])}
    BY <1>1, <1>2 DEF Opened
  <1>4. ASSUME NEW p \in Ids
        PROVE  p \in fresh <=> m + 1 \in EnabledAt(table, p)
    <2>1. p \in fresh <=> Usable(table[m + 1][p]) /\ \A d \in 1 .. m : ~ Usable(table[d][p])
      BY DEF Opened
    <2>2. m + 1 \in 1 .. 4 /\ (m + 1) - 1 = m
      OBVIOUS
    <2> QED
      BY <2>1, <2>2, FourDirs DEF EnabledAt
  <1> HIDE DEF fresh, b
  <1>5. fresh \subseteq Ids
    BY DEF fresh
  <1>6. \A e : e \in b.out <=>
          \E p \in Ids : \E d \in 1 .. m + 1 : d \in EnabledAt(table, p) /\ e = Enabled(table, d, p)
    BY <1>1, <1>2, <1>4, <1>5, Zenon DEF Opened
  <1> QED
    BY <1>3, <1>6 DEF Opened, b

\* A scan finds each provider in the first directory with a usable link to it.
LEMMA ScanExact ==
    ASSUME NEW table
    PROVE  \A e : e \in Scan(table) <=>
             \E p \in Ids : \E d \in EnabledAt(table, p) : e = Enabled(table, d, p)
  <1> DEFINE a0 == [seen |-> {}, out |-> {}]
             a1 == ScanDir(table, 1, a0)
             a2 == ScanDir(table, 2, a1)
             a3 == ScanDir(table, 3, a2)
             a4 == ScanDir(table, 4, a3)
  <1>0. Opened(table, 0, a0)
    BY DEF Opened
  <1> HIDE DEF a0
  <1>1. Opened(table, 1, a1)
    <2>1. Opened(table, 0 + 1, ScanDir(table, 0 + 1, a0))
      BY <1>0, OpenDir
    <2> QED
      BY <2>1
  <1> HIDE DEF a1
  <1>2. Opened(table, 2, a2)
    <2>1. Opened(table, 1 + 1, ScanDir(table, 1 + 1, a1))
      BY <1>1, OpenDir
    <2> QED
      BY <2>1
  <1> HIDE DEF a2
  <1>3. Opened(table, 3, a3)
    <2>1. Opened(table, 2 + 1, ScanDir(table, 2 + 1, a2))
      BY <1>2, OpenDir
    <2> QED
      BY <2>1
  <1> HIDE DEF a3
  <1>4. Opened(table, 4, a4)
    <2>1. Opened(table, 3 + 1, ScanDir(table, 3 + 1, a3))
      BY <1>3, OpenDir
    <2> QED
      BY <2>1
  <1> HIDE DEF a4
  <1>5. Scan(table) = a4.out
    BY DEF Scan, a0, a1, a2, a3, a4
  <1>6. \A p : EnabledAt(table, p) \subseteq 1 .. 4
    BY FourDirs DEF EnabledAt
  <1> QED
    BY <1>4, <1>5, <1>6, Zenon DEF Opened

----------------------------------------------------------------------------
(* The catalogue of a table of links, whatever the readiness.              *)

Readinesses == {"pending", "ready", "failed"}

OfferedIn(cat, p, n) == \E o \in cat.providers[p].offers : o.name = n

Listed(cat, table) ==
    /\ cat = [providers |-> cat.providers, by_name |-> cat.by_name]
    /\ cat.providers \in [{p \in Ids : EnabledAt(table, p) # {}} ->
                            [tier : {"user", "host"}, offers : SUBSET Offers,
                             readiness : Readinesses]]
    /\ \A p \in Ids : \A d \in EnabledAt(table, p) :
         cat.providers[p].tier = Dirs[d].tier /\ cat.providers[p].offers = table[d][p].offers

Named(cat) ==
    /\ \A n : n \in DOMAIN cat.by_name <=>
         \E p \in DOMAIN cat.providers : OfferedIn(cat, p, n)
    /\ \A n \in DOMAIN cat.by_name :
         cat.by_name[n] = {p \in DOMAIN cat.providers : OfferedIn(cat, p, n)}

Projected(cat, table) == Listed(cat, table) /\ Named(cat)

\* Catalogue::project makes the catalogue of the links that were scanned.
LEMMA ProjectFits ==
    ASSUME NEW table, Tabled(table)
    PROVE  Projected(Project(Scan(table)), table)
  <1> DEFINE all == Scan(table)
             cat == Project(all)
             Pick(p) == CHOOSE f \in all : f.provider = p
             ids == {e.provider : e \in all}
             In == {p \in Ids : EnabledAt(table, p) # {}}
  <1>1. \A e : e \in all <=>
          \E p \in Ids : \E d \in EnabledAt(table, p) : e = Enabled(table, d, p)
    BY ScanExact, Zenon
  <1>2. \A p, d : Enabled(table, d, p).provider = p
    BY DEF Enabled
  <1> HIDE DEF all
  <1>3. ids = In
    <2>1. \A p : p \in ids => p \in In
      BY <1>1, <1>2
    <2>2. \A p : p \in In => p \in ids
      BY <1>1, <1>2
    <2> QED
      BY <2>1, <2>2
  <1>4. ASSUME NEW p \in Ids, NEW d \in EnabledAt(table, p)
        PROVE  Pick(p) = Enabled(table, d, p)
    <2>1. Enabled(table, d, p) \in all /\ Enabled(table, d, p).provider = p
      BY <1>1, <1>2
    <2>2. Pick(p) \in all /\ Pick(p).provider = p
      BY <2>1
    <2>3. PICK q \in Ids : \E e \in EnabledAt(table, q) : Pick(p) = Enabled(table, e, q)
      BY <2>2, <1>1, Zenon
    <2>4. PICK e \in EnabledAt(table, q) : Pick(p) = Enabled(table, e, q)
      BY <2>3
    <2>5. q = p
      BY <2>2, <2>4, <1>2
    <2> HIDE DEF Pick
    <2>6. e = d
      BY <2>4, <2>5, EnabledOnce
    <2> QED
      BY <2>4, <2>5, <2>6
  <1> HIDE DEF Pick
  <1>5. /\ cat = [providers |-> cat.providers, by_name |-> cat.by_name]
        /\ cat.providers = [p \in ids |-> [tier |-> Pick(p).tier, offers |-> Pick(p).offers,
                                           readiness |-> "pending"]]
    BY DEF Project, Pick
  <1> DEFINE Provider == [tier : {"user", "host"}, offers : SUBSET Offers, readiness : Readinesses]
  <1>6. ASSUME NEW p \in Ids, NEW d \in EnabledAt(table, p)
        PROVE  /\ cat.providers[p].tier = Dirs[d].tier
               /\ cat.providers[p].offers = table[d][p].offers
               /\ cat.providers[p] \in Provider
    <2>1. p \in ids
      BY <1>3
    <2>2. Pick(p).tier = Dirs[d].tier /\ Pick(p).offers = table[d][p].offers
      BY <1>4 DEF Enabled
    <2>3. d \in 1 .. 4 /\ Usable(table[d][p])
      BY EnabledOnce
    <2>4. table[d][p].offers \subseteq Offers /\ Dirs[d].tier \in {"user", "host"}
      BY <2>3, UsableIs, FourDirs
    <2> HIDE DEF cat, ids
    <2>5. cat.providers[p] = [tier |-> Pick(p).tier, offers |-> Pick(p).offers,
                              readiness |-> "pending"]
      BY <2>1, <1>5
    <2> QED
      BY <2>2, <2>4, <2>5 DEF Readinesses
  <1> HIDE DEF Provider
  <1>7. Listed(cat, table)
    <2>2. ASSUME NEW p \in In
          PROVE  cat.providers[p] \in Provider
      <3>1. PICK d \in EnabledAt(table, p) : TRUE
        OBVIOUS
      <3> HIDE DEF cat
      <3>2. p \in Ids
        OBVIOUS
      <3> QED
        BY <3>2, <1>6
    <2>3. cat.providers \in [In -> Provider]
      <3> HIDE DEF cat, In
      <3> QED
        BY <2>2, <1>5, <1>3
    <2>4. \A p \in Ids : \A d \in EnabledAt(table, p) :
            cat.providers[p].tier = Dirs[d].tier /\ cat.providers[p].offers = table[d][p].offers
      <3> HIDE DEF cat
      <3> QED
        BY <1>6
    <2> HIDE DEF cat
    <2> QED
      BY <1>5, <2>3, <2>4 DEF Listed, Provider
  <1>8. \A n : n \in {o.name : o \in UNION {e.offers : e \in all}} <=>
          \E p \in DOMAIN cat.providers : OfferedIn(cat, p, n)
    <2>1. ASSUME NEW n, n \in {o.name : o \in UNION {e.offers : e \in all}}
          PROVE  \E p \in DOMAIN cat.providers : OfferedIn(cat, p, n)
      <3>1. PICK e \in all : \E o \in e.offers : o.name = n
        BY <2>1
      <3>2. PICK p \in Ids : \E d \in EnabledAt(table, p) : e = Enabled(table, d, p)
        BY <1>1, Zenon
      <3>3. PICK d \in EnabledAt(table, p) : e = Enabled(table, d, p)
        BY <3>2
      <3>4. e.offers = cat.providers[p].offers /\ p \in DOMAIN cat.providers
        <4>1. e.offers = table[d][p].offers
          BY <3>3 DEF Enabled
        <4>2. p \in In
          OBVIOUS
        <4> HIDE DEF cat
        <4>3. cat.providers[p].offers = table[d][p].offers
          BY <1>6
        <4>4. DOMAIN cat.providers = In
          BY <1>5, <1>3
        <4> QED
          BY <4>1, <4>2, <4>3, <4>4
      <3> QED
        BY <3>1, <3>4 DEF OfferedIn
    <2>2. ASSUME NEW n, NEW p \in DOMAIN cat.providers, OfferedIn(cat, p, n)
          PROVE  n \in {o.name : o \in UNION {e.offers : e \in all}}
      <3>1. p \in In
        BY <1>5, <1>3
      <3>2. PICK d \in EnabledAt(table, p) : TRUE
        BY <3>1
      <3>3. Enabled(table, d, p) \in all
        BY <1>1, <3>1
      <3>4. Enabled(table, d, p).offers = cat.providers[p].offers
        <4>1. p \in Ids
          BY <3>1
        <4>2. Enabled(table, d, p).offers = table[d][p].offers
          BY DEF Enabled
        <4> HIDE DEF cat
        <4>3. cat.providers[p].offers = table[d][p].offers
          BY <4>1, <1>6
        <4> QED
          BY <4>2, <4>3
      <3> HIDE DEF cat
      <3> QED
        BY <3>3, <3>4, <2>2 DEF OfferedIn
    <2> QED
      BY <2>1, <2>2
  <1>9. cat.by_name = [n \in {o.name : o \in UNION {e.offers : e \in all}} |->
                         {p \in DOMAIN cat.providers : OfferedIn(cat, p, n)}]
    BY DEF Project, OfferedIn
  <1> HIDE DEF cat
  <1>10. Named(cat)
    BY <1>8, <1>9 DEF Named
  <1> QED
    BY <1>7, <1>10 DEF Projected, cat, all

\* An event changes the readiness of one provider.
LEMMA EventFits ==
    ASSUME NEW table, NEW cat, Projected(cat, table), NEW p, NEW e
    PROVE  Projected(ApplyEvent(cat, p, e), table)
  <1> DEFINE now == ApplyEvent(cat, p, e)
             r == CASE cat.providers[p].readiness = "pending" /\ e = "constructed" -> "ready"
                    [] cat.providers[p].readiness # "failed" /\ e = "exhausted" -> "failed"
                    [] cat.providers[p].readiness = "ready" /\ e \in {"restarting", "reaped"} -> "pending"
                    [] OTHER -> cat.providers[p].readiness
             In == {q \in Ids : EnabledAt(table, q) # {}}
             Provider == [tier : {"user", "host"}, offers : SUBSET Offers, readiness : Readinesses]
  <1>1. CASE p \notin DOMAIN cat.providers
    BY <1>1 DEF ApplyEvent
  <1>2. CASE p \in DOMAIN cat.providers
    <2>1. /\ cat = [providers |-> cat.providers, by_name |-> cat.by_name]
          /\ cat.providers \in [In -> Provider]
      BY DEF Projected, Listed
    <2>2. now = [cat EXCEPT !.providers[p].readiness = r]
      BY <1>2 DEF ApplyEvent
    <2>3. cat.providers[p].readiness \in Readinesses
      BY <1>2, <2>1
    <2>4. r \in Readinesses
      BY <2>3 DEF Readinesses
    <2> HIDE DEF r, now
    <2>5. now = [providers |-> [cat.providers EXCEPT ![p].readiness = r], by_name |-> cat.by_name]
      BY <2>1, <2>2
    <2>6. now.providers = [cat.providers EXCEPT ![p].readiness = r] /\ now.by_name = cat.by_name
      BY <2>5
    <2>7. /\ now = [providers |-> now.providers, by_name |-> now.by_name]
          /\ now.providers \in [In -> Provider]
      <3>1. cat.providers[p] \in Provider
        BY <2>1, <1>2
      <3>2. [cat.providers[p] EXCEPT !.readiness = r] \in Provider
        BY <3>1, <2>4
      <3> HIDE DEF Provider
      <3>3. now.providers = [cat.providers EXCEPT ![p] = [cat.providers[p] EXCEPT !.readiness = r]]
        BY <2>6
      <3>4. now.providers \in [In -> Provider]
        BY <3>2, <3>3, <2>1
      <3> QED
        BY <2>5, <2>6, <3>4
    <2>8. DOMAIN now.providers = DOMAIN cat.providers /\ \A q \in DOMAIN cat.providers :
            now.providers[q].tier = cat.providers[q].tier
            /\ now.providers[q].offers = cat.providers[q].offers
      BY <2>1, <2>6
    <2>9. \A q \in DOMAIN cat.providers : \A n : OfferedIn(now, q, n) <=> OfferedIn(cat, q, n)
      BY <2>8, Zenon DEF OfferedIn
    <2>10. Listed(now, table)
      <3>1. \A q \in Ids : \A d \in EnabledAt(table, q) : q \in DOMAIN cat.providers
        BY <2>1
      <3> QED
        BY <2>7, <2>8, <3>1 DEF Listed, Projected
    <2>11. Named(now)
      <3>1. \A n : n \in DOMAIN now.by_name <=>
              \E q \in DOMAIN now.providers : OfferedIn(now, q, n)
        BY <2>6, <2>8, <2>9, Zenon DEF Named, Projected
      <3>2. ASSUME NEW n \in DOMAIN now.by_name
            PROVE  now.by_name[n] = {q \in DOMAIN now.providers : OfferedIn(now, q, n)}
        <4>1. now.by_name[n] = {q \in DOMAIN cat.providers : OfferedIn(cat, q, n)}
          BY <2>6 DEF Named, Projected
        <4> QED
          BY <4>1, <2>8, <2>9
      <3> QED
        BY <3>1, <3>2 DEF Named
    <2> QED
      BY <2>10, <2>11 DEF Projected, now
  <1> QED
    BY <1>1, <1>2

----------------------------------------------------------------------------
(* The broker's choice from it.                                            *)

\* What a candidate for n is: a provider enabled by the links, with the offer
\* of that name in its policy.
Candidate(c, n, cat, table) ==
    /\ c.provider \in Ids /\ c.tier \in {"user", "host"}
    /\ c.readiness \in Readinesses
    /\ c.offer.name = n
    /\ \E d \in EnabledAt(table, c.provider) :
         c.tier = Dirs[d].tier /\ c.offer \in table[d][c.provider].offers

\* Catalogue::resolve returns only such candidates.
LEMMA ResolveSound ==
    ASSUME NEW table, NEW cat, Projected(cat, table), NEW n, NEW c \in Resolve(cat, n)
    PROVE  Candidate(c, n, cat, table)
  <1>1. n \in DOMAIN cat.by_name
    BY DEF Resolve
  <1>2. PICK p \in cat.by_name[n] :
          c = [provider |-> p, tier |-> cat.providers[p].tier,
               readiness |-> cat.providers[p].readiness,
               offer |-> CHOOSE o \in cat.providers[p].offers : o.name = n]
    BY <1>1 DEF Resolve
  <1>3. p \in DOMAIN cat.providers /\ OfferedIn(cat, p, n)
    BY <1>1, <1>2 DEF Projected, Named
  <1>4. /\ p \in Ids /\ EnabledAt(table, p) # {}
        /\ cat.providers[p].tier \in {"user", "host"}
        /\ cat.providers[p].readiness \in Readinesses
    BY <1>3 DEF Projected, Listed
  <1>5. PICK d \in EnabledAt(table, p) : TRUE
    BY <1>4
  <1>6. cat.providers[p].tier = Dirs[d].tier /\ cat.providers[p].offers = table[d][p].offers
    BY <1>4, <1>5 DEF Projected, Listed
  <1> DEFINE o == CHOOSE q \in cat.providers[p].offers : q.name = n
  <1>7. o \in cat.providers[p].offers /\ o.name = n
    BY <1>3 DEF OfferedIn
  <1>8. c.provider = p /\ c.tier = cat.providers[p].tier /\ c.offer = o
        /\ c.readiness = cat.providers[p].readiness
    BY <1>2
  <1> HIDE DEF o
  <1> QED
    BY <1>4, <1>5, <1>6, <1>7, <1>8 DEF Candidate

\* It returns every provider the links enable that offers the name.
LEMMA ResolveComplete ==
    ASSUME NEW table, Tabled(table), NEW cat, Projected(cat, table),
           NEW p \in Ids, NEW d \in EnabledAt(table, p), NEW o \in table[d][p].offers
    PROVE  \E c \in Resolve(cat, o.name) :
             c.provider = p /\ c.tier = Dirs[d].tier /\ c.offer = o
  <1>1. /\ p \in DOMAIN cat.providers
        /\ cat.providers[p].tier = Dirs[d].tier /\ cat.providers[p].offers = table[d][p].offers
    BY DEF Projected, Listed
  <1>2. OfferedIn(cat, p, o.name)
    BY <1>1 DEF OfferedIn
  <1>3. o.name \in DOMAIN cat.by_name
    BY <1>1, <1>2 DEF Projected, Named
  <1>4. p \in cat.by_name[o.name]
    BY <1>1, <1>2, <1>3 DEF Projected, Named
  <1> DEFINE q == CHOOSE x \in cat.providers[p].offers : x.name = o.name
             c == [provider |-> p, tier |-> cat.providers[p].tier,
                   readiness |-> cat.providers[p].readiness, offer |-> q]
  <1>5. d \in 1 .. 4 /\ Usable(table[d][p])
    BY EnabledOnce
  <1>6. table[d][p] \in Policies /\ table[d][p].verifies
    BY <1>5, UsableIs
  <1>7. \A x \in table[d][p].offers : x.name = o.name => x = o
    BY <1>6, CatalogueAssumption
  <1>8. q = o
    BY <1>1, <1>7
  <1>9. c \in Resolve(cat, o.name)
    <2> DEFINE Of(r) == [provider |-> r, tier |-> cat.providers[r].tier,
                         readiness |-> cat.providers[r].readiness,
                         offer |-> CHOOSE x \in cat.providers[r].offers : x.name = o.name]
    <2>1. Resolve(cat, o.name) = {Of(r) : r \in cat.by_name[o.name]}
      BY <1>3, Zenon DEF Resolve
    <2>2. c = Of(p)
      OBVIOUS
    <2> HIDE DEF Of, c
    <2> QED
      BY <2>1, <2>2, <1>4
  <1>10. c.provider = p /\ c.tier = Dirs[d].tier /\ c.offer = o
    BY <1>1, <1>8
  <1> QED
    BY <1>9, <1>10

\* Among candidates there is a first one.
LEMMA FirstIs ==
    ASSUME NEW C, C # {}, \A c \in C : c.provider \in Ids /\ c.tier \in {"user", "host"}
    PROVE  First(C) \in C /\ \A e \in C : Before(First(C), e)
  <1> DEFINE U == {c \in C : c.tier = "user"}
             B == IF U # {} THEN U ELSE C
             N == {c.provider : c \in B}
  <1>1. N \in SUBSET Nat /\ N # {}
    BY CatalogueAssumption DEF Ids
  <1>2. PICK i \in N : \A j \in N : i <= j
    BY <1>1, Least
  <1>3. PICK c \in B : c.provider = i
    OBVIOUS
  <1>4. \A e \in B : c.provider <= e.provider
    BY <1>2, <1>3
  <1>5. c \in C
    BY <1>3
  <1>6. \A e \in C : Before(c, e)
    <2>1. CASE U # {}
      BY <2>1, <1>3, <1>4 DEF Before
    <2>2. CASE U = {}
      <3>1. \A e \in C : e.tier = "host" /\ c.provider <= e.provider
        BY <2>2, <1>4
      <3> QED
        BY <3>1, <1>5 DEF Before
    <2> QED
      BY <2>1, <2>2
  <1> QED
    BY <1>5, <1>6, Zenon DEF First

Selection == [provider : Ids, tier : {"user", "host"}, offer : Offers]

\* The offer of a candidate is one of a policy that verifies.
LEMMA CandidateOffer ==
    ASSUME NEW table, Tabled(table), NEW cat, NEW n, NEW c, Candidate(c, n, cat, table)
    PROVE  /\ c.offer \in Offers
           /\ \E x \in Policies : x.verifies /\ c.offer \in x.offers
  <1>1. PICK d \in EnabledAt(table, c.provider) : c.offer \in table[d][c.provider].offers
    BY DEF Candidate
  <1>2. d \in 1 .. 4 /\ Usable(table[d][c.provider])
    BY EnabledOnce
  <1>3. /\ table[d][c.provider] \in Policies /\ table[d][c.provider].verifies
        /\ table[d][c.provider].offers \subseteq Offers
    BY <1>2, UsableIs DEF Candidate
  <1> QED
    BY <1>1, <1>3

\* What decide selects fits the consume it was asked for, and is first among
\* all candidates that do.
LEMMA DecideSelects ==
    ASSUME NEW table, Tabled(table), NEW cat, Projected(cat, table), NEW signed, NEW n,
           SignedAt(signed, n) # {}, SignedFor(signed, n).name = n
    PROVE  LET mine == SignedFor(signed, n)
               d == Decide(signed, cat, n)
           IN /\ d.sel = Nobody <=> Eligible(mine, cat) = {}
              /\ d.verdict \in Readinesses <=> d.sel # Nobody
              /\ d.sel # Nobody =>
                   /\ d.sel \in Selection
                   /\ \E c \in Eligible(mine, cat) :
                        /\ d.sel.provider = c.provider /\ d.sel.tier = c.tier
                        /\ d.sel.offer = c.offer
                        /\ \A e \in Eligible(mine, cat) : Before(c, e)
  <1> DEFINE mine == SignedFor(signed, n)
             fit == Eligible(mine, cat)
             s == First(fit)
             t == [provider |-> s.provider, tier |-> s.tier, offer |-> s.offer]
             d == Decide(signed, cat, n)
  <1>1. CASE fit = {}
    <2>1. d = [verdict |-> "notfound", sel |-> Nobody]
      BY <1>1 DEF Decide
    <2> QED
      BY <1>1, <2>1 DEF Readinesses
  <1>2. CASE fit # {}
    <2>1. \A c \in fit : c \in Resolve(cat, n)
      BY DEF Eligible
    <2>2. \A c \in fit : Candidate(c, n, cat, table)
      BY <2>1, ResolveSound
    <2> HIDE DEF fit
    <2>3. \A c \in fit : c.provider \in Ids /\ c.tier \in {"user", "host"}
      BY <2>2 DEF Candidate
    <2>4. s \in fit /\ \A e \in fit : Before(s, e)
      BY <2>3, <1>2, FirstIs
    <2>5. Candidate(s, n, cat, table)
      BY <2>2, <2>4
    <2>6. d = [verdict |-> s.readiness, sel |-> t]
      BY <1>2 DEF Decide, fit
    <2> HIDE DEF s, d
    <2>7. s.readiness \in Readinesses /\ s.provider \in Ids /\ s.tier \in {"user", "host"}
          /\ s.offer \in Offers
      BY <2>5, CandidateOffer DEF Candidate
    <2>8. t \in Selection
      BY <2>7 DEF Selection
    <2>9. t # Nobody
      BY <2>8, CatalogueAssumption DEF Selection
    <2> HIDE DEF Selection
    <2>10. d.sel = t /\ d.verdict = s.readiness
      BY <2>6
    <2>11. d.sel.provider = s.provider /\ d.sel.tier = s.tier /\ d.sel.offer = s.offer
      BY <2>10
    <2> QED
      BY <1>2, <2>4, <2>7, <2>8, <2>9, <2>10, <2>11 DEF d, fit
  <1> QED
    BY <1>1, <1>2

----------------------------------------------------------------------------
(* The catalogue is always that of the links it was projected from.        *)

CatalogueInv == Tabled(linked) /\ Tabled(scanned) /\ Projected(catalogue, scanned)

\* The daemon's start establishes it.
LEMMA CatalogueStart == ASSUME CatInit PROVE CatalogueInv
  <1>1. Tabled(linked) /\ scanned = linked /\ catalogue = Project(Scan(linked))
    BY CatalogueAssumption DEF CatInit, Tabled
  <1> QED
    BY <1>1, ProjectFits DEF CatalogueInv

\* Relinks change the links alone, a reload scans them again, and the steps of
\* a provider change readiness alone.
LEMMA CatalogueStep == ASSUME CatalogueInv, [CatNext]_catVars PROVE CatalogueInv'
  <1> USE DEF CatalogueInv
  <1>0. Tabled(Unlinked)
    BY DEF Tabled, Unlinked
  <1>1. ASSUME NEW d \in DOMAIN Dirs, NEW p \in Ids, NEW x \in Policies \cup {NoLink},
               Relink(d, p, x)
        PROVE  CatalogueInv'
    <2>1. linked' = [linked EXCEPT ![d][p] = x] /\ UNCHANGED <<scanned, catalogue>>
      BY <1>1 DEF Relink
    <2>2. Tabled(linked)'
      BY <2>1 DEF Tabled
    <2>3. Tabled(scanned)' /\ Projected(catalogue, scanned)'
      BY <2>1 DEF Tabled, Projected, Listed, Named, OfferedIn
    <2> QED
      BY <2>2, <2>3
  <1>2. CASE RebuildCatalogue
    <2>1. /\ scanned' \in {linked, Unlinked} /\ linked' = linked
          /\ catalogue' = Project(Scan(scanned'))
      BY <1>2 DEF RebuildCatalogue
    <2>2. PICK t \in {linked, Unlinked} : scanned' = t
      BY <2>1
    <2>3. Tabled(t) /\ Projected(Project(Scan(t)), t)
      BY <1>0, ProjectFits
    <2>4. Tabled(scanned') /\ Projected(catalogue', scanned') /\ Tabled(linked')
      BY <2>1, <2>2, <2>3
    <2> QED
      BY <2>4
  <1>3. ASSUME NEW p, NEW e, UNCHANGED <<linked, scanned>>,
               catalogue' \in {catalogue, ApplyEvent(catalogue, p, e)}
        PROVE  CatalogueInv'
    <2>1. Projected(catalogue', scanned')
      <3>1. CASE catalogue' = catalogue
        BY <1>3, <3>1
      <3>2. CASE catalogue' = ApplyEvent(catalogue, p, e)
        BY <1>3, <3>2, EventFits
      <3> QED
        BY <1>3, <3>1, <3>2
    <2> QED
      BY <1>3, <2>1
  <1>4. ASSUME NEW p \in Ids, ProviderStarted(p) \/ RestartProvider(p) \/ EndSupervision(p)
        PROVE  CatalogueInv'
    <2>1. \E e : /\ UNCHANGED <<linked, scanned>>
                 /\ catalogue' \in {catalogue, ApplyEvent(catalogue, p, e)}
      BY <1>4 DEF ProviderStarted, RestartProvider, EndSupervision
    <2> QED
      BY <2>1, <1>3
  <1>5. CASE UNCHANGED <<linked, scanned, catalogue>>
    BY <1>5, <1>3
  <1>6. ASSUME NEW p \in Ids,
               PrepareProvider(p) \/ ProviderFails(p) \/ Listen(p) \/ WorkloadExits(p)
        PROVE  CatalogueInv'
    BY <1>5, <1>6 DEF PrepareProvider, ProviderFails, Listen, WorkloadExits
  <1>7. CASE \/ ConsumerStarts \/ \E n \in CapabilityNames : SvcConnect(n)
             \/ ActivateProvider \/ WaitOver \/ HandOver \/ ConsumerEnds
    BY <1>5, <1>7 DEF ConsumerStarts, SvcConnect, ActivateProvider, WaitOver, HandOver, ConsumerEnds
  <1>8. CASE UNCHANGED catVars
    BY <1>5, <1>8 DEF catVars
  <1> QED
    BY <1>1, <1>2, <1>4, <1>6, <1>7, <1>8 DEF CatNext

\* The catalogue's invariant holds of every behaviour.
THEOREM CatalogueInvariant == CatSpec => []CatalogueInv
  BY CatalogueStart, CatalogueStep, PTL DEF CatSpec

\* A list of one consume is looked up as that consume.
LEMMA SignedAlone ==
    ASSUME NEW c, NEW n, c.name = n
    PROVE  SignedAt(<<c>>, n) # {} /\ SignedFor(<<c>>, n) = c
  <1>1. SignedAt(<<c>>, n) = {1}
    BY DEF SignedAt
  <1>2. SignedFor(<<c>>, n) = <<c>>[CHOOSE i \in {1} : \A j \in {1} : i <= j]
    BY <1>1 DEF SignedFor
  <1>3. (CHOOSE i \in {1} : \A j \in {1} : i <= j) = 1
    OBVIOUS
  <1> QED
    BY <1>1, <1>2, <1>3

\* Whatever the links are, and however often they were changed and scanned, the
\* broker chooses, for every capability, the provider they call for.
THEOREM SelectionExactTheorem == CatSpec => []SelectionExact
  <1>1. ASSUME CatalogueInv PROVE SelectionExact
    <2> SUFFICES ASSUME NEW o \in Offers
                 PROVE
          LET eligible == {c \in (DOMAIN Dirs) \X Ids :
                            /\ c[1] \in EnabledAt(scanned, c[2])
                            /\ \E q \in scanned[c[1]][c[2]].offers :
                                 q.name = o.name /\ q.shape = o.shape /\ q.key = o.key}
              sel == Decide(<<[name |-> o.name, key |-> o.key, shape |-> o.shape]>>,
                            catalogue, o.name).sel
          IN /\ sel = Nobody <=> eligible = {}
             /\ sel # Nobody =>
                  /\ \E c \in eligible : c[2] = sel.provider /\ Dirs[c[1]].tier = sel.tier
                  /\ \A c \in eligible :
                       \/ sel.tier = "user" /\ Dirs[c[1]].tier = "host"
                       \/ sel.tier = Dirs[c[1]].tier /\ sel.provider <= c[2]
      BY DEF SelectionExact
    <2> DEFINE want == [name |-> o.name, key |-> o.key, shape |-> o.shape]
               eligible == {c \in (DOMAIN Dirs) \X Ids :
                            /\ c[1] \in EnabledAt(scanned, c[2])
                            /\ \E q \in scanned[c[1]][c[2]].offers :
                                 q.name = o.name /\ q.shape = o.shape /\ q.key = o.key}
               sel == Decide(<<want>>, catalogue, o.name).sel
               fit == Eligible(want, catalogue)
    <2>1. Tabled(scanned) /\ Projected(catalogue, scanned)
      BY <1>1 DEF CatalogueInv
    <2>2. want.name = o.name /\ want.key = o.key /\ want.shape = o.shape
      OBVIOUS
    <2>3. SignedAt(<<want>>, o.name) # {} /\ SignedFor(<<want>>, o.name) = want
      BY <2>2, SignedAlone
    <2> HIDE DEF want
    <2>4. /\ sel = Nobody <=> fit = {}
          /\ sel # Nobody =>
               \E c \in fit : /\ sel.provider = c.provider /\ sel.tier = c.tier
                              /\ \A e \in fit : Before(c, e)
      BY <2>1, <2>2, <2>3, DecideSelects
    <2>5. ASSUME NEW c \in fit
          PROVE  \E x \in eligible : x[2] = c.provider /\ Dirs[x[1]].tier = c.tier
      <3>1. /\ c \in Resolve(catalogue, o.name) /\ c.offer.shape = o.shape
            /\ c.offer.key = o.key
        BY <2>2 DEF Eligible, KeyCompatible
      <3>2. Candidate(c, o.name, catalogue, scanned)
        BY <3>1, <2>1, ResolveSound
      <3>3. PICK d \in EnabledAt(scanned, c.provider) :
              c.tier = Dirs[d].tier /\ c.offer \in scanned[d][c.provider].offers
        BY <3>2 DEF Candidate
      <3>4. d \in DOMAIN Dirs /\ c.provider \in Ids /\ c.offer.name = o.name
        BY <3>2 DEF Candidate, EnabledAt
      <3>5. <<d, c.provider>> \in eligible
        BY <3>1, <3>3, <3>4
      <3> QED
        BY <3>3, <3>5
    <2>6. ASSUME NEW x \in eligible
          PROVE  \E c \in fit : c.provider = x[2] /\ c.tier = Dirs[x[1]].tier
      <3>1. PICK q \in scanned[x[1]][x[2]].offers :
              q.name = o.name /\ q.shape = o.shape /\ q.key = o.key
        OBVIOUS
      <3>2. x[2] \in Ids /\ x[1] \in EnabledAt(scanned, x[2])
        OBVIOUS
      <3>3. PICK c \in Resolve(catalogue, q.name) :
              c.provider = x[2] /\ c.tier = Dirs[x[1]].tier /\ c.offer = q
        BY <3>1, <3>2, <2>1, ResolveComplete
      <3>4. c \in fit
        BY <3>1, <3>3, <2>2 DEF Eligible, KeyCompatible
      <3> QED
        BY <3>3, <3>4
    <2> HIDE DEF eligible, sel, fit
    <2>7. sel = Nobody <=> eligible = {}
      BY <2>4, <2>5, <2>6
    <2>8. ASSUME sel # Nobody
          PROVE  /\ \E c \in eligible : c[2] = sel.provider /\ Dirs[c[1]].tier = sel.tier
                 /\ \A c \in eligible :
                      \/ sel.tier = "user" /\ Dirs[c[1]].tier = "host"
                      \/ sel.tier = Dirs[c[1]].tier /\ sel.provider <= c[2]
      <3>1. PICK c \in fit : /\ sel.provider = c.provider /\ sel.tier = c.tier
                             /\ \A e \in fit : Before(c, e)
        BY <2>4, <2>8
      <3>2. \E x \in eligible : x[2] = sel.provider /\ Dirs[x[1]].tier = sel.tier
        BY <2>5, <3>1
      <3>3. ASSUME NEW x \in eligible
            PROVE  \/ sel.tier = "user" /\ Dirs[x[1]].tier = "host"
                   \/ sel.tier = Dirs[x[1]].tier /\ sel.provider <= x[2]
        <4>1. PICK e \in fit : e.provider = x[2] /\ e.tier = Dirs[x[1]].tier
          BY <2>6
        <4> QED
          BY <3>1, <4>1 DEF Before
      <3> QED
        BY <3>2, <3>3
    <2> QED
      BY <2>7, <2>8 DEF eligible, sel, want
  <1> QED
    BY <1>1, CatalogueInvariant, PTL

----------------------------------------------------------------------------
(* Who listens behind a rendezvous socket, and what a consumer is handed.  *)

Stages == {"down", "begin", "prepared", "up", "exited"}

\* The offers of a policy that verifies.
Settled(offers) == \E x \in Policies : x.verifies /\ offers = x.offers

ProviderFits(p) ==
    /\ prov[p].at # "down" => prov[p].link \in 1 .. 4
    /\ prov[p].at \in {"prepared", "up"} => Settled(prov[p].offers)

\* A socket somebody listens on is that of an offer of a provider that is up.
ListenerFits(s) ==
    sock[s] # Nobody =>
        /\ sock[s] \in Ids /\ prov[sock[s]].at = "up"
        /\ \E o \in AfUnix(prov[sock[s]].offers) : RpSocket(prov[sock[s]].tier, o) = s

SocketInv ==
    /\ prov \in [Ids -> [at : Stages, tier : {"none", "user", "host"}, link : 0 .. 4,
                         offers : SUBSET Offers]]
    /\ \A p \in Ids : ProviderFits(p)
    /\ \A s \in DOMAIN sock : ListenerFits(s)

\* What a scan finds can be started.
LEMMA ScannedBegins ==
    ASSUME NEW table, Tabled(table), NEW e \in Scan(table)
    PROVE  /\ Begin(e) \in [at : Stages, tier : {"none", "user", "host"}, link : 0 .. 4,
                            offers : SUBSET Offers]
           /\ Begin(e).at = "begin" /\ Begin(e).link \in 1 .. 4
  <1>1. PICK p \in Ids : \E d \in EnabledAt(table, p) : e = Enabled(table, d, p)
    BY ScanExact
  <1>2. PICK d \in EnabledAt(table, p) : e = Enabled(table, d, p)
    BY <1>1
  <1>3. d \in 1 .. 4 /\ e.link = d /\ e.tier = Dirs[d].tier
    BY <1>2, EnabledOnce DEF Enabled
  <1>4. e.tier \in {"user", "host"} /\ e.link \in 1 .. 4
    BY <1>3, FourDirs
  <1> QED
    BY <1>4 DEF Begin, Stages

\* At the start no socket exists.
LEMMA SocketStart == ASSUME CatInit PROVE SocketInv
  <1> DEFINE Provider == [at : Stages, tier : {"none", "user", "host"}, link : 0 .. 4,
                          offers : SUBSET Offers]
             Pick(p) == CHOOSE e \in Scan(linked) : e.provider = p
  <1>1. Tabled(linked)
    BY CatalogueAssumption DEF CatInit, Tabled
  <1>2. Down \in Provider /\ Down.at = "down"
    BY DEF Down, Stages
  <1>3. ASSUME NEW p \in Ids
        PROVE  /\ prov[p] \in Provider
               /\ prov[p].at \in {"down", "begin"}
               /\ prov[p].at # "down" => prov[p].link \in 1 .. 4
    <2>1. CASE \E e \in Scan(linked) : e.provider = p /\ e.eager
      <3>1. Pick(p) \in Scan(linked)
        BY <2>1
      <3>2. prov[p] = Begin(Pick(p))
        BY <2>1 DEF CatInit
      <3> HIDE DEF Pick
      <3> QED
        BY <1>1, <3>1, <3>2, ScannedBegins
    <2>2. CASE ~ \E e \in Scan(linked) : e.provider = p /\ e.eager
      <3>1. prov[p] = Down
        BY <2>2 DEF CatInit
      <3> HIDE DEF Provider
      <3> QED
        BY <1>2, <3>1
    <2> QED
      BY <2>1, <2>2
  <1>4. prov \in [Ids -> Provider]
    <2>1. DOMAIN prov = Ids /\ prov = [p \in Ids |-> prov[p]]
      BY DEF CatInit
    <2> HIDE DEF Provider
    <2> QED
      BY <1>3, <2>1
  <1>5. sock = <<>>
    BY DEF CatInit
  <1>6. DOMAIN sock = {}
    BY <1>5
  <1> QED
    BY <1>3, <1>4, <1>6 DEF SocketInv, ProviderFits

\* The steps of the daemon, the providers and the consumer keep it.
LEMMA SocketStep == ASSUME CatalogueInv, SocketInv, [CatNext]_catVars PROVE SocketInv'
  <1> DEFINE Provider == [at : Stages, tier : {"none", "user", "host"}, link : 0 .. 4,
                          offers : SUBSET Offers]
  <1>0. /\ prov \in [Ids -> Provider]
        /\ \A p \in Ids : ProviderFits(p)
        /\ \A s \in DOMAIN sock : ListenerFits(s)
    BY DEF SocketInv
  <1>1. CASE UNCHANGED <<prov, sock>>
    BY <1>1 DEF SocketInv, ProviderFits, ListenerFits
  \* One provider changes: it listens nowhere, before and after.
  <1>2. ASSUME NEW p \in Ids, NEW v \in Provider, prov' = [prov EXCEPT ![p] = v],
               prov[p].at # "up",
               v.at # "down" => v.link \in 1 .. 4,
               v.at \in {"prepared", "up"} => Settled(v.offers),
               \A s \in DOMAIN sock' : s \in DOMAIN sock /\ sock'[s] = sock[s]
        PROVE  SocketInv'
    <2> HIDE DEF Provider
    <2>1. prov' \in [Ids -> Provider] /\ prov'[p] = v
          /\ \A q \in Ids : q # p => prov'[q] = prov[q]
      BY <1>0, <1>2
    <2>2. ASSUME NEW q \in Ids PROVE ProviderFits(q)'
      BY <1>0, <1>2, <2>1 DEF ProviderFits
    <2>3. ASSUME NEW s \in DOMAIN sock' PROVE ListenerFits(s)'
      <3>1. s \in DOMAIN sock /\ sock'[s] = sock[s] /\ ListenerFits(s)
        BY <1>0, <1>2
      <3>2. CASE sock[s] = Nobody
        BY <3>1, <3>2 DEF ListenerFits
      <3>3. CASE sock[s] # Nobody
        <4>1. sock[s] \in Ids /\ sock[s] # p
          BY <3>1, <3>3, <1>2 DEF ListenerFits
        <4>2. prov'[sock[s]] = prov[sock[s]]
          BY <4>1, <2>1
        <4> QED
          BY <3>1, <4>2 DEF ListenerFits
      <3> QED
        BY <3>2, <3>3
    <2> QED
      BY <2>1, <2>2, <2>3 DEF SocketInv, Provider
  <1>3. ASSUME NEW p \in Ids, PrepareProvider(p) PROVE SocketInv'
    <2> DEFINE x == linked[prov[p].link][p]
               v == [prov[p] EXCEPT !.at = "prepared", !.offers = x.offers]
    <2>1. /\ prov[p].at = "begin" /\ Loads(x)
          /\ prov' = [prov EXCEPT ![p].at = "prepared", ![p].offers = x.offers]
          /\ DOMAIN sock' \subseteq DOMAIN sock /\ \A s \in DOMAIN sock' : sock'[s] = sock[s]
      BY <1>3 DEF PrepareProvider
    <2>2. prov[p].link \in 1 .. 4 /\ prov[p] \in Provider
      BY <1>0, <2>1 DEF ProviderFits
    <2>3. x \in Policies \cup {NoLink}
      BY <2>2, FourDirs DEF CatalogueInv, Tabled
    <2>4. x \in Policies /\ x.verifies
      BY <2>1, <2>3 DEF Loads
    <2> HIDE DEF x
    <2>5. Settled(x.offers) /\ x.offers \in SUBSET Offers
      BY <2>4 DEF Settled, Offers
    <2>6. v \in Provider /\ v.at = "prepared" /\ v.link = prov[p].link /\ v.offers = x.offers
      BY <2>2, <2>5 DEF Stages
    <2>7. prov' = [prov EXCEPT ![p] = v]
      BY <2>1, <1>0
    <2> HIDE DEF v, Provider
    <2> QED
      BY <2>1, <2>2, <2>5, <2>6, <2>7, <1>2, ZenonT(40)
  <1>4. ASSUME NEW p \in Ids, ProviderFails(p) PROVE SocketInv'
    <2> DEFINE v == [prov[p] EXCEPT !.at = "exited"]
    <2>1. /\ prov[p].at \in {"begin", "prepared"} /\ prov' = [prov EXCEPT ![p].at = "exited"]
          /\ sock' = sock
      BY <1>4 DEF ProviderFails
    <2>2. prov[p] \in Provider /\ prov[p].link \in 1 .. 4
      BY <1>0, <2>1 DEF ProviderFits
    <2>3. v \in Provider /\ v.at = "exited" /\ v.link = prov[p].link
      BY <2>2 DEF Stages
    <2>4. prov' = [prov EXCEPT ![p] = v]
      BY <2>1, <1>0
    <2> HIDE DEF v, Provider
    <2> QED
      BY <2>1, <2>2, <2>3, <2>4, <1>2
  <1>5. ASSUME NEW p \in Ids, ProviderStarted(p) PROVE SocketInv'
    <2> DEFINE v == [prov[p] EXCEPT !.at = "up"]
    <2>1. prov[p].at = "prepared" /\ prov' = [prov EXCEPT ![p].at = "up"] /\ sock' = sock
      BY <1>5 DEF ProviderStarted
    <2>2. prov[p] \in Provider /\ prov[p].link \in 1 .. 4 /\ Settled(prov[p].offers)
      BY <1>0, <2>1 DEF ProviderFits
    <2>3. v \in Provider /\ v.at = "up" /\ v.link = prov[p].link /\ v.offers = prov[p].offers
      BY <2>2 DEF Stages
    <2>4. prov' = [prov EXCEPT ![p] = v]
      BY <2>1, <1>0
    <2> HIDE DEF v, Provider
    <2> QED
      BY <2>1, <2>2, <2>3, <2>4, <1>2
  <1>6. ASSUME NEW p \in Ids, RestartProvider(p) PROVE SocketInv'
    <2> DEFINE v == [prov[p] EXCEPT !.at = "begin", !.offers = {}]
    <2>1. /\ prov[p].at = "exited" /\ prov' = [prov EXCEPT ![p].at = "begin", ![p].offers = {}]
          /\ sock' = sock
      BY <1>6 DEF RestartProvider
    <2>2. prov[p] \in Provider /\ prov[p].link \in 1 .. 4
      BY <1>0, <2>1 DEF ProviderFits
    <2>3. v \in Provider /\ v.at = "begin" /\ v.link = prov[p].link
      BY <2>2 DEF Stages
    <2>4. prov' = [prov EXCEPT ![p] = v]
      BY <2>1, <1>0
    <2> HIDE DEF v, Provider
    <2> QED
      BY <2>1, <2>2, <2>3, <2>4, <1>2
  <1>7. ASSUME NEW p \in Ids, EndSupervision(p) PROVE SocketInv'
    <2>1. prov[p].at = "exited" /\ prov' = [prov EXCEPT ![p] = Down] /\ sock' = sock
      BY <1>7 DEF EndSupervision
    <2>2. Down \in Provider /\ Down.at = "down"
      BY DEF Down, Stages
    <2> HIDE DEF Provider
    <2> QED
      BY <2>1, <2>2, <1>2
  <1>8. CASE ActivateProvider
    <2> DEFINE p == consumer.sel.provider
    <2>1. PICK table \in {linked, Unlinked} :
            LET now == {e \in Scan(table) : e.provider = p /\ ~ e.eager}
            IN prov' = IF prov[p].at = "down" /\ now # {}
                       THEN [prov EXCEPT ![p] = Begin(CHOOSE e \in now : TRUE)] ELSE prov
      BY <1>8 DEF ActivateProvider
    <2>2. sock' = sock
      BY <1>8 DEF ActivateProvider
    <2>3. Tabled(table)
      BY DEF CatalogueInv, Tabled, Unlinked
    <2> DEFINE now == {e \in Scan(table) : e.provider = p /\ ~ e.eager}
               e0 == CHOOSE e \in now : TRUE
    <2>4. CASE prov[p].at = "down" /\ now # {}
      <3>1. e0 \in Scan(table) /\ e0.provider = p
        BY <2>4
      <3>2. p \in Ids
        BY <3>1, ScanExact DEF Enabled
      <3>3. prov' = [prov EXCEPT ![p] = Begin(e0)]
        BY <2>1, <2>4
      <3> HIDE DEF p, now, e0
      <3>4. Begin(e0) \in Provider /\ Begin(e0).at = "begin" /\ Begin(e0).link \in 1 .. 4
        BY <2>3, <3>1, ScannedBegins
      <3> HIDE DEF Provider
      <3>5. prov[p].at # "up"
        BY <2>4
      <3> QED
        BY <2>2, <3>2, <3>3, <3>4, <3>5, <1>2
    <2>5. CASE ~ (prov[p].at = "down" /\ now # {})
      <3>1. prov' = prov
        BY <2>1, <2>5
      <3> QED
        BY <3>1, <2>2, <1>1
    <2> QED
      BY <2>4, <2>5
  <1>9. ASSUME NEW p \in Ids, Listen(p) PROVE SocketInv'
    <2>1. prov[p].at = "up" /\ prov' = prov
      BY <1>9 DEF Listen
    <2>2. PICK o \in AfUnix(prov[p].offers) :
            sock' = [s \in DOMAIN sock \cup {RpSocket(prov[p].tier, o)} |->
                       IF s \in DOMAIN sock THEN sock[s] ELSE p]
      BY <1>9 DEF Listen
    <2>3. ASSUME NEW s \in DOMAIN sock' PROVE ListenerFits(s)'
      <3>1. CASE s \in DOMAIN sock
        <4>1. sock'[s] = sock[s]
          BY <2>2, <3>1
        <4> QED
          BY <4>1, <3>1, <2>1, <1>0 DEF ListenerFits
      <3>2. CASE s \notin DOMAIN sock
        <4>1. sock'[s] = p /\ s = RpSocket(prov[p].tier, o)
          BY <2>2, <3>2
        <4> QED
          BY <4>1, <2>1 DEF ListenerFits
      <3> QED
        BY <3>1, <3>2
    <2>4. \A q \in Ids : ProviderFits(q)'
      BY <2>1, <1>0 DEF ProviderFits
    <2> QED
      BY <2>1, <2>3, <2>4, <1>0 DEF SocketInv
  <1>10. ASSUME NEW p \in Ids, WorkloadExits(p) PROVE SocketInv'
    <2> DEFINE v == [prov[p] EXCEPT !.at = "exited"]
    <2>1. /\ prov[p].at = "up" /\ prov' = [prov EXCEPT ![p].at = "exited"]
          /\ sock' = [s \in DOMAIN sock |-> IF sock[s] = p THEN Nobody ELSE sock[s]]
      BY <1>10 DEF WorkloadExits
    <2>2. prov[p] \in Provider /\ prov[p].link \in 1 .. 4
      BY <1>0, <2>1 DEF ProviderFits
    <2>3. v \in Provider /\ v.at = "exited" /\ v.link = prov[p].link
      BY <2>2 DEF Stages
    <2>4. prov' = [prov EXCEPT ![p] = v]
      BY <2>1, <1>0
    <2> HIDE DEF v, Provider
    <2>5. prov' \in [Ids -> Provider] /\ prov'[p] = v
          /\ \A q \in Ids : q # p => prov'[q] = prov[q]
      BY <1>0, <2>3, <2>4
    <2>6. ASSUME NEW q \in Ids PROVE ProviderFits(q)'
      BY <1>0, <2>2, <2>3, <2>5 DEF ProviderFits
    <2>7. ASSUME NEW s \in DOMAIN sock' PROVE ListenerFits(s)'
      <3>1. s \in DOMAIN sock /\ ListenerFits(s)
            /\ sock'[s] = IF sock[s] = p THEN Nobody ELSE sock[s]
        BY <1>0, <2>1
      <3>2. CASE sock'[s] = Nobody
        BY <3>2 DEF ListenerFits
      <3>3. CASE sock'[s] # Nobody
        <4>1. sock'[s] = sock[s] /\ sock[s] # p /\ sock[s] # Nobody
          BY <3>1, <3>3
        <4>2. sock[s] \in Ids
          BY <3>1, <4>1 DEF ListenerFits
        <4>3. prov'[sock[s]] = prov[sock[s]]
          BY <4>1, <4>2, <2>5
        <4> QED
          BY <3>1, <4>1, <4>3 DEF ListenerFits
      <3> QED
        BY <3>2, <3>3
    <2> QED
      BY <2>5, <2>6, <2>7 DEF SocketInv, Provider
  <1>11. CASE \/ \E d \in DOMAIN Dirs, p \in Ids, x \in Policies \cup {NoLink} : Relink(d, p, x)
              \/ RebuildCatalogue \/ ConsumerStarts \/ \E n \in CapabilityNames : SvcConnect(n)
              \/ WaitOver \/ HandOver \/ ConsumerEnds
    BY <1>1, <1>11
       DEF Relink, RebuildCatalogue, ConsumerStarts, SvcConnect, WaitOver, HandOver, ConsumerEnds
  <1>12. CASE UNCHANGED catVars
    BY <1>1, <1>12 DEF catVars
  <1> QED
    BY <1>3, <1>4, <1>5, <1>6, <1>7, <1>8, <1>9, <1>10, <1>11, <1>12 DEF CatNext

----------------------------------------------------------------------------
\* No two capabilities of signed policies share a rendezvous directory.
Unambiguous ==
    \A x, y \in Policies : x.verifies /\ y.verifies =>
        \A o \in AfUnix(x.offers), q \in AfUnix(y.offers) :
            Component(o.name, o.key) = Component(q.name, q.key) => o.name = q.name /\ o.key = q.key

\* The offer selected for n is what was signed for, of a policy that verifies.
SelectedFor(sel, signed, n) ==
    /\ sel.offer.name = SignedFor(signed, n).name
    /\ sel.offer.key = SignedFor(signed, n).key
    /\ sel.offer.shape = SignedFor(signed, n).shape
    /\ \E x \in Policies : x.verifies /\ sel.offer \in x.offers

\* A name that is signed for is looked up as a consume of that name.
LEMMA SignedForIs ==
    ASSUME NEW signed \in ConsumeLists, NEW n, SignedAt(signed, n) # {}
    PROVE  SignedFor(signed, n).name = n
  <1>1. SignedAt(signed, n) \in SUBSET Nat
    BY CatalogueAssumption DEF SignedAt
  <1>2. \E i \in SignedAt(signed, n) : \A j \in SignedAt(signed, n) : i <= j
    BY <1>1, Least
  <1> DEFINE i == CHOOSE k \in SignedAt(signed, n) : \A j \in SignedAt(signed, n) : k <= j
  <1>3. i \in SignedAt(signed, n)
    BY <1>2
  <1>4. SignedFor(signed, n) = signed[i]
    BY DEF SignedFor
  <1> HIDE DEF i
  <1> QED
    BY <1>3, <1>4 DEF SignedAt

\* A verdict that names a provider names a fitting one.
LEMMA VerdictFits ==
    ASSUME CatalogueInv, NEW signed \in ConsumeLists, NEW n,
           Decide(signed, catalogue, n).verdict \in Readinesses
    PROVE  SelectedFor(Decide(signed, catalogue, n).sel, signed, n)
  <1> DEFINE mine == SignedFor(signed, n)
             d == Decide(signed, catalogue, n)
  <1>1. SignedAt(signed, n) # {}
    <2>1. SignedAt(signed, n) = {} => d = [verdict |-> "denied", sel |-> Nobody]
      BY DEF Decide
    <2> QED
      BY <2>1 DEF Readinesses
  <1>2. mine.name = n
    BY <1>1, SignedForIs
  <1>3. Tabled(scanned) /\ Projected(catalogue, scanned)
    BY DEF CatalogueInv
  <1> HIDE DEF mine, d
  <1>4. /\ d.sel # Nobody
        /\ \E c \in Eligible(mine, catalogue) : d.sel.offer = c.offer
    <2>1. /\ d.verdict \in Readinesses <=> d.sel # Nobody
          /\ d.sel # Nobody => \E c \in Eligible(mine, catalogue) : d.sel.offer = c.offer
      BY <1>1, <1>2, <1>3, DecideSelects DEF mine, d
    <2> QED
      BY <2>1 DEF d
  <1>5. PICK c \in Eligible(mine, catalogue) : d.sel.offer = c.offer
    BY <1>4
  <1>6. c \in Resolve(catalogue, n) /\ c.offer.shape = mine.shape /\ c.offer.key = mine.key
    BY <1>2 DEF Eligible, KeyCompatible
  <1>7. Candidate(c, n, catalogue, scanned)
    BY <1>3, <1>6, ResolveSound
  <1>8. c.offer.name = n /\ \E x \in Policies : x.verifies /\ c.offer \in x.offers
    BY <1>3, <1>7, CandidateOffer DEF Candidate
  <1> QED
    BY <1>2, <1>5, <1>6, <1>8 DEF SelectedFor, mine, d

ConsumerInv ==
    /\ consumes \in ConsumeLists
    /\ DOMAIN consumer = {"at", "name", "sel", "by"}
    /\ consumer.at = "handoff" => SelectedFor(consumer.sel, consumes, consumer.name)
    /\ KeyedReach

\* The consumer's steps: what it is handed was selected for what it signed, and
\* whoever listens there offers just that.
LEMMA ConsumerStep ==
    ASSUME Unambiguous, CatalogueInv, SocketInv, ConsumerInv, [CatNext]_catVars
    PROVE  ConsumerInv'
  <1>1. CASE UNCHANGED <<consumes, consumer>>
    BY <1>1 DEF ConsumerInv, KeyedReach, SelectedFor
  <1>2. ASSUME NEW status, status \notin {"handoff", "connected"},
               consumer' = Answer(status), consumes' = consumes
        PROVE  ConsumerInv'
    <2>1. consumer'.at = status /\ DOMAIN consumer' = {"at", "name", "sel", "by"}
      BY <1>2 DEF Answer, Off
    <2> QED
      BY <1>2, <2>1 DEF ConsumerInv, KeyedReach
  <1>3. CASE ConsumerStarts
    BY <1>2, <1>3 DEF ConsumerStarts
  <1>4. CASE ConsumerEnds
    <2>1. consumer' = Answer("off") /\ consumes' = consumes
      BY <1>4 DEF ConsumerEnds, Answer, Off
    <2> QED
      BY <1>2, <2>1
  <1>5. ASSUME NEW n, SvcConnect(n) PROVE ConsumerInv'
    <2> DEFINE d == Decide(consumes, catalogue, n)
    <2>1. /\ consumes' = consumes
          /\ consumer' =
               CASE d.verdict = "ready" -> [at |-> "handoff", name |-> n, sel |-> d.sel, by |-> Nobody]
                 [] d.verdict = "pending" -> [at |-> "activate", name |-> n, sel |-> d.sel, by |-> Nobody]
                 [] d.verdict = "failed" -> Answer("unavailable")
                 [] OTHER -> Answer(d.verdict)
      BY <1>5 DEF SvcConnect
    <2>2. d.verdict = "ready" => SelectedFor(d.sel, consumes, n)
      BY VerdictFits DEF ConsumerInv, Readinesses
    <2>3. d.verdict \in Readinesses \cup {"denied", "notfound"}
      <3>1. SignedAt(consumes, n) = {} => d = [verdict |-> "denied", sel |-> Nobody]
        BY DEF Decide
      <3>2. Eligible(SignedFor(consumes, n), catalogue) = {} =>
              d.verdict \in {"denied", "notfound"}
        BY DEF Decide
      <3>3. SignedAt(consumes, n) # {} => SignedFor(consumes, n).name = n
        BY SignedForIs DEF ConsumerInv
      <3>4. SignedAt(consumes, n) # {} =>
              (Eligible(SignedFor(consumes, n), catalogue) # {} => d.verdict \in Readinesses)
        <4> SUFFICES ASSUME SignedAt(consumes, n) # {},
                            Eligible(SignedFor(consumes, n), catalogue) # {}
                     PROVE  d.verdict \in Readinesses
          OBVIOUS
        <4>1. Tabled(scanned) /\ Projected(catalogue, scanned)
          BY DEF CatalogueInv
        <4> QED
          BY <4>1, <3>3, DecideSelects
      <3> HIDE DEF d
      <3> QED
        BY <3>1, <3>2, <3>4
    <2> HIDE DEF d
    <2>4. CASE d.verdict = "ready"
      <3>1. consumer' = [at |-> "handoff", name |-> n, sel |-> d.sel, by |-> Nobody]
        BY <2>1, <2>4
      <3> QED
        BY <2>1, <2>2, <2>4, <3>1 DEF ConsumerInv, KeyedReach, SelectedFor
    <2>5. CASE d.verdict = "pending"
      <3>1. consumer' = [at |-> "activate", name |-> n, sel |-> d.sel, by |-> Nobody]
        BY <2>1, <2>5
      <3> QED
        BY <2>1, <3>1 DEF ConsumerInv, KeyedReach
    <2>6. CASE d.verdict = "failed"
      BY <2>1, <2>6, <1>2
    <2>7. CASE d.verdict \in {"denied", "notfound"}
      <3>1. consumer' = Answer(d.verdict)
        BY <2>1, <2>7
      <3> QED
        BY <2>1, <2>7, <3>1, <1>2
    <2> QED
      BY <2>3, <2>4, <2>5, <2>6, <2>7 DEF Readinesses
  <1>6. CASE ActivateProvider
    <2>1. consumer' = [consumer EXCEPT !.at = "waiting", !.sel = Nobody] /\ consumes' = consumes
      BY <1>6 DEF ActivateProvider
    <2>2. consumer'.at = "waiting" /\ DOMAIN consumer' = {"at", "name", "sel", "by"}
      BY <2>1 DEF ConsumerInv
    <2> QED
      BY <2>1, <2>2 DEF ConsumerInv, KeyedReach
  <1>7. CASE WaitOver
    <2> DEFINE d == Decide(consumes, catalogue, consumer.name)
    <2>1. /\ consumes' = consumes
          /\ consumer' = IF d.verdict = "ready"
                         THEN [consumer EXCEPT !.at = "handoff", !.sel = d.sel]
                         ELSE Answer("unavailable")
      BY <1>7 DEF WaitOver
    <2>2. d.verdict = "ready" => SelectedFor(d.sel, consumes, consumer.name)
      BY VerdictFits DEF ConsumerInv, Readinesses
    <2> HIDE DEF d
    <2>3. CASE d.verdict = "ready"
      <3>1. /\ consumer'.at = "handoff" /\ consumer'.sel = d.sel /\ consumer'.name = consumer.name
            /\ DOMAIN consumer' = {"at", "name", "sel", "by"}
        BY <2>1, <2>3 DEF ConsumerInv
      <3>2. SelectedFor(consumer'.sel, consumes', consumer'.name)
        BY <2>1, <2>2, <2>3, <3>1
      <3> QED
        BY <2>1, <3>1, <3>2 DEF ConsumerInv, KeyedReach
    <2>4. CASE d.verdict # "ready"
      BY <2>1, <2>4, <1>2
    <2> QED
      BY <2>3, <2>4
  <1>8. CASE HandOver
    <2> DEFINE path == RpSocket(consumer.sel.tier, consumer.sel.offer)
               there == /\ consumer.sel.offer.shape = "af-unix"
                        /\ path \in DOMAIN sock /\ sock[path] # Nobody
               by == [provider |-> sock[path], offers |-> prov[sock[path]].offers]
    <2>1. /\ consumer.at = "handoff" /\ consumes' = consumes
          /\ consumer' = IF there THEN [consumer EXCEPT !.at = "connected", !.by = by]
                         ELSE Answer("unavailable")
      BY <1>8 DEF HandOver
    <2>2. SelectedFor(consumer.sel, consumes, consumer.name)
      BY <2>1 DEF ConsumerInv
    <2>3. CASE there
      <3>1. ListenerFits(path) /\ sock[path] # Nobody
        BY <2>3 DEF SocketInv
      <3>2. sock[path] \in Ids /\ prov[sock[path]].at = "up"
        BY <3>1 DEF ListenerFits
      <3>3. PICK o \in AfUnix(prov[sock[path]].offers) : RpSocket(prov[sock[path]].tier, o) = path
        BY <3>1 DEF ListenerFits
      <3>4. Component(o.name, o.key) = Component(consumer.sel.offer.name, consumer.sel.offer.key)
        BY <3>3 DEF RpSocket
      <3>5. PICK x \in Policies : x.verifies /\ prov[sock[path]].offers = x.offers
        BY <3>2 DEF SocketInv, ProviderFits, Settled
      <3>6. PICK y \in Policies : y.verifies /\ consumer.sel.offer \in y.offers
        BY <2>2 DEF SelectedFor
      <3>7. o \in AfUnix(x.offers) /\ consumer.sel.offer \in AfUnix(y.offers)
        BY <2>3, <3>3, <3>5, <3>6 DEF AfUnix
      <3>8. o.name = consumer.sel.offer.name /\ o.key = consumer.sel.offer.key
        BY <3>4, <3>5, <3>6, <3>7 DEF Unambiguous
      <3>9. o \in by.offers /\ o.shape = consumer.sel.offer.shape
        BY <2>3, <3>3 DEF AfUnix
      <3> DEFINE mine == SignedFor(consumes, consumer.name)
      <3>10. o.name = mine.name /\ o.key = mine.key /\ o.shape = mine.shape
        BY <2>2, <3>8, <3>9 DEF SelectedFor
      <3> HIDE DEF by, path
      <3>11. /\ consumer'.at = "connected" /\ consumer'.by = by /\ consumer'.name = consumer.name
             /\ DOMAIN consumer' = {"at", "name", "sel", "by"}
        BY <2>1, <2>3 DEF ConsumerInv
      <3>12. \E q \in consumer'.by.offers :
               /\ q.name = SignedFor(consumes', consumer'.name).name
               /\ q.key = SignedFor(consumes', consumer'.name).key
               /\ q.shape = SignedFor(consumes', consumer'.name).shape
        BY <2>1, <3>9, <3>10, <3>11
      <3> QED
        BY <2>1, <3>11, <3>12 DEF ConsumerInv, KeyedReach
    <2>4. CASE ~ there
      BY <2>1, <2>4, <1>2
    <2> QED
      BY <2>3, <2>4
  <1>9. CASE \/ \E e \in DOMAIN Dirs, p \in Ids, x \in Policies \cup {NoLink} : Relink(e, p, x)
             \/ RebuildCatalogue
             \/ \E p \in Ids :
                  \/ PrepareProvider(p) \/ ProviderFails(p) \/ ProviderStarted(p) \/ Listen(p)
                  \/ WorkloadExits(p) \/ RestartProvider(p) \/ EndSupervision(p)
    BY <1>1, <1>9 DEF Relink, RebuildCatalogue, PrepareProvider, ProviderFails, ProviderStarted,
                      Listen, WorkloadExits, RestartProvider, EndSupervision
  <1>10. CASE UNCHANGED catVars
    BY <1>1, <1>10 DEF catVars
  <1> QED
    BY <1>3, <1>4, <1>5, <1>6, <1>7, <1>8, <1>9, <1>10 DEF CatNext

\* Provided that no two capabilities share a rendezvous directory, whoever
\* answers behind the socket a consumer is handed was started with a policy
\* that offers the name, shape and key the consumer signed for.  The condition
\* is the theorem's own: component() joins a name and a key with the dot that
\* also separates a name's labels, and the compiler rejects no such pair.
THEOREM KeyedReachTheorem ==
    ASSUME Unambiguous
    PROVE  CatSpec => []KeyedReach
  <1>1. CatInit => CatalogueInv /\ SocketInv
    BY CatalogueStart, SocketStart
  <1>2. CatInit => ConsumerInv
    <2> SUFFICES ASSUME CatInit PROVE ConsumerInv
      OBVIOUS
    <2>1. consumes \in ConsumeLists /\ consumer = Off
      BY DEF CatInit
    <2>2. consumer.at = "off" /\ DOMAIN consumer = {"at", "name", "sel", "by"}
      BY <2>1 DEF Off
    <2> QED
      BY <2>1, <2>2 DEF ConsumerInv, KeyedReach
  <1>3. CatalogueInv /\ SocketInv /\ ConsumerInv /\ [CatNext]_catVars
          => CatalogueInv' /\ SocketInv' /\ ConsumerInv'
    BY CatalogueStep, SocketStep, ConsumerStep, Unambiguous
  <1>4. ConsumerInv => KeyedReach
    BY DEF ConsumerInv
  <1> QED
    BY <1>1, <1>2, <1>3, <1>4, PTL DEF CatSpec
=============================================================================
