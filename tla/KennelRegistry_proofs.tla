----------------------- MODULE KennelRegistry_proofs -----------------------
(***************************************************************************)
(* Proofs about KennelRegistry, for any number of connections, spawned     *)
(* siblings, Stop requests, names and contexts.                            *)
(***************************************************************************)
EXTENDS KennelRegistry, FiniteSetTheorems, TLAPS

(* What has to be carried along to make the invariants inductive.          *)

\* A sibling being minted has a requester that holds a context, and a queued
\* one has been named: Enqueue's name is a kennel name.
SpawnNamed ==
    \A r \in Runs :
        /\ pc[r] = "minting" => requester[r] \in Runs /\ ctx[requester[r]] \in Ctxs
                                /\ r \in Spawned
        /\ pc[r] = "queued" => name[r] \in KennelNames

\* A thread between deregister_ssh and release has no edge left.
EdgesDropped ==
    \A r \in Runs : pc[r] \in {"silent", "failed"} => name[r] \notin edges

\* A Stop about to scan carries the context it read from an entry.
StopBound == \A s \in Stops : spc[s] = "scan" => sctx[s] \in Ctxs

IInv ==
    /\ TypeOK
    /\ RegistryConsistent
    /\ EntryOwned
    /\ EdgesBacked
    /\ SpawnNamed
    /\ EdgesDropped
    /\ StopBound

----------------------------------------------------------------------------
(* Three kinds of step of a run, as seen by the registry.                  *)

\* A thread that moves between two phases in which it holds its entry, or
\* between two phases in which it holds none, disturbs no ownership.
LEMMA PhaseMove ==
    ASSUME TypeOK, RegistryConsistent, EntryOwned,
           NEW r \in Runs, NEW q,
           pc[r] \in Holding <=> q \in Holding,
           pc' = [pc EXCEPT ![r] = q],
           UNCHANGED <<used, ctxOf, ctx>>,
           name' = name \/ (pc[r] \notin Holding /\ \A s \in Runs \ {r} : name'[s] = name[s])
    PROVE  RegistryConsistent' /\ EntryOwned'
<1>1. \A s \in Runs : pc'[s] \in Holding <=> pc[s] \in Holding
  BY DEF TypeOK
<1>2. \A s \in Runs : pc[s] \in Holding => name'[s] = name[s]
  OBVIOUS
<1>3. RegistryConsistent'
  BY DEF RegistryConsistent, Registered
<1>4. EntryOwned'
  BY <1>1, <1>2 DEF EntryOwned, Registered
<1> QED BY <1>3, <1>4

\* Shared::reserve enters one name with one context nobody holds.
LEMMA ReserveKeeps ==
    ASSUME RegistryAssumption, TypeOK, RegistryConsistent, EntryOwned,
           NEW r \in Runs, NEW n \in KennelNames,
           pc[r] \notin Holding,
           pc' = [pc EXCEPT ![r] = "reserved"],
           ReserveGranted(r, n),
           name' = [name EXCEPT ![r] = n]
    PROVE  RegistryConsistent' /\ EntryOwned'
<1>1. PICK c \in Ctxs : /\ c \notin used
                        /\ used' = used \cup {c}
                        /\ ctxOf' = [ctxOf EXCEPT ![n] = c]
                        /\ ctx' = [ctx EXCEPT ![r] = c]
  BY DEF ReserveGranted, LowestFree
<1>2. c # 0 /\ c \in Nat
  BY DEF Ctxs, RegistryAssumption
<1>3. ctxOf[n] = 0
  BY DEF ReserveGranted, Registered
<1>4. \A m \in KennelNames : ctxOf'[m] = IF m = n THEN c ELSE ctxOf[m]
  BY <1>1 DEF TypeOK
<1>5. \A m \in KennelNames : ctxOf[m] # 0 => ctxOf[m] \in used
  BY DEF RegistryConsistent, Registered
<1>6. RegistryConsistent'
  <2>1. used' = {ctxOf'[k] : k \in {m \in KennelNames : ctxOf'[m] # 0}}
    <3>1. ASSUME NEW d \in used' PROVE \E k \in KennelNames : ctxOf'[k] # 0 /\ ctxOf'[k] = d
      <4>1. CASE d = c
        BY <4>1, <1>2, <1>4
      <4>2. CASE d # c
        BY <4>2, <3>1, <1>1, <1>3, <1>4 DEF RegistryConsistent, Registered
      <4> QED BY <4>1, <4>2
    <3>2. ASSUME NEW k \in KennelNames, ctxOf'[k] # 0 PROVE ctxOf'[k] \in used'
      BY <3>2, <1>1, <1>4, <1>5
    <3> QED BY <3>1, <3>2
  <2>2. ASSUME NEW m \in KennelNames, NEW k \in KennelNames,
               ctxOf'[m] # 0, ctxOf'[m] = ctxOf'[k]
        PROVE m = k
    BY <2>2, <1>1, <1>2, <1>4, <1>5 DEF RegistryConsistent, Registered
  <2> QED BY <2>1, <2>2 DEF RegistryConsistent, Registered
<1>7. \A q \in Runs \ {r} : pc[q] \in Holding => name[q] # n
  BY <1>3 DEF EntryOwned, Registered
<1>8. \A q \in Runs : /\ pc'[q] = IF q = r THEN "reserved" ELSE pc[q]
                      /\ name'[q] = IF q = r THEN n ELSE name[q]
                      /\ ctx'[q] = IF q = r THEN c ELSE ctx[q]
  BY <1>1 DEF TypeOK
<1>9. "reserved" \in Holding
  BY DEF Holding
<1>10. EntryOwned'
  <2>1. ASSUME NEW m \in KennelNames, ctxOf'[m] # 0
        PROVE \E q \in Runs : pc'[q] \in Holding /\ name'[q] = m
    <3>1. CASE m = n
      BY <3>1, <1>8, <1>9
    <3>2. CASE m # n
      BY <3>2, <2>1, <1>4, <1>8 DEF EntryOwned, Registered
    <3> QED BY <3>1, <3>2
  <2>2. ASSUME NEW q \in Runs, pc'[q] \in Holding
        PROVE name'[q] \in KennelNames /\ ctxOf'[name'[q]] # 0 /\ ctxOf'[name'[q]] = ctx'[q]
    BY <2>2, <1>2, <1>4, <1>7, <1>8 DEF EntryOwned, Registered
  <2>3. ASSUME NEW q \in Runs, NEW s \in Runs, pc'[q] \in Holding, pc'[s] \in Holding,
               name'[q] = name'[s]
        PROVE q = s
    BY <2>3, <1>7, <1>8 DEF EntryOwned
  <2> QED BY <2>1, <2>2, <2>3 DEF EntryOwned, Registered
<1> QED BY <1>6, <1>10

\* Shared::release removes exactly the caller's entry and context.
LEMMA ReleaseKeeps ==
    ASSUME RegistryAssumption, TypeOK, RegistryConsistent, EntryOwned,
           NEW r \in Runs,
           pc[r] \in Holding,
           pc' = [pc EXCEPT ![r] = "exited"],
           ReleaseEntry(name[r], ctx[r]),
           UNCHANGED <<name, ctx>>
    PROVE  RegistryConsistent' /\ EntryOwned'
<1> DEFINE n == name[r]
<1>1. n \in KennelNames /\ ctxOf[n] # 0 /\ ctxOf[n] = ctx[r]
  BY DEF EntryOwned, Registered
<1>2. \A m \in KennelNames : ctxOf'[m] = IF m = n THEN 0 ELSE ctxOf[m]
  BY <1>1 DEF TypeOK, ReleaseEntry
<1>3. used' = used \ {ctxOf[n]}
  BY <1>1 DEF ReleaseEntry
<1>4. RegistryConsistent'
  <2>1. used' = {ctxOf'[k] : k \in {m \in KennelNames : ctxOf'[m] # 0}}
    <3>1. ASSUME NEW d \in used' PROVE \E k \in KennelNames : ctxOf'[k] # 0 /\ ctxOf'[k] = d
      <4>1. PICK k \in KennelNames : ctxOf[k] # 0 /\ ctxOf[k] = d
        BY <3>1, <1>3 DEF RegistryConsistent, Registered
      <4> QED BY <4>1, <3>1, <1>2, <1>3
    <3>2. ASSUME NEW k \in KennelNames, ctxOf'[k] # 0 PROVE ctxOf'[k] \in used'
      BY <3>2, <1>1, <1>2, <1>3 DEF RegistryConsistent, Registered
    <3> QED BY <3>1, <3>2
  <2>2. ASSUME NEW m \in KennelNames, NEW k \in KennelNames,
               ctxOf'[m] # 0, ctxOf'[m] = ctxOf'[k]
        PROVE m = k
    BY <2>2, <1>2 DEF RegistryConsistent, Registered
  <2> QED BY <2>1, <2>2 DEF RegistryConsistent, Registered
<1>5. \A q \in Runs : pc'[q] \in Holding => q # r /\ pc[q] \in Holding
  BY DEF TypeOK, Holding
<1>6. \A q \in Runs \ {r} : pc'[q] = pc[q]
  BY DEF TypeOK
<1>7. EntryOwned'
  <2>1. ASSUME NEW m \in KennelNames, ctxOf'[m] # 0
        PROVE \E q \in Runs : pc'[q] \in Holding /\ name'[q] = m
    <3>1. m # n /\ ctxOf[m] # 0
      BY <2>1, <1>2
    <3>2. PICK q \in Runs : pc[q] \in Holding /\ name[q] = m
      BY <3>1 DEF EntryOwned, Registered
    <3> QED BY <3>1, <3>2, <1>6
  <2>2. ASSUME NEW q \in Runs, pc'[q] \in Holding
        PROVE name'[q] \in KennelNames /\ ctxOf'[name'[q]] # 0 /\ ctxOf'[name'[q]] = ctx'[q]
    <3>1. q # r /\ pc[q] \in Holding /\ name[q] # n
      BY <2>2, <1>5 DEF EntryOwned
    <3> QED BY <3>1, <1>2 DEF EntryOwned, Registered
  <2>3. ASSUME NEW q \in Runs, NEW s \in Runs, pc'[q] \in Holding, pc'[s] \in Holding,
               name'[q] = name'[s]
        PROVE q = s
    BY <2>3, <1>5 DEF EntryOwned
  <2> QED BY <2>1, <2>2, <2>3 DEF EntryOwned, Registered
<1> QED BY <1>4, <1>7
----------------------------------------------------------------------------
(* Type correctness, one step per action that writes a typed variable in a *)
(* way its guard alone does not settle.                                    *)

\* The initial state satisfies the inductive invariant.
LEMMA InitIInv == RegistryAssumption /\ Init => IInv
<1> SUFFICES ASSUME RegistryAssumption, Init PROVE IInv
  OBVIOUS
<1>1. TypeOK
  BY DEF Init, TypeOK, BeforeReserve, Ctxs
<1>2. \A r \in Runs : pc[r] = "idle"
  BY DEF Init
<1>3. \A n \in KennelNames : ctxOf[n] = 0
  BY DEF Init
<1>4. RegistryConsistent
  BY <1>3 DEF Init, RegistryConsistent, Registered
<1>5. EntryOwned
  BY <1>2, <1>3 DEF EntryOwned, Registered, Holding
<1>6. EdgesBacked /\ SpawnNamed /\ EdgesDropped /\ StopBound
  BY <1>2 DEF Init, EdgesBacked, SpawnNamed, EdgesDropped, StopBound
<1> QED BY <1>1, <1>4, <1>5, <1>6 DEF IInv

\* Every context a reaper collects is one the allocator gave out.
LEMMA ChildrenAreCtxs ==
    ASSUME TypeOK, NEW c \in Ctxs
    PROVE  Children(c) \subseteq Ctxs
BY DEF Children, TypeOK, Registered, KennelNames

\* Every step keeps every variable in its type; the interesting cases index a
\* function with a name or context that only ownership shows to be valid.
LEMMA TypeOKStep ==
    ASSUME RegistryAssumption, IInv, [Next]_vars
    PROVE  TypeOK'
<1> USE DEF IInv
<1>1. ASSUME NEW r \in Runs, RunStep(r) PROVE TypeOK'
  <2> USE DEF TypeOK, At, BeforeReserve, Holding, Finished
  <2>1. CASE StartSpawned(r)
    BY <2>1 DEF StartSpawned, ReserveGranted, Registered, kernVars, spawnVars, stopVars, SpawnNamed
  <2>2. CASE \/ StartSpawnedRefused(r) \/ NoSink(r) \/ RefusePolicy(r) \/ RefusePrepare(r)
             \/ AbortBuilding(r) \/ AbortConstructed(r) \/ BusLive(r) \/ WaitReturns(r) \/ AbortMint(r)
    BY <2>2 DEF StartSpawnedRefused, NoSink, RefusePolicy, RefusePrepare, AbortBuilding,
                AbortConstructed, BusLive, WaitReturns, AbortMint,
                regVars, kernVars, runVars, spawnVars, stopVars
  <2>3. CASE RegisterSsh(r)
    <3>1. name[r] \in KennelNames
      BY <2>3 DEF RegisterSsh, EntryOwned
    <3> QED BY <2>3, <3>1 DEF RegisterSsh, regVars, kernVars, runVars, spawnVars, stopVars
  <2>4. CASE MakeCgroup(r) \/ Construct(r)
    <3>1. ctx[r] \in Ctxs
      BY <2>4 DEF MakeCgroup, Construct, EntryOwned, Registered
    <3> QED BY <2>4, <3>1 DEF MakeCgroup, Construct, regVars, runVars, spawnVars, stopVars
  <2>5. CASE Unwind(r)
    BY <2>5 DEF Unwind, RemoveCgroup, regVars, runVars, stopVars
  <2>6. CASE FailDeregister(r) \/ DeregisterSsh(r)
    BY <2>6 DEF FailDeregister, DeregisterSsh, regVars, kernVars, runVars, spawnVars, stopVars
  <2>7. CASE FailRelease(r) \/ Release(r)
    BY <2>7 DEF FailRelease, Release, ReleaseEntry, kernVars, runVars, spawnVars, stopVars
  <2>8. CASE SetPid(r)
    <3>1. name[r] \in KennelNames
      BY <2>8 DEF SetPid, EntryOwned
    <3> QED BY <2>8, <3>1 DEF SetPid, kernVars, runVars, spawnVars, stopVars
  <2>9. CASE CheckRequester(r)
    BY <2>9 DEF CheckRequester, KillCgroup, regVars, runVars, spawnVars, stopVars
  <2>10. CASE StopManager(r)
    BY <2>10 DEF StopManager, regVars, kernVars, runVars, stopVars
  <2>11. CASE Teardown(r)
    BY <2>11 DEF Teardown, RemoveCgroup, regVars, runVars, spawnVars, stopVars
  <2>12. CASE ReapScan(r)
    <3>1. ctx[r] \in Ctxs
      BY <2>12 DEF ReapScan, EntryOwned, Registered
    <3>2. Children(ctx[r]) \subseteq Ctxs
      BY <3>1, ChildrenAreCtxs
    <3> QED BY <2>12, <3>2 DEF ReapScan, Agents, regVars, kernVars, runVars, spawnVars, stopVars
  <2>13. CASE \E c \in Ctxs : ReapKill(r, c)
    BY <2>13 DEF ReapKill, KillCgroup, Agents, regVars, runVars, spawnVars, stopVars
  <2>14. CASE EndThread(r)
    <3>1. live' \in [Runs -> Int]
      <4>1. CASE r \in Spawned /\ requester[r] \in Runs
        BY <2>14, <4>1 DEF EndThread
      <4>2. CASE r \notin Spawned
        BY <2>14, <4>2 DEF EndThread
      <4>3. CASE r \in Spawned /\ requester[r] \notin Runs
        <5>1. live' = [q \in Runs |-> IF q = requester[r] THEN live[requester[r]] - 1 ELSE live[q]]
          BY <2>14, <4>3 DEF EndThread
        <5>2. live' = [q \in Runs |-> live[q]]
          BY <5>1, <4>3
        <5> QED BY <5>2
      <4> QED BY <4>1, <4>2, <4>3
    <3> QED BY <2>14, <3>1 DEF EndThread, regVars, kernVars, runVars, stopVars
  <2>15. CASE Enqueue(r)
    <3>1. <<ctx[requester[r]], r>> \in KennelNames
      BY <2>15 DEF Enqueue, SpawnNamed, KennelNames, RegistryAssumption
    <3> QED BY <2>15, <3>1 DEF Enqueue, regVars, kernVars, spawnVars, stopVars
  <2> QED BY <1>1, <2>1, <2>2, <2>3, <2>4, <2>5, <2>6, <2>7, <2>8, <2>9, <2>10, <2>11,
             <2>12, <2>13, <2>14, <2>15 DEF RunStep
<1>2. ASSUME NEW r \in Runs, InitExit(r) \/ LateLooperEnds(r) PROVE TypeOK'
  <2>1. CASE InitExit(r)
    BY <2>1 DEF InitExit, TypeOK, regVars, runVars, spawnVars, stopVars
  <2>2. CASE LateLooperEnds(r)
    BY <2>2 DEF LateLooperEnds, TypeOK, regVars, kernVars, runVars, stopVars
  <2> QED BY <1>2, <2>1, <2>2
<1>3. ASSUME NEW r \in Runs, NEW n \in KennelNames, Start(r, n) \/ StartRefused(r, n) PROVE TypeOK'
  BY <1>3 DEF Start, StartRefused, ReserveGranted, At, TypeOK, BeforeReserve, Holding, Finished,
              regVars, kernVars, runVars, spawnVars, stopVars
<1>4. ASSUME NEW p \in Runs, NEW r \in Runs, ClaimSlot(p, r) PROVE TypeOK'
  BY <1>4 DEF ClaimSlot, At, TypeOK, BeforeReserve, regVars, kernVars, spawnVars, stopVars
<1>5. ASSUME NEW s \in Stops, StopStep(s) PROVE TypeOK'
  <2> USE DEF TypeOK, Agents
  <2>1. CASE StopScan(s)
    <3>1. Children(sctx[s]) \subseteq Ctxs
      BY <2>1, ChildrenAreCtxs DEF StopScan, StopBound
    <3> QED BY <2>1, <3>1 DEF StopScan, regVars, kernVars, runVars, spawnVars
  <2>2. CASE \E c \in Ctxs : StopReap(s, c)
    BY <2>2 DEF StopReap, KillCgroup, regVars, runVars, spawnVars, stopVars
  <2>3. CASE StopKill(s)
    BY <2>3 DEF StopKill, KillCgroup, regVars, runVars, spawnVars
  <2> QED BY <1>5, <2>1, <2>2, <2>3 DEF StopStep
<1>6. ASSUME NEW s \in Stops, NEW n \in KennelNames, StopRead(s, n) PROVE TypeOK'
  <2>1. OwnerOf(n) \in Runs
    BY <1>6 DEF StopRead, EntryOwned, OwnerOf
  <2> QED BY <1>6, <2>1 DEF StopRead, TypeOK, regVars, kernVars, runVars, spawnVars
<1>7. ASSUME NEW s \in Stops, NEW n \in KennelNames, StopRefused(s, n) PROVE TypeOK'
  BY <1>7 DEF StopRefused, TypeOK, regVars, kernVars, runVars, spawnVars
<1>8. CASE UNCHANGED vars
  BY <1>8 DEF vars, TypeOK, regVars, kernVars, runVars, spawnVars, stopVars
<1> QED BY <1>1, <1>2, <1>3, <1>4, <1>5, <1>6, <1>7, <1>8 DEF Next
----------------------------------------------------------------------------
(* Ownership of entries and contexts.                                      *)

\* Every step keeps the registry and the allocator in agreement and every
\* entry owned by exactly one thread.
LEMMA OwnershipStep ==
    ASSUME RegistryAssumption, IInv, [Next]_vars
    PROVE  RegistryConsistent' /\ EntryOwned'
<1> USE DEF IInv
<1>1. ASSUME NEW r \in Runs, RunStep(r) PROVE RegistryConsistent' /\ EntryOwned'
  <2>1. CASE StartSpawned(r)
    <3>1. name' = [name EXCEPT ![r] = name[r]] /\ name[r] \in KennelNames
      BY <2>1 DEF StartSpawned, At, TypeOK, SpawnNamed
    <3>2. /\ pc[r] \notin Holding
          /\ pc' = [pc EXCEPT ![r] = "reserved"]
          /\ ReserveGranted(r, name[r])
      BY <2>1 DEF StartSpawned, At, Holding
    <3> QED BY <3>1, <3>2, ReserveKeeps
  <2>2. CASE FailRelease(r) \/ Release(r)
    <3>1. /\ pc[r] \in Holding
          /\ pc' = [pc EXCEPT ![r] = "exited"]
          /\ ReleaseEntry(name[r], ctx[r])
          /\ UNCHANGED <<name, ctx>>
      BY <2>2 DEF FailRelease, Release, At, Holding, runVars
    <3> QED BY <3>1, ReleaseKeeps
  <2>3. CASE Enqueue(r)
    <3>1. /\ pc[r] \notin Holding /\ "queued" \notin Holding
          /\ pc' = [pc EXCEPT ![r] = "queued"]
          /\ UNCHANGED <<used, ctxOf, ctx>>
          /\ \A s \in Runs \ {r} : name'[s] = name[s]
      BY <2>3 DEF Enqueue, At, Holding, regVars, TypeOK
    <3> QED BY <3>1, PhaseMove
  <2>4. CASE \/ StartSpawnedRefused(r) \/ NoSink(r) \/ EndThread(r) \/ AbortMint(r)
    <3>1. PICK q : /\ pc[r] \notin Holding /\ q \notin Holding
                   /\ pc' = [pc EXCEPT ![r] = q]
                   /\ UNCHANGED <<used, ctxOf, ctx, name>>
      BY <2>4 DEF StartSpawnedRefused, NoSink, EndThread, AbortMint, At, Holding, regVars, runVars
    <3> QED BY <3>1, PhaseMove
  <2>5. CASE \/ RefusePolicy(r) \/ RegisterSsh(r) \/ RefusePrepare(r)
             \/ MakeCgroup(r) \/ AbortBuilding(r) \/ Construct(r)
             \/ AbortConstructed(r) \/ Unwind(r) \/ FailDeregister(r)
    <3>1. PICK q : /\ pc[r] \in Holding /\ q \in Holding
                   /\ pc' = [pc EXCEPT ![r] = q]
                   /\ UNCHANGED <<used, ctxOf, ctx, name>>
      BY <2>5 DEF RefusePolicy, RegisterSsh, RefusePrepare, MakeCgroup, AbortBuilding, Construct,
                  AbortConstructed, Unwind, FailDeregister, At, Holding, regVars, runVars
    <3> QED BY <3>1, PhaseMove
  <2>6. CASE \/ BusLive(r) \/ SetPid(r) \/ CheckRequester(r)
             \/ WaitReturns(r) \/ StopManager(r) \/ Teardown(r) \/ ReapScan(r) \/ DeregisterSsh(r)
    <3>1. PICK q : /\ pc[r] \in Holding /\ q \in Holding
                   /\ pc' = [pc EXCEPT ![r] = q]
                   /\ UNCHANGED <<used, ctxOf, ctx, name>>
      BY <2>6 DEF BusLive, SetPid, CheckRequester, WaitReturns, StopManager, Teardown, ReapScan,
                  DeregisterSsh, At, Holding, regVars, runVars
    <3> QED BY <3>1, PhaseMove
  <2>7. CASE \E c \in Ctxs : ReapKill(r, c)
    BY <2>7 DEF ReapKill, regVars, runVars, RegistryConsistent, EntryOwned, Registered
  <2> QED BY <1>1, <2>1, <2>2, <2>3, <2>4, <2>5, <2>6, <2>7 DEF RunStep
<1>2. ASSUME NEW r \in Runs, NEW n \in KennelNames, Start(r, n) PROVE RegistryConsistent' /\ EntryOwned'
  <2>1. /\ pc[r] \notin Holding
        /\ pc' = [pc EXCEPT ![r] = "reserved"]
        /\ ReserveGranted(r, n)
        /\ name' = [name EXCEPT ![r] = n]
    BY <1>2 DEF Start, At, Holding
  <2> QED BY <2>1, ReserveKeeps
<1>3. ASSUME NEW r \in Runs, NEW n \in KennelNames, StartRefused(r, n)
      PROVE RegistryConsistent' /\ EntryOwned'
  <2>1. PICK q : /\ pc[r] \notin Holding /\ q \notin Holding
                 /\ pc' = [pc EXCEPT ![r] = q]
                 /\ UNCHANGED <<used, ctxOf, ctx, name>>
    BY <1>3 DEF StartRefused, At, Holding, regVars, runVars
  <2> QED BY <2>1, PhaseMove
<1>4. ASSUME UNCHANGED <<used, ctxOf, ctx, name, pc>> PROVE RegistryConsistent' /\ EntryOwned'
  BY <1>4 DEF RegistryConsistent, EntryOwned, Registered
<1>5. ASSUME NEW r \in Runs, InitExit(r) \/ LateLooperEnds(r) PROVE RegistryConsistent' /\ EntryOwned'
  BY <1>4, <1>5 DEF InitExit, LateLooperEnds, regVars, runVars
<1>6. ASSUME NEW s \in Stops, StopStep(s) PROVE RegistryConsistent' /\ EntryOwned'
  BY <1>4, <1>6 DEF StopStep, StopScan, StopReap, StopKill, regVars, runVars
<1>7. ASSUME NEW s \in Stops, NEW n \in KennelNames, StopRead(s, n) \/ StopRefused(s, n)
      PROVE RegistryConsistent' /\ EntryOwned'
  BY <1>4, <1>7 DEF StopRead, StopRefused, regVars, runVars
<1>8. ASSUME NEW p \in Runs, NEW r \in Runs, ClaimSlot(p, r) PROVE RegistryConsistent' /\ EntryOwned'
  <2>1. PICK q : /\ pc[r] \notin Holding /\ q \notin Holding
                 /\ pc' = [pc EXCEPT ![r] = q]
                 /\ UNCHANGED <<used, ctxOf, ctx, name>>
    BY <1>8 DEF ClaimSlot, At, Holding, regVars
  <2> QED BY <2>1, PhaseMove
<1>9. CASE UNCHANGED vars
  BY <1>4, <1>9 DEF vars, regVars, runVars
<1> QED BY <1>1, <1>2, <1>3, <1>5, <1>6, <1>7, <1>8, <1>9 DEF Next
----------------------------------------------------------------------------
(* SSH edges.  The argument: only RegisterSsh adds an edge, for a name its *)
(* thread holds; a thread passes deregister_ssh before it releases; and no *)
(* other thread can hold the same name meanwhile (EntryOwned).             *)

\* Every step keeps the bastion's edges backed by registrations.
LEMMA EdgesStep ==
    ASSUME RegistryAssumption, IInv, [Next]_vars
    PROVE  EdgesBacked' /\ EdgesDropped'
<1> USE DEF IInv
<1>1. ASSUME NEW r \in Runs, RegisterSsh(r) PROVE EdgesBacked' /\ EdgesDropped'
  <2>1. pc[r] \in Holding /\ Registered(name[r])
    BY <1>1 DEF RegisterSsh, At, Holding, EntryOwned
  <2>2. \A q \in Runs \ {r} : pc[q] \in {"silent", "failed"} => name[q] # name[r]
    BY <2>1 DEF EntryOwned, Holding
  <2>3. EdgesBacked'
    BY <1>1, <2>1 DEF RegisterSsh, EdgesBacked, Registered, regVars
  <2>4. EdgesDropped'
    BY <1>1, <2>2 DEF RegisterSsh, At, EdgesDropped, runVars, TypeOK
  <2> QED BY <2>3, <2>4
<1>2. ASSUME NEW r \in Runs, FailDeregister(r) \/ DeregisterSsh(r) PROVE EdgesBacked' /\ EdgesDropped'
  BY <1>2 DEF FailDeregister, DeregisterSsh, At, EdgesBacked, EdgesDropped, Registered, regVars, runVars, TypeOK
<1>3. ASSUME NEW r \in Runs, FailRelease(r) \/ Release(r) PROVE EdgesBacked' /\ EdgesDropped'
  <2>1. name[r] \notin edges
    BY <1>3 DEF FailRelease, Release, At, EdgesDropped
  <2>2. \A n \in edges : ctxOf'[n] = ctxOf[n]
    BY <1>3, <2>1 DEF FailRelease, Release, ReleaseEntry, TypeOK
  <2>3. EdgesBacked'
    BY <1>3, <2>2 DEF FailRelease, Release, EdgesBacked, Registered
  <2>4. EdgesDropped'
    BY <1>3 DEF FailRelease, Release, At, EdgesDropped, runVars, TypeOK
  <2> QED BY <2>3, <2>4
<1>4. ASSUME NEW r \in Runs, NEW n \in KennelNames,
             Start(r, n) \/ (StartSpawned(r) /\ n = name[r])
      PROVE EdgesBacked' /\ EdgesDropped'
  <2>1. PICK c \in Ctxs : ctxOf' = [ctxOf EXCEPT ![n] = c] /\ c # 0
    BY <1>4 DEF Start, StartSpawned, ReserveGranted, Ctxs, RegistryAssumption
  <2>2. \A m \in KennelNames : ctxOf[m] # 0 => ctxOf'[m] # 0
    BY <2>1 DEF TypeOK
  <2>3. EdgesBacked'
    BY <1>4, <2>2 DEF Start, StartSpawned, EdgesBacked, Registered, TypeOK
  <2>4. pc'[r] = "reserved" /\ \A q \in Runs \ {r} : pc'[q] = pc[q] /\ name'[q] = name[q]
    BY <1>4 DEF Start, StartSpawned, At, TypeOK
  <2>5. EdgesDropped'
    BY <1>4, <2>4 DEF Start, StartSpawned, EdgesDropped
  <2> QED BY <2>3, <2>5
\* Every other step leaves the edges, the entries and the last two phases of
\* a run alone.
<1>5. ASSUME UNCHANGED <<edges, ctxOf>>,
             \A q \in Runs : pc'[q] \in {"silent", "failed"} => pc[q] = pc'[q] /\ name'[q] = name[q]
      PROVE EdgesBacked' /\ EdgesDropped'
  BY <1>5 DEF EdgesBacked, EdgesDropped, Registered
<1>6. ASSUME NEW r \in Runs,
             \/ StartSpawnedRefused(r) \/ NoSink(r) \/ RefusePolicy(r) \/ RefusePrepare(r)
             \/ MakeCgroup(r) \/ AbortBuilding(r) \/ Construct(r) \/ AbortConstructed(r) \/ Unwind(r)
      PROVE EdgesBacked' /\ EdgesDropped'
  BY <1>5, <1>6 DEF StartSpawnedRefused, NoSink, RefusePolicy, RefusePrepare, MakeCgroup, AbortBuilding,
     Construct, AbortConstructed, Unwind, At, TypeOK, regVars, runVars
<1>7. ASSUME NEW r \in Runs,
             \/ BusLive(r) \/ SetPid(r) \/ CheckRequester(r) \/ WaitReturns(r) \/ StopManager(r)
             \/ Teardown(r) \/ ReapScan(r) \/ EndThread(r) \/ AbortMint(r)
             \/ \E c \in Ctxs : ReapKill(r, c)
      PROVE EdgesBacked' /\ EdgesDropped'
  BY <1>5, <1>7 DEF BusLive, SetPid, CheckRequester, WaitReturns, StopManager, Teardown, ReapScan,
     EndThread, AbortMint, ReapKill, At, TypeOK, regVars, runVars
<1>8. ASSUME NEW r \in Runs, Enqueue(r) PROVE EdgesBacked' /\ EdgesDropped'
  BY <1>5, <1>8 DEF Enqueue, At, TypeOK, regVars
<1>9. ASSUME NEW r \in Runs, InitExit(r) \/ LateLooperEnds(r) PROVE EdgesBacked' /\ EdgesDropped'
  BY <1>5, <1>9 DEF InitExit, LateLooperEnds, regVars, runVars
<1>10. ASSUME NEW r \in Runs, NEW n \in KennelNames, StartRefused(r, n) PROVE EdgesBacked' /\ EdgesDropped'
  BY <1>5, <1>10 DEF StartRefused, At, TypeOK, regVars, runVars
<1>11. ASSUME NEW p \in Runs, NEW r \in Runs, ClaimSlot(p, r) PROVE EdgesBacked' /\ EdgesDropped'
  BY <1>5, <1>11 DEF ClaimSlot, At, TypeOK, regVars
<1>12. ASSUME NEW s \in Stops, StopStep(s) PROVE EdgesBacked' /\ EdgesDropped'
  BY <1>5, <1>12 DEF StopStep, StopScan, StopReap, StopKill, regVars, runVars
<1>13. ASSUME NEW s \in Stops, NEW n \in KennelNames, StopRead(s, n) \/ StopRefused(s, n)
       PROVE EdgesBacked' /\ EdgesDropped'
  BY <1>5, <1>13 DEF StopRead, StopRefused, regVars, runVars
<1>14. CASE UNCHANGED vars
  BY <1>5, <1>14 DEF vars, regVars, runVars
<1>15. ASSUME NEW r \in Runs, StartSpawned(r) PROVE EdgesBacked' /\ EdgesDropped'
  BY <1>4, <1>15 DEF StartSpawned, At, SpawnNamed
<1>16. ASSUME NEW r \in Runs, RunStep(r) PROVE EdgesBacked' /\ EdgesDropped'
  BY <1>1, <1>2, <1>3, <1>6, <1>7, <1>8, <1>15, <1>16 DEF RunStep
<1> QED BY <1>4, <1>9, <1>10, <1>11, <1>12, <1>13, <1>14, <1>16 DEF Next

----------------------------------------------------------------------------
(* The bookkeeping conjuncts.                                              *)

\* Every step keeps minted siblings tied to a requester with a context.
LEMMA SpawnNamedStep ==
    ASSUME RegistryAssumption, IInv, [Next]_vars
    PROVE  SpawnNamed'
<1> USE DEF IInv
<1>1. ASSUME NEW p \in Runs, NEW r \in Runs, ClaimSlot(p, r) PROVE SpawnNamed'
  <2>1. ctx[p] \in Ctxs
    BY <1>1 DEF ClaimSlot, Serving, Holding, EntryOwned, Registered, TypeOK
  <2> QED BY <1>1, <2>1 DEF ClaimSlot, At, SpawnNamed, TypeOK
<1>2. ASSUME NEW r \in Runs, Enqueue(r) PROVE SpawnNamed'
  <2>1. <<ctx[requester[r]], r>> \in KennelNames
    BY <1>2 DEF Enqueue, At, SpawnNamed, KennelNames, RegistryAssumption
  <2> QED BY <1>2, <2>1 DEF Enqueue, At, SpawnNamed, TypeOK
<1>3. ASSUME NEW r \in Runs, NEW n \in KennelNames,
             Start(r, n) \/ (StartSpawned(r) /\ n = name[r])
      PROVE SpawnNamed'
  <2>1. PICK c \in Ctxs : ctx' = [ctx EXCEPT ![r] = c]
    BY <1>3 DEF Start, StartSpawned, ReserveGranted
  <2>2. \A q \in Runs : ctx[q] \in Ctxs => ctx'[q] \in Ctxs
    BY <2>1 DEF TypeOK
  <2>3. /\ pc'[r] = "reserved" /\ UNCHANGED requester
        /\ \A q \in Runs \ {r} : pc'[q] = pc[q] /\ name'[q] = name[q]
    BY <1>3 DEF Start, StartSpawned, At, TypeOK
  <2> QED BY <2>2, <2>3 DEF SpawnNamed
<1>4. ASSUME UNCHANGED <<name, ctx, requester>>,
             \A q \in Runs : pc'[q] \in {"minting", "queued"} => pc[q] = pc'[q]
      PROVE SpawnNamed'
  BY <1>4 DEF SpawnNamed
<1>5. ASSUME NEW r \in Runs,
             \/ StartSpawnedRefused(r) \/ NoSink(r) \/ RefusePolicy(r) \/ RegisterSsh(r)
             \/ RefusePrepare(r) \/ MakeCgroup(r) \/ AbortBuilding(r) \/ Construct(r)
             \/ AbortConstructed(r) \/ Unwind(r) \/ FailDeregister(r) \/ FailRelease(r)
      PROVE SpawnNamed'
  BY <1>4, <1>5 DEF StartSpawnedRefused, NoSink, RefusePolicy, RegisterSsh, RefusePrepare, MakeCgroup,
     AbortBuilding, Construct, AbortConstructed, Unwind, FailDeregister, FailRelease, At, TypeOK, runVars
<1>6. ASSUME NEW r \in Runs,
             \/ BusLive(r) \/ SetPid(r) \/ CheckRequester(r) \/ WaitReturns(r) \/ StopManager(r)
             \/ Teardown(r) \/ ReapScan(r) \/ EndThread(r) \/ AbortMint(r) \/ DeregisterSsh(r)
             \/ Release(r) \/ \E c \in Ctxs : ReapKill(r, c)
      PROVE SpawnNamed'
  BY <1>4, <1>6 DEF BusLive, SetPid, CheckRequester, WaitReturns, StopManager, Teardown, ReapScan,
     EndThread, AbortMint, DeregisterSsh, Release, ReapKill, At, TypeOK, runVars
<1>7. ASSUME NEW r \in Runs, InitExit(r) \/ LateLooperEnds(r) PROVE SpawnNamed'
  BY <1>4, <1>7 DEF InitExit, LateLooperEnds, runVars
<1>8. ASSUME NEW r \in Runs, NEW n \in KennelNames, StartRefused(r, n) PROVE SpawnNamed'
  BY <1>4, <1>8 DEF StartRefused, At, TypeOK, runVars
<1>9. ASSUME NEW s \in Stops, StopStep(s) PROVE SpawnNamed'
  BY <1>4, <1>9 DEF StopStep, StopScan, StopReap, StopKill, runVars
<1>10. ASSUME NEW s \in Stops, NEW n \in KennelNames, StopRead(s, n) \/ StopRefused(s, n)
       PROVE SpawnNamed'
  BY <1>4, <1>10 DEF StopRead, StopRefused, runVars
<1>11. CASE UNCHANGED vars
  BY <1>4, <1>11 DEF vars, runVars
<1>12. ASSUME NEW r \in Runs, RunStep(r) PROVE SpawnNamed'
  <2>1. CASE StartSpawned(r)
    BY <2>1, <1>3 DEF StartSpawned, At, SpawnNamed
  <2> QED BY <2>1, <1>2, <1>5, <1>6, <1>12 DEF RunStep
<1> QED BY <1>1, <1>3, <1>7, <1>8, <1>9, <1>10, <1>11, <1>12 DEF Next

\* Every step keeps a scanning Stop bound to a real context.
LEMMA StopBoundStep ==
    ASSUME RegistryAssumption, IInv, [Next]_vars
    PROVE  StopBound'
<1> USE DEF IInv
<1>1. ASSUME NEW s \in Stops, NEW n \in KennelNames, StopRead(s, n) \/ StopRefused(s, n)
      PROVE StopBound'
  BY <1>1 DEF StopRead, StopRefused, StopBound, TypeOK, Registered
<1>2. ASSUME NEW s \in Stops, StopStep(s) PROVE StopBound'
  BY <1>2 DEF StopStep, StopScan, StopReap, StopKill, StopBound, TypeOK, stopVars
<1>3. ASSUME UNCHANGED stopVars PROVE StopBound'
  BY <1>3 DEF StopBound, stopVars
<1>4. ASSUME NEW r \in Runs, RunStep(r) PROVE UNCHANGED stopVars
  BY <1>4 DEF RunStep, StartSpawned, StartSpawnedRefused, NoSink, RefusePolicy, RegisterSsh,
     RefusePrepare, MakeCgroup, AbortBuilding, Construct, AbortConstructed, Unwind, FailDeregister,
     FailRelease, BusLive, SetPid, CheckRequester, WaitReturns, StopManager, Teardown, ReapScan,
     ReapKill, DeregisterSsh, Release, EndThread, AbortMint, Enqueue
<1>5. ASSUME NEW r \in Runs, NEW n \in KennelNames, Start(r, n) \/ StartRefused(r, n)
      PROVE UNCHANGED stopVars
  BY <1>5 DEF Start, StartRefused
<1>6. ASSUME NEW p \in Runs, NEW r \in Runs, ClaimSlot(p, r) PROVE UNCHANGED stopVars
  BY <1>6 DEF ClaimSlot
<1>7. ASSUME NEW r \in Runs, InitExit(r) \/ LateLooperEnds(r) PROVE UNCHANGED stopVars
  BY <1>7 DEF InitExit, LateLooperEnds
<1>8. CASE UNCHANGED vars
  BY <1>3, <1>8 DEF vars
<1> QED BY <1>1, <1>2, <1>3, <1>4, <1>5, <1>6, <1>7, <1>8 DEF Next
----------------------------------------------------------------------------
(* The theorems.                                                           *)

\* IInv is an inductive invariant of the daemon.
THEOREM IInvInvariant == Spec => []IInv
<1>1. Init => IInv
  BY InitIInv, RegistryAssumption
<1>2. IInv /\ [Next]_vars => IInv'
  BY TypeOKStep, OwnershipStep, EdgesStep, SpawnNamedStep, StopBoundStep, RegistryAssumption
     DEF IInv
<1> QED BY <1>1, <1>2, PTL DEF Spec

\* Every variable keeps its type, whatever requests, exits and failures the
\* daemon meets.
THEOREM TypeCorrect == Spec => []TypeOK
<1>1. IInv => TypeOK
  BY DEF IInv
<1> QED BY <1>1, IInvInvariant, PTL

\* The allocator's `used` set is exactly the contexts of the registered
\* kennels, and no two kennels share a context (reserve, release).
THEOREM RegistryAndAllocatorAgree == Spec => []RegistryConsistent
<1>1. IInv => RegistryConsistent
  BY DEF IInv
<1> QED BY <1>1, IInvInvariant, PTL

\* Every entry has exactly one run_kennel thread that will release it, and
\* every thread past reserve still has its entry: no path of run_kennel leaks
\* a name or releases one twice.  And no SSH edge outlives the registration of
\* its kennel (deregister_ssh before release, in fail() and at the end).
THEOREM EveryEntryAccounted == Spec => []EntriesAccounted
<1>1. IInv => EntriesAccounted
  BY DEF IInv, EntriesAccounted
<1> QED BY <1>1, IInvInvariant, PTL

\* The registry implements the abstract context pool: every step of the
\* daemon admits one name, retires one name, or leaves the pool alone.
THEOREM RegistryImplementsPool == Spec => PoolSpec
<1>1. Init => Pool!PoolInit
  BY DEF Init, Pool!PoolInit
<1>2. IInv /\ [Next]_vars => [Pool!PoolNext]_ctxOf
  <2> SUFFICES ASSUME IInv, [Next]_vars, ctxOf' # ctxOf
               PROVE  Pool!PoolNext
    OBVIOUS
  <2> USE DEF IInv
  <2>1. ASSUME NEW r \in Runs, NEW n \in KennelNames, ReserveGranted(r, n)
        PROVE  Pool!PoolNext
    <3>1. PICK c \in Ctxs : c \notin used /\ ctxOf' = [ctxOf EXCEPT ![n] = c]
      BY <2>1 DEF ReserveGranted, LowestFree
    <3>2. \A m \in KennelNames : ctxOf[m] # c
      BY <3>1, RegistryAssumption DEF RegistryConsistent, Registered, Ctxs, RegistryAssumption
    <3>3. Pool!Admit(n)
      BY <2>1, <3>1, <3>2 DEF Pool!Admit, ReserveGranted, Registered
    <3> QED BY <3>3 DEF Pool!PoolNext
  <2>2. ASSUME NEW r \in Runs, pc[r] \in Holding, ReleaseEntry(name[r], ctx[r])
        PROVE  Pool!PoolNext
    <3>1. name[r] \in KennelNames /\ ctxOf[name[r]] # 0
      BY <2>2 DEF EntryOwned, Registered
    <3>2. Pool!Retire(name[r])
      BY <2>2, <3>1 DEF Pool!Retire, ReleaseEntry
    <3> QED BY <3>1, <3>2 DEF Pool!PoolNext
  <2>3. ASSUME NEW r \in Runs, RunStep(r) PROVE Pool!PoolNext
    <3>1. CASE StartSpawned(r)
      BY <3>1, <2>1 DEF StartSpawned, At, SpawnNamed
    <3>2. CASE FailRelease(r) \/ Release(r)
      BY <3>2, <2>2 DEF FailRelease, Release, At, Holding
    <3>3. CASE ~ (StartSpawned(r) \/ FailRelease(r) \/ Release(r))
      BY <2>3, <3>3 DEF RunStep, StartSpawnedRefused, NoSink, RefusePolicy, RegisterSsh,
         RefusePrepare, MakeCgroup, AbortBuilding, Construct, AbortConstructed, Unwind,
         FailDeregister, BusLive, SetPid, CheckRequester, WaitReturns, StopManager, Teardown,
         ReapScan, ReapKill, DeregisterSsh, EndThread, AbortMint, Enqueue, regVars
    <3> QED BY <3>1, <3>2, <3>3
  <2>4. ASSUME NEW r \in Runs, NEW n \in KennelNames, Start(r, n) PROVE Pool!PoolNext
    BY <2>4, <2>1 DEF Start
  <2>5. ~ UNCHANGED vars
    BY DEF vars, regVars
  <2>6. ~ \E r \in Runs, n \in KennelNames : StartRefused(r, n)
    BY DEF StartRefused, regVars
  <2>7. ~ \E r \in Runs : InitExit(r) \/ LateLooperEnds(r)
    BY DEF InitExit, LateLooperEnds, regVars
  <2>8. ~ \E p \in Runs, r \in Runs : ClaimSlot(p, r)
    BY DEF ClaimSlot, regVars
  <2>9. ~ \E s \in Stops : StopStep(s)
    BY DEF StopStep, StopScan, StopReap, StopKill, regVars
  <2>10. ~ \E s \in Stops, n \in KennelNames : StopRead(s, n) \/ StopRefused(s, n)
    BY DEF StopRead, StopRefused, regVars
  <2> QED BY <2>3, <2>4, <2>5, <2>6, <2>7, <2>8, <2>9, <2>10 DEF Next
<1> QED BY <1>1, <1>2, IInvInvariant, PTL DEF Spec, PoolSpec, Pool!PoolSpec
----------------------------------------------------------------------------
(* The cgroups.  The argument: a context has one holder at a time, so the  *)
(* workloads that may run in a cgroup are those of its holder; a child an  *)
(* unwound bring-up has left behind may linger there, but serves nobody.   *)

\* A kennel-bin-init lives in the cgroup of its own run, whose directory
\* exists; a run that has not reserved has no context; and a run about to
\* call the factory has its directory.
CgroupInv ==
    /\ \A c \in Ctxs : \A r \in procs[c] : ctx[r] = c /\ c \in dirs
    /\ \A r \in Runs : pc[r] \in BeforeReserve => ctx[r] = 0
    /\ \A r \in Runs : pc[r] = "building" => ctx[r] \in dirs

\* No two threads hold the same context.
LEMMA ContextOwned ==
    ASSUME IInv, NEW q \in Runs, NEW r \in Runs,
           pc[q] \in Holding, pc[r] \in Holding, ctx[q] = ctx[r]
    PROVE  q = r
BY DEF IInv, EntryOwned, RegistryConsistent

\* Every step keeps each kennel-bin-init in its own run's cgroup.
LEMMA CgroupStep ==
    ASSUME RegistryAssumption, IInv, CgroupInv, [Next]_vars
    PROVE  CgroupInv'
<1> USE DEF IInv, CgroupInv
<1>1. ASSUME NEW r \in Runs, NEW n \in KennelNames, Start(r, n) \/ StartSpawned(r) PROVE CgroupInv'
  <2>1. pc[r] \in BeforeReserve /\ pc' = [pc EXCEPT ![r] = "reserved"] /\ UNCHANGED <<procs, dirs>>
    BY <1>1 DEF Start, StartSpawned, At, BeforeReserve, kernVars
  <2>2. PICK c \in Ctxs : ctx' = [ctx EXCEPT ![r] = c]
    BY <1>1 DEF Start, StartSpawned, ReserveGranted
  <2>3. \A d \in Ctxs : r \notin procs[d]
    BY <2>1 DEF Ctxs
  <2> QED BY <2>1, <2>2, <2>3 DEF TypeOK, BeforeReserve
<1>2. ASSUME NEW r \in Runs, MakeCgroup(r) \/ Construct(r) PROVE CgroupInv'
  BY <1>2 DEF MakeCgroup, Construct, At, TypeOK, BeforeReserve, runVars
<1>3. ASSUME NEW r \in Runs, Unwind(r) \/ Teardown(r) PROVE CgroupInv'
  <2>1. pc[r] \in Holding
    BY <1>3 DEF Unwind, Teardown, At, Holding
  <2>2. \A q \in Runs : pc[q] = "building" => ctx[q] # ctx[r]
    BY <1>3, <2>1, ContextOwned DEF Unwind, Teardown, At, Holding
  <2> QED BY <1>3, <2>2 DEF Unwind, Teardown, RemoveCgroup, At, TypeOK, BeforeReserve, runVars
\* Every other step lets processes end and starts none.
<1>4. ASSUME UNCHANGED <<ctx, dirs>>, \A c \in Ctxs : procs'[c] \subseteq procs[c],
             \A q \in Runs : pc'[q] \in BeforeReserve \cup {"building"} =>
                               pc'[q] = pc[q] \/ (pc[q] \in BeforeReserve /\ pc'[q] \in BeforeReserve)
      PROVE CgroupInv'
  BY <1>4 DEF BeforeReserve
<1>5. ASSUME NEW r \in Runs,
             \/ StartSpawnedRefused(r) \/ NoSink(r) \/ RefusePolicy(r) \/ RegisterSsh(r)
             \/ RefusePrepare(r) \/ AbortBuilding(r)
             \/ AbortConstructed(r) \/ FailDeregister(r) \/ FailRelease(r)
             \/ BusLive(r) \/ SetPid(r) \/ WaitReturns(r) \/ StopManager(r)
             \/ ReapScan(r) \/ EndThread(r) \/ AbortMint(r) \/ Enqueue(r) \/ DeregisterSsh(r) \/ Release(r)
      PROVE CgroupInv'
  BY <1>4, <1>5 DEF StartSpawnedRefused, NoSink, RefusePolicy, RegisterSsh, RefusePrepare,
     AbortBuilding, AbortConstructed, FailDeregister, FailRelease, BusLive, SetPid,
     WaitReturns, StopManager, ReapScan, EndThread, AbortMint, Enqueue, DeregisterSsh, Release,
     At, TypeOK, BeforeReserve, kernVars, runVars
<1>6. ASSUME NEW r \in Runs,
             CheckRequester(r) \/ InitExit(r) \/ LateLooperEnds(r) \/ \E c \in Ctxs : ReapKill(r, c)
      PROVE CgroupInv'
  BY <1>4, <1>6 DEF CheckRequester, InitExit, LateLooperEnds, ReapKill, KillCgroup, At, TypeOK,
     BeforeReserve, kernVars, runVars
<1>7. ASSUME NEW r \in Runs, NEW n \in KennelNames, StartRefused(r, n) PROVE CgroupInv'
  BY <1>4, <1>7 DEF StartRefused, At, TypeOK, BeforeReserve, kernVars, runVars
<1>8. ASSUME NEW p \in Runs, NEW r \in Runs, ClaimSlot(p, r) PROVE CgroupInv'
  BY <1>4, <1>8 DEF ClaimSlot, At, TypeOK, BeforeReserve, kernVars
<1>9. ASSUME NEW s \in Stops, StopStep(s) PROVE CgroupInv'
  BY <1>4, <1>9 DEF StopStep, StopScan, StopReap, StopKill, KillCgroup, TypeOK, kernVars, runVars
<1>10. ASSUME NEW s \in Stops, NEW n \in KennelNames, StopRead(s, n) \/ StopRefused(s, n) PROVE CgroupInv'
  BY <1>4, <1>10 DEF StopRead, StopRefused, kernVars, runVars
<1>11. CASE UNCHANGED vars
  BY <1>4, <1>11 DEF vars, kernVars, runVars
<1>12. ASSUME NEW r \in Runs, RunStep(r) PROVE CgroupInv'
  <2>1. CASE StartSpawned(r)
    BY <2>1, <1>1 DEF StartSpawned, At, SpawnNamed
  <2> QED BY <2>1, <1>2, <1>3, <1>5, <1>6, <1>12 DEF RunStep
<1> QED BY <1>1, <1>6, <1>7, <1>8, <1>9, <1>10, <1>11, <1>12 DEF Next

\* Each kennel-bin-init stays in the cgroup of its own run.
THEOREM CgroupInvariant == Spec => [](IInv /\ CgroupInv)
<1>1. Init => CgroupInv
  BY DEF Init, CgroupInv, BeforeReserve
<1>2. IInv /\ CgroupInv /\ [Next]_vars => CgroupInv'
  BY CgroupStep, RegistryAssumption
<1> QED BY <1>1, <1>2, IInvInvariant, PTL DEF Spec

\* Two workloads never run in the same cgroup, whatever bring-ups failed and
\* whatever contexts were reused in between, so the membership of a cgroup
\* identifies a kennel (kennel_cgroup, pid_to_ctx).
THEOREM OneWorkloadPerCgroupTheorem == Spec => []OneWorkloadPerCgroup
<1>1. IInv /\ CgroupInv => OneWorkloadPerCgroup
  <2> SUFFICES ASSUME IInv, CgroupInv, NEW c \in Ctxs, NEW q \in procs[c], NEW r \in procs[c],
                      pc[q] \in Serving, pc[r] \in Serving
               PROVE  q = r
    BY DEF OneWorkloadPerCgroup
  <2>1. q \in Runs /\ r \in Runs /\ ctx[q] = ctx[r]
    BY DEF IInv, TypeOK, CgroupInv
  <2> QED BY <2>1, ContextOwned DEF Serving, Holding
<1> QED BY <1>1, CgroupInvariant, PTL

----------------------------------------------------------------------------
(* The account of max_instances.  The argument: a slot belongs to a        *)
(* sibling from its claim until its thread ends; every step in between     *)
(* leaves both the count and the set of such siblings alone.               *)

Slots(p) == {q \in Spawned : requester[q] = p /\ pc[q] # "done"}

\* The siblings of a requester are finitely many, however large Spawned is;
\* one that has asked for nothing yet belongs to nobody.
SlotsInv ==
    /\ \A p \in Runs : IsFiniteSet(Slots(p)) /\ live[p] = Cardinality(Slots(p))
                       /\ live[p] <= MaxInstances
    /\ \A r \in Spawned : IF pc[r] = "idle" THEN requester[r] = NoRun ELSE requester[r] \in Runs

\* Every step keeps the count of live spawns exact.
LEMMA SlotsStep ==
    ASSUME RegistryAssumption, IInv, SlotsInv, [Next]_vars
    PROVE  SlotsInv'
<1> USE DEF IInv
<1>1. ASSUME NEW p \in Runs, NEW r \in Runs, ClaimSlot(p, r) PROVE SlotsInv'
  <2>1. /\ r \in Spawned /\ pc[r] = "idle" /\ live[p] < MaxInstances
        /\ pc' = [pc EXCEPT ![r] = "minting"]
        /\ requester' = [requester EXCEPT ![r] = p]
        /\ live' = [live EXCEPT ![p] = @ + 1]
    BY <1>1 DEF ClaimSlot, At
  <2>2. requester[r] = NoRun /\ NoRun \notin Runs /\ r \in Runs
    BY <2>1 DEF SlotsInv, RegistryAssumption, Runs
  <2>3. /\ pc'[r] = "minting" /\ requester'[r] = p
        /\ \A q \in Runs \ {r} : pc'[q] = pc[q] /\ requester'[q] = requester[q]
    BY <2>1, <2>2 DEF TypeOK
  <2>4. Slots(p)' = Slots(p) \cup {r} /\ r \notin Slots(p)
    BY <2>1, <2>2, <2>3 DEF Slots, Runs
  <2>5. \A x \in Runs \ {p} : Slots(x)' = Slots(x)
    BY <2>1, <2>2, <2>3 DEF Slots, Runs
  <2>6. \A x \in Runs : live'[x] = IF x = p THEN live[p] + 1 ELSE live[x]
    BY <2>1 DEF TypeOK
  <2>7. IsFiniteSet(Slots(p)') /\ Cardinality(Slots(p)') = Cardinality(Slots(p)) + 1
    BY <2>4, FS_AddElement DEF SlotsInv
  <2>8. \A x \in Spawned : IF pc'[x] = "idle" THEN requester'[x] = NoRun ELSE requester'[x] \in Runs
    BY <2>3 DEF SlotsInv, Runs
  <2>9. live[p] \in Int /\ MaxInstances \in Int
    BY DEF TypeOK, RegistryAssumption
  <2>10. live'[p] = Cardinality(Slots(p)') /\ live'[p] <= MaxInstances
    BY <2>1, <2>6, <2>7, <2>9 DEF SlotsInv
  <2>11. \A x \in Runs \ {p} : /\ IsFiniteSet(Slots(x)') /\ live'[x] = Cardinality(Slots(x)')
                               /\ live'[x] <= MaxInstances
    BY <2>5, <2>6 DEF SlotsInv
  <2> QED BY <2>7, <2>8, <2>10, <2>11 DEF SlotsInv
<1>2. ASSUME NEW r \in Runs, EndThread(r) PROVE SlotsInv'
  <2>1. pc[r] = "exited" /\ pc' = [pc EXCEPT ![r] = "done"] /\ UNCHANGED requester
    BY <1>2 DEF EndThread, At, runVars
  <2>2. pc'[r] = "done" /\ \A q \in Runs \ {r} : pc'[q] = pc[q]
    BY <2>1 DEF TypeOK
  <2>3. \A x \in Spawned : IF pc'[x] = "idle" THEN requester'[x] = NoRun ELSE requester'[x] \in Runs
    BY <2>1, <2>2 DEF SlotsInv, Runs
  <2>4. CASE r \notin Spawned
    <3>1. UNCHANGED live /\ \A x \in Runs : Slots(x)' = Slots(x)
      BY <1>2, <2>1, <2>2, <2>4 DEF EndThread, Slots, Runs
    <3> QED BY <3>1, <2>3 DEF SlotsInv
  <2>5. CASE r \in Spawned
    <3> DEFINE p == requester[r]
    <3>1. p \in Runs /\ r \in Slots(p)
      BY <2>1, <2>5 DEF SlotsInv, Slots
    <3>2. live' = [live EXCEPT ![p] = @ - 1]
      BY <1>2, <2>5 DEF EndThread
    <3>3. Slots(p)' = Slots(p) \ {r}
      BY <2>1, <2>2, <2>5 DEF Slots, Runs
    <3>4. \A x \in Runs \ {p} : Slots(x)' = Slots(x)
      BY <2>1, <2>2, <2>5 DEF Slots, Runs
    <3>5. \A x \in Runs : live'[x] = IF x = p THEN live[p] - 1 ELSE live[x]
      BY <3>1, <3>2 DEF TypeOK
    <3>6. IsFiniteSet(Slots(p)') /\ Cardinality(Slots(p)') = Cardinality(Slots(p)) - 1
      BY <3>1, <3>3, FS_RemoveElement DEF SlotsInv
    <3>7. live[p] \in Int /\ MaxInstances \in Int
      BY <3>1 DEF TypeOK, RegistryAssumption
    <3>8. live'[p] = Cardinality(Slots(p)') /\ live'[p] <= MaxInstances
      BY <3>1, <3>5, <3>6, <3>7 DEF SlotsInv
    <3>9. \A x \in Runs \ {p} : /\ IsFiniteSet(Slots(x)') /\ live'[x] = Cardinality(Slots(x)')
                                /\ live'[x] <= MaxInstances
      BY <3>4, <3>5 DEF SlotsInv
    <3> QED BY <2>1, <2>3, <3>1, <3>6, <3>8, <3>9 DEF SlotsInv
  <2> QED BY <2>4, <2>5
\* No other step claims, returns or moves a slot.
<1>3. ASSUME UNCHANGED <<live, requester>>,
             \A q \in Spawned : /\ pc'[q] = "done" <=> pc[q] = "done"
                                /\ pc'[q] = "idle" <=> pc[q] = "idle"
      PROVE SlotsInv'
  <2>1. \A x \in Runs : Slots(x)' = Slots(x)
    BY <1>3 DEF Slots
  <2> QED BY <1>3, <2>1 DEF SlotsInv
<1>4. ASSUME NEW r \in Runs,
             \/ StartSpawned(r) \/ StartSpawnedRefused(r) \/ NoSink(r) \/ RefusePolicy(r) \/ RegisterSsh(r)
             \/ RefusePrepare(r) \/ MakeCgroup(r) \/ AbortBuilding(r) \/ Construct(r)
             \/ AbortConstructed(r) \/ Unwind(r) \/ FailDeregister(r) \/ FailRelease(r)
      PROVE SlotsInv'
  BY <1>3, <1>4 DEF StartSpawned, StartSpawnedRefused, NoSink, RefusePolicy, RegisterSsh, RefusePrepare,
     MakeCgroup, AbortBuilding, Construct, AbortConstructed, Unwind, FailDeregister, FailRelease, At,
     TypeOK, Runs, runVars, spawnVars
<1>5. ASSUME NEW r \in Runs,
             \/ BusLive(r) \/ SetPid(r) \/ CheckRequester(r) \/ WaitReturns(r) \/ StopManager(r)
             \/ Teardown(r) \/ ReapScan(r) \/ AbortMint(r) \/ Enqueue(r) \/ DeregisterSsh(r)
             \/ Release(r) \/ InitExit(r) \/ LateLooperEnds(r) \/ \E c \in Ctxs : ReapKill(r, c)
      PROVE SlotsInv'
  BY <1>3, <1>5 DEF BusLive, SetPid, CheckRequester, WaitReturns, StopManager, Teardown, ReapScan,
     AbortMint, Enqueue, DeregisterSsh, Release, InitExit, LateLooperEnds, ReapKill, At, TypeOK, Runs,
     runVars, spawnVars
<1>6. ASSUME NEW r \in Runs, NEW n \in KennelNames, Start(r, n) \/ StartRefused(r, n) PROVE SlotsInv'
  BY <1>3, <1>6 DEF Start, StartRefused, At, TypeOK, RegistryAssumption, Runs, runVars, spawnVars
<1>7. ASSUME NEW s \in Stops, StopStep(s) PROVE SlotsInv'
  BY <1>3, <1>7 DEF StopStep, StopScan, StopReap, StopKill, runVars, spawnVars
<1>8. ASSUME NEW s \in Stops, NEW n \in KennelNames, StopRead(s, n) \/ StopRefused(s, n) PROVE SlotsInv'
  BY <1>3, <1>8 DEF StopRead, StopRefused, runVars, spawnVars
<1>9. CASE UNCHANGED vars
  BY <1>3, <1>9 DEF vars, runVars, spawnVars
<1>10. ASSUME NEW r \in Runs, RunStep(r) PROVE SlotsInv'
  BY <1>2, <1>4, <1>5, <1>10 DEF RunStep
<1> QED BY <1>1, <1>5, <1>6, <1>7, <1>8, <1>9, <1>10 DEF Next

\* The account of slots is an invariant.
THEOREM SlotsInvariant == Spec => []SlotsInv
<1>1. Init => SlotsInv
  <2> SUFFICES ASSUME Init PROVE SlotsInv
    OBVIOUS
  <2>1. \A p \in Runs : Slots(p) = {}
    BY RegistryAssumption DEF Init, Slots, Runs, RegistryAssumption
  <2>2. IsFiniteSet({}) /\ Cardinality({}) = 0
    BY FS_EmptySet
  <2>3. \A p \in Runs : live[p] = 0 /\ 0 <= MaxInstances
    BY RegistryAssumption DEF Init, RegistryAssumption
  <2>4. \A r \in Spawned : pc[r] = "idle" /\ requester[r] = NoRun
    BY DEF Init, Runs
  <2> QED BY <2>1, <2>2, <2>3, <2>4 DEF SlotsInv
<1>2. IInv /\ SlotsInv /\ [Next]_vars => SlotsInv'
  BY SlotsStep, RegistryAssumption
<1> QED BY <1>1, <1>2, IInvInvariant, PTL DEF Spec

\* The count of live spawns is exact and never above the ceiling, whichever
\* step of a build failed (claim_slot, SlotGuard::drop).
THEOREM SlotsExactTheorem == Spec => []SlotsExact
<1>1. SlotsInv => SlotsExact
  BY DEF SlotsInv, SlotsExact, Slots
<1> QED BY <1>1, SlotsInvariant, PTL

----------------------------------------------------------------------------
(* The hard reaper.  The argument: a sibling that passed its own check did *)
(* so while its requester's runtime was alive, hence before the manager    *)
(* was stopped; it was registered by then, under a name with its           *)
(* requester's context, so the reaper's scan has collected it; and the     *)
(* kill reaches it because its cgroup's directory exists.                  *)

\* A requester past its manager's stop, and what it is past there.
Ending == {"unserved", "torn", "reaping", "silent", "exited", "done"}

\* A sibling that runs and has passed its check has a requester that either
\* has not scanned yet or still has the sibling's context to kill.
OrphanInv ==
    \A q \in Spawned : requester[q] \in Runs =>
        LET p == requester[q] IN
        /\ p \in Conns
        /\ pc[p] \in Serving \cup {"reaped"} \/ (pc[p] \in Ending /\ ~ parentAlive[p])
        /\ pc[q] \in Holding \cup {"queued"} => name[q] = <<ctx[p], q>>
        /\ pc[q] = "waiting" /\ q \in procs[ctx[q]] =>
             \/ pc[p] \in Serving \cup {"reaped", "unserved", "torn"}
             \/ pc[p] = "reaping" /\ ctx[q] \in scan[p]

\* Every step keeps the interlock between a reaper and its siblings.
LEMMA OrphanStep ==
    ASSUME RegistryAssumption, ~ LateLooper, IInv, CgroupInv, OrphanInv, [Next]_vars
    PROVE  OrphanInv'
<1> USE DEF IInv
<1>1. Conns \subseteq Runs /\ Spawned \subseteq Runs /\ Conns \cap Spawned = {} /\ Runs \cap Stops = {}
  BY DEF Runs, RegistryAssumption
<1>2. \A q \in Spawned : requester[q] \in Runs =>
         requester[q] \in Conns /\ requester[q] # q /\ pc[requester[q]] \notin {"idle", "queued", "minting"}
  BY <1>1 DEF OrphanInv, Serving, Ending
\* A step that neither registers, checks, scans, kills for a reaper, nor ends a
\* manager or a reaper.
<1>3. ASSUME UNCHANGED <<name, ctx, requester>>,
             \A q \in Runs : /\ ~ parentAlive[q] => ~ parentAlive'[q]
                             /\ scan'[q] = scan[q]
                             /\ pc'[q] = "waiting" => pc[q] = "waiting"
                             /\ pc'[q] = "waiting" /\ q \in procs'[ctx[q]] => q \in procs[ctx[q]]
                             /\ pc'[q] \in Holding \cup {"queued"} => pc[q] \in Holding \cup {"queued"}
                             /\ pc[q] \in Serving => pc'[q] \in Serving \cup {"reaped"}
                             /\ pc[q] \in {"reaped", "reaping"} => pc'[q] = pc[q]
                             /\ pc[q] \in {"unserved", "torn"} => pc'[q] \in {"unserved", "torn"}
                             /\ pc[q] \in Ending => pc'[q] \in Ending
      PROVE OrphanInv'
  BY <1>1, <1>3 DEF OrphanInv
<1>4. ASSUME NEW r \in Runs,
             \/ StartSpawnedRefused(r) \/ NoSink(r) \/ RefusePolicy(r) \/ RegisterSsh(r)
             \/ RefusePrepare(r) \/ MakeCgroup(r) \/ AbortBuilding(r)
             \/ AbortConstructed(r) \/ FailDeregister(r) \/ FailRelease(r)
      PROVE OrphanInv'
  BY <1>3, <1>4 DEF StartSpawnedRefused, NoSink, RefusePolicy, RegisterSsh, RefusePrepare, MakeCgroup,
     AbortBuilding, AbortConstructed, FailDeregister, FailRelease, At, TypeOK, runVars, kernVars,
     spawnVars, Serving, Ending, Holding
<1>5. ASSUME NEW r \in Runs,
             BusLive(r) \/ SetPid(r) \/ WaitReturns(r) \/ Teardown(r) \/ Release(r) \/ EndThread(r) \/ AbortMint(r)
      PROVE OrphanInv'
  BY <1>3, <1>5 DEF BusLive, SetPid, WaitReturns, Teardown, Release, EndThread, AbortMint, At, TypeOK,
     runVars, kernVars, spawnVars, Serving, Ending, Holding
<1>6. ASSUME NEW r \in Runs, Unwind(r) \/ Construct(r) PROVE OrphanInv'
  <2>1. \A q \in Runs : pc'[q] = "waiting" /\ q \in procs'[ctx[q]] => q \in procs[ctx[q]]
    <3>1. CASE Unwind(r)
      BY <3>1 DEF Unwind
    <3>2. CASE Construct(r)
      <4>1. ctx[r] \in Ctxs
        BY <3>2 DEF Construct, At, EntryOwned, Registered, TypeOK, Holding
      <4>2. \A q \in Runs \ {r}, c \in Ctxs : q \in procs'[c] => q \in procs[c]
        BY <3>2, <4>1 DEF Construct, TypeOK
      <4>3. \A q \in Runs : pc'[q] = "waiting" => q # r /\ ctx[q] \in Ctxs
        BY <3>2 DEF Construct, At, EntryOwned, Registered, TypeOK, Holding
      <4> QED BY <4>2, <4>3
    <3> QED BY <1>6, <3>1, <3>2
  <2> QED BY <1>3, <1>6, <2>1 DEF Unwind, Construct, At, TypeOK, runVars, spawnVars, Serving, Ending, Holding
<1>7. ASSUME NEW r \in Runs, InitExit(r) \/ LateLooperEnds(r) PROVE OrphanInv'
  <2>1. InitExit(r)
    BY <1>7 DEF LateLooperEnds
  <2>2. \A q \in Runs : q \in procs'[ctx[q]] => q \in procs[ctx[q]]
    BY <2>1 DEF InitExit, TypeOK
  <2> QED BY <1>3, <2>1, <2>2 DEF InitExit, runVars, spawnVars
<1>8. ASSUME NEW r \in Runs, NEW n \in KennelNames,
             Start(r, n) \/ StartSpawned(r) \/ StartRefused(r, n)
      PROVE OrphanInv'
  <2>1. /\ pc[r] \in {"idle", "queued"} /\ pc'[r] \in {"reserved", "exited"}
        /\ \A q \in Runs \ {r} : pc'[q] = pc[q] /\ name'[q] = name[q] /\ ctx'[q] = ctx[q]
        /\ UNCHANGED <<requester, scan, parentAlive, procs>>
        /\ r \in Spawned => pc[r] = "queued" /\ name'[r] = name[r]
    BY <1>1, <1>8 DEF Start, StartSpawned, StartRefused, ReserveGranted, At, TypeOK, kernVars, spawnVars, runVars
  <2> QED BY <1>1, <1>2, <2>1 DEF OrphanInv
<1>9. ASSUME NEW r \in Runs, Enqueue(r) PROVE OrphanInv'
  <2>1. /\ pc[r] = "minting" /\ pc'[r] = "queued" /\ name'[r] = <<ctx[requester[r]], r>>
        /\ \A q \in Runs \ {r} : pc'[q] = pc[q] /\ name'[q] = name[q]
        /\ UNCHANGED <<requester, scan, parentAlive, procs, ctx>>
    BY <1>9 DEF Enqueue, At, TypeOK, kernVars, spawnVars
  <2> QED BY <1>1, <1>2, <2>1 DEF OrphanInv
<1>10. ASSUME NEW p \in Runs, NEW r \in Runs, ClaimSlot(p, r) PROVE OrphanInv'
  <2>1. /\ pc[r] = "idle" /\ pc'[r] = "minting" /\ requester'[r] = p /\ p \in Conns
        /\ pc[p] \in Serving \cup {"reaped"} /\ p # r
        /\ \A q \in Runs \ {r} : pc'[q] = pc[q] /\ requester'[q] = requester[q]
        /\ UNCHANGED <<name, scan, parentAlive, procs, ctx>>
    BY <1>10 DEF ClaimSlot, At, TypeOK, kernVars, Serving
  <2> QED BY <1>1, <1>2, <2>1 DEF OrphanInv, Holding
<1>11. ASSUME NEW r \in Runs, CheckRequester(r) PROVE OrphanInv'
  <2>1. /\ pc[r] = "started" /\ pc'[r] = "waiting" /\ \A q \in Runs \ {r} : pc'[q] = pc[q]
        /\ UNCHANGED <<name, requester, scan, parentAlive, ctx>>
        /\ \A c \in Ctxs : procs'[c] \subseteq procs[c]
    BY <1>11 DEF CheckRequester, KillCgroup, At, TypeOK, runVars, spawnVars
  <2>2. \A q \in Runs : (q \in procs'[ctx[q]] /\ ctx[q] \in Ctxs) => q \in procs[ctx[q]]
    BY <2>1
  <2>3. ASSUME NEW q \in Runs, pc'[q] = "waiting" PROVE ctx[q] \in Ctxs
    <3>1. pc[q] \in Holding
      BY <2>1, <2>3 DEF Holding
    <3> QED BY <3>1 DEF EntryOwned, Registered, TypeOK
  <2>4. r \in Spawned /\ requester[r] \in Runs /\ r \in procs'[ctx[r]] => pc[requester[r]] \in Serving \cup {"reaped"}
    <3> SUFFICES ASSUME r \in Spawned, requester[r] \in Runs, r \in procs'[ctx[r]]
                 PROVE  parentAlive[requester[r]]
      BY DEF OrphanInv
    <3>1. ctx[r] \in Ctxs
      BY <2>1, <2>3
    <3>2. r \in procs[ctx[r]] /\ ctx[r] \in dirs
      BY <2>2, <3>1 DEF CgroupInv
    <3>3. RequesterGone(r) => procs' = [procs EXCEPT ![ctx[r]] = {}]
      BY <1>11, <3>2 DEF CheckRequester, KillCgroup
    <3> QED BY <3>1, <3>3 DEF RequesterGone, TypeOK
  <2>5. ASSUME NEW q \in Spawned, requester'[q] \in Runs, pc'[q] = "waiting", q \in procs'[ctx'[q]]
        PROVE  \/ pc[requester[q]] \in Serving \cup {"reaped", "unserved", "torn"}
               \/ pc[requester[q]] = "reaping" /\ ctx[q] \in scan[requester[q]]
    <3>1. CASE q = r
      BY <3>1, <2>1, <2>4, <2>5
    <3>2. CASE q # r
      BY <3>2, <1>1, <2>1, <2>2, <2>3, <2>5 DEF OrphanInv
    <3> QED BY <3>1, <3>2
  <2>6. \A q \in Runs : /\ pc[q] \in Serving => pc'[q] \in Serving
                        /\ pc[q] \notin Serving => pc'[q] = pc[q]
                        /\ pc'[q] \in Holding \cup {"queued"} => pc[q] \in Holding \cup {"queued"}
    BY <2>1 DEF Serving, Holding
  <2> QED BY <1>1, <2>1, <2>5, <2>6 DEF OrphanInv
<1>12. ASSUME NEW r \in Runs, StopManager(r) PROVE OrphanInv'
  <2>1. /\ pc[r] = "reaped" /\ pc'[r] = "unserved" /\ ~ parentAlive'[r]
        /\ \A q \in Runs \ {r} : pc'[q] = pc[q] /\ parentAlive'[q] = parentAlive[q]
        /\ UNCHANGED <<name, requester, scan, procs, ctx>>
    BY <1>12 DEF StopManager, At, TypeOK, runVars, kernVars
  <2> QED BY <1>1, <2>1 DEF OrphanInv, Ending, Holding, Serving
<1>13. ASSUME NEW r \in Runs, ReapScan(r) PROVE OrphanInv'
  <2>1. /\ pc[r] = "torn" /\ pc'[r] = "reaping" /\ scan'[r] = Children(ctx[r])
        /\ \A q \in Runs \ {r} : pc'[q] = pc[q] /\ scan'[q] = scan[q]
        /\ UNCHANGED <<name, requester, procs, ctx, parentAlive, ctxOf>>
    BY <1>13 DEF ReapScan, At, TypeOK, runVars, kernVars, spawnVars, regVars, Agents
  <2>2. ASSUME NEW q \in Spawned, requester[q] = r, pc[q] = "waiting" PROVE ctx[q] \in Children(ctx[r])
    <3>1. name[q] = <<ctx[r], q>> /\ Registered(name[q]) /\ ctxOf[name[q]] = ctx[q]
      BY <1>1, <2>2 DEF OrphanInv, EntryOwned, Holding
    <3>2. name[q] \in {ctx[r]} \X Ids
      BY <3>1 DEF RegistryAssumption
    <3> QED BY <3>1, <3>2 DEF Children
  <2> QED BY <1>1, <2>1, <2>2 DEF OrphanInv, Ending, Holding, Serving
<1>14. ASSUME NEW r \in Runs, NEW c \in Ctxs, ReapKill(r, c) PROVE OrphanInv'
  <2>1. /\ pc[r] = "reaping" /\ scan'[r] = scan[r] \ {c} /\ \A q \in Runs \ {r} : scan'[q] = scan[q]
        /\ UNCHANGED <<pc, name, requester, ctx, parentAlive>>
        /\ \A d \in Ctxs : procs'[d] \subseteq procs[d]
        /\ c \in dirs => procs'[c] = {}
    BY <1>14 DEF ReapKill, KillCgroup, TypeOK, runVars, spawnVars, Agents
  <2>2. ASSUME NEW q \in Spawned, pc[q] = "waiting", q \in procs'[ctx[q]] PROVE q \in procs[ctx[q]] /\ ctx[q] # c
    <3>1. ctx[q] \in Ctxs
      BY <1>1, <2>2 DEF EntryOwned, Registered, TypeOK, Holding
    <3>2. q \in procs[ctx[q]] /\ ctx[q] \in dirs
      BY <2>1, <2>2, <3>1 DEF CgroupInv
    <3> QED BY <2>1, <2>2, <3>2
  <2> QED BY <1>1, <2>1, <2>2 DEF OrphanInv
<1>15. ASSUME NEW r \in Runs, DeregisterSsh(r) PROVE OrphanInv'
  <2>1. /\ pc[r] = "reaping" /\ pc'[r] = "silent" /\ scan[r] = {}
        /\ \A q \in Runs \ {r} : pc'[q] = pc[q]
        /\ UNCHANGED <<name, requester, procs, ctx, parentAlive, scan>>
    BY <1>15 DEF DeregisterSsh, At, TypeOK, runVars, kernVars, spawnVars
  <2> QED BY <1>1, <2>1 DEF OrphanInv, Ending, Holding, Serving
<1>16. ASSUME NEW s \in Stops, StopStep(s) PROVE OrphanInv'
  <2>1. /\ UNCHANGED <<name, ctx, requester, parentAlive, pc>>
        /\ \A q \in Runs : scan'[q] = scan[q]
        /\ \A c \in Ctxs : procs'[c] \subseteq procs[c]
    BY <1>1, <1>16 DEF StopStep, StopScan, StopReap, StopKill, KillCgroup, TypeOK, runVars, kernVars, spawnVars, Agents
  <2>2. \A q \in Runs : pc[q] = "waiting" => ctx[q] \in Ctxs
    BY DEF EntryOwned, Registered, TypeOK, Holding
  <2> QED BY <1>3, <2>1, <2>2
<1>17. ASSUME NEW s \in Stops, NEW n \in KennelNames, StopRead(s, n) \/ StopRefused(s, n) PROVE OrphanInv'
  BY <1>3, <1>17 DEF StopRead, StopRefused, kernVars, runVars, spawnVars
<1>18. CASE UNCHANGED vars
  BY <1>3, <1>18 DEF vars, kernVars, runVars, spawnVars
<1>19. ASSUME NEW r \in Runs, RunStep(r) PROVE OrphanInv'
  <2>1. CASE StartSpawned(r)
    BY <2>1, <1>8 DEF StartSpawned, At, SpawnNamed
  <2> QED BY <2>1, <1>4, <1>5, <1>6, <1>9, <1>11, <1>12, <1>13, <1>14, <1>15, <1>19 DEF RunStep
<1> QED BY <1>7, <1>8, <1>10, <1>16, <1>17, <1>18, <1>19 DEF Next

\* Once a requester has finished reaping, no sibling it spawned that passed its
\* own liveness check is still running, provided no looper starts while the
\* requester's manager is being stopped (reap_children against run_kennel's
\* parent_alive re-check; with a late looper the statement is false).
THEOREM NoOrphanTheorem ==
    ASSUME ~ LateLooper
    PROVE  Spec => []NoOrphan
<1>1. Init => OrphanInv
  BY RegistryAssumption DEF Init, OrphanInv, Runs, RegistryAssumption
<1>2. IInv /\ CgroupInv /\ OrphanInv /\ [Next]_vars => OrphanInv'
  BY OrphanStep, RegistryAssumption
<1>3. SlotsInv /\ OrphanInv => NoOrphan
  <2> SUFFICES ASSUME SlotsInv, OrphanInv, NEW q \in Spawned, pc[q] = "waiting", q \in procs[ctx[q]]
               PROVE  pc[requester[q]] \notin {"silent"} \cup Finished
    BY DEF NoOrphan
  <2>1. requester[q] \in Runs
    BY DEF SlotsInv
  <2> QED BY <2>1 DEF OrphanInv, Serving, Finished
<1> QED BY <1>1, <1>2, <1>3, CgroupInvariant, SlotsInvariant, PTL DEF Spec
=============================================================================
