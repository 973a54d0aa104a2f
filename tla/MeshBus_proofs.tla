--------------------------- MODULE MeshBus_proofs ---------------------------
(***************************************************************************)
(* Proofs about MeshBus and the looper pool under it, for any number of    *)
(* consumers, threads, contexts and frames, and any max_threads.           *)
(***************************************************************************)
EXTENDS MeshBus, FiniteSetTheorems, TLAPS

(* The pool: what makes PoolBounded inductive.                             *)

Loopers == {t \in Threads : Looping(t)}

\* The threads between the driver's request and their registration.
Pending == {t \in Threads : asked[t] \/ pc[t] \in {"born", "counted"}}

PoolShape ==
    /\ pc \in [Threads -> {"none", "born", "counted", "loop", "poll", "batch",
                           "push", "handle", "insert", "nested", "gone"}]
    /\ asked \in [Threads -> BOOLEAN]
    /\ live \in Nat
    /\ requested \in BOOLEAN
    /\ owner = "none" => \A t \in Threads : pc[t] = "none"
    /\ \A t \in Threads : asked[t] => pc[t] = "batch"

\* The counter counts the loopers; at most one thread is pending, and only
\* while the driver's request is outstanding; a thread is born only while there
\* is room for it.
PoolInv ==
    /\ PoolShape
    /\ live = Cardinality(Loopers) /\ live <= Max
    /\ \A s, t \in Pending : s = t
    /\ Pending # {} => requested
    /\ \A t \in Threads : pc[t] = "born" => live < Max
-----------------------------------------------------------------------------
\* A step of one thread between two stages in which it is a looper, without a
\* pending request before or after.
LEMMA LooperMoves ==
    ASSUME PoolInv, NEW t \in Threads, NEW q,
           q \in {"loop", "poll", "batch", "push", "handle", "insert", "nested"},
           pc[t] \in {"loop", "poll", "push", "handle", "insert", "nested"},
           pc' = [pc EXCEPT ![t] = q],
           UNCHANGED <<asked, live, owner>>,
           requested' \in BOOLEAN, requested => requested'
    PROVE  PoolInv'
<1>1. \A s \in Threads : pc'[s] = IF s = t THEN q ELSE pc[s]
  BY DEF PoolInv, PoolShape
<1>2. Loopers' = Loopers
  BY <1>1 DEF Loopers, Looping
<1>3. Pending' = Pending
  BY <1>1 DEF Pending
<1>4. PoolShape'
  BY <1>1, <1>2, <1>3 DEF PoolInv, PoolShape
<1> QED BY <1>1, <1>2, <1>3, <1>4 DEF PoolInv

\* Nothing of the pool moves but the owner and the driver's queue.
LEMMA PoolRests ==
    ASSUME PoolInv, UNCHANGED <<pc, asked, live>>,
           owner' # "none" \/ owner' = owner,
           requested' \in BOOLEAN, requested => requested'
    PROVE  PoolInv'
<1>1. Loopers' = Loopers /\ Pending' = Pending
  BY DEF Loopers, Looping, Pending
<1> QED BY <1>1 DEF PoolInv, PoolShape

\* There are finitely many loopers, before and after a step.
LEMMA LoopersFinite ==
    ASSUME PoolAssumption
    PROVE  /\ IsFiniteSet(Loopers) /\ Cardinality(Loopers) \in Nat
           /\ IsFiniteSet(Loopers') /\ Cardinality(Loopers') \in Nat
<1>1. Loopers \in SUBSET Threads /\ Loopers' \in SUBSET Threads
  BY DEF Loopers
<1>2. IsFiniteSet(Threads)
  BY DEF PoolAssumption
<1>3. IsFiniteSet(Loopers) /\ IsFiniteSet(Loopers')
  BY <1>1, <1>2, FS_Subset
<1> QED BY <1>3, FS_CardinalityType

\* The first looper keeps the pool's invariant.
LEMMA PoolStarts ==
    ASSUME PoolAssumption, PoolInv, ServePool PROVE PoolInv'
<1>1. \A t \in Threads : pc[t] = "none" /\ ~asked[t]
  BY DEF ServePool, PoolInv, PoolShape
<1>2. PICK t \in Threads : pc' = [pc EXCEPT ![t] = "loop"]
  <2>1. \E u \in Threads : Unused(u)
    BY <1>1 DEF PoolAssumption, Unused
  <2> QED BY <2>1 DEF ServePool
<1>3. \A s \in Threads : pc'[s] = IF s = t THEN "loop" ELSE "none"
  BY <1>1, <1>2 DEF PoolInv, PoolShape
<1>4. live' = 1 /\ owner' = "serving" /\ UNCHANGED <<asked, requested>>
  BY DEF ServePool
<1>5. Loopers' = {t} /\ Pending' = {}
  BY <1>1, <1>3, <1>4 DEF Loopers, Looping, Pending
<1>6. Cardinality(Loopers') = 1
  BY <1>5, FS_Singleton
<1> QED BY <1>1, <1>2, <1>3, <1>4, <1>5, <1>6 DEF PoolInv, PoolShape, PoolAssumption

\* The test of the counter and the increment are in different threads; the
\* pending thread is the only one that can have passed the test.
LEMMA PoolGrows ==
    ASSUME PoolAssumption, PoolInv, NEW t \in Threads,
           CountSelf(t) \/ Register(t) \/ Leave(t) \/ Recv(t) \/ Grow(t) \/ NoGrow(t)
    PROVE  PoolInv'
<1> USE DEF PoolInv, PoolShape
<1>1. CASE CountSelf(t)
  <2>1. /\ \A s \in Threads : pc'[s] = IF s = t THEN "counted" ELSE pc[s]
        /\ live' = live + 1 /\ pc[t] = "born"
        /\ UNCHANGED <<asked, owner, requested>>
    BY <1>1 DEF CountSelf, ownerVars, driverVars
  <2>2. Loopers' = Loopers \cup {t} /\ t \notin Loopers /\ Pending' = Pending
    BY <2>1 DEF Loopers, Looping, Pending
  <2>3. Cardinality(Loopers') = live'
    BY <2>1, <2>2, LoopersFinite, FS_AddElement
  <2>4. \A s \in Threads : pc'[s] # "born"
    BY <2>1 DEF Pending
  <2> QED BY <1>1, <2>1, <2>2, <2>3, <2>4 DEF PoolAssumption, CountSelf
<1>2. CASE Register(t)
  <2>1. /\ \A s \in Threads : pc'[s] = IF s = t THEN "loop" ELSE pc[s]
        /\ pc[t] = "counted" /\ requested' = FALSE
        /\ UNCHANGED <<asked, owner, live>>
    BY <1>2 DEF Register, ownerVars
  <2>2. Loopers' = Loopers
    BY <2>1 DEF Loopers, Looping
  <2>3. Pending' = {}
    BY <2>1 DEF Pending
  <2> QED BY <1>2, <2>1, <2>2, <2>3 DEF Register
<1>3. CASE Leave(t)
  <2>1. /\ \A s \in Threads : pc'[s] = IF s = t THEN "gone" ELSE pc[s]
        /\ live' = live - 1 /\ pc[t] = "loop"
        /\ UNCHANGED <<asked, owner, requested>>
    BY <1>3 DEF Leave, ownerVars, driverVars
  <2>2. Loopers' = Loopers \ {t} /\ t \in Loopers /\ Pending' = Pending
    BY <2>1 DEF Loopers, Looping, Pending
  <2>3. Cardinality(Loopers') = live' /\ live' \in Nat
    BY <2>1, <2>2, LoopersFinite, FS_RemoveElement
  <2> QED BY <1>3, <2>1, <2>2, <2>3 DEF PoolAssumption, Leave
<1>4. CASE Recv(t)
  <2>1. /\ \A s \in Threads : pc'[s] = IF s = t THEN "batch" ELSE pc[s]
        /\ \A s \in Threads : asked'[s] = IF s = t THEN DriverAsks ELSE asked[s]
        /\ pc[t] = "poll" /\ requested' = (requested \/ DriverAsks)
        /\ UNCHANGED <<owner, live>>
    BY <1>4 DEF Recv, ownerVars
  <2>2. DriverAsks \in BOOLEAN /\ (DriverAsks => ~requested)
    BY DEF DriverAsks
  <2>3. Loopers' = Loopers
    BY <2>1 DEF Loopers, Looping
  <2>4. ~asked[t] /\ t \notin Pending
    BY <2>1 DEF Pending
  <2>5. Pending' = IF DriverAsks THEN {t} ELSE Pending
    BY <2>1, <2>2, <2>4 DEF Pending
  <2>6. asked' \in [Threads -> BOOLEAN] /\ pc' \in [Threads -> {"none", "born", "counted",
          "loop", "poll", "batch", "push", "handle", "insert", "nested", "gone"}]
    BY <1>4, <2>2 DEF Recv
  <2> QED BY <2>1, <2>2, <2>3, <2>5, <2>6
<1>5. CASE Grow(t)
  <2>1. PICK u \in Threads : /\ Unused(u)
                            /\ pc' = [pc EXCEPT ![t] = "push", ![u] = "born"]
    BY <1>5 DEF Grow
  <2>2. /\ pc[t] = "batch" /\ asked[t] /\ live < Max
        /\ asked' = [asked EXCEPT ![t] = FALSE]
        /\ UNCHANGED <<owner, live, requested>>
    BY <1>5 DEF Grow, MayGrow, ownerVars, driverVars
  <2>3. pc[u] = "none" /\ u # t
    BY <2>1, <2>2 DEF Unused
  <2>4. \A s \in Threads : pc'[s] = IF s = u THEN "born" ELSE IF s = t THEN "push" ELSE pc[s]
    BY <2>1, <2>3
  <2>5. Loopers' = Loopers
    BY <2>2, <2>3, <2>4 DEF Loopers, Looping
  <2>6. Pending = {t}
    BY <2>2 DEF Pending
  <2>7. Pending' = {u}
    <3>1. \A s \in Threads \ {t} : ~asked[s] /\ pc[s] \notin {"born", "counted"}
      BY <2>6 DEF Pending
    <3>2. \A s \in Threads : asked'[s] = IF s = t THEN FALSE ELSE asked[s]
      BY <2>2
    <3> QED BY <2>3, <2>4, <3>1, <3>2, ZenonT(40) DEF Pending
  <2>8. requested
    BY <2>6
  <2>9. pc' \in [Threads -> {"none", "born", "counted", "loop", "poll", "batch", "push",
                             "handle", "insert", "nested", "gone"}]
        /\ asked' \in [Threads -> BOOLEAN]
    BY <2>1, <2>2
  <2> QED BY <2>2, <2>3, <2>4, <2>5, <2>7, <2>8, <2>9
<1>6. CASE NoGrow(t)
  <2>1. /\ \A s \in Threads : pc'[s] = IF s = t THEN "handle" ELSE pc[s]
        /\ \A s \in Threads : asked'[s] = IF s = t THEN FALSE ELSE asked[s]
        /\ pc[t] = "batch" /\ UNCHANGED <<owner, live, requested>>
    BY <1>6 DEF NoGrow, ownerVars, driverVars
  <2>2. Loopers' = Loopers /\ Pending' \subseteq Pending
    BY <2>1 DEF Loopers, Looping, Pending
  <2> QED BY <1>6, <2>1, <2>2 DEF NoGrow
<1> QED BY <1>1, <1>2, <1>3, <1>4, <1>5, <1>6

\* The pool's start establishes its invariant.
LEMMA PoolInit == Init => PoolInv
<1> SUFFICES ASSUME Init PROVE PoolInv
  OBVIOUS
<1>1. Loopers = {} /\ Pending = {}
  BY DEF Init, NoPool, Loopers, Looping, Pending
<1>2. Cardinality(Loopers) = 0
  BY <1>1, FS_EmptySet
<1>3. PoolShape /\ live = 0 /\ \A t \in Threads : pc[t] = "none"
  BY DEF Init, NoPool, PoolShape
<1>4. Max \in Nat /\ 0 <= Max
  BY PoolAssumption DEF PoolAssumption
<1> QED BY <1>1, <1>2, <1>3, <1>4 DEF PoolInv

\* Every step of the pool and of the bus over it keeps it.
LEMMA PoolNext == PoolInv /\ [Next]_vars => PoolInv'
<1> SUFFICES ASSUME PoolInv, [Next]_vars PROVE PoolInv'
  OBVIOUS
<1>0. requested \in BOOLEAN /\ DriverAsks \in BOOLEAN
  BY DEF PoolInv, PoolShape, DriverAsks
<1>1. ASSUME NEW t \in Threads, PoolStep(t) PROVE PoolInv'
  <2>1. CASE CountSelf(t) \/ Register(t) \/ Leave(t) \/ Recv(t) \/ Grow(t) \/ NoGrow(t)
    BY <2>1, PoolGrows, PoolAssumption
  <2>2. CASE ToPoll(t) \/ Woken(t) \/ PushHandle(t)
    <3>1. /\ pc[t] \in {"loop", "poll", "push"}
          /\ \E q \in {"loop", "poll", "handle"} : pc' = [pc EXCEPT ![t] = q]
          /\ UNCHANGED <<asked, live, owner, requested>>
      BY <2>2 DEF ToPoll, Woken, PushHandle, ownerVars, driverVars
    <3> QED BY <1>0, <3>1, LooperMoves
  <2> QED BY <1>1, <2>1, <2>2 DEF PoolStep, LooperStep
<1>2. ASSUME NEW t \in Threads, Handler(t) PROVE PoolInv'
  <2>1. CASE AddWatch(t)
    BY <1>0, <2>1, LooperMoves DEF AddWatch, Handling, ownerVars
  <2>2. CASE AddInsert(t) \/ NestedFails(t)
    BY <1>0, <2>2, LooperMoves DEF AddInsert, NestedFails, Reply, ownerVars, driverVars
  <2>3. CASE Death(t) \/ Refuse(t) \/ ServePolicy(t)
    BY <1>0, <2>3, LooperMoves DEF Death, Refuse, ServePolicy, Handling, Reply, ownerVars,
                                   driverVars
  <2>4. CASE NewSession(t)
    BY <1>0, <2>4, LooperMoves DEF NewSession, Handling, ownerVars
  <2> QED BY <1>2, <2>1, <2>2, <2>3, <2>4 DEF Handler
<1>3. CASE Mint
  <2>1. PICK t \in Threads : pc[t] = "nested" /\ Reply(t)
    BY <1>3 DEF Mint
  <2> QED BY <1>0, <1>3, <2>1, LooperMoves DEF Mint, Reply, ownerVars
<1>4. ASSUME Ensure, UNCHANGED queue PROVE PoolInv'
  BY <1>0, <1>4, PoolStarts, PoolRests, PoolAssumption DEF Ensure, looperVars, ownerVars
<1>5. ASSUME NEW c \in Consumers, ConsumerStarts(c) PROVE PoolInv'
  BY <1>4, <1>5 DEF ConsumerStarts
<1>6. CASE BrokerStarts
  BY <1>0, <1>6, PoolStarts, PoolRests, PoolAssumption
     DEF BrokerStarts, Ensure, looperVars, ownerVars
<1>7. ASSUME NEW q, LeaveBus(q) PROVE PoolInv'
  BY <1>0, <1>7, PoolRests
     DEF LeaveBus, SetStop, poolVars, looperVars, ownerVars, driverVars
<1>8. CASE TeardownStep
  BY <1>0, <1>8, PoolRests DEF TeardownStep, TakeHandles, Joined, looperVars, driverVars
<1>9. ASSUME UNCHANGED poolVars PROVE PoolInv'
  BY <1>0, <1>9, PoolRests DEF poolVars, looperVars, ownerVars, driverVars
<1>10. ASSUME UNCHANGED <<looperVars, live, ownerVars, requested, started>> PROVE PoolInv'
  BY <1>0, <1>10, PoolRests DEF looperVars, ownerVars
<1>11. CASE UNCHANGED vars
  BY <1>9, <1>11 DEF vars
<1>12. CASE Next
  <2>1. CASE BrokerStep
    BY <1>3, <1>9, <1>10, <2>1 DEF BrokerStep, Pull, Forward, Release
  <2>2. ASSUME NEW c \in Consumers,
               ConsumerExits(c) \/ ConsumerReleases(c) \/ Connect(c) \/ Send(c)
        PROVE  PoolInv'
    BY <1>7, <1>9, <1>10, <2>2 DEF ConsumerExits, ConsumerReleases, Connect, Send
  <2>3. CASE BrokerDies \/ BrokerReleases
    BY <1>7, <1>10, <2>3 DEF BrokerDies, BrokerReleases
  <2> QED BY <1>1, <1>2, <1>5, <1>6, <1>8, <1>12, <2>1, <2>2, <2>3 DEF Next
<1> QED BY <1>11, <1>12

\* PoolInv is an inductive invariant.
THEOREM PoolInvariant == Spec => []PoolInv
BY PoolInit, PoolNext, PTL DEF Spec

\* The pool never exceeds max_threads, whatever the interleaving of the test,
\* the new thread's increment and its registration with the driver.
THEOREM PoolBoundedTheorem == Spec => []PoolBounded
<1>1. PoolInv => PoolBounded
  BY DEF PoolInv, PoolBounded, Loopers
<1> QED BY <1>1, PoolInvariant, PTL
-----------------------------------------------------------------------------
(* The bus: what makes BusOutlivesHolders inductive.                       *)

KennelStates == Alive \cup {"out", "meshless", "dead", "released"}
BrokerStates == {"out", "adding", "idle", "pulling", "dead", "released"}

\* The count is the holders and the participants whose clone failed, and the
\* pool serves as long as anybody holds the mount.
BusInv ==
    /\ kst \in [Consumers -> KennelStates] /\ bst \in BrokerStates
    /\ refcount \in Nat /\ leaks \in Nat
    /\ refcount = Cardinality(Holders) + leaks
    /\ Holders # {} => owner = "serving"

\* The bus has finitely many holders, before and after a step.
LEMMA HoldersFinite ==
    ASSUME MeshAssumption
    PROVE  /\ IsFiniteSet(Holders) /\ Cardinality(Holders) \in Nat
           /\ IsFiniteSet(Holders') /\ Cardinality(Holders') \in Nat
<1>1. IsFiniteSet(Consumers \cup {Broker})
  BY FS_AddElement DEF MeshAssumption
<1>2. Holders \in SUBSET (Consumers \cup {Broker}) /\ Holders' \in SUBSET (Consumers \cup {Broker})
  BY DEF Holders
<1>3. IsFiniteSet(Holders) /\ IsFiniteSet(Holders')
  BY <1>1, <1>2, FS_Subset
<1> QED BY <1>3, FS_CardinalityType

\* Who holds the mount and the count stay as they are.
LEMMA BusRests ==
    ASSUME BusInv, Holders' = Holders, UNCHANGED <<refcount, leaks>>,
           Holders # {} => owner' = owner,
           kst' \in [Consumers -> KennelStates], bst' \in BrokerStates
    PROVE  BusInv'
BY DEF BusInv

\* A participant joins: counted, and a holder unless its clone failed.
LEMMA BusJoined ==
    ASSUME MeshAssumption, BusInv, NEW p, p \notin Holders,
           owner' = "serving", refcount' = refcount + 1,
           \/ Holders' = Holders \cup {p} /\ leaks' = leaks
           \/ Holders' = Holders /\ leaks' = leaks + 1,
           kst' \in [Consumers -> KennelStates], bst' \in BrokerStates
    PROVE  BusInv'
<1>1. Holders' = Holders \cup {p} => Cardinality(Holders') = Cardinality(Holders) + 1
  BY HoldersFinite, FS_AddElement
<1> QED BY <1>1, HoldersFinite DEF BusInv

\* A holder leaves; only the last participant stops the pool.
LEMMA BusLeft ==
    ASSUME MeshAssumption, BusInv, NEW p \in Holders, LeaveBus(p),
           Holders' = Holders \ {p}, UNCHANGED leaks,
           kst' \in [Consumers -> KennelStates], bst' \in BrokerStates
    PROVE  BusInv'
<1>1. Cardinality(Holders') = Cardinality(Holders) - 1
  BY HoldersFinite, FS_RemoveElement
<1>2. Cardinality(Holders) # 0
  BY HoldersFinite, FS_EmptySet
<1>3. refcount' = refcount - 1 /\ refcount' = Cardinality(Holders') + leaks'
  BY <1>1, HoldersFinite DEF LeaveBus, BusInv
<1>4. refcount' \in Nat
  BY <1>3, HoldersFinite DEF BusInv
<1>5. Holders' # {} => owner' = "serving"
  <2>1. CASE refcount = 1
    <3>1. Cardinality(Holders') = 0
      BY <1>1, <1>2, <2>1, HoldersFinite DEF BusInv
    <3> QED BY <3>1, HoldersFinite, FS_EmptySet
  <2>2. CASE refcount # 1
    BY <2>2 DEF LeaveBus, BusInv, poolVars, ownerVars
  <2> QED BY <2>1, <2>2
<1> QED BY <1>3, <1>4, <1>5 DEF BusInv

\* Every step keeps the reference count at the number of holders.
LEMMA BusNext == BusInv /\ [Next]_vars => BusInv'
<1> SUFFICES ASSUME BusInv, [Next]_vars PROVE BusInv'
  OBVIOUS
<1>0. kst \in [Consumers -> KennelStates] /\ bst \in BrokerStates /\ Broker \notin Consumers
  BY MeshAssumption DEF BusInv, MeshAssumption, Broker
<1>1. ASSUME UNCHANGED <<kst, bst, refcount, leaks>>, Holders # {} => owner' = owner
      PROVE  BusInv'
  <2>1. Holders' = Holders
    BY <1>1 DEF Holders
  <2> QED BY <1>0, <1>1, <2>1, BusRests
<1>2. ASSUME NEW c, NEW o \in {"node", "refused"}, Told(c, o), bst' = bst,
             UNCHANGED <<refcount, leaks, owner>>
      PROVE  BusInv'
  <2>1. kst' \in [Consumers -> KennelStates]
    BY <1>0, <1>2 DEF Told, KennelStates, Alive
  <2>2. \A d \in Consumers : kst'[d] \in Alive \cup {"dead"} <=> kst[d] \in Alive \cup {"dead"}
    BY <1>0, <1>2 DEF Told, Alive
  <2>3. Holders' = Holders
    BY <1>2, <2>2 DEF Holders
  <2> QED BY <1>0, <1>2, <2>1, <2>3, BusRests
<1>3. ASSUME NEW b \in {"adding", "idle", "pulling", "dead"}, bst' = b,
             bst \in {"adding", "idle", "pulling", "dead"},
             UNCHANGED <<kst, refcount, leaks, owner>>
      PROVE  BusInv'
  <2>1. Holders' = Holders
    BY <1>3 DEF Holders
  <2> QED BY <1>0, <1>3, <2>1, BusRests DEF BrokerStates
<1>4. ASSUME NEW t \in Threads, PoolStep(t) PROVE BusInv'
  <2>1. UNCHANGED <<kst, bst, refcount, leaks>>
    BY <1>4 DEF PoolStep, meshVars
  <2>2. UNCHANGED owner
    BY <1>4 DEF PoolStep, LooperStep, CountSelf, Register, ToPoll, Leave, Woken, Recv, Grow,
                NoGrow, PushHandle, ownerVars
  <2> QED BY <1>1, <2>1, <2>2
<1>5. ASSUME NEW t \in Threads, Handler(t) PROVE BusInv'
  <2>1. CASE AddWatch(t) \/ Death(t) \/ NewSession(t)
    BY <1>1, <2>1 DEF AddWatch, Death, NewSession, ownerVars
  <2>2. CASE AddInsert(t)
    BY <1>1, <1>3, <2>2 DEF AddInsert, ownerVars
  <2>3. CASE Refuse(t) \/ NestedFails(t)
    BY <1>2, <2>3 DEF Refuse, NestedFails, ownerVars
  <2>4. CASE ServePolicy(t)
    BY <1>1, <1>3, <2>4 DEF ServePolicy, ownerVars
  <2> QED BY <1>5, <2>1, <2>2, <2>3, <2>4 DEF Handler
<1>6. CASE BrokerStep
  <2>1. CASE Mint
    BY <1>2, <2>1 DEF Mint, ownerVars
  <2>2. CASE Pull
    BY <1>3, <2>2 DEF Pull, Reads, ownerVars
  <2>3. CASE Forward \/ \E c \in Consumers : Release(c)
    BY <1>1, <2>3 DEF Forward, Release, poolVars, ownerVars
  <2> QED BY <1>6, <2>1, <2>2, <2>3 DEF BrokerStep
<1>7. ASSUME Ensure PROVE owner' = "serving" /\ refcount' = refcount + 1
  BY <1>7 DEF Ensure, ServePool, ownerVars
<1>8. ASSUME NEW c \in Consumers, ConsumerStarts(c) PROVE BusInv'
  <2>1. PICK ok \in BOOLEAN : Counted(ok) /\ kst' = [kst EXCEPT ![c] = IF ok THEN "in" ELSE "meshless"]
    BY <1>8, MeshAssumption DEF ConsumerStarts, MeshAssumption
  <2>2. kst[c] = "out" /\ Ensure /\ bst' = bst
    BY <1>8 DEF ConsumerStarts
  <2>3. kst' \in [Consumers -> KennelStates] /\ c \notin Holders
    BY <1>0, <2>1, <2>2 DEF KennelStates, Alive, Holders
  <2>4. CASE ok
    <3>1. Holders' = Holders \cup {c} /\ leaks' = leaks
      BY <1>0, <2>1, <2>2, <2>4 DEF Holders, Alive, Counted, BusInv
    <3> QED BY <1>0, <1>7, <2>2, <2>3, <3>1, BusJoined, MeshAssumption
  <2>5. CASE ~ok
    <3>1. Holders' = Holders /\ leaks' = leaks + 1
      BY <1>0, <2>1, <2>2, <2>5 DEF Holders, Alive, Counted
    <3> QED BY <1>0, <1>7, <2>2, <2>3, <3>1, BusJoined, MeshAssumption
  <2> QED BY <2>4, <2>5
<1>9. CASE BrokerStarts
  <2>1. bst = "out" /\ bst' = "adding" /\ Ensure /\ UNCHANGED <<kst, leaks>>
    BY <1>9 DEF BrokerStarts
  <2>2. Holders' = Holders \cup {Broker} /\ Broker \notin Holders
    BY <1>0, <2>1 DEF Holders
  <2> QED BY <1>0, <1>7, <2>1, <2>2, BusJoined, MeshAssumption DEF BrokerStates
<1>10. ASSUME NEW c \in Consumers, ConsumerExits(c) PROVE BusInv'
  <2>1. /\ kst[c] \in Alive \cup {"meshless"}
        /\ kst' = [kst EXCEPT ![c] = IF kst[c] = "meshless" THEN "released" ELSE "dead"]
        /\ UNCHANGED <<bst, refcount, leaks, owner>>
    BY <1>10 DEF ConsumerExits, poolVars, ownerVars
  <2>2. kst' \in [Consumers -> KennelStates]
    BY <1>0, <2>1 DEF KennelStates
  <2>3. Holders' = Holders
    BY <1>0, <2>1 DEF Holders, Alive
  <2> QED BY <1>0, <2>1, <2>2, <2>3, BusRests
<1>11. ASSUME NEW c \in Consumers, ConsumerReleases(c) PROVE BusInv'
  <2>1. kst[c] = "dead" /\ LeaveBus(c) /\ kst' = [kst EXCEPT ![c] = "released"]
        /\ UNCHANGED <<bst, leaks>>
    BY <1>11 DEF ConsumerReleases
  <2>2. kst' \in [Consumers -> KennelStates]
    BY <1>0, <2>1 DEF KennelStates
  <2>3. Holders' = Holders \ {c} /\ c \in Holders
    BY <1>0, <2>1 DEF Holders, Alive
  <2> QED BY <1>0, <2>1, <2>2, <2>3, BusLeft, MeshAssumption
<1>12. CASE BrokerReleases
  <2>1. bst = "dead" /\ LeaveBus(Broker) /\ bst' = "released" /\ UNCHANGED <<kst, leaks>>
    BY <1>12 DEF BrokerReleases
  <2>2. Holders' = Holders \ {Broker} /\ Broker \in Holders
    BY <1>0, <2>1 DEF Holders
  <2> QED BY <1>0, <2>1, <2>2, BusLeft, MeshAssumption DEF BrokerStates
<1>13. CASE BrokerDies
  BY <1>3, <1>13 DEF BrokerDies, ownerVars
<1>14. ASSUME NEW c \in Consumers, Connect(c) PROVE BusInv'
  <2>1. kst[c] = "in" /\ kst' = [kst EXCEPT ![c] = "asking"]
        /\ UNCHANGED <<bst, refcount, leaks, owner>>
    BY <1>14 DEF Connect, ownerVars
  <2>2. kst' \in [Consumers -> KennelStates]
    BY <1>0, <2>1 DEF KennelStates, Alive
  <2>3. Holders' = Holders
    BY <1>0, <2>1 DEF Holders, Alive
  <2> QED BY <1>0, <2>1, <2>2, <2>3, BusRests
<1>15. ASSUME NEW c \in Consumers, Send(c) PROVE BusInv'
  BY <1>1, <1>15 DEF Send, poolVars, ownerVars
<1>16. CASE TeardownStep
  <2>1. owner # "serving" /\ UNCHANGED <<kst, bst, refcount, leaks>>
    BY <1>16 DEF TeardownStep, TakeHandles, Joined, meshVars
  <2>2. Holders = {}
    BY <2>1 DEF BusInv
  <2> QED BY <1>1, <2>1, <2>2
<1>17. CASE UNCHANGED vars
  BY <1>1, <1>17 DEF vars, meshVars, poolVars, ownerVars
<1> QED BY <1>4, <1>5, <1>6, <1>8, <1>9, <1>10, <1>11, <1>12, <1>13, <1>14, <1>15, <1>16,
           <1>17 DEF Next

\* The bus serves for as long as any kennel holds its mount, for any number of
\* participants and failed clones.
THEOREM BusOutlivesHoldersTheorem == Spec => []BusOutlivesHolders
<1>1. Init => BusInv
  <2> SUFFICES ASSUME Init PROVE BusInv
    OBVIOUS
  <2>1. Holders = {}
    BY DEF Init, Holders, Alive
  <2> QED BY <2>1, FS_EmptySet DEF Init, BusInv, KennelStates, BrokerStates
<1>2. BusInv => BusOutlivesHolders
  BY HoldersFinite, MeshAssumption DEF BusInv, BusOutlivesHolders
<1> QED BY <1>1, <1>2, BusNext, PTL DEF Spec
-----------------------------------------------------------------------------
(* Sessions: what makes OwnPolicy inductive.                               *)

Stages == {"none", "born", "counted", "loop", "poll", "batch", "push", "handle",
           "insert", "nested", "gone"}

SessionShape ==
    /\ kst \in [Consumers -> KennelStates]
    /\ ctxOf \in [Consumers -> Ctxs \cup {NoCtx}]
    /\ sess \in [Consumers -> Ctxs \cup {NoCtx}]
    /\ conduit \in [Consumers -> Consumers \cup {NoOne}]
    /\ pc \in [Threads -> Stages] /\ tx = [t \in Threads |-> tx[t]]

\* Running kennels have different contexts, and nobody else has one.
ContextsDistinct ==
    /\ \A c \in Consumers : ctxOf[c] # NoCtx <=> kst[c] \in Alive \cup {"meshless"}
    /\ \A c, d \in Consumers : ctxOf[c] = ctxOf[d] /\ ctxOf[c] # NoCtx => c = d

\* A nested call carries the context its caller still runs under.
NestedFits ==
    \A t \in Threads : \A c \in Consumers :
        pc[t] = "nested" /\ tx[t][2] = c =>
            /\ kst[c] # "out"
            /\ kst[c] \in Alive => tx[t][3] = ctxOf[c]
            /\ tx[t][3] \in Ctxs

\* A session belongs to the context of its consumer for as long as that runs.
SessionsFit ==
    \A c \in Consumers :
        /\ kst[c] = "out" => sess[c] = NoCtx /\ conduit[c] = NoOne
        /\ kst[c] \in Alive => sess[c] \in {NoCtx, ctxOf[c]} /\ conduit[c] \in {NoOne, c}

SessionInv == SessionShape /\ ContextsDistinct /\ NestedFits /\ SessionsFit

\* Nothing a session depends on moves, but for threads that do not enter the
\* nested call.
LEMMA SessionRests ==
    ASSUME SessionInv, UNCHANGED <<ctxOf, kst, sess, conduit>>,
           pc' \in [Threads -> Stages], tx' = [s \in Threads |-> tx'[s]],
           \A t \in Threads : pc'[t] = "nested" => pc[t] = "nested" /\ tx'[t] = tx[t]
    PROVE  SessionInv'
BY DEF SessionInv, SessionShape, ContextsDistinct, NestedFits, SessionsFit

\* A reply ends a nested call and may tell the consumer its outcome.
LEMMA SessionTold ==
    ASSUME SessionInv, NEW t \in Threads, Reply(t), UNCHANGED <<ctxOf, sess, conduit>>,
           kst' = kst \/ \E c, o : Told(c, o) /\ o \in {"node", "refused"}
    PROVE  SessionInv'
<1>1. /\ kst' \in [Consumers -> KennelStates]
      /\ \A d \in Consumers : /\ kst'[d] = "out" <=> kst[d] = "out"
                              /\ kst'[d] \in Alive <=> kst[d] \in Alive
                              /\ kst'[d] = "meshless" <=> kst[d] = "meshless"
  BY DEF Told, SessionInv, SessionShape, KennelStates, Alive
<1>2. /\ pc' \in [Threads -> Stages] /\ tx' = [s \in Threads |-> tx'[s]]
      /\ \A s \in Threads : pc'[s] = "nested" => pc[s] = "nested" /\ tx'[s] = tx[s]
  BY DEF Reply, SessionInv, SessionShape, Stages
<1>3. SessionShape' /\ ContextsDistinct'
  BY <1>1, <1>2 DEF SessionInv, SessionShape, ContextsDistinct
<1>4. NestedFits'
  BY <1>1, <1>2 DEF SessionInv, NestedFits
<1>5. SessionsFit'
  BY <1>1 DEF SessionInv, SessionsFit
<1> QED BY <1>3, <1>4, <1>5 DEF SessionInv

\* Every step keeps each session with the consumer it was opened for.
LEMMA SessionNext == SessionInv /\ [Next]_vars => SessionInv'
<1> SUFFICES ASSUME SessionInv, [Next]_vars PROVE SessionInv'
  OBVIOUS
<1> USE DEF SessionInv
<1>1. ASSUME UNCHANGED <<pc, tx, ctxOf, kst, sess, conduit>> PROVE SessionInv'
  BY <1>1, SessionRests DEF SessionShape
<1>2. ASSUME NEW t \in Threads, PoolStep(t) PROVE SessionInv'
  <2>1. UNCHANGED <<ctxOf, kst, sess, conduit>>
    BY <1>2 DEF PoolStep, meshVars
  <2>2. /\ pc' \in [Threads -> Stages] /\ tx' = [s \in Threads |-> tx'[s]]
        /\ \A s \in Threads : pc'[s] = "nested" => pc[s] = "nested" /\ tx'[s] = tx[s]
    <3>1. CASE Grow(t)
      <4>1. PICK u \in Threads : pc' = [pc EXCEPT ![t] = "push", ![u] = "born"]
        BY <3>1 DEF Grow
      <4> QED BY <3>1, <4>1 DEF Grow, SessionShape, Stages
    <3>2. CASE Recv(t)
      BY <3>2 DEF Recv, SessionShape, Stages
    <3>3. CASE ~Grow(t) /\ ~Recv(t)
      <4>1. tx' = tx /\ \E q \in {"counted", "loop", "poll", "gone", "handle"} :
                           pc' = [pc EXCEPT ![t] = q]
        BY <1>2, <3>3 DEF PoolStep, LooperStep, CountSelf, Register, ToPoll, Leave, Woken,
                          NoGrow, PushHandle
      <4> QED BY <4>1 DEF SessionShape, Stages
    <3> QED BY <3>1, <3>2, <3>3
  <2> QED BY <2>1, <2>2, SessionRests
<1>3. ASSUME NEW t \in Threads, Handler(t) PROVE SessionInv'
  <2>1. CASE AddWatch(t)
    BY <2>1, SessionRests DEF AddWatch, SessionShape, Stages, brokerVars
  <2>2. CASE AddInsert(t) \/ Death(t) \/ Refuse(t) \/ NestedFails(t)
    BY <2>2, SessionTold DEF AddInsert, Death, Refuse, NestedFails, brokerVars
  <2>3. CASE NewSession(t)
    <3> DEFINE c == tx[t][2]
    <3>1. /\ ctxOf[c] # NoCtx
          /\ tx' = [tx EXCEPT ![t] = <<"connect", c, ctxOf[c]>>]
          /\ pc' = [pc EXCEPT ![t] = "nested"]
          /\ UNCHANGED <<ctxOf, kst, sess, conduit>>
      BY <2>3 DEF NewSession
    <3>2. SessionShape' /\ ContextsDistinct' /\ SessionsFit'
      BY <3>1 DEF SessionShape, Stages, ContextsDistinct, SessionsFit
    <3>3. NestedFits'
      <4> SUFFICES ASSUME NEW s \in Threads, NEW d \in Consumers,
                          pc'[s] = "nested", tx'[s][2] = d
                   PROVE  /\ kst[d] # "out"
                          /\ kst[d] \in Alive => tx'[s][3] = ctxOf[d]
                          /\ tx'[s][3] \in Ctxs
        BY <3>1 DEF NestedFits
      <4>1. CASE s = t
        <5>1. tx'[s] = <<"connect", c, ctxOf[c]>> /\ d = c
          BY <3>1, <4>1 DEF SessionShape
        <5> QED BY <3>1, <5>1 DEF SessionShape, ContextsDistinct, Alive
      <4>2. CASE s # t
        BY <3>1, <4>2 DEF NestedFits, SessionShape
      <4> QED BY <4>1, <4>2
    <3> QED BY <3>2, <3>3
  <2>4. CASE ServePolicy(t)
    <3> DEFINE c == tx[t][2]
    <3>1. /\ Reply(t) /\ UNCHANGED <<ctxOf, kst, sess>>
          /\ \/ UNCHANGED conduit
             \/ conduit' = [conduit EXCEPT ![c] =
                   IF Occupant(sess[c]) = {} THEN NoOne
                   ELSE CHOOSE d \in Occupant(sess[c]) : TRUE]
      BY <2>4 DEF ServePolicy
    <3>2. CASE UNCHANGED conduit
      BY <3>1, <3>2, SessionTold
    <3>3. CASE conduit' = [conduit EXCEPT ![c] =
                   IF Occupant(sess[c]) = {} THEN NoOne
                   ELSE CHOOSE d \in Occupant(sess[c]) : TRUE]
      <4> DEFINE v == IF Occupant(sess[c]) = {} THEN NoOne
                      ELSE CHOOSE d \in Occupant(sess[c]) : TRUE
      <4>1. v \in Consumers \cup {NoOne}
        BY DEF Occupant
      <4>2. ASSUME c \in Consumers, kst[c] = "out" PROVE v = NoOne
        BY <4>2 DEF Occupant, SessionsFit
      <4>3. ASSUME c \in Consumers, kst[c] \in Alive PROVE v \in {NoOne, c}
        <5>1. sess[c] \in {NoCtx, ctxOf[c]} /\ ctxOf[c] # NoCtx
          BY <4>3 DEF SessionsFit, ContextsDistinct
        <5>2. Occupant(sess[c]) \subseteq {c}
          BY <4>3, <5>1 DEF Occupant, ContextsDistinct
        <5> QED BY <5>2
      <4>4. conduit' \in [Consumers -> Consumers \cup {NoOne}]
            /\ \A d \in Consumers : conduit'[d] = IF d = c THEN v ELSE conduit[d]
        BY <3>3, <4>1 DEF SessionShape
      <4>5. /\ pc' \in [Threads -> Stages] /\ tx' = [s \in Threads |-> tx'[s]]
            /\ \A s \in Threads : pc'[s] = "nested" => pc[s] = "nested" /\ tx'[s] = tx[s]
        BY <3>1 DEF Reply, SessionShape, Stages
      <4>6. SessionShape' /\ ContextsDistinct' /\ NestedFits'
        BY <3>1, <4>4, <4>5 DEF SessionShape, ContextsDistinct, NestedFits
      <4>7. SessionsFit'
        BY <3>1, <4>2, <4>3, <4>4 DEF SessionsFit
      <4> QED BY <4>6, <4>7
    <3> QED BY <3>1, <3>2, <3>3
  <2> QED BY <1>3, <2>1, <2>2, <2>3, <2>4 DEF Handler
<1>4. CASE Mint
  <2> DEFINE c == Head(inbox)[2]
  <2>1. PICK t \in Threads : /\ pc[t] = "nested" /\ tx[t][2] = c
                            /\ sess' = [sess EXCEPT ![c] = tx[t][3]]
                            /\ Told(c, "node") /\ Reply(t)
    BY <1>4 DEF Mint
  <2>2. UNCHANGED <<ctxOf, conduit>>
    BY <1>4 DEF Mint
  <2>3. /\ kst' \in [Consumers -> KennelStates]
        /\ \A d \in Consumers : /\ kst'[d] = "out" <=> kst[d] = "out"
                                /\ kst'[d] \in Alive <=> kst[d] \in Alive
                                /\ kst'[d] = "meshless" <=> kst[d] = "meshless"
    BY <2>1 DEF Told, SessionShape, KennelStates, Alive
  <2>4. /\ pc' \in [Threads -> Stages] /\ tx' = [s \in Threads |-> tx'[s]]
        /\ \A s \in Threads : pc'[s] = "nested" => pc[s] = "nested" /\ tx'[s] = tx[s]
    BY <2>1 DEF Reply, SessionShape, Stages
  <2>5. c \in Consumers => /\ kst[c] # "out" /\ tx[t][3] \in Ctxs
                           /\ kst[c] \in Alive => tx[t][3] = ctxOf[c]
    BY <2>1 DEF NestedFits
  <2>6. sess' \in [Consumers -> Ctxs \cup {NoCtx}]
        /\ \A d \in Consumers : sess'[d] = IF d = c THEN tx[t][3] ELSE sess[d]
    BY <2>1, <2>5 DEF SessionShape
  <2>7. SessionShape' /\ ContextsDistinct'
    BY <2>2, <2>3, <2>4, <2>6 DEF SessionShape, ContextsDistinct
  <2>8. NestedFits'
    BY <2>2, <2>3, <2>4 DEF NestedFits
  <2>9. SessionsFit'
    BY <2>2, <2>3, <2>5, <2>6 DEF SessionsFit
  <2> QED BY <2>7, <2>8, <2>9
<1>5. ASSUME NEW c, sess' = [sess EXCEPT ![c] = NoCtx],
             conduit' = [conduit EXCEPT ![c] = NoOne], UNCHANGED <<pc, tx, ctxOf, kst>>
      PROVE  SessionInv'
  <2>1. /\ sess' \in [Consumers -> Ctxs \cup {NoCtx}]
        /\ conduit' \in [Consumers -> Consumers \cup {NoOne}]
        /\ \A d \in Consumers : sess'[d] \in {NoCtx, sess[d]} /\ conduit'[d] \in {NoOne, conduit[d]}
    BY <1>5 DEF SessionShape
  <2> QED BY <1>5, <2>1 DEF SessionShape, ContextsDistinct, NestedFits, SessionsFit
<1>6. CASE Pull \/ Forward \/ \E c \in Consumers : Release(c)
  BY <1>1, <1>5, <1>6 DEF Pull, Forward, Release, poolVars, looperVars
<1>7. ASSUME NEW c \in Consumers, ConsumerStarts(c) PROVE SessionInv'
  <2>1. PICK x \in Ctxs \ {ctxOf[d] : d \in Consumers} : ctxOf' = [ctxOf EXCEPT ![c] = x]
    BY <1>7 DEF ConsumerStarts
  <2>2. /\ kst[c] = "out" /\ UNCHANGED <<sess, conduit>>
        /\ \E k \in {"in", "meshless"} : kst' = [kst EXCEPT ![c] = k]
    BY <1>7 DEF ConsumerStarts, brokerVars
  <2>3. /\ pc' \in [Threads -> Stages] /\ tx' = [s \in Threads |-> tx'[s]]
        /\ \A s \in Threads : pc'[s] = "nested" => pc[s] = "nested" /\ tx'[s] = tx[s]
    <3>1. CASE ServePool
      <4>1. PICK u : pc' = [pc EXCEPT ![u] = "loop"] /\ tx' = tx
        BY <3>1 DEF ServePool
      <4> QED BY <4>1 DEF SessionShape, Stages
    <3>2. CASE UNCHANGED looperVars
      BY <3>2 DEF looperVars, SessionShape
    <3> QED BY <1>7, <3>1, <3>2 DEF ConsumerStarts, Ensure
  <2>4. PICK k \in {"in", "meshless"} : \A d \in Consumers : kst'[d] = IF d = c THEN k ELSE kst[d]
    BY <2>2 DEF SessionShape
  <2>5. \A d \in Consumers : ctxOf'[d] = IF d = c THEN x ELSE ctxOf[d]
    BY <2>1 DEF SessionShape
  <2>6. x # NoCtx /\ \A d \in Consumers : ctxOf[d] # x
    BY <2>1, MeshAssumption DEF MeshAssumption
  <2>7. SessionShape'
    BY <2>1, <2>2, <2>3 DEF SessionShape, KennelStates, Alive
  <2>8. ContextsDistinct'
    BY <2>2, <2>4, <2>5, <2>6 DEF ContextsDistinct, Alive
  <2>9. NestedFits'
    BY <2>2, <2>3, <2>4, <2>5 DEF NestedFits, Alive
  <2>10. SessionsFit'
    BY <2>2, <2>4, <2>5 DEF SessionsFit, Alive
  <2> QED BY <2>7, <2>8, <2>9, <2>10
<1>8. ASSUME NEW c \in Consumers, ConsumerExits(c) PROVE SessionInv'
  <2>1. /\ \E k \in {"released", "dead"} : kst' = [kst EXCEPT ![c] = k]
        /\ ctxOf' = [ctxOf EXCEPT ![c] = NoCtx]
        /\ kst[c] \in Alive \cup {"meshless"}
        /\ UNCHANGED <<pc, tx, sess, conduit>>
    BY <1>8 DEF ConsumerExits, poolVars, looperVars, brokerVars
  <2>2. PICK k \in {"released", "dead"} : \A d \in Consumers : kst'[d] = IF d = c THEN k ELSE kst[d]
    BY <2>1 DEF SessionShape
  <2>3. \A d \in Consumers : ctxOf'[d] = IF d = c THEN NoCtx ELSE ctxOf[d]
    BY <2>1 DEF SessionShape
  <2>4. SessionShape'
    BY <2>1 DEF SessionShape, KennelStates
  <2>5. ContextsDistinct'
    BY <2>2, <2>3 DEF ContextsDistinct, Alive
  <2>6. NestedFits' /\ SessionsFit'
    BY <2>1, <2>2, <2>3 DEF NestedFits, SessionsFit, Alive
  <2> QED BY <2>4, <2>5, <2>6
<1>9. ASSUME NEW q, LeaveBus(q) PROVE UNCHANGED <<pc, tx>>
  BY <1>9 DEF LeaveBus, SetStop, poolVars, looperVars
<1>10. ASSUME NEW c \in Consumers, NEW k \in {"released", "asking"},
              kst' = [kst EXCEPT ![c] = k],
              k = "released" => kst[c] = "dead", k = "asking" => kst[c] = "in",
              UNCHANGED <<pc, tx, ctxOf, sess, conduit>>
       PROVE  SessionInv'
  <2>1. \A d \in Consumers : kst'[d] = IF d = c THEN k ELSE kst[d]
    BY <1>10 DEF SessionShape
  <2>2. SessionShape'
    BY <1>10 DEF SessionShape, KennelStates, Alive
  <2>3. ContextsDistinct' /\ NestedFits' /\ SessionsFit'
    BY <1>10, <2>1 DEF ContextsDistinct, NestedFits, SessionsFit, Alive
  <2> QED BY <2>2, <2>3
<1>11. ASSUME NEW c \in Consumers, ConsumerReleases(c) PROVE SessionInv'
  BY <1>9, <1>10, <1>11 DEF ConsumerReleases, brokerVars
<1>12. ASSUME NEW c \in Consumers, Connect(c) PROVE SessionInv'
  BY <1>10, <1>12 DEF Connect, looperVars, brokerVars
<1>13. ASSUME NEW c \in Consumers, Send(c) PROVE SessionInv'
  BY <1>1, <1>13 DEF Send, poolVars, looperVars
<1>14. CASE BrokerStarts
  <2>1. UNCHANGED <<ctxOf, kst, sess, conduit>>
    BY <1>14 DEF BrokerStarts, brokerVars
  <2>2. CASE ServePool
    <3>1. PICK u : pc' = [pc EXCEPT ![u] = "loop"] /\ tx' = tx
      BY <2>2 DEF ServePool
    <3> QED BY <2>1, <3>1, SessionRests DEF SessionShape, Stages
  <2>3. CASE UNCHANGED looperVars
    BY <1>1, <2>1, <2>3 DEF looperVars
  <2> QED BY <1>14, <2>2, <2>3 DEF BrokerStarts, Ensure
<1>15. CASE BrokerDies
  BY <1>15 DEF BrokerDies, looperVars, SessionShape, ContextsDistinct, NestedFits, SessionsFit
<1>16. CASE BrokerReleases
  BY <1>1, <1>9, <1>16 DEF BrokerReleases, brokerVars
<1>17. CASE TeardownStep
  BY <1>1, <1>17 DEF TeardownStep, TakeHandles, Joined, looperVars, meshVars, brokerVars
<1>18. CASE UNCHANGED vars
  BY <1>1, <1>18 DEF vars, meshVars, poolVars, looperVars
<1> QED BY <1>2, <1>3, <1>4, <1>6, <1>7, <1>8, <1>11, <1>12, <1>13, <1>14, <1>15, <1>16,
           <1>17, <1>18 DEF Next, BrokerStep

\* A running consumer's session is mediated under its own policy, for any
\* reuse of context numbers.
THEOREM OwnPolicyTheorem == Spec => []OwnPolicy
<1>1. Init => SessionInv
  BY MeshAssumption DEF Init, NoPool, SessionInv, SessionShape, ContextsDistinct, NestedFits,
                        SessionsFit, KennelStates, Alive, MeshAssumption, Stages
<1>2. SessionInv => OwnPolicy
  BY DEF SessionInv, SessionsFit, OwnPolicy
<1> QED BY <1>1, <1>2, SessionNext, PTL DEF Spec
=============================================================================
