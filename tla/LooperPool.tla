------------------------------ MODULE LooperPool ----------------------------
(***************************************************************************)
(* The looper pool that serves node 0 of a binder instance                 *)
(* (ContextManager::serve_pool): one thread at first, growing when the     *)
(* driver asks for another.  The driver keeps at most one request          *)
(* outstanding; the pool refuses it at Max threads or when it is stopping. *)
(* The owner ends the pool by setting a flag, waking every looper and      *)
(* joining the recorded handles.                                           *)
(*                                                                         *)
(* What a handler does with a transaction is left open: a looper stays in  *)
(* "handle" until the module that extends this one replies.  A read or     *)
(* poll error also ends a looper in the code; neither occurs on an open,   *)
(* non-blocking device, and it is left out.                                *)
(***************************************************************************)
EXTENDS Naturals, Sequences, FiniteSets

CONSTANTS
    Threads,        \* the threads the pool may ever start
    NoThread, NoTx,
    Max,            \* max_threads
    JoinUnderLock,  \* MeshBus::teardown joins with the list locked,
                    \* Manager::stop takes the list out first
    SpawnMayFail    \* thread creation may fail

ASSUME PoolAssumption ==
    /\ Max \in Nat \ {0}
    /\ IsFiniteSet(Threads) /\ Threads # {} /\ NoThread \notin Threads
    /\ JoinUnderLock \in BOOLEAN /\ SpawnMayFail \in BOOLEAN

VARIABLES
    pc,         \* where each looper is
    tx,         \* the transaction of its batch
    asked,      \* its batch held BR_SPAWN_LOOPER
    child,      \* the thread it has started and not yet recorded
    live,       \* the shared counter
    stop,       \* the stop flag
    lock,       \* who holds the list of handles: a looper, "owner" or "free"
    handles,    \* the list
    owner,      \* the owner: "serving", "take", "joining", "done"
    joining,    \* the handles it joins
    queue,      \* the driver: undelivered work, oldest first
    requested,  \* a looper was requested and has not registered
    started     \* loopers that registered on request

looperVars == <<pc, tx, asked, child>>
ownerVars == <<stop, lock, handles, owner, joining>>
driverVars == <<queue, requested, started>>
poolVars == <<looperVars, live, ownerVars, driverVars>>

PoolTypeOK ==
    /\ pc \in [Threads -> {"none", "born", "counted", "loop", "poll", "batch",
                           "push", "handle", "insert", "nested", "gone"}]
    /\ asked \in [Threads -> BOOLEAN]
    /\ child \in [Threads -> Threads \cup {NoThread}]
    /\ live \in Nat
    /\ stop \in BOOLEAN
    /\ lock \in {"free", "owner"}
    /\ handles \subseteq Threads
    /\ owner \in {"none", "serving", "take", "joining", "done"}
    /\ joining \subseteq Threads
    /\ requested \in BOOLEAN
    /\ started \in Nat

\* Before serve_pool.
NoPool ==
    /\ pc = [t \in Threads |-> "none"]
    /\ tx = [t \in Threads |-> NoTx]
    /\ asked = [t \in Threads |-> FALSE]
    /\ child = [t \in Threads |-> NoThread]
    /\ live = 0
    /\ stop = FALSE /\ lock = "free" /\ handles = {}
    /\ owner = "none" /\ joining = {}
    /\ queue = <<>> /\ requested = FALSE /\ started = 0

\* serve_pool: one entered looper, its handle recorded.  The caller says what
\* becomes of the driver's queue.  Which unused thread it is does not matter.
Unused(t) == pc[t] = "none"

ServePool ==
    /\ owner = "none"
    /\ LET t == CHOOSE u \in Threads : Unused(u) IN
         /\ pc' = [pc EXCEPT ![t] = "loop"]
         /\ handles' = {t}
    /\ live' = 1
    /\ owner' = "serving"
    /\ UNCHANGED <<tx, asked, child, stop, lock, joining, requested, started>>

-----------------------------------------------------------------------------
(* The driver                                                              *)

\* binder_thread_read ends every successful read of a looper with this test.
\* Loopers poll and never block in a read, so the driver always sees them all
\* busy.
DriverAsks == ~requested /\ started < Max

-----------------------------------------------------------------------------
(* A looper thread                                                         *)

\* The new thread raises the counter ...
CountSelf(t) ==
    /\ pc[t] = "born"
    /\ live' = live + 1
    /\ pc' = [pc EXCEPT ![t] = "counted"]
    /\ UNCHANGED <<tx, asked, child, ownerVars, driverVars>>

\* ... and then tells the driver, which may ask for the next one from here on.
Register(t) ==
    /\ pc[t] = "counted"
    /\ pc' = [pc EXCEPT ![t] = "loop"]
    /\ requested' = FALSE
    /\ started' = started + 1
    /\ UNCHANGED <<tx, asked, child, live, ownerVars, queue>>

\* The loop's test of the stop flag; a poll that times out comes back to it.
ToPoll(t) ==
    /\ pc[t] = "loop" /\ ~stop
    /\ pc' = [pc EXCEPT ![t] = "poll"]
    /\ UNCHANGED <<tx, asked, child, live, ownerVars, driverVars>>

Leave(t) ==
    /\ pc[t] = "loop" /\ stop
    /\ pc' = [pc EXCEPT ![t] = "gone"]
    /\ live' = live - 1
    /\ UNCHANGED <<tx, asked, child, ownerVars, driverVars>>

\* The eventfd ends the poll of every looper; it is never reset.
Woken(t) ==
    /\ pc[t] = "poll" /\ stop
    /\ pc' = [pc EXCEPT ![t] = "loop"]
    /\ UNCHANGED <<tx, asked, child, live, ownerVars, driverVars>>

\* recv_batch: the oldest transaction, and perhaps a request for a looper.
Recv(t) ==
    /\ pc[t] = "poll" /\ queue # <<>>
    /\ tx' = [tx EXCEPT ![t] = Head(queue)]
    /\ queue' = Tail(queue)
    /\ asked' = [asked EXCEPT ![t] = DriverAsks]
    /\ requested' = (requested \/ DriverAsks)
    /\ pc' = [pc EXCEPT ![t] = "batch"]
    /\ UNCHANGED <<child, live, ownerVars, started>>

\* Mutant: the pool grows whenever the driver asks.
MayGrowAlways(t) == asked[t] /\ ~stop

MayGrow(t) == asked[t] /\ ~stop /\ live < Max

\* spawn_looper: the new thread runs before its handle is recorded.
Grow(t) ==
    /\ pc[t] = "batch" /\ MayGrow(t)
    /\ \E u \in Threads : Unused(u)
    /\ LET u == CHOOSE v \in Threads : Unused(v) IN
         /\ pc' = [pc EXCEPT ![t] = "push", ![u] = "born"]
         /\ child' = [child EXCEPT ![t] = u]
    /\ asked' = [asked EXCEPT ![t] = FALSE]
    /\ UNCHANGED <<tx, live, ownerVars, driverVars>>

\* The request is declined, or the thread cannot be created: the driver is not
\* told, its request stays outstanding and it never asks again.
NoGrow(t) ==
    /\ pc[t] = "batch"
    /\ ~MayGrow(t) \/ SpawnMayFail
    /\ pc' = [pc EXCEPT ![t] = "handle"]
    /\ asked' = [asked EXCEPT ![t] = FALSE]
    /\ UNCHANGED <<tx, child, live, ownerVars, driverVars>>

PushHandle(t) ==
    /\ pc[t] = "push" /\ lock = "free"
    /\ handles' = handles \cup {child[t]}
    /\ child' = [child EXCEPT ![t] = NoThread]
    /\ pc' = [pc EXCEPT ![t] = "handle"]
    /\ UNCHANGED <<tx, asked, live, stop, lock, owner, joining, driverVars>>

\* dispatch_reply, and back to the loop.  A conjunct of the handlers' last step.
Reply(t) ==
    /\ pc' = [pc EXCEPT ![t] = "loop"]
    /\ tx' = [tx EXCEPT ![t] = NoTx]
    /\ UNCHANGED <<asked, child, live>>

-----------------------------------------------------------------------------
(* The owner                                                               *)

\* stop.store(true), waker.wake().
SetStop ==
    /\ owner = "serving"
    /\ stop' = TRUE
    /\ owner' = "take"
    /\ UNCHANGED <<looperVars, live, lock, handles, joining, driverVars>>

\* The list is locked and drained; MeshBus::teardown keeps the lock.
TakeHandles ==
    /\ owner = "take" /\ lock = "free"
    /\ joining' = handles
    /\ handles' = {}
    /\ lock' = IF JoinUnderLock THEN "owner" ELSE "free"
    /\ owner' = "joining"
    /\ UNCHANGED <<looperVars, live, stop, driverVars>>

Joined ==
    /\ owner = "joining"
    /\ \A t \in joining : pc[t] = "gone"
    /\ joining' = {}
    /\ lock' = "free"
    /\ owner' = "done"
    /\ UNCHANGED <<looperVars, live, stop, handles, driverVars>>

LooperStep(t) ==
    \/ CountSelf(t) \/ Register(t) \/ ToPoll(t) \/ Leave(t) \/ Woken(t)
    \/ Recv(t) \/ Grow(t) \/ NoGrow(t) \/ PushHandle(t)

-----------------------------------------------------------------------------
(* Properties                                                              *)

Looping(t) == pc[t] \notin {"none", "born", "gone"}

\* The pool never holds more loopers than max_threads, although the test of the
\* counter and the increment are in two threads: the driver asks for the next
\* looper only after the last one has registered, hence counted itself
\* (looper_loop's `live < max_threads`, spawn_looper's fetch_add).
PoolBounded == Cardinality({t \in Threads : Looping(t)}) <= Max
=============================================================================
