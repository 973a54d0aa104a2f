-------------------------- MODULE KennelRegistry ---------------------------
(***************************************************************************)
(* The life of a kennel inside the daemon: the registry and its context    *)
(* allocator, the run_kennel thread of every kennel, the dynamic-spawn     *)
(* path that starts sibling kennels on behalf of a running one, the hard   *)
(* reaper that kills them, and the Stop request.                           *)
(*                                                                         *)
(* The daemon takes the registry mutex for one read or update at a time    *)
(* and does everything else (bring-up, waiting, killing a cgroup) without  *)
(* it, so an action here is one critical section or one system call.       *)
(*                                                                         *)
(* A run is one execution of run_kennel: its thread serves one request and *)
(* ends.  The name of a spawned kennel is the pair <<ctx, id>> that the    *)
(* code prints as spawn-<ctx>-<id>; the id is unique, so the run itself    *)
(* serves as the id.                                                       *)
(***************************************************************************)
EXTENDS Integers, FiniteSets

CONSTANTS
    Conns,          \* runs started by a Start request on the control socket
    Spawned,        \* runs started by a SPAWN transaction of another kennel
    Stops,          \* Stop requests, each on its own connection thread
    PlainNames,     \* names not of the shape spawn-<ctx>-<id>
    Ids,            \* ids a spawn-shaped name can carry
    OperatorNames,  \* the names operators pass to `kennel run`
    MaxCtx,         \* CtxAllocator.max
    MaxInstances,   \* [spawn].max_instances
    LateLooper,     \* whether the driver may ask for one more looper thread
                    \* while Manager::stop is collecting them
    NoRun, NoName   \* "none yet" for a run and for a name

Ctxs == 1 .. MaxCtx
Runs == Conns \cup Spawned
Agents == Runs \cup Stops
KennelNames == PlainNames \cup (Ctxs \X Ids)

ASSUME RegistryAssumption ==
    /\ MaxCtx \in Nat \ {0}
    /\ MaxInstances \in Nat \ {0}
    /\ LateLooper \in BOOLEAN
    /\ Spawned \subseteq Ids
    /\ Conns \cap Spawned = {}
    /\ Runs \cap Stops = {}
    /\ PlainNames \cap (Ctxs \X Ids) = {}
    /\ OperatorNames \subseteq KennelNames
    /\ NoRun \notin Runs
    /\ NoName \notin KennelNames

VARIABLES
    \* --- Registry, under its mutex ---
    used,       \* CtxAllocator.used
    ctxOf,      \* registry: name -> ctx, 0 when the name has no entry
    hasPid,     \* entries whose meta.pid is Some
    \* --- Bastion, under its own mutex ---
    edges,      \* names with SSH edges registered
    \* --- the kernel ---
    dirs,       \* contexts whose cgroup directory exists
    procs,      \* procs[c]: runs whose kennel-bin-init (and what it forked)
                \* lives in cgroup kennel-<c>
    \* --- run_kennel threads ---
    pc,
    name,       \* the kennel name of the request
    ctx,        \* the reserved context, 0 before reserve
    requester,  \* for a spawned run, the run whose workload asked for it
    \* --- SpawnRuntime of each run ---
    live,       \* live spawn count, the max_instances accounting
    parentAlive,\* the flag SpawnRuntime::drop clears
    \* --- reap_children, stop ---
    scan,       \* contexts a reaper has collected and not yet killed
    spc, sname, sctx, victim    \* Stop threads; victim is the run that owned
                                \* the named entry when the request read it

regVars  == <<used, ctxOf, hasPid>>
kernVars == <<dirs, procs>>
runVars  == <<name, ctx, requester>>
spawnVars == <<live, parentAlive>>
stopVars == <<spc, sname, sctx, victim>>
vars == <<regVars, edges, kernVars, pc, runVars, spawnVars, scan, stopVars>>

\* Where a run is; the phases are separated by the lock acquisitions and
\* system calls of run_kennel.
BeforeReserve == {"idle", "minting", "queued"}
Holding == {"reserved", "prepared", "building", "constructed", "unwinding",
            "failing", "failed", "live", "started", "waiting", "reaped",
            "unserved", "torn", "reaping", "silent"}
Finished == {"exited", "done"}
\* The workload may be running: the bus is live and the exit is not reaped.
Serving == {"live", "started", "waiting"}

TypeOK ==
    /\ used \subseteq Ctxs
    /\ ctxOf \in [KennelNames -> Ctxs \cup {0}]
    /\ hasPid \subseteq KennelNames
    /\ edges \subseteq KennelNames
    /\ dirs \subseteq Ctxs
    /\ procs \in [Ctxs -> SUBSET Runs]
    /\ pc \in [Runs -> BeforeReserve \cup Holding \cup Finished]
    /\ name \in [Runs -> KennelNames \cup {NoName}]
    /\ ctx \in [Runs -> Ctxs \cup {0}]
    /\ requester \in [Runs -> Runs \cup {NoRun}]
    /\ live \in [Runs -> Int]
    /\ parentAlive \in [Runs -> BOOLEAN]
    /\ scan \in [Agents -> SUBSET Ctxs]
    /\ spc \in [Stops -> {"idle", "scan", "kill", "done"}]
    /\ sname \in [Stops -> KennelNames \cup {NoName}]
    /\ sctx \in [Stops -> Ctxs \cup {0}]
    /\ victim \in [Stops -> Runs \cup {NoRun}]

Init ==
    /\ used = {}
    /\ ctxOf = [n \in KennelNames |-> 0]
    /\ hasPid = {}
    /\ edges = {}
    /\ dirs = {}
    /\ procs = [c \in Ctxs |-> {}]
    /\ pc = [r \in Runs |-> "idle"]
    /\ name = [r \in Runs |-> NoName]
    /\ ctx = [r \in Runs |-> 0]
    /\ requester = [r \in Runs |-> NoRun]
    /\ live = [r \in Runs |-> 0]
    /\ parentAlive = [r \in Runs |-> TRUE]
    /\ scan = [a \in Agents |-> {}]
    /\ spc = [s \in Stops |-> "idle"]
    /\ sname = [s \in Stops |-> NoName]
    /\ sctx = [s \in Stops |-> 0]
    /\ victim = [s \in Stops |-> NoRun]

At(r, from, to) == pc[r] = from /\ pc' = [pc EXCEPT ![r] = to]

Registered(n) == ctxOf[n] # 0

----------------------------------------------------------------------------
(* The context allocator and the registry's critical sections.             *)

\* Mutant: allocate() that ignores what is in use.
LowestEver(c) == c \in Ctxs /\ \A d \in Ctxs : c <= d

\* CtxAllocator::allocate: c is the lowest free context.
LowestFree(c) ==
    /\ c \in Ctxs \ used
    /\ \A d \in Ctxs \ used : c <= d

Exhausted == Ctxs \subseteq used

\* Shared::reserve, refused: the name is taken or the pool is exhausted.
ReserveRefused(n) == Registered(n) \/ Exhausted

\* Shared::reserve, granted: name entered and context taken, atomically.
ReserveGranted(r, n) ==
    /\ ~ Registered(n)
    /\ \E c \in Ctxs :
        /\ LowestFree(c)
        /\ used' = used \cup {c}
        /\ ctxOf' = [ctxOf EXCEPT ![n] = c]
        /\ ctx' = [ctx EXCEPT ![r] = c]
    /\ UNCHANGED hasPid

\* Mutant: release() that removes the entry and keeps the context.
ReleaseNameOnly(n, c) ==
    /\ ctxOf' = [ctxOf EXCEPT ![n] = 0]
    /\ hasPid' = hasPid \ {n}
    /\ UNCHANGED used

\* Shared::release: entry removed and context returned, atomically.
ReleaseEntry(n, c) ==
    /\ ctxOf' = [ctxOf EXCEPT ![n] = 0]
    /\ hasPid' = hasPid \ {n}
    /\ used' = used \ {c}

----------------------------------------------------------------------------
(* The kernel side of a cgroup.                                            *)

\* cgroup.kill reaches every member; it fails without a directory.
KillCgroup(c) ==
    procs' = IF c \in dirs THEN [procs EXCEPT ![c] = {}] ELSE procs

\* rmdir refuses a directory that still has members; the code ignores that.
RemoveCgroup(c) ==
    dirs' = IF procs[c] = {} THEN dirs \ {c} ELSE dirs

----------------------------------------------------------------------------
(* run_kennel: reserve, prepare, bring up.                                 *)

\* An operator's Start request.
Start(r, n) ==
    /\ r \in Conns
    /\ n \in OperatorNames
    /\ At(r, "idle", "reserved")
    /\ ReserveGranted(r, n)
    /\ name' = [name EXCEPT ![r] = n]
    /\ UNCHANGED <<edges, kernVars, requester, spawnVars, scan, stopVars>>

StartRefused(r, n) ==
    /\ r \in Conns
    /\ n \in OperatorNames
    /\ At(r, "idle", "exited")
    /\ ReserveRefused(n)
    /\ UNCHANGED <<regVars, edges, kernVars, runVars, spawnVars, scan, stopVars>>

\* The construction thread of a spawned kennel enters run_kennel.
StartSpawned(r) ==
    /\ r \in Spawned
    /\ At(r, "queued", "reserved")
    /\ ReserveGranted(r, name[r])
    /\ UNCHANGED <<edges, kernVars, name, requester, spawnVars, scan, stopVars>>

StartSpawnedRefused(r) ==
    /\ r \in Spawned
    /\ At(r, "queued", "exited")
    /\ ReserveRefused(name[r])
    /\ UNCHANGED <<regVars, edges, kernVars, runVars, spawnVars, scan, stopVars>>

\* enqueue's thread cannot make the socketpair run_kennel replies into.
NoSink(r) ==
    /\ r \in Spawned
    /\ At(r, "queued", "exited")
    /\ UNCHANGED <<regVars, edges, kernVars, runVars, spawnVars, scan, stopVars>>

\* Policy load, workload merge and cwd checks refuse the run before any edge.
RefusePolicy(r) ==
    /\ At(r, "reserved", "failing")
    /\ UNCHANGED <<regVars, edges, kernVars, runVars, spawnVars, scan, stopVars>>

\* register_ssh: a run with an [ssh] grant puts its edges in the bastion.
RegisterSsh(r) ==
    /\ At(r, "reserved", "prepared")
    /\ \/ edges' = edges \cup {name[r]}
       \/ edges' = edges
    /\ UNCHANGED <<regVars, kernVars, runVars, spawnVars, scan, stopVars>>

\* register_ssh fails, perhaps with some edges registered, or the first step of
\* bring_up cannot make the cgroup.
RefusePrepare(r) ==
    /\ At(r, "prepared", "failing")
    /\ UNCHANGED <<regVars, edges, kernVars, runVars, spawnVars, scan, stopVars>>

\* bring_up step 1: create_dir_all, which accepts a directory already there.
MakeCgroup(r) ==
    /\ At(r, "prepared", "building")
    /\ dirs' = dirs \cup {ctx[r]}
    /\ UNCHANGED <<regVars, edges, procs, runVars, spawnVars, scan, stopVars>>

\* A bring-up step before the factory ran fails.
AbortBuilding(r) ==
    /\ At(r, "building", "unwinding")
    /\ UNCHANGED <<regVars, edges, kernVars, runVars, spawnVars, scan, stopVars>>

\* construct_via_factory: kennel-bin-init is born in the cgroup and waits on
\* the boot-sync socket.
Construct(r) ==
    /\ At(r, "building", "constructed")
    /\ procs' = [procs EXCEPT ![ctx[r]] = @ \cup {r}]
    /\ UNCHANGED <<regVars, edges, dirs, runVars, spawnVars, scan, stopVars>>

\* A step after the factory (boot sync, rendezvous, delegate, bus-live) fails:
\* the sync socket is dropped, nothing kills or waits for kennel-bin-init.
AbortConstructed(r) ==
    /\ At(r, "constructed", "unwinding")
    /\ UNCHANGED <<regVars, edges, kernVars, runVars, spawnVars, scan, stopVars>>

\* start()'s error path: the manager, if any, stops (SpawnRuntime goes with
\* it) and teardown removes the cgroup best-effort.
Unwind(r) ==
    /\ At(r, "unwinding", "failing")
    /\ RemoveCgroup(ctx[r])
    /\ parentAlive' = [parentAlive EXCEPT ![r] = FALSE]
    /\ UNCHANGED <<regVars, edges, procs, runVars, live, scan, stopVars>>

\* Mutant: fail() that only releases.
FailKeepEdges(r) ==
    /\ At(r, "failing", "failed")
    /\ UNCHANGED <<regVars, edges, kernVars, runVars, spawnVars, scan, stopVars>>

\* fail(): deregister_ssh, then release.
FailDeregister(r) ==
    /\ At(r, "failing", "failed")
    /\ edges' = edges \ {name[r]}
    /\ UNCHANGED <<regVars, kernVars, runVars, spawnVars, scan, stopVars>>

FailRelease(r) ==
    /\ At(r, "failed", "exited")
    /\ ReleaseEntry(name[r], ctx[r])
    /\ UNCHANGED <<edges, kernVars, runVars, spawnVars, scan, stopVars>>

\* signal_bus_live: kennel-bin-init pulls its plan and starts the workload.
BusLive(r) ==
    /\ At(r, "constructed", "live")
    /\ r \in procs[ctx[r]]
    /\ UNCHANGED <<regVars, edges, kernVars, runVars, spawnVars, scan, stopVars>>

SetPid(r) ==
    /\ At(r, "live", "started")
    /\ hasPid' = hasPid \cup {name[r]}
    /\ UNCHANGED <<used, ctxOf, edges, kernVars, runVars, spawnVars, scan, stopVars>>

\* The hard-reaper race close: a spawned kennel whose requester is gone
\* terminates itself now that its cgroup is live and registered.
RequesterGone(r) == r \in Spawned /\ ~ parentAlive[requester[r]]

\* Mutant: no re-check after the registration.
SkipRequesterCheck(r) ==
    /\ At(r, "started", "waiting")
    /\ UNCHANGED <<regVars, edges, kernVars, runVars, spawnVars, scan, stopVars>>

CheckRequester(r) ==
    /\ At(r, "started", "waiting")
    /\ IF RequesterGone(r) THEN KillCgroup(ctx[r]) ELSE UNCHANGED procs
    /\ UNCHANGED <<regVars, edges, dirs, runVars, spawnVars, scan, stopVars>>

----------------------------------------------------------------------------
(* run_kennel: wait, tear down, release.                                   *)

\* kennel-bin-init ends: its workload exited, or its boot-sync socket closed.
InitExit(r) ==
    /\ ctx[r] # 0
    /\ r \in procs[ctx[r]]
    /\ procs' = [procs EXCEPT ![ctx[r]] = @ \ {r}]
    /\ UNCHANGED <<regVars, edges, dirs, pc, runVars, spawnVars, scan, stopVars>>

\* Kennel::stop: wait_pid returns.
WaitReturns(r) ==
    /\ At(r, "waiting", "reaped")
    /\ r \notin procs[ctx[r]]
    /\ UNCHANGED <<regVars, edges, kernVars, runVars, spawnVars, scan, stopVars>>

\* Manager::stop joins the loopers it has collected, a SPAWN handler among
\* them; the last reference to SpawnRuntime goes with them, unless one more
\* looper was being started and still holds it.
StopManager(r) ==
    /\ At(r, "reaped", "unserved")
    /\ \A q \in Spawned : ~ (requester[q] = r /\ pc[q] = "minting")
    /\ \/ parentAlive' = [parentAlive EXCEPT ![r] = FALSE]
       \/ LateLooper /\ UNCHANGED parentAlive
    /\ UNCHANGED <<regVars, edges, kernVars, runVars, live, scan, stopVars>>

\* The late looper sees the stop flag and drops its reference.
LateLooperEnds(r) ==
    /\ pc[r] \in {"unserved", "torn", "reaping", "silent"} \cup Finished
    /\ r \in Conns
    /\ ctx[r] # 0
    /\ parentAlive[r]
    /\ LateLooper
    /\ parentAlive' = [parentAlive EXCEPT ![r] = FALSE]
    /\ UNCHANGED <<regVars, edges, kernVars, pc, runVars, live, scan, stopVars>>

\* teardown(): the cgroup goes once the workload is gone.
Teardown(r) ==
    /\ At(r, "unserved", "torn")
    /\ RemoveCgroup(ctx[r])
    /\ UNCHANGED <<regVars, edges, procs, runVars, spawnVars, scan, stopVars>>

\* reap_children, under the registry lock: the contexts of every entry whose
\* name starts with spawn-<parent ctx>-.
Children(c) == {ctxOf[n] : n \in {m \in {c} \X Ids : Registered(m)}}

\* Mutant: a reaper that relies on the soft reaper alone.
ReapNothing(r) ==
    /\ At(r, "torn", "reaping")
    /\ UNCHANGED <<regVars, edges, kernVars, runVars, spawnVars, scan, stopVars>>

ReapScan(r) ==
    /\ At(r, "torn", "reaping")
    /\ scan' = [scan EXCEPT ![r] = Children(ctx[r])]
    /\ UNCHANGED <<regVars, edges, kernVars, runVars, spawnVars, stopVars>>

\* reap_children, lock released: cgroup.kill each collected context.
ReapKill(r, c) ==
    /\ pc[r] = "reaping"
    /\ c \in scan[r]
    /\ KillCgroup(c)
    /\ scan' = [scan EXCEPT ![r] = @ \ {c}]
    /\ UNCHANGED <<regVars, edges, dirs, pc, runVars, spawnVars, stopVars>>

DeregisterSsh(r) ==
    /\ At(r, "reaping", "silent")
    /\ scan[r] = {}
    /\ edges' = edges \ {name[r]}
    /\ UNCHANGED <<regVars, kernVars, runVars, spawnVars, scan, stopVars>>

Release(r) ==
    /\ At(r, "silent", "exited")
    /\ ReleaseEntry(name[r], ctx[r])
    /\ UNCHANGED <<edges, kernVars, runVars, spawnVars, scan, stopVars>>

\* The thread ends; a construction thread drops its SlotGuard here.
EndThread(r) ==
    /\ At(r, "exited", "done")
    /\ live' = IF r \in Spawned
               THEN [live EXCEPT ![requester[r]] = @ - 1] ELSE live
    /\ UNCHANGED <<regVars, edges, kernVars, runVars, parentAlive, scan, stopVars>>

----------------------------------------------------------------------------
(* SPAWN: a looper of kennel p validates, claims a slot and mints.         *)

\* Mutant: claim_slot with the bound off by one.
ClaimPastCeiling(p, r) ==
    /\ p \in Conns
    /\ r \in Spawned
    /\ pc[p] \in Serving \cup {"reaped"}
    /\ At(r, "idle", "minting")
    /\ live[p] <= MaxInstances
    /\ live' = [live EXCEPT ![p] = @ + 1]
    /\ requester' = [requester EXCEPT ![r] = p]
    /\ UNCHANGED <<regVars, edges, kernVars, name, ctx, parentAlive, scan, stopVars>>

\* validate_and_mint up to claim_slot: the request is granted and the
\* compare-and-exchange takes a free slot.  The workload that sent it may be
\* dead by now; its looper is joined only by StopManager.
ClaimSlot(p, r) ==
    /\ p \in Conns
    /\ r \in Spawned
    /\ pc[p] \in Serving \cup {"reaped"}
    /\ At(r, "idle", "minting")
    /\ live[p] < MaxInstances
    /\ live' = [live EXCEPT ![p] = @ + 1]
    /\ requester' = [requester EXCEPT ![r] = p]
    /\ UNCHANGED <<regVars, edges, kernVars, name, ctx, parentAlive, scan, stopVars>>

\* A later step of the handler fails: the guard is dropped with the job.
AbortMint(r) ==
    /\ At(r, "minting", "exited")
    /\ UNCHANGED <<regVars, edges, kernVars, runVars, spawnVars, scan, stopVars>>

\* Constructor::enqueue under the name spawn-<requester ctx>-<id>.
Enqueue(r) ==
    /\ At(r, "minting", "queued")
    /\ name' = [name EXCEPT ![r] = <<ctx[requester[r]], r>>]
    /\ UNCHANGED <<regVars, edges, kernVars, ctx, requester, spawnVars, scan, stopVars>>

----------------------------------------------------------------------------
(* Stop: read the entry, release the lock, reap the children, kill.        *)

OwnerOf(n) == CHOOSE r \in Runs : name[r] = n /\ pc[r] \in Holding

StopRead(s, n) ==
    /\ spc[s] = "idle"
    /\ Registered(n)
    /\ n \in hasPid
    /\ spc' = [spc EXCEPT ![s] = "scan"]
    /\ sname' = [sname EXCEPT ![s] = n]
    /\ sctx' = [sctx EXCEPT ![s] = ctxOf[n]]
    /\ victim' = [victim EXCEPT ![s] = OwnerOf(n)]
    /\ UNCHANGED <<regVars, edges, kernVars, pc, runVars, spawnVars, scan>>

\* The kennel is unknown or still starting.
StopRefused(s, n) ==
    /\ spc[s] = "idle"
    /\ ~ (Registered(n) /\ n \in hasPid)
    /\ spc' = [spc EXCEPT ![s] = "done"]
    /\ UNCHANGED <<regVars, edges, kernVars, pc, runVars, spawnVars, scan,
                   sname, sctx, victim>>

StopScan(s) ==
    /\ spc[s] = "scan"
    /\ spc' = [spc EXCEPT ![s] = "kill"]
    /\ scan' = [scan EXCEPT ![s] = Children(sctx[s])]
    /\ UNCHANGED <<regVars, edges, kernVars, pc, runVars, spawnVars,
                   sname, sctx, victim>>

StopReap(s, c) ==
    /\ spc[s] = "kill"
    /\ c \in scan[s]
    /\ KillCgroup(c)
    /\ scan' = [scan EXCEPT ![s] = @ \ {c}]
    /\ UNCHANGED <<regVars, edges, dirs, pc, runVars, spawnVars, stopVars>>

\* Mutant: stop that kills the children and not the kennel.
StopChildrenOnly(s) ==
    /\ spc[s] = "kill"
    /\ scan[s] = {}
    /\ spc' = [spc EXCEPT ![s] = "done"]
    /\ UNCHANGED <<regVars, edges, kernVars, pc, runVars, spawnVars, scan,
                   sname, sctx, victim>>

StopKill(s) ==
    /\ spc[s] = "kill"
    /\ scan[s] = {}
    /\ KillCgroup(sctx[s])
    /\ spc' = [spc EXCEPT ![s] = "done"]
    /\ UNCHANGED <<regVars, edges, dirs, pc, runVars, spawnVars, scan,
                   sname, sctx, victim>>

----------------------------------------------------------------------------
\* What a run's own thread does next.
RunStep(r) ==
    \/ StartSpawned(r) \/ StartSpawnedRefused(r) \/ NoSink(r)
    \/ RefusePolicy(r) \/ RegisterSsh(r) \/ RefusePrepare(r)
    \/ MakeCgroup(r) \/ AbortBuilding(r) \/ Construct(r)
    \/ AbortConstructed(r) \/ Unwind(r) \/ FailDeregister(r) \/ FailRelease(r)
    \/ BusLive(r) \/ SetPid(r) \/ CheckRequester(r)
    \/ WaitReturns(r) \/ StopManager(r) \/ Teardown(r) \/ ReapScan(r)
    \/ \E c \in Ctxs : ReapKill(r, c)
    \/ DeregisterSsh(r) \/ Release(r) \/ EndThread(r)
    \/ AbortMint(r) \/ Enqueue(r)

StopStep(s) ==
    \/ StopScan(s)
    \/ \E c \in Ctxs : StopReap(s, c)
    \/ StopKill(s)

Next ==
    \/ \E r \in Runs : RunStep(r) \/ InitExit(r) \/ LateLooperEnds(r)
    \/ \E r \in Runs, n \in KennelNames : Start(r, n) \/ StartRefused(r, n)
    \/ \E p \in Runs, r \in Runs : ClaimSlot(p, r)
    \/ \E s \in Stops : StopStep(s)
    \/ \E s \in Stops, n \in KennelNames : StopRead(s, n) \/ StopRefused(s, n)

\* A kennel-bin-init whose boot-sync socket was dropped ends by itself; one
\* with a running workload need not.
Abandoned(r) == pc[r] \in {"unwinding", "failing", "failed"} \cup Finished

Fairness ==
    /\ \A r \in Runs : WF_vars(RunStep(r))
    /\ \A r \in Runs : WF_vars(Abandoned(r) /\ InitExit(r))
    /\ \A r \in Runs : WF_vars(LateLooperEnds(r))
    /\ \A s \in Stops : WF_vars(StopStep(s))

Spec == Init /\ [][Next]_vars
FairSpec == Spec /\ Fairness

----------------------------------------------------------------------------
(* Properties.                                                             *)

\* The registry and the allocator agree at every unlock: a context is in
\* `used` exactly when one entry carries it, and no two entries share one
\* (reserve and release in server.rs, CtxAllocator in ctx.rs).
RegistryConsistent ==
    /\ used = {ctxOf[n] : n \in {m \in KennelNames : Registered(m)}}
    /\ \A m, n \in KennelNames :
        Registered(m) /\ ctxOf[m] = ctxOf[n] => m = n

\* Every entry belongs to exactly one run_kennel thread that will release it,
\* and every thread past reserve has its entry: no error path leaks a name or
\* a context, and none is released twice.
EntryOwned ==
    /\ \A n \in KennelNames : Registered(n) =>
        \E r \in Runs : pc[r] \in Holding /\ name[r] = n
    /\ \A r \in Runs : pc[r] \in Holding =>
        name[r] \in KennelNames /\ Registered(name[r]) /\ ctxOf[name[r]] = ctx[r]
    /\ \A q, r \in Runs :
        pc[q] \in Holding /\ pc[r] \in Holding /\ name[q] = name[r] => q = r

\* An SSH edge never outlives the registration of its kennel, on the normal
\* and on every failing path (deregister_ssh precedes release).
EdgesBacked == \A n \in edges : Registered(n)

\* No early return of run_kennel leaks or doubles a registration, nor leaves
\* the kennel's edges behind.
EntriesAccounted == EntryOwned /\ EdgesBacked

\* Two workloads never run in the same cgroup, whatever bring-ups failed and
\* whatever contexts were reused in between: cgroup membership identifies a
\* kennel (kennel_cgroup, pid_to_ctx).
OneWorkloadPerCgroup ==
    \A c \in Ctxs : \A q, r \in procs[c] :
        pc[q] \in Serving /\ pc[r] \in Serving => q = r

\* The hard reaper's interlock: once a requester has finished reaping, no
\* sibling it spawned that passed its own liveness check is still running
\* (reap_children against run_kennel's parent_alive re-check).
NoOrphan ==
    \A q \in Spawned :
        pc[q] = "waiting" /\ q \in procs[ctx[q]] =>
            pc[requester[q]] \notin {"silent"} \cup Finished

\* The max_instances account is exact: every claimed slot is held by one
\* spawn that has not ended, whichever step of the build failed, and the
\* ceiling is never exceeded (claim_slot, SlotGuard::drop).
SlotsExact ==
    \A p \in Runs :
        /\ live[p] = Cardinality({q \in Spawned : requester[q] = p /\ pc[q] # "done"})
        /\ live[p] <= MaxInstances

\* When a requester is gone every sibling it asked for goes too, including
\* one whose construction had not begun.
SiblingsFollowRequester ==
    \A q \in Spawned, p \in Conns :
        (requester[q] = p /\ pc[p] = "done") ~> (pc[q] = "done")

\* A Stop that found its kennel started ends that kennel's run, and with it
\* (EntryOwned) its entry and its context (stop, Kennel::stop, release).
StopTakesEffect ==
    \A s \in Stops, r \in Runs :
        (spc[s] = "scan" /\ victim[s] = r) ~> (pc[r] = "done")

\* A Stop never kills the running workload of a kennel other than the one it
\* was asked to stop (Shared::stop: "signal the named kennel's workload").
StopKillsOnlyNamed ==
    [][\A s \in Stops : StopKill(s) =>
        \A r \in procs[sctx[s]] \ procs'[sctx[s]] :
            pc[r] \in Serving => r = victim[s]]_vars

\* The registry implements the abstract pool: a name acquires a context
\* nobody holds and gives it back before anybody else can have it.
Pool == INSTANCE ContextPool WITH held <- ctxOf
PoolSpec == Pool!PoolSpec
=============================================================================
