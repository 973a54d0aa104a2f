---------------------------- MODULE Construction ---------------------------
(***************************************************************************)
(* How one kennel comes up and what a failure on the way leaves behind.    *)
(* Four processes take part:                                               *)
(*   - the kenneld thread inside start/bring_up and run_kennel's tail;     *)
(*   - the privileged factory (kennel-privhelper construct), which clones  *)
(*     the kennel's PID 1 into the cgroup and exits;                       *)
(*   - the construction child, which builds the view as the kennel's uid 0 *)
(*     and becomes kennel-bin-init;                                        *)
(*   - the workload child, dropped to the operator and sealed before exec. *)
(* They meet over a seqpacket channel (kenneld and factory), two pipes     *)
(* (maps written, view built), the boot-sync socket (READY and GO), the    *)
(* mesh rendezvous datagram and binder node 0.  End of file is modelled by *)
(* who still holds the other end.                                          *)
(*                                                                         *)
(* A process that fails a step and one that is killed leave alike, so one  *)
(* action per process stands for both; MaxFaults bounds them together.     *)
(***************************************************************************)
EXTENDS Naturals, Sequences, FiniteSets

CONSTANTS
    Policies,   \* the kennels brought up: records [mode, mirror, exclusive,
                \* seccomp, stdio, operator]
    MaxFaults   \* bound: faults in a behaviour

ASSUME ConstructionAssumption ==
    /\ Policies \subseteq [mode : {"none", "host", "proxied"}, mirror : BOOLEAN,
                           exclusive : BOOLEAN, seccomp : BOOLEAN,
                           stdio : BOOLEAN, operator : {"op", "root"}]
    /\ MaxFaults \in Nat

VARIABLES
    policy,     \* fixed per kennel
    faults,     \* faults so far
    kd,         \* kenneld: where bring_up is
    fp,         \* the factory parent
    euid,       \* its effective uid
    ch,         \* the construction child, then kennel-bin-init
    uid,        \* its uid
    owner,      \* the owner of its user namespace
    w,          \* the workload child
    wi,         \* the drop and seal steps it has taken
    sealed,     \* which of them took effect
    reply,      \* the factory's report is in the channel
    maps,       \* the identity maps are written
    mapsAck,    \* the byte in the maps pipe
    holdsW,     \* the child holds its copy of that pipe's write end
    builtAck,   \* the byte in the view-built pipe
    ready, go,  \* READY and GO sent on the boot-sync socket
    rendezvous, \* the mesh rendezvous socket: absent, bound, filled
    node0,      \* binder node 0: unclaimed, served, stopped
    cgroup,     \* the kennel's cgroup directory exists
    addr,       \* the host-side loopback alias exists
    egress,     \* the egress programs are attached to the cgroup
    delegate,   \* the egress dial delegate runs
    inetd,      \* the inbound delegate runs
    view,       \* what the view's bind of the exclusive source holds
    shadow      \* the source is over-mounted on the host

procVars == <<kd, fp, euid, ch, uid, owner, w, wi, sealed>>
msgVars == <<reply, maps, mapsAck, holdsW, builtAck, ready, go, rendezvous>>
resVars == <<node0, cgroup, addr, egress, delegate, inetd, view, shadow>>
vars == <<policy, faults, procVars, msgVars, resVars>>

-----------------------------------------------------------------------------
(* Stages.                                                                 *)

\* The child before its fexecve: it still has the factory's descriptors.
PreExec == {"born", "maps", "uid0", "build", "place"}
\* kennel-bin-init.
InInit == {"exec", "bound", "go", "pull", "mounts", "facades", "fork", "supervise"}
ChildAlive == ch \in PreExec \cup InInit

\* The stages of bring_up in which a call may return an error of its own; the
\* reads of the channel and of the boot-sync socket fail at end of file only.
MayErr == {"cgroup", "wire", "rendezvous", "delegate", "inbound"}

\* The stages in which bring_up owns kenneld's end of the boot-sync socket.
HoldsSync == {"ready", "rendezvous", "delegate", "inbound", "claim", "go", "reap"}

Mirrored == policy.mode = "proxied" /\ policy.mirror

\* Some process holds kenneld's end of the boot-sync socket (or it is in
\* flight); the child's own copy is gone after the fexecve.
SyncHeld == \/ fp # "gone"
            \/ kd = "report" /\ reply
            \/ kd \in HoldsSync

\* The steps between the workload child's fork and its exec.
WorkloadSteps ==
    <<"setgid", "setgroups", "setuid", "euid", "selinux", "cwd", "tty", "nnp">>
    \o (IF policy.seccomp THEN <<"seccomp">> ELSE <<>>)
    \o <<"landlock", "rlimits">>
    \o (IF policy.stdio THEN <<"stdio">> ELSE <<>>)

\* What the kernel asks of a step: the group calls need uid 0, the filters
\* need no_new_privs once uid 0 is gone, /proc/self/attr and the terminal
\* ioctls must come before Landlock, Landlock's opens before the limits.
StepWorks(step) ==
    CASE step \in {"setgid", "setgroups"} -> "setuid" \notin sealed
      [] step = "euid" -> policy.operator # "root"
      [] step \in {"selinux", "tty"} -> "landlock" \notin sealed
      [] step = "seccomp" -> "nnp" \in sealed
      [] step = "landlock" -> "nnp" \in sealed /\ "rlimits" \notin sealed
      [] OTHER -> TRUE

TypeOK ==
    /\ policy \in Policies
    /\ faults \in 0 .. MaxFaults
    /\ kd \in {"cgroup", "wire", "report", "ready", "rendezvous", "delegate", "inbound",
               "claim", "go", "reap", "up", "unwind", "release", "stopped", "failed"}
    /\ fp \in {"none", "recv", "net", "check", "clone", "root", "maps", "ack", "drop",
               "built", "mount", "report", "gone"}
    /\ euid \in {"op", "root"}
    /\ ch \in {"none", "gone"} \cup PreExec \cup InInit
    /\ uid \in {"op", "root"}
    /\ owner \in {"none", "op", "root"}
    /\ w \in {"none", "child", "running", "gone"}
    /\ wi \in 0 .. Len(WorkloadSteps)
    /\ sealed \subseteq {WorkloadSteps[i] : i \in 1 .. Len(WorkloadSteps)}
    /\ \A b \in {reply, maps, mapsAck, holdsW, builtAck, ready, go, cgroup, addr, egress,
                 delegate, inetd, shadow} : b \in BOOLEAN
    /\ rendezvous \in {"absent", "bound", "filled"}
    /\ node0 \in {"unclaimed", "served", "stopped"}
    /\ view \in {"none", "real", "sentinel"}

Init ==
    /\ policy \in Policies
    /\ faults = 0
    /\ kd = "cgroup" /\ fp = "none"
    /\ euid \in {policy.operator, "root"}  \* file capabilities, or setuid root
    /\ ch = "none" /\ uid = policy.operator /\ owner = "none"
    /\ w = "none" /\ wi = 0 /\ sealed = {}
    /\ reply = FALSE /\ maps = FALSE /\ mapsAck = FALSE /\ holdsW = FALSE
    /\ builtAck = FALSE /\ ready = FALSE /\ go = FALSE /\ rendezvous = "absent"
    /\ node0 = "unclaimed" /\ cgroup = FALSE /\ addr = FALSE /\ egress = FALSE
    /\ delegate = FALSE /\ inetd = FALSE /\ view = "none" /\ shadow = FALSE
-----------------------------------------------------------------------------
(* kenneld: bring_up.                                                      *)

CreateCgroup ==
    /\ kd = "cgroup" /\ kd' = "wire"
    /\ cgroup' = TRUE
    /\ UNCHANGED <<policy, faults, fp, euid, ch, uid, owner, w, wi, sealed, msgVars,
                   node0, addr, egress, delegate, inetd, view, shadow>>

\* Addresses, egress payload, view and facade wiring are computed, the factory
\* is spawned and the construction datagram sent.
InvokeFactory ==
    /\ kd = "wire" /\ kd' = "report"
    /\ fp' = "recv"
    /\ UNCHANGED <<policy, faults, euid, ch, uid, owner, w, wi, sealed, msgVars, resVars>>

TakeReport ==
    /\ kd = "report" /\ reply
    /\ kd' = "ready"
    /\ UNCHANGED <<policy, faults, fp, euid, ch, uid, owner, w, wi, sealed, msgVars, resVars>>

AwaitInitReady ==
    /\ kd = "ready" /\ ready
    /\ kd' = "rendezvous"
    /\ UNCHANGED <<policy, faults, fp, euid, ch, uid, owner, w, wi, sealed, msgVars, resVars>>

SendRendezvous ==
    /\ kd = "rendezvous" /\ ch \in InInit /\ rendezvous = "bound"
    /\ kd' = "delegate"
    /\ rendezvous' = "filled"
    /\ UNCHANGED <<policy, faults, fp, euid, ch, uid, owner, w, wi, sealed, reply, maps,
                   mapsAck, holdsW, builtAck, ready, go, resVars>>

SpawnDelegate ==
    /\ kd = "delegate" /\ kd' = "inbound"
    /\ delegate' = (policy.mode = "proxied")
    /\ UNCHANGED <<policy, faults, fp, euid, ch, uid, owner, w, wi, sealed, msgVars,
                   node0, cgroup, addr, egress, inetd, view, shadow>>

SpawnInetd ==
    /\ kd = "inbound" /\ kd' = "claim"
    /\ inetd' = Mirrored
    /\ UNCHANGED <<policy, faults, fp, euid, ch, uid, owner, w, wi, sealed, msgVars,
                   node0, cgroup, addr, egress, delegate, view, shadow>>

\* The open through /proc/<init>/root needs an exec'd init whose namespace
\* kenneld's uid owns.  A failure is a warning and bring_up goes on.
ClaimNode0(works) ==
    /\ kd = "claim" /\ kd' = "go"
    /\ node0' = IF works /\ ch \in InInit /\ owner = policy.operator
                THEN "served" ELSE node0
    /\ UNCHANGED <<policy, fp, euid, ch, uid, owner, w, wi, sealed, msgVars, cgroup,
                   addr, egress, delegate, inetd, view, shadow>>

SignalBusLive ==
    /\ kd = "go" /\ ch # "gone"
    /\ kd' = "reap"
    /\ go' = TRUE
    /\ UNCHANGED <<policy, faults, fp, euid, ch, uid, owner, w, wi, sealed, reply, maps,
                   mapsAck, holdsW, builtAck, ready, rendezvous, resVars>>

\* child.wait on the factory; the sync socket is dropped on return.
ReapFactory ==
    /\ kd = "reap" /\ fp = "gone"
    /\ kd' = "up"
    /\ UNCHANGED <<policy, faults, fp, euid, ch, uid, owner, w, wi, sealed, msgVars, resVars>>

\* The errors a dead peer causes: the channel or the boot-sync socket reads end
\* of file, the rendezvous or GO has no one to go to.
PeerGone ==
    \/ kd = "report" /\ ~reply /\ fp = "gone" /\ ch \notin PreExec
    \/ kd = "ready" /\ ~ready /\ ch = "gone"
    \/ kd \in {"rendezvous", "go"} /\ ch = "gone"

BringUpErr ==
    /\ PeerGone
    /\ kd' = "unwind"
    /\ UNCHANGED <<policy, faults, fp, euid, ch, uid, owner, w, wi, sealed, msgVars, resVars>>

\* teardown: delegates reaped, alias removed, one rmdir of the cgroup, which
\* fails while a process is in it.
Teardown ==
    /\ delegate' = FALSE /\ inetd' = FALSE
    /\ addr' = (addr /\ ~Mirrored)
    /\ cgroup' = (cgroup /\ ChildAlive)
    /\ egress' = (egress /\ cgroup')

StopManager == node0' = IF node0 = "served" THEN "stopped" ELSE node0

\* The Err branch of start, and of run_kennel after it.
Unwind ==
    /\ kd = "unwind" /\ kd' = "failed"
    /\ StopManager /\ Teardown
    /\ UNCHANGED <<policy, faults, fp, euid, ch, uid, owner, w, wi, sealed, msgVars,
                   view, shadow>>

\* Kennel::stop: wait for kennel-bin-init, then reclaim.
Stop ==
    /\ kd = "up" /\ ch = "gone"
    /\ kd' = "release"
    /\ StopManager /\ Teardown
    /\ UNCHANGED <<policy, faults, fp, euid, ch, uid, owner, w, wi, sealed, msgVars,
                   view, shadow>>

ReleaseExclusive(works) ==
    /\ kd = "release" /\ kd' = "stopped"
    /\ shadow' = (shadow /\ ~works)
    /\ UNCHANGED <<policy, fp, euid, ch, uid, owner, w, wi, sealed, msgVars, node0,
                   cgroup, addr, egress, delegate, inetd, view>>
-----------------------------------------------------------------------------
(* The factory parent: construct.                                          *)

Receive ==
    /\ fp = "recv" /\ fp' = "net"
    /\ UNCHANGED <<policy, faults, kd, euid, ch, uid, owner, w, wi, sealed, msgVars, resVars>>

AddLoopbackAndEgress ==
    /\ fp = "net" /\ fp' = "check"
    /\ addr' = Mirrored
    /\ egress' = (policy.mode = "host")
    /\ UNCHANGED <<policy, faults, kd, euid, ch, uid, owner, w, wi, sealed, msgVars,
                   node0, cgroup, delegate, inetd, view, shadow>>

\* binderfs registered, init opened and verified, pipes and boot-sync pair,
\* the cgroup opened, the effective uid dropped to the operator.
Prepare ==
    /\ fp = "check" /\ cgroup
    /\ fp' = "clone"
    /\ euid' = policy.operator
    /\ UNCHANGED <<policy, faults, kd, ch, uid, owner, w, wi, sealed, msgVars, resVars>>

\* The child is born in the cgroup with a copy of the descriptor table; its
\* namespace belongs to the effective uid of the caller.
CloneChild ==
    /\ fp = "clone" /\ fp' = "root"
    /\ ch' = "born"
    /\ owner' = euid
    /\ holdsW' = TRUE
    /\ UNCHANGED <<policy, faults, kd, euid, uid, w, wi, sealed, reply, maps, mapsAck,
                   builtAck, ready, go, rendezvous, resVars>>

Escalate ==
    /\ fp = "root" /\ fp' = "maps"
    /\ euid' = "root"
    /\ UNCHANGED <<policy, faults, kd, ch, uid, owner, w, wi, sealed, msgVars, resVars>>

WriteIdentityMaps ==
    /\ fp = "maps" /\ ch # "gone"
    /\ fp' = "ack"
    /\ maps' = TRUE
    /\ UNCHANGED <<policy, faults, kd, euid, ch, uid, owner, w, wi, sealed, reply, mapsAck,
                   holdsW, builtAck, ready, go, rendezvous, resVars>>

SendMapsAck ==
    /\ fp = "ack" /\ ch # "gone"
    /\ fp' = "drop"
    /\ mapsAck' = TRUE
    /\ UNCHANGED <<policy, faults, kd, euid, ch, uid, owner, w, wi, sealed, reply, maps,
                   holdsW, builtAck, ready, go, rendezvous, resVars>>

DropToOperator ==
    /\ fp = "drop"
    /\ fp' = IF policy.exclusive THEN "built" ELSE "report"
    /\ euid' = policy.operator
    /\ UNCHANGED <<policy, faults, kd, ch, uid, owner, w, wi, sealed, msgVars, resVars>>

\* Mutant: the over-mount does not wait for the view.
AwaitBuiltNot ==
    /\ fp = "built" /\ fp' = "mount"
    /\ UNCHANGED <<policy, faults, kd, euid, ch, uid, owner, w, wi, sealed, msgVars, resVars>>

\* The result is ignored: a dead child's end of file also goes on.
AwaitBuilt ==
    /\ fp = "built" /\ (builtAck \/ ch = "gone")
    /\ fp' = "mount"
    /\ UNCHANGED <<policy, faults, kd, euid, ch, uid, owner, w, wi, sealed, msgVars, resVars>>

\* Best effort; refused by the helper unless it runs for the owner.
OverMount(works) ==
    /\ fp = "mount" /\ fp' = "report"
    /\ shadow' = (works /\ euid = policy.operator)
    /\ UNCHANGED <<policy, kd, euid, ch, uid, owner, w, wi, sealed, msgVars, node0,
                   cgroup, addr, egress, delegate, inetd, view>>

Report ==
    /\ fp = "report" /\ fp' = "gone"
    /\ reply' = TRUE
    /\ UNCHANGED <<policy, faults, kd, euid, ch, uid, owner, w, wi, sealed, maps, mapsAck,
                   holdsW, builtAck, ready, go, rendezvous, resVars>>

\* Writing the maps of a child that is gone, or acknowledging to it, fails.
ChildGone == fp \in {"maps", "ack"} /\ ch = "gone"

FactoryErr ==
    /\ ChildGone
    /\ fp' = "gone"
    /\ UNCHANGED <<policy, faults, kd, euid, ch, uid, owner, w, wi, sealed, msgVars, resVars>>
-----------------------------------------------------------------------------
(* The construction child and kennel-bin-init.                             *)

\* Mutant: the child keeps its copy of the pipe it waits on.
CloseInheritedNot ==
    /\ ch = "born" /\ ch' = "maps"
    /\ UNCHANGED <<policy, faults, kd, fp, euid, uid, owner, w, wi, sealed, msgVars, resVars>>

CloseInherited ==
    /\ ch = "born" /\ ch' = "maps"
    /\ holdsW' = FALSE
    /\ UNCHANGED <<policy, faults, kd, fp, euid, uid, owner, w, wi, sealed, reply, maps,
                   mapsAck, builtAck, ready, go, rendezvous, resVars>>

AwaitMaps ==
    /\ ch = "maps" /\ mapsAck
    /\ ch' = "uid0"
    /\ UNCHANGED <<policy, faults, kd, fp, euid, uid, owner, w, wi, sealed, msgVars, resVars>>

\* setgid and setuid to 0, which must be mapped.
BecomeUid0 ==
    /\ ch = "uid0" /\ maps
    /\ ch' = "build"
    /\ uid' = "root"
    /\ UNCHANGED <<policy, faults, kd, fp, euid, owner, w, wi, sealed, msgVars, resVars>>

\* The binds of the view resolve the source as it is at that moment.
BindSource ==
    IF ~policy.exclusive THEN "none" ELSE IF shadow THEN "sentinel" ELSE "real"

BuildKennel ==
    /\ ch = "build" /\ ch' = "place"
    /\ view' = BindSource
    /\ builtAck' = TRUE
    /\ UNCHANGED <<policy, faults, kd, fp, euid, uid, owner, w, wi, sealed, reply, maps,
                   mapsAck, holdsW, ready, go, rendezvous, node0, cgroup, addr, egress,
                   delegate, inetd, shadow>>

HandOff ==
    /\ ch = "place" /\ ch' = "exec"
    /\ UNCHANGED <<policy, faults, kd, fp, euid, uid, owner, w, wi, sealed, msgVars, resVars>>

BindRendezvous ==
    /\ ch = "exec" /\ ch' = "bound"
    /\ rendezvous' = "bound"
    /\ UNCHANGED <<policy, faults, kd, fp, euid, uid, owner, w, wi, sealed, reply, maps,
                   mapsAck, holdsW, builtAck, ready, go, resVars>>

SendReady ==
    /\ ch = "bound" /\ SyncHeld
    /\ ch' = "go"
    /\ ready' = TRUE
    /\ UNCHANGED <<policy, faults, kd, fp, euid, uid, owner, w, wi, sealed, reply, maps,
                   mapsAck, holdsW, builtAck, go, rendezvous, resVars>>

AwaitGo ==
    /\ ch = "go" /\ go
    /\ ch' = "pull"
    /\ UNCHANGED <<policy, faults, kd, fp, euid, uid, owner, w, wi, sealed, msgVars, resVars>>

PullPlan ==
    /\ ch = "pull" /\ node0 = "served"
    /\ ch' = "mounts"
    /\ UNCHANGED <<policy, faults, kd, fp, euid, uid, owner, w, wi, sealed, msgVars, resVars>>

\* Blocks until the datagram is there; the socket is removed once it is read.
PlaceMeshMounts ==
    /\ ch = "mounts" /\ rendezvous = "filled"
    /\ ch' = "facades"
    /\ rendezvous' = "absent"
    /\ UNCHANGED <<policy, faults, kd, fp, euid, uid, owner, w, wi, sealed, reply, maps,
                   mapsAck, holdsW, builtAck, ready, go, resVars>>

ForkFacades ==
    /\ ch = "facades" /\ ch' = "fork"
    /\ UNCHANGED <<policy, faults, kd, fp, euid, uid, owner, w, wi, sealed, msgVars, resVars>>

ForkWorkload ==
    /\ ch = "fork" /\ ch' = "supervise"
    /\ w' = "child"
    /\ UNCHANGED <<policy, faults, kd, fp, euid, uid, owner, wi, sealed, msgVars, resVars>>

\* The workload's death ends the supervise loop and with it the kennel.
SuperviseEnds ==
    /\ ch = "supervise" /\ w = "gone"
    /\ ch' = "gone"
    /\ UNCHANGED <<policy, faults, kd, fp, euid, uid, owner, w, wi, sealed, msgVars, resVars>>

\* End of file on the maps pipe or the boot-sync socket; an unmapped uid 0; a
\* pull that node 0 does not answer.
InitGivesUp ==
    \/ ch = "maps" /\ ~mapsAck /\ fp \notin {"root", "maps", "ack"} /\ ~holdsW
    \/ ch = "uid0" /\ ~maps
    \/ ch = "bound" /\ ~SyncHeld
    \/ ch = "go" /\ ~go /\ ~SyncHeld
    \/ ch = "pull" /\ node0 # "served"

ChildErr ==
    /\ InitGivesUp
    /\ ch' = "gone"
    /\ UNCHANGED <<policy, faults, kd, fp, euid, uid, owner, w, wi, sealed, msgVars, resVars>>
-----------------------------------------------------------------------------
(* The workload child: fork_drop_exec_confined and the seal.               *)

\* Mutant: a seal step that fails is passed over.
SealStepLenient ==
    /\ w = "child" /\ wi < Len(WorkloadSteps)
    /\ wi' = wi + 1
    /\ LET step == WorkloadSteps[wi + 1] IN
         sealed' = IF StepWorks(step) THEN sealed \cup {step} ELSE sealed
    /\ UNCHANGED <<policy, faults, kd, fp, euid, ch, uid, owner, w, msgVars, resVars>>

SealStep ==
    /\ w = "child" /\ wi < Len(WorkloadSteps)
    /\ LET step == WorkloadSteps[wi + 1] IN
         IF StepWorks(step)
         THEN wi' = wi + 1 /\ sealed' = sealed \cup {step} /\ w' = w
         ELSE w' = "gone" /\ UNCHANGED <<wi, sealed>>
    /\ UNCHANGED <<policy, faults, kd, fp, euid, ch, uid, owner, msgVars, resVars>>

Exec ==
    /\ w = "child" /\ wi = Len(WorkloadSteps)
    /\ w' = "running"
    /\ UNCHANGED <<policy, faults, kd, fp, euid, ch, uid, owner, wi, sealed, msgVars, resVars>>

WorkloadExits ==
    /\ w = "running" /\ w' = "gone"
    /\ UNCHANGED <<policy, faults, kd, fp, euid, ch, uid, owner, wi, sealed, msgVars, resVars>>
-----------------------------------------------------------------------------
(* Faults: a step that fails, or a kill.                                   *)

Fault == faults < MaxFaults /\ faults' = faults + 1

\* Mutant: a delegate that does not start is only a warning.
KenneldFaultWarns ==
    /\ Fault
    /\ kd \in MayErr
    /\ kd' = IF kd = "delegate" THEN "inbound" ELSE "unwind"
    /\ UNCHANGED <<policy, fp, euid, ch, uid, owner, w, wi, sealed, msgVars, resVars>>

KenneldFault ==
    /\ Fault
    /\ kd \in MayErr
    /\ kd' = "unwind"
    /\ UNCHANGED <<policy, fp, euid, ch, uid, owner, w, wi, sealed, msgVars, resVars>>

FactoryFault ==
    /\ Fault
    /\ fp \notin {"none", "gone"}
    /\ fp' = "gone"
    /\ UNCHANGED <<policy, kd, euid, ch, uid, owner, w, wi, sealed, msgVars, resVars>>

\* PID 1 takes the whole PID namespace with it.
ChildFault ==
    /\ Fault
    /\ ChildAlive
    /\ ch' = "gone"
    /\ w' = IF w = "none" THEN "none" ELSE "gone"
    /\ UNCHANGED <<policy, kd, fp, euid, uid, owner, wi, sealed, msgVars, resVars>>

WorkloadFault ==
    /\ Fault
    /\ w = "child" /\ w' = "gone"
    /\ UNCHANGED <<policy, kd, fp, euid, ch, uid, owner, wi, sealed, msgVars, resVars>>

ClaimFault == Fault /\ ClaimNode0(FALSE)
MountFault == Fault /\ OverMount(FALSE)
ReleaseFault == Fault /\ ReleaseExclusive(FALSE)

-----------------------------------------------------------------------------
KenneldStep ==
    \/ CreateCgroup \/ InvokeFactory \/ TakeReport \/ AwaitInitReady \/ SendRendezvous
    \/ SpawnDelegate \/ SpawnInetd
    \/ ClaimNode0(TRUE) /\ UNCHANGED faults
    \/ SignalBusLive \/ ReapFactory \/ BringUpErr \/ Unwind \/ Stop
    \/ ReleaseExclusive(TRUE) /\ UNCHANGED faults

FactoryStep ==
    \/ Receive \/ AddLoopbackAndEgress \/ Prepare \/ CloneChild \/ Escalate
    \/ WriteIdentityMaps \/ SendMapsAck \/ DropToOperator \/ AwaitBuilt
    \/ OverMount(TRUE) /\ UNCHANGED faults
    \/ Report \/ FactoryErr

ChildStep ==
    \/ CloseInherited \/ AwaitMaps \/ BecomeUid0 \/ BuildKennel \/ HandOff
    \/ BindRendezvous \/ SendReady \/ AwaitGo \/ PullPlan \/ PlaceMeshMounts
    \/ ForkFacades \/ ForkWorkload \/ SuperviseEnds \/ ChildErr

WorkloadStep == SealStep \/ Exec

Faulty ==
    \/ KenneldFault \/ FactoryFault \/ ChildFault \/ WorkloadFault
    \/ ClaimFault \/ MountFault \/ ReleaseFault

Next == KenneldStep \/ FactoryStep \/ ChildStep \/ WorkloadStep \/ WorkloadExits
        \/ Faulty

Spec == Init /\ [][Next]_vars

\* Every process keeps running; how long the workload runs and whether
\* anything fails is left open.
Fairness ==
    /\ WF_vars(KenneldStep) /\ WF_vars(FactoryStep)
    /\ WF_vars(ChildStep) /\ WF_vars(WorkloadStep)

FairSpec == Spec /\ Fairness
-----------------------------------------------------------------------------
(* Properties.                                                             *)

\* A workload that runs is not root and went through every drop and seal
\* step of its policy; a step that failed ended it instead
\* (fork_drop_exec_confined and the seal of spawn_all).
ConfinedWorkload ==
    w = "running" =>
        /\ policy.operator # "root"
        /\ sealed = {WorkloadSteps[i] : i \in 1 .. Len(WorkloadSteps)}

\* While the workload runs, everything bring_up promises it is in place on
\* kenneld's side: its cgroup, node 0, the delegates, the alias and the
\* egress programs of its mode, and its mesh mounts (READY and GO order two
\* processes that share nothing else).
WorkloadHasItsServices ==
    w \in {"child", "running"} =>
        /\ cgroup
        /\ node0 = "served"
        /\ rendezvous = "absent"
        /\ policy.mode = "proxied" => delegate
        /\ Mirrored => addr /\ inetd
        /\ policy.mode = "host" => egress

\* The child is uid 0 only in a namespace the operator owns and after the
\* factory wrote the maps (the maps-ready handshake of construct).
RootOnlyWhenMapped ==
    ch \in {"build", "place"} \cup InInit =>
        maps /\ uid = "root" /\ owner = policy.operator

\* The kennel's view holds the operator's directory, never the sentinel that
\* shadows it: the over-mount waits for the view (the built handshake).
CapturedBeforeShadowed == view # "sentinel"

\* Whatever fails, start returns, the factory exits and the child becomes a
\* supervising init or exits: nobody waits for a process that is gone.  A
\* kennel in which nothing fails gets its workload running.
BringUpEnds ==
    /\ kd = "cgroup" ~> (w = "running" \/ faults > 0 \/ policy.operator = "root")
    /\ kd = "cgroup" ~> kd \in {"up", "release", "stopped", "failed"}
    /\ fp = "recv" ~> fp = "gone"
    /\ ch = "born" ~> ch \in {"supervise", "gone"}

\* After a failed start no process and no address of the kennel is left, even
\* though start neither kills nor waits for kennel-bin-init.
NoProcessLeft ==
    kd = "failed" ~>
        /\ ch \in {"none", "gone"} /\ w \in {"none", "gone"}
        /\ fp \in {"none", "gone"}
        /\ ~addr /\ ~delegate /\ ~inetd

\* A bring-up always comes to an end, and a failed one cleans up after itself.
BringUpSettles == BringUpEnds /\ NoProcessLeft

\* What start's comment says of a failed bring-up: no cgroup is left behind.
CgroupUnwound == kd = "failed" ~> ~cgroup

\* What run_kennel's comment says of an exclusive source: released at
\* teardown, so the operator's path is not left shadowed.
ShadowReleased == kd = "failed" ~> ~shadow
=============================================================================
