------------------------- MODULE Construction_proofs ------------------------
(***************************************************************************)
(* What the handshakes of a bring-up guarantee, for every policy and any   *)
(* number of faults: the workload's seal, the child's identity, the view   *)
(* and the services behind a running workload.                             *)
(***************************************************************************)
EXTENDS Construction, TLAPS

-----------------------------------------------------------------------------
(* The workload's seal.                                                    *)

\* The steps taken so far are a prefix of the policy's list, and the fourth of
\* them (the check of the effective uid) ended a root child.
SealInv ==
    /\ wi \in 0 .. Len(WorkloadSteps)
    /\ sealed = {WorkloadSteps[i] : i \in 1 .. wi}
    /\ wi >= 4 => policy.operator # "root"
    /\ w = "running" => wi = Len(WorkloadSteps)

\* A longer list keeps its fourth element.
LEMMA ConcatKeeps ==
    ASSUME NEW S, NEW s \in Seq(S), NEW t \in Seq(S), Len(s) >= 4
    PROVE  s \o t \in Seq(S) /\ Len(s \o t) >= 4 /\ (s \o t)[4] = s[4]
<1>1. Len(s) \in Nat /\ Len(t) \in Nat
  OBVIOUS
<1>2. s \o t \in Seq(S) /\ Len(s \o t) = Len(s) + Len(t)
  OBVIOUS
<1>3. 4 \in 1 .. Len(s)
  BY <1>1
<1>4. (s \o t)[4] = s[4]
  BY <1>1, <1>2, <1>3
<1> QED BY <1>1, <1>2, <1>4

\* The names of the steps.
Step == {"setgid", "setgroups", "setuid", "euid", "selinux", "cwd", "tty", "nnp",
         "seccomp", "landlock", "rlimits", "stdio"}

\* The fourth step is the check that the child is not root.
LEMMA StepsShape ==
    /\ WorkloadSteps \in Seq(Step)
    /\ Len(WorkloadSteps) \in Nat /\ Len(WorkloadSteps) >= 4
    /\ WorkloadSteps[4] = "euid"
<1> DEFINE a == <<"setgid", "setgroups", "setuid", "euid", "selinux", "cwd", "tty", "nnp">>
           b == IF policy.seccomp THEN <<"seccomp">> ELSE <<>>
           c == <<"landlock", "rlimits">>
           d == IF policy.stdio THEN <<"stdio">> ELSE <<>>
<1>1. a \in Seq(Step) /\ Len(a) >= 4 /\ a[4] = "euid"
  BY DEF Step
<1>2. b \in Seq(Step)
  <2>1. <<"seccomp">> \in Seq(Step)
    BY DEF Step
  <2>2. <<>> \in Seq(Step)
    OBVIOUS
  <2> QED BY <2>1, <2>2
<1>3. c \in Seq(Step)
  BY DEF Step
<1>4. d \in Seq(Step)
  <2>1. <<"stdio">> \in Seq(Step)
    BY DEF Step
  <2>2. <<>> \in Seq(Step)
    OBVIOUS
  <2> QED BY <2>1, <2>2
<1>5. WorkloadSteps = ((a \o b) \o c) \o d
  BY DEF WorkloadSteps
<1> HIDE DEF a, b, c, d
<1>6. a \o b \in Seq(Step) /\ Len(a \o b) >= 4 /\ (a \o b)[4] = "euid"
  BY <1>1, <1>2, ConcatKeeps
<1>7. (a \o b) \o c \in Seq(Step) /\ Len((a \o b) \o c) >= 4 /\ ((a \o b) \o c)[4] = "euid"
  BY <1>3, <1>6, ConcatKeeps
<1>8. WorkloadSteps \in Seq(Step) /\ Len(WorkloadSteps) >= 4 /\ WorkloadSteps[4] = "euid"
  BY <1>4, <1>5, <1>7, ConcatKeeps
<1> QED BY <1>8

\* The list depends on the policy only.
LEMMA StepsKept == policy' = policy => WorkloadSteps' = WorkloadSteps
BY DEF WorkloadSteps

\* Who moves the workload: only its own steps, its fork and its end.
LEMMA WorkloadFrame ==
    ASSUME Next
    PROVE  \/ UNCHANGED <<w, wi, sealed>>
           \/ ForkWorkload \/ WorkloadStep \/ WorkloadExits \/ ChildFault \/ WorkloadFault
<1>1. CASE KenneldStep
  BY <1>1 DEF KenneldStep, CreateCgroup, InvokeFactory, TakeReport, AwaitInitReady,
              SendRendezvous, SpawnDelegate, SpawnInetd, ClaimNode0, SignalBusLive, ReapFactory,
              BringUpErr, Unwind, Stop, ReleaseExclusive
<1>2. CASE FactoryStep
  BY <1>2 DEF FactoryStep, Receive, AddLoopbackAndEgress, Prepare, CloneChild, Escalate,
              WriteIdentityMaps, SendMapsAck, DropToOperator, AwaitBuilt, OverMount, Report,
              FactoryErr
<1>3. CASE ChildStep
  BY <1>3 DEF ChildStep, CloseInherited, AwaitMaps, BecomeUid0, BuildKennel, HandOff,
              BindRendezvous, SendReady, AwaitGo, PullPlan, PlaceMeshMounts, ForkFacades,
              SuperviseEnds, ChildErr
<1>4. CASE Faulty
  BY <1>4 DEF Faulty, KenneldFault, FactoryFault, ClaimFault, MountFault, ReleaseFault,
              ClaimNode0, OverMount, ReleaseExclusive
<1> QED BY <1>1, <1>2, <1>3, <1>4 DEF Next

\* The policy is fixed.
LEMMA PolicyFixed == ASSUME [Next]_vars PROVE policy' = policy
<1>1. CASE KenneldStep
  BY <1>1 DEF KenneldStep, CreateCgroup, InvokeFactory, TakeReport, AwaitInitReady,
              SendRendezvous, SpawnDelegate, SpawnInetd, ClaimNode0, SignalBusLive, ReapFactory,
              BringUpErr, Unwind, Stop, ReleaseExclusive
<1>2. CASE FactoryStep
  BY <1>2 DEF FactoryStep, Receive, AddLoopbackAndEgress, Prepare, CloneChild, Escalate,
              WriteIdentityMaps, SendMapsAck, DropToOperator, AwaitBuilt, OverMount, Report,
              FactoryErr
<1>3. CASE ChildStep
  BY <1>3 DEF ChildStep, CloseInherited, AwaitMaps, BecomeUid0, BuildKennel, HandOff,
              BindRendezvous, SendReady, AwaitGo, PullPlan, PlaceMeshMounts, ForkFacades,
              ForkWorkload, SuperviseEnds, ChildErr
<1>4. CASE WorkloadStep \/ WorkloadExits
  BY <1>4 DEF WorkloadStep, SealStep, Exec, WorkloadExits
<1>5. CASE Faulty
  BY <1>5 DEF Faulty, KenneldFault, FactoryFault, ChildFault, WorkloadFault, ClaimFault,
              MountFault, ReleaseFault, ClaimNode0, OverMount, ReleaseExclusive
<1>6. CASE UNCHANGED vars
  BY <1>6 DEF vars
<1> QED BY <1>1, <1>2, <1>3, <1>4, <1>5, <1>6 DEF Next

\* Every step keeps the seal's invariant.
LEMMA SealNext == SealInv /\ [Next]_vars => SealInv'
<1> SUFFICES ASSUME SealInv, [Next]_vars PROVE SealInv'
  OBVIOUS
<1>1. policy' = policy /\ WorkloadSteps' = WorkloadSteps
  BY PolicyFixed, StepsKept
<1>2. ASSUME UNCHANGED <<wi, sealed>>, w' = "running" => w = "running" PROVE SealInv'
  BY <1>1, <1>2 DEF SealInv
<1>3. CASE SealStep
  <2> DEFINE step == WorkloadSteps[wi + 1]
  <2>1. wi < Len(WorkloadSteps) /\ w = "child"
    BY <1>3 DEF SealStep
  <2>2. CASE StepWorks(step)
    <3>1. wi' = wi + 1 /\ sealed' = sealed \cup {step} /\ w' = w
      BY <1>3, <2>2 DEF SealStep
    <3>2. wi + 1 \in 0 .. Len(WorkloadSteps) /\ 1 .. (wi + 1) = (1 .. wi) \cup {wi + 1}
      BY <2>1, StepsShape DEF SealInv
    <3>3. sealed' = {WorkloadSteps[i] : i \in 1 .. (wi + 1)}
      BY <3>1, <3>2 DEF SealInv
    <3>4. wi + 1 >= 4 => policy.operator # "root"
      <4>1. CASE wi + 1 = 4
        BY <4>1, <2>2, StepsShape DEF StepWorks
      <4> QED BY <4>1, StepsShape DEF SealInv
    <3> QED BY <1>1, <2>1, <3>1, <3>2, <3>3, <3>4 DEF SealInv
  <2>3. CASE ~StepWorks(step)
    BY <1>2, <1>3, <2>3 DEF SealStep
  <2> QED BY <2>2, <2>3
<1>4. CASE Exec
  BY <1>1, <1>4 DEF Exec, SealInv
<1>5. CASE ForkWorkload \/ WorkloadExits \/ ChildFault \/ WorkloadFault
  BY <1>2, <1>5 DEF ForkWorkload, WorkloadExits, ChildFault, WorkloadFault
<1>6. CASE UNCHANGED <<w, wi, sealed>>
  BY <1>2, <1>6
<1>7. CASE UNCHANGED vars
  BY <1>6, <1>7 DEF vars, procVars
<1> QED BY <1>3, <1>4, <1>5, <1>6, <1>7, WorkloadFrame DEF WorkloadStep

\* A workload that runs is not root and went through every drop and seal step
\* of its policy.
THEOREM ConfinedWorkloadTheorem == Spec => []ConfinedWorkload
<1>1. Init => SealInv
  BY StepsShape DEF Init, SealInv
<1>2. SealInv => ConfinedWorkload
  BY StepsShape DEF SealInv, ConfinedWorkload
<1> QED BY <1>1, <1>2, SealNext, PTL DEF Spec

-----------------------------------------------------------------------------
(* The handshakes: who may be where while someone else is elsewhere.       *)

\* Before and after the clone, in the factory; the child up to the view built.
BeforeClone == {"none", "recv", "net", "check", "clone"}
BeforeView == {"none", "born", "maps", "uid0", "build"}
\* kennel-bin-init once GO arrived, and the part of bring_up that GO ends.
AfterGo == {"pull", "mounts", "facades", "fork", "supervise"}
Live == {"wire", "report", "ready", "rendezvous", "delegate", "inbound", "claim", "go",
         "reap", "up"}
Ended == {"failed", "release", "stopped"}

\* The identity under which the namespace is made, and root inside it.
IdentityInv ==
    /\ fp = "clone" => euid = policy.operator
    /\ ch # "none" => owner = policy.operator
    /\ ch \in {"build", "place"} \cup InInit => maps /\ uid = "root"

\* The source is shadowed only once the child has no bind left to make.
ViewInv ==
    /\ kd \in {"cgroup", "wire"} => fp = "none"
    /\ fp \in BeforeClone => ch = "none" /\ ~shadow
    /\ fp = "mount" \/ shadow => builtAck \/ ch = "gone"
    /\ ch \in BeforeView => ~builtAck
    /\ view # "sentinel"

\* What kenneld has done by the time init may go on.
ServiceInv ==
    /\ w \in {"child", "running"} => ch = "supervise"
    /\ ch \in AfterGo => go
    /\ go => kd \in {"reap", "up", "release", "stopped"}
    /\ kd \in {"release", "stopped"} => ch = "gone"
    /\ ch \in AfterGo \ {"pull"} => node0 = "served"
    /\ ch \in {"facades", "fork", "supervise"} => rendezvous = "absent"
    /\ kd \in Live => cgroup
    /\ kd \in {"inbound", "claim", "go", "reap", "up"} /\ policy.mode = "proxied" => delegate
    /\ kd \in {"claim", "go", "reap", "up"} /\ Mirrored => inetd
    /\ kd \notin Ended /\ (fp \notin {"none", "recv", "net", "gone"} \/ ch # "none") =>
         (Mirrored => addr) /\ (policy.mode = "host" => egress)

HandshakeInv == IdentityInv /\ ViewInv /\ ServiceInv

\* kenneld's steps keep the handshakes.
LEMMA KenneldKeeps ==
    ASSUME HandshakeInv, KenneldStep
    PROVE  HandshakeInv'
<1> USE DEF HandshakeInv, IdentityInv, ViewInv, ServiceInv, BeforeClone, BeforeView, AfterGo,
            Live, Ended, Mirrored, InInit, msgVars, resVars
<1>1. CASE CreateCgroup
  BY <1>1 DEF CreateCgroup
<1>2. CASE InvokeFactory
  BY <1>2 DEF InvokeFactory
<1>3. CASE TakeReport
  BY <1>3 DEF TakeReport
<1>4. CASE AwaitInitReady
  BY <1>4 DEF AwaitInitReady
<1>5. CASE SendRendezvous
  BY <1>5 DEF SendRendezvous
<1>6. CASE SpawnDelegate
  BY <1>6 DEF SpawnDelegate
<1>7. CASE SpawnInetd
  BY <1>7 DEF SpawnInetd
<1>8. CASE ClaimNode0(TRUE)
  BY <1>8 DEF ClaimNode0
<1>9. CASE SignalBusLive
  BY <1>9 DEF SignalBusLive
<1>10. CASE ReapFactory
  BY <1>10 DEF ReapFactory
<1>11. CASE BringUpErr
  BY <1>11 DEF BringUpErr, PeerGone
<1>12. CASE Unwind
  BY <1>12 DEF Unwind, StopManager, Teardown
<1>13. CASE Stop
  BY <1>13 DEF Stop, StopManager, Teardown
<1>14. CASE ReleaseExclusive(TRUE)
  BY <1>14 DEF ReleaseExclusive
<1> QED BY <1>1, <1>2, <1>3, <1>4, <1>5, <1>6, <1>7, <1>8, <1>9, <1>10, <1>11, <1>12, <1>13, <1>14 DEF KenneldStep

\* The factory's steps keep them.
LEMMA FactoryKeeps ==
    ASSUME HandshakeInv, FactoryStep
    PROVE  HandshakeInv'
<1> USE DEF HandshakeInv, IdentityInv, ViewInv, ServiceInv, BeforeClone, BeforeView, AfterGo,
            Live, Ended, Mirrored, InInit, msgVars, resVars
<1>1. CASE Receive
  BY <1>1 DEF Receive
<1>2. CASE AddLoopbackAndEgress
  BY <1>2 DEF AddLoopbackAndEgress
<1>3. CASE Prepare
  BY <1>3 DEF Prepare
<1>4. CASE CloneChild
  BY <1>4 DEF CloneChild
<1>5. CASE Escalate
  BY <1>5 DEF Escalate
<1>6. CASE WriteIdentityMaps
  BY <1>6 DEF WriteIdentityMaps
<1>7. CASE SendMapsAck
  BY <1>7 DEF SendMapsAck
<1>8. CASE DropToOperator
  BY <1>8 DEF DropToOperator
<1>9. CASE AwaitBuilt
  BY <1>9 DEF AwaitBuilt
<1>10. CASE OverMount(TRUE)
  BY <1>10 DEF OverMount
<1>11. CASE Report
  BY <1>11 DEF Report
<1>12. CASE FactoryErr
  BY <1>12 DEF FactoryErr, ChildGone
<1> QED BY <1>1, <1>2, <1>3, <1>4, <1>5, <1>6, <1>7, <1>8, <1>9, <1>10, <1>11, <1>12 DEF FactoryStep

\* The child's and init's steps keep them.
LEMMA ChildKeeps ==
    ASSUME HandshakeInv, ChildStep
    PROVE  HandshakeInv'
<1> USE DEF HandshakeInv, IdentityInv, ViewInv, ServiceInv, BeforeClone, BeforeView, AfterGo,
            Live, Ended, Mirrored, InInit, msgVars, resVars
<1>1. CASE CloseInherited
  BY <1>1 DEF CloseInherited
<1>2. CASE AwaitMaps
  BY <1>2 DEF AwaitMaps
<1>3. CASE BecomeUid0
  BY <1>3 DEF BecomeUid0
<1>4. CASE BuildKennel
  BY <1>4 DEF BuildKennel, BindSource
<1>5. CASE HandOff
  BY <1>5 DEF HandOff
<1>6. CASE BindRendezvous
  BY <1>6 DEF BindRendezvous
<1>7. CASE SendReady
  BY <1>7 DEF SendReady
<1>8. CASE AwaitGo
  BY <1>8 DEF AwaitGo
<1>9. CASE PullPlan
  BY <1>9 DEF PullPlan
<1>10. CASE PlaceMeshMounts
  BY <1>10 DEF PlaceMeshMounts
<1>11. CASE ForkFacades
  BY <1>11 DEF ForkFacades
<1>12. CASE ForkWorkload
  BY <1>12 DEF ForkWorkload
<1>13. CASE SuperviseEnds
  BY <1>13 DEF SuperviseEnds
<1>14. CASE ChildErr
  BY <1>14 DEF ChildErr, InitGivesUp
<1> QED BY <1>1, <1>2, <1>3, <1>4, <1>5, <1>6, <1>7, <1>8, <1>9, <1>10, <1>11, <1>12, <1>13, <1>14 DEF ChildStep

\* The workload's steps keep them.
LEMMA WorkloadKeeps ==
    ASSUME HandshakeInv, WorkloadStep \/ WorkloadExits
    PROVE  HandshakeInv'
<1> USE DEF HandshakeInv, IdentityInv, ViewInv, ServiceInv, BeforeClone, BeforeView, AfterGo,
            Live, Ended, Mirrored, InInit, msgVars, resVars
<1>1. CASE SealStep
  BY <1>1 DEF SealStep
<1>2. CASE Exec
  BY <1>2 DEF Exec
<1>3. CASE WorkloadExits
  BY <1>3 DEF WorkloadExits
<1> QED BY <1>1, <1>2, <1>3 DEF WorkloadStep

\* A fault at any point keeps them.
LEMMA FaultsKeep ==
    ASSUME HandshakeInv, Faulty
    PROVE  HandshakeInv'
<1> USE DEF HandshakeInv, IdentityInv, ViewInv, ServiceInv, BeforeClone, BeforeView, AfterGo,
            Live, Ended, Mirrored, InInit, msgVars, resVars
<1>1. CASE KenneldFault
  BY <1>1 DEF KenneldFault, MayErr
<1>2. CASE FactoryFault
  BY <1>2 DEF FactoryFault
<1>3. CASE ChildFault
  BY <1>3 DEF ChildFault, ChildAlive, PreExec
<1>4. CASE WorkloadFault
  BY <1>4 DEF WorkloadFault
<1>5. CASE ClaimFault
  BY <1>5 DEF ClaimFault, ClaimNode0
<1>6. CASE MountFault
  BY <1>6 DEF MountFault, OverMount
<1>7. CASE ReleaseFault
  BY <1>7 DEF ReleaseFault, ReleaseExclusive
<1> QED BY <1>1, <1>2, <1>3, <1>4, <1>5, <1>6, <1>7 DEF Faulty

\* The handshakes hold in every state.
LEMMA HandshakeInvariant == Spec => []HandshakeInv
<1>1. Init => HandshakeInv
  BY DEF Init, HandshakeInv, IdentityInv, ViewInv, ServiceInv, BeforeClone, BeforeView,
         AfterGo, Live, Ended, InInit
<1>2. HandshakeInv /\ [Next]_vars => HandshakeInv'
  <2> SUFFICES ASSUME HandshakeInv, [Next]_vars PROVE HandshakeInv'
    OBVIOUS
  <2>1. CASE UNCHANGED vars
    BY <2>1 DEF vars, procVars, msgVars, resVars, HandshakeInv, IdentityInv, ViewInv,
                ServiceInv, Mirrored
  <2> QED BY <2>1, KenneldKeeps, FactoryKeeps, ChildKeeps, WorkloadKeeps, FaultsKeep DEF Next
<1> QED BY <1>1, <1>2, PTL DEF Spec

\* The child is uid 0 only in a namespace the operator owns, after the maps.
THEOREM RootOnlyWhenMappedTheorem == Spec => []RootOnlyWhenMapped
<1>1. HandshakeInv => RootOnlyWhenMapped
  BY DEF HandshakeInv, IdentityInv, RootOnlyWhenMapped, InInit
<1> QED BY <1>1, HandshakeInvariant, PTL

\* The kennel's view never holds the sentinel: the over-mount waits for it.
THEOREM CapturedTheorem == Spec => []CapturedBeforeShadowed
<1>1. HandshakeInv => CapturedBeforeShadowed
  BY DEF HandshakeInv, ViewInv, CapturedBeforeShadowed
<1> QED BY <1>1, HandshakeInvariant, PTL

\* While the workload exists, all that bring_up promises it is in place.
THEOREM ServicesTheorem == Spec => []WorkloadHasItsServices
<1>1. HandshakeInv => WorkloadHasItsServices
  BY DEF HandshakeInv, ServiceInv, WorkloadHasItsServices, AfterGo, Live, Ended
<1> QED BY <1>1, HandshakeInvariant, PTL
=============================================================================
