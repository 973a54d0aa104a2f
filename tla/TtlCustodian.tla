---------------------------- MODULE TtlCustodian ---------------------------
(***************************************************************************)
(* The lifetime of a running kennel: kennel-bin-init's supervise loop with *)
(* its one-shot TTL alarm, the custodian in kenneld that decides what an   *)
(* expired TTL means (ttl_expired on a node-0 looper), the tripwire thread *)
(* that may freeze or kill the same cgroup, and run_kennel's teardown,     *)
(* which joins the looper the custodian runs on.                           *)
(*                                                                         *)
(* kennel-bin-init, the facades and the workload live in the cgroup, so    *)
(* they make no step while it is frozen; kenneld's threads are outside it. *)
(* Time is abstract: an armed alarm expires at some later moment.          *)
(***************************************************************************)
EXTENDS Naturals

CONSTANTS
    Policies,       \* which of [lifecycle].on-expiry a kennel may have, plus
                    \* "provider" for an ondemand provider's idle grace
    OnChanges,      \* which of [trust].on_change
    MaxRenewals,    \* bound: approved renewals in a behaviour
    MaxCrashes,     \* bound: facade crashes in a behaviour
    FreezerInterrupts,  \* the freezer may EINTR the blocked binder ioctl
    ArmMayFail          \* re-arming the alarm may fail

ASSUME TtlAssumption ==
    /\ Policies \subseteq {"exit", "warn", "renew", "provider"}
    /\ OnChanges \subseteq {"warn", "freeze", "kill"}
    /\ MaxRenewals \in Nat
    /\ MaxCrashes \in Nat
    /\ FreezerInterrupts \in BOOLEAN
    /\ ArmMayFail \in BOOLEAN

VARIABLES
    policy, onChange,   \* fixed per kennel
    ipc,        \* kennel-bin-init: where the supervise loop is
    fired,      \* TTL_ALARM_FIRED
    alarm,      \* the kernel timer is running
    sig,        \* SIGALRM generated and not yet delivered
    workload,   \* the workload: running, a zombie to reap, or gone
    crashed,    \* facade zombies to reap
    crashes,    \* facade crashes so far
    frozen,     \* cgroup.freeze
    custodian,  \* the looper inside ttl_expired
    decision,   \* the last reply byte
    renewals,   \* RENEW decisions so far
    trip,       \* the tripwire thread
    tripFroze,  \* the tripwire froze the cgroup
    teardown    \* run_kennel: waiting, joining the loopers, or finished

initVars == <<ipc, fired, alarm, sig>>
procVars == <<workload, crashed, crashes>>
custVars == <<custodian, decision, renewals>>
tripVars == <<trip, tripFroze>>
vars == <<policy, onChange, initVars, procVars, frozen, custVars, tripVars, teardown>>

TypeOK ==
    /\ policy \in Policies
    /\ onChange \in OnChanges
    /\ ipc \in {"check", "enter", "wait", "restart", "call", "gone"}
    /\ fired \in BOOLEAN /\ alarm \in BOOLEAN /\ sig \in BOOLEAN
    /\ workload \in {"running", "zombie", "gone"}
    /\ crashed \in 0 .. MaxCrashes /\ crashes \in 0 .. MaxCrashes
    /\ frozen \in BOOLEAN
    /\ custodian \in {"idle", "notified", "deciding", "asking", "replied"}
    /\ decision \in {"none", "resume", "renew", "terminate"}
    /\ renewals \in 0 .. MaxRenewals
    /\ trip \in {"watching", "ended"}
    /\ tripFroze \in BOOLEAN
    /\ teardown \in {"waiting", "joining", "joined", "finished"}

\* supervise() has armed the alarm and enters its loop.
Init ==
    /\ policy \in Policies
    /\ onChange \in OnChanges
    /\ ipc = "check" /\ fired = FALSE /\ alarm = TRUE /\ sig = FALSE
    /\ workload = "running" /\ crashed = 0 /\ crashes = 0
    /\ frozen = FALSE
    /\ custodian = "idle" /\ decision = "none" /\ renewals = 0
    /\ trip = "watching" /\ tripFroze = FALSE
    /\ teardown = "waiting"

Gone == ipc = "gone"
Runnable == ~ Gone /\ ~ frozen

\* cgroup.kill: SIGKILL reaches frozen members too.
KillAll == ipc' = "gone" /\ workload' = "gone" /\ UNCHANGED <<fired, alarm, sig>>

----------------------------------------------------------------------------
(* The kennel's processes.                                                 *)

WorkloadExits ==
    /\ Runnable
    /\ workload = "running"
    /\ workload' = "zombie"
    /\ UNCHANGED <<policy, onChange, initVars, crashed, crashes, frozen, custVars, tripVars, teardown>>

FacadeCrashes ==
    /\ Runnable
    /\ crashes < MaxCrashes
    /\ crashes' = crashes + 1
    /\ crashed' = crashed + 1
    /\ UNCHANGED <<policy, onChange, initVars, workload, frozen, custVars, tripVars, teardown>>

\* The timer runs whether or not the cgroup is frozen.
AlarmExpires ==
    /\ alarm
    /\ alarm' = FALSE
    /\ sig' = TRUE
    /\ UNCHANGED <<policy, onChange, ipc, fired, procVars, frozen, custVars, tripVars, teardown>>

\* on_ttl_alarm: no SA_RESTART, so a blocked wait() returns EINTR.  The
\* handler can also run between the flag test and the wait.
SignalDelivered ==
    /\ sig
    /\ Runnable
    /\ sig' = FALSE
    /\ fired' = TRUE
    /\ ipc' = IF ipc = "wait" THEN "check" ELSE ipc
    /\ UNCHANGED <<policy, onChange, alarm, procVars, frozen, custVars, tripVars, teardown>>

----------------------------------------------------------------------------
(* supervise(), kennel-bin-init.                                           *)

\* ttl_alarm_fired() consumes the flag and NOTIFY_TTL_EXPIRED is sent; node 0
\* is served for as long as kennel-bin-init lives.
CheckFired ==
    /\ Runnable
    /\ ipc = "check"
    /\ fired
    /\ fired' = FALSE
    /\ ipc' = "call"
    /\ custodian' = "notified"
    /\ UNCHANGED <<policy, onChange, alarm, sig, procVars, frozen, decision, renewals, tripVars, teardown>>

CheckNotFired ==
    /\ Runnable
    /\ ipc = "check"
    /\ ~ fired
    /\ ipc' = "enter"
    /\ UNCHANGED <<policy, onChange, fired, alarm, sig, procVars, frozen, custVars, tripVars, teardown>>

\* The wait() system call begins; from here a signal interrupts it.
EnterWait ==
    /\ Runnable
    /\ ipc = "enter"
    /\ ipc' = "wait"
    /\ UNCHANGED <<policy, onChange, fired, alarm, sig, procVars, frozen, custVars, tripVars, teardown>>

\* The workload's death ends PID 1 and with it everything in the kennel.
ReapWorkload ==
    /\ Runnable
    /\ ipc = "wait"
    /\ workload = "zombie"
    /\ KillAll
    /\ UNCHANGED <<policy, onChange, crashed, crashes, frozen, custVars, tripVars, teardown>>

ReapFacade ==
    /\ Runnable
    /\ ipc = "wait"
    /\ crashed > 0
    /\ crashed' = crashed - 1
    /\ ipc' = "restart"
    /\ UNCHANGED <<policy, onChange, fired, alarm, sig, workload, crashes, frozen, custVars, tripVars, teardown>>

\* notify, RESTART_DELAY, re-fork or leave it down, notify; back to the loop.
RestartDone ==
    /\ Runnable
    /\ ipc = "restart"
    /\ ipc' = "check"
    /\ UNCHANGED <<policy, onChange, fired, alarm, sig, procVars, frozen, custVars, tripVars, teardown>>

\* The blocking call returns: only RENEW re-arms the alarm.
CallReturns ==
    /\ Runnable
    /\ ipc = "call"
    /\ custodian = "replied"
    /\ ipc' = "check"
    /\ custodian' = "idle"
    /\ \/ decision = "renew" /\ alarm' = TRUE
       \/ (decision = "renew" => ArmMayFail) /\ UNCHANGED alarm
    /\ UNCHANGED <<policy, onChange, fired, sig, procVars, frozen, decision, renewals, tripVars, teardown>>

\* The freezer interrupted the ioctl: the loop carries on, the reply is lost.
CallInterrupted ==
    /\ FreezerInterrupts
    /\ Runnable
    /\ ipc = "call"
    /\ custodian = "replied"
    /\ ipc' = "check"
    /\ custodian' = "idle"
    /\ UNCHANGED <<policy, onChange, fired, alarm, sig, procVars, frozen, decision, renewals, tripVars, teardown>>

----------------------------------------------------------------------------
(* ttl_expired, on a looper of kenneld.                                    *)

Freeze ==
    /\ custodian = "notified"
    /\ custodian' = "deciding"
    /\ frozen' = TRUE
    /\ UNCHANGED <<policy, onChange, initVars, procVars, decision, renewals, tripVars, teardown>>

\* Thaw the cgroup and reply d.
ThawAndReply(d) ==
    /\ custodian' = "replied"
    /\ decision' = d
    /\ renewals' = IF d = "renew" THEN renewals + 1 ELSE renewals
    /\ frozen' = FALSE
    /\ UNCHANGED initVars
    /\ UNCHANGED workload

\* Kill the frozen cgroup; the reply has no reader.
KillAndReply ==
    /\ custodian' = "replied"
    /\ decision' = "terminate"
    /\ KillAll
    /\ UNCHANGED <<frozen, renewals>>

CensusKeep ==
    /\ custodian = "deciding"
    /\ policy = "provider"
    /\ renewals < MaxRenewals
    /\ ThawAndReply("renew")
    /\ UNCHANGED <<policy, onChange, crashed, crashes, tripVars, teardown>>

CensusReap ==
    /\ custodian = "deciding"
    /\ policy = "provider"
    /\ KillAndReply
    /\ UNCHANGED <<policy, onChange, crashed, crashes, tripVars, teardown>>

DecideExit ==
    /\ custodian = "deciding"
    /\ policy = "exit"
    /\ KillAndReply
    /\ UNCHANGED <<policy, onChange, crashed, crashes, tripVars, teardown>>

DecideWarn ==
    /\ custodian = "deciding"
    /\ policy = "warn"
    /\ ThawAndReply("resume")
    /\ UNCHANGED <<policy, onChange, crashed, crashes, tripVars, teardown>>

\* Mutant: the kennel is resumed while the operator thinks.
AskThawed ==
    /\ custodian = "deciding"
    /\ policy = "renew"
    /\ custodian' = "asking"
    /\ frozen' = FALSE
    /\ UNCHANGED <<policy, onChange, initVars, procVars, decision, renewals, tripVars, teardown>>

\* PromptPort::ask sends the prompt and blocks for its reply.
Ask ==
    /\ custodian = "deciding"
    /\ policy = "renew"
    /\ custodian' = "asking"
    /\ UNCHANGED <<policy, onChange, initVars, procVars, frozen, decision, renewals, tripVars, teardown>>

OperatorApproves ==
    /\ custodian = "asking"
    /\ renewals < MaxRenewals
    /\ ThawAndReply("renew")
    /\ UNCHANGED <<policy, onChange, crashed, crashes, tripVars, teardown>>

OperatorDeclines ==
    /\ custodian = "asking"
    /\ KillAndReply
    /\ UNCHANGED <<policy, onChange, crashed, crashes, tripVars, teardown>>

\* Mutant: ask() without a read timeout, answered only by an operator.
AskForever == FALSE /\ UNCHANGED vars

\* No prompt port, detached operator, or ANSWER_TIMEOUT: warn.
NoAnswer ==
    /\ \/ custodian = "asking"
       \/ custodian = "deciding" /\ policy = "renew"
    /\ ThawAndReply("resume")
    /\ UNCHANGED <<policy, onChange, crashed, crashes, tripVars, teardown>>

\* The looper finishes a call whose caller is dead.
ReplyDropped ==
    /\ custodian = "replied"
    /\ Gone
    /\ custodian' = "idle"
    /\ UNCHANGED <<policy, onChange, initVars, procVars, frozen, decision, renewals, tripVars, teardown>>

----------------------------------------------------------------------------
(* The tripwire, the operator's Stop, and run_kennel's teardown.           *)

\* A watched path changed; apply() acts on the cgroup.
TripWarn ==
    /\ trip = "watching"
    /\ onChange = "warn"
    /\ UNCHANGED vars

TripFreeze ==
    /\ trip = "watching"
    /\ onChange = "freeze"
    /\ frozen' = TRUE
    /\ tripFroze' = TRUE
    /\ UNCHANGED <<policy, onChange, initVars, procVars, custVars, trip, teardown>>

TripKill ==
    /\ trip = "watching"
    /\ onChange = "kill"
    /\ trip' = "ended"
    /\ KillAll
    /\ UNCHANGED <<policy, onChange, crashed, crashes, frozen, custVars, tripFroze, teardown>>

OperatorStops ==
    /\ ~ Gone
    /\ KillAll
    /\ UNCHANGED <<policy, onChange, crashed, crashes, frozen, custVars, tripVars, teardown>>

\* Kennel::stop: wait_pid returns and Manager::stop signals the loopers.
WaitReturns ==
    /\ teardown = "waiting"
    /\ Gone
    /\ teardown' = "joining"
    /\ UNCHANGED <<policy, onChange, initVars, procVars, frozen, custVars, tripVars>>

\* Every looper is joined, the one inside ttl_expired included.
LoopersJoined ==
    /\ teardown = "joining"
    /\ custodian = "idle"
    /\ teardown' = "joined"
    /\ UNCHANGED <<policy, onChange, initVars, procVars, frozen, custVars, tripVars>>

\* Tripwire::stop joins the watcher; its next read finds the stop flag.
TripwireStopped ==
    /\ teardown = "joined"
    /\ teardown' = "finished"
    /\ trip' = "ended"
    /\ UNCHANGED <<policy, onChange, initVars, procVars, frozen, custVars, tripFroze>>

----------------------------------------------------------------------------
InitLoop ==
    \/ CheckFired \/ CheckNotFired \/ EnterWait \/ ReapWorkload \/ ReapFacade
    \/ RestartDone \/ CallReturns \/ CallInterrupted

Custodian ==
    \/ Freeze \/ CensusKeep \/ CensusReap \/ DecideExit \/ DecideWarn
    \/ Ask \/ NoAnswer \/ ReplyDropped

Operator == OperatorApproves \/ OperatorDeclines \/ OperatorStops

Environment == WorkloadExits \/ FacadeCrashes \/ TripWarn \/ TripFreeze \/ TripKill

Teardown == WaitReturns \/ LoopersJoined \/ TripwireStopped

Next == InitLoop \/ AlarmExpires \/ SignalDelivered \/ Custodian \/ Operator
        \/ Environment \/ Teardown

\* Runnable threads run and the timer expires; the operator, the workload and
\* the watched files owe nothing, and a prompt ends by its read timeout.
Fairness ==
    /\ WF_vars(InitLoop)
    /\ WF_vars(AlarmExpires)
    /\ WF_vars(SignalDelivered)
    /\ WF_vars(Custodian)
    /\ WF_vars(Teardown)

Spec == Init /\ [][Next]_vars
FairSpec == Spec /\ Fairness

----------------------------------------------------------------------------
(* Properties.                                                             *)

\* While the custodian decides or waits for the operator nothing in the
\* kennel runs, whatever the tripwire and Stop do meanwhile (ttl_expired:
\* no acting past the deadline).
FrozenWhileDeciding ==
    custodian \in {"deciding", "asking"} => frozen \/ Gone

\* A kennel is never left suspended by its TTL: a freeze that is not the
\* tripwire's is lifted, or the kennel ends, even if no operator answers.
TtlFreezeEnds ==
    (frozen /\ ~ tripFroze) ~> (~ frozen \/ tripFroze \/ Gone)

\* A kennel that ended is torn down, although Manager::stop waits for the
\* looper that is asking an operator who may never answer.
TeardownCompletes == Gone ~> (teardown = "finished")

\* Nobody waits for ever on a TTL that expired: neither the workload it
\* suspended nor the teardown of its kennel.
TtlSettles == TtlFreezeEnds /\ TeardownCompletes

\* An expired TTL reaches the custodian (arm_ttl_alarm: the alarm interrupts
\* the wait "so the supervise loop wakes, sees the flag, and makes its
\* blocking NOTIFY_TTL_EXPIRED call").
DeadlineHonoured == fired ~> (custodian # "idle" \/ Gone)

\* What the tripwire froze stays frozen for the operator until the kennel
\* ends ("freeze (suspend the workload for the operator)").
TripwireFreezeHolds == tripFroze => frozen \/ Gone
=============================================================================
