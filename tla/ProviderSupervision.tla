------------------------ MODULE ProviderSupervision ------------------------
(***************************************************************************)
(* One enabled service provider: the supervision threads that construct    *)
(* and restart it (kenneld/src/supervisor.rs), the catalogue's readiness   *)
(* machine, the Activator's double-start guard and the idle-reaped mark,   *)
(* the consumers whose SVC_CONNECT activates it and waits, the operator's  *)
(* Stop and the idle reap of its TTL, and daemon-reload.                   *)
(*                                                                         *)
(* Each of the guard, the mark, the catalogue and the registry has a lock  *)
(* of its own, so every access to one of them is a step of its own.        *)
(***************************************************************************)
EXTENDS Naturals, FiniteSets

CONSTANTS
    Threads,        \* supervision threads that can be live at the same time
    Consumers,      \* kennels that consume the provider's capability
    None,
    Enablements,    \* "ondemand", "autorun": which a provider may have
    Restarts,       \* RestartPolicy values a provider may have
    MaxAttempts,    \* [service].max_attempts
    MaxOps          \* bound: operator stops and daemon-reloads together

ASSUME ProviderAssumption ==
    /\ Threads # {} /\ None \notin Threads
    /\ Enablements \subseteq {"ondemand", "autorun"}
    /\ Restarts \subseteq {"always", "on-failure", "never"}
    /\ {MaxAttempts, MaxOps} \subseteq Nat

VARIABLES
    enablement, restart,    \* the provider's policy
    readiness,  \* its state in the catalogue
    started,    \* it is in Activator.started
    reaped,     \* it is in Shared.idle_reaped
    holder,     \* the thread whose run_kennel holds the registry entry
    up,         \* the provider's workload runs
    thr,        \* where each supervision thread is
    clean,      \* its run_kennel reported a clean exit
    restarts,   \* its restarts so far
    killer,     \* Stop and the TTL custodian: what each has done so far
    ops,        \* operator requests so far
    cons        \* each consumer

policyVars == <<enablement, restart>>
thrVars == <<thr, clean, restarts>>
vars == <<policyVars, readiness, started, reaped, holder, up, thrVars, killer, ops, cons>>

Killers == {"operator", "ttl"}

TypeOK ==
    /\ enablement \in Enablements /\ restart \in Restarts
    /\ readiness \in {"pending", "ready", "failed"}
    /\ started \in BOOLEAN /\ reaped \in BOOLEAN /\ up \in BOOLEAN
    /\ holder \in Threads \cup {None}
    /\ thr \in [Threads -> {"none", "begin", "building", "built", "serving", "joined",
                            "reap", "restart", "fail", "done", "backoff", "ending"}]
    /\ clean \in [Threads -> BOOLEAN]
    /\ restarts \in [Threads -> 0 .. MaxAttempts]
    /\ killer \in [Killers -> {"idle", "mark", "unguard", "kill"}]
    /\ ops \in 0 .. MaxOps
    /\ cons \in [Consumers -> {"off", "running", "activate", "waiting", "handoff",
                               "connected", "unavailable"}]

\* autostart gives an autorun provider its thread; an ondemand one has none.
Init ==
    /\ enablement \in Enablements /\ restart \in Restarts
    /\ readiness = "pending" /\ started = FALSE /\ reaped = FALSE
    /\ holder = None /\ up = FALSE
    /\ \E t \in Threads :
         thr = [s \in Threads |->
                  IF enablement = "autorun" /\ s = t THEN "begin" ELSE "none"]
    /\ clean = [t \in Threads |-> FALSE] /\ restarts = [t \in Threads |-> 0]
    /\ killer = [k \in Killers |-> "idle"] /\ ops = 0
    /\ cons = [c \in Consumers |-> "off"]

----------------------------------------------------------------------------
(* Readiness::on and supervisor::on_exit.                                  *)

\* Mutant: an idle reap is not a legal event of a ready provider.
OnKeepsReaped(r, e) ==
    CASE r = "pending" /\ e = "constructed" -> "ready"
      [] r = "pending" /\ e = "exhausted" -> "failed"
      [] r = "ready" /\ e = "restarting" -> "pending"
      [] r = "ready" /\ e = "exhausted" -> "failed"
      [] OTHER -> r

\* An illegal transition leaves the state alone.
On(r, e) ==
    CASE r = "pending" /\ e = "constructed" -> "ready"
      [] r = "pending" /\ e = "exhausted" -> "failed"
      [] r = "ready" /\ e \in {"restarting", "reaped"} -> "pending"
      [] r = "ready" /\ e = "exhausted" -> "failed"
      [] OTHER -> r

OnExit(wasClean, n) ==
    IF restart = "always" \/ (restart = "on-failure" /\ ~ wasClean)
    THEN IF n >= MaxAttempts THEN "fail" ELSE "restart"
    ELSE IF wasClean THEN "done" ELSE "fail"

----------------------------------------------------------------------------
(* supervise_provider, on thread t.                                        *)

\* UnixStream::pair failed: the thread gives up without a word.
SinkFails(t) ==
    /\ thr[t] = "begin"
    /\ thr' = [thr EXCEPT ![t] = "ending"]
    /\ UNCHANGED <<policyVars, readiness, started, reaped, holder, up, clean, restarts, killer, ops, cons>>

\* run_kennel's reserve finds the name taken.
NameTaken(t) ==
    /\ thr[t] = "begin"
    /\ holder # None
    /\ thr' = [thr EXCEPT ![t] = "joined"]
    /\ UNCHANGED <<policyVars, readiness, started, reaped, holder, up, clean, restarts, killer, ops, cons>>

Reserve(t) ==
    /\ thr[t] = "begin"
    /\ holder = None
    /\ holder' = t
    /\ thr' = [thr EXCEPT ![t] = "building"]
    /\ UNCHANGED <<policyVars, readiness, started, reaped, up, clean, restarts, killer, ops, cons>>

\* Response::Error, after the entry was released.
BuildFails(t) ==
    /\ thr[t] = "building"
    /\ holder' = None
    /\ thr' = [thr EXCEPT ![t] = "joined"]
    /\ UNCHANGED <<policyVars, readiness, started, reaped, up, clean, restarts, killer, ops, cons>>

Built(t) ==
    /\ thr[t] = "building"
    /\ up' = TRUE
    /\ thr' = [thr EXCEPT ![t] = "built"]
    /\ UNCHANGED <<policyVars, readiness, started, reaped, holder, clean, restarts, killer, ops, cons>>

\* Response::Started reaches the supervision thread.
NoteReady(t) ==
    /\ thr[t] = "built"
    /\ readiness' = On(readiness, "constructed")
    /\ thr' = [thr EXCEPT ![t] = "serving"]
    /\ UNCHANGED <<policyVars, started, reaped, holder, up, clean, restarts, killer, ops, cons>>

ProviderExits(t) ==
    /\ up /\ holder = t
    /\ up' = FALSE
    /\ \E b \in BOOLEAN : clean' = [clean EXCEPT ![t] = b]
    /\ UNCHANGED <<policyVars, readiness, started, reaped, holder, thr, restarts, killer, ops, cons>>

\* run_kennel has torn down and released the name; Exited, then join.
RunReturns(t) ==
    /\ thr[t] = "serving"
    /\ holder = t /\ ~ up
    /\ holder' = None
    /\ thr' = [thr EXCEPT ![t] = "joined"]
    /\ UNCHANGED <<policyVars, readiness, started, reaped, up, clean, restarts, killer, ops, cons>>

\* take_idle_reaped, else on_exit.
Decide(t) ==
    /\ thr[t] = "joined"
    /\ reaped' = FALSE
    /\ thr' = [thr EXCEPT ![t] = IF reaped THEN "reap" ELSE OnExit(clean[t], restarts[t])]
    /\ clean' = [clean EXCEPT ![t] = FALSE]
    /\ UNCHANGED <<policyVars, readiness, started, holder, up, restarts, killer, ops, cons>>

\* note_provider_event; Done is reported as an idle reap.
Note(t) ==
    /\ thr[t] \in {"reap", "restart", "fail", "done"}
    /\ readiness' = CASE thr[t] = "restart" -> On(readiness, "restarting")
                      [] thr[t] = "fail"    -> On(readiness, "exhausted")
                      [] OTHER              -> On(readiness, "reaped")
    /\ thr' = [thr EXCEPT ![t] = IF @ = "restart" THEN "backoff" ELSE "ending"]
    /\ UNCHANGED <<policyVars, started, reaped, holder, up, clean, restarts, killer, ops, cons>>

BackoffOver(t) ==
    /\ thr[t] = "backoff"
    /\ restarts' = [restarts EXCEPT ![t] = @ + 1]
    /\ thr' = [thr EXCEPT ![t] = "begin"]
    /\ UNCHANGED <<policyVars, readiness, started, reaped, holder, up, clean, killer, ops, cons>>

\* Mutant: an activated provider stays in the set for the daemon's life.
EndKeepsGuard(t) ==
    /\ thr[t] = "ending"
    /\ thr' = [thr EXCEPT ![t] = "none"]
    /\ restarts' = [restarts EXCEPT ![t] = 0]
    /\ UNCHANGED <<policyVars, readiness, started, reaped, holder, up, clean, killer, ops, cons>>

\* The activated thread removes the guard entry as it returns (an autorun
\* provider never has one).
EndThread(t) ==
    /\ thr[t] = "ending"
    /\ started' = FALSE
    /\ thr' = [thr EXCEPT ![t] = "none"]
    /\ restarts' = [restarts EXCEPT ![t] = 0]
    /\ UNCHANGED <<policyVars, readiness, reaped, holder, up, clean, killer, ops, cons>>

----------------------------------------------------------------------------
(* Stop of the provider, and the idle reap of its TTL.                     *)

Running == up /\ \E t \in Threads : holder = t /\ thr[t] \in {"built", "serving"}

\* Shared::stop; an autorun provider is killed without a mark.
StopRequest ==
    /\ killer["operator"] = "idle"
    /\ Running
    /\ ops < MaxOps
    /\ ops' = ops + 1
    /\ killer' = [killer EXCEPT !["operator"] =
                    IF enablement = "ondemand" THEN "mark" ELSE "kill"]
    /\ UNCHANGED <<policyVars, readiness, started, reaped, holder, up, thrVars, cons>>

\* any_running_consumer: the census of ttl_expired.
CensusEmpty ==
    /\ killer["ttl"] = "idle"
    /\ enablement = "ondemand"
    /\ Running
    /\ \A c \in Consumers : cons[c] = "off"
    /\ killer' = [killer EXCEPT !["ttl"] = "mark"]
    /\ UNCHANGED <<policyVars, readiness, started, reaped, holder, up, thrVars, ops, cons>>

Mark(k) ==
    /\ killer[k] = "mark"
    /\ reaped' = TRUE
    /\ killer' = [killer EXCEPT ![k] = "unguard"]
    /\ UNCHANGED <<policyVars, readiness, started, holder, up, thrVars, ops, cons>>

Unguard(k) ==
    /\ killer[k] = "unguard"
    /\ started' = FALSE
    /\ killer' = [killer EXCEPT ![k] = "kill"]
    /\ UNCHANGED <<policyVars, readiness, reaped, holder, up, thrVars, ops, cons>>

Kill(k) ==
    /\ killer[k] = "kill"
    /\ up' = FALSE
    /\ clean' = [t \in Threads |-> clean[t] /\ ~ (up /\ holder = t)]
    /\ killer' = [killer EXCEPT ![k] = "idle"]
    /\ UNCHANGED <<policyVars, readiness, started, reaped, holder, thr, restarts, ops, cons>>

\* daemon-reload: rebuild_catalogue projects every provider as Pending.
Reload ==
    /\ ops < MaxOps
    /\ ops' = ops + 1
    /\ readiness' = "pending"
    /\ UNCHANGED <<policyVars, started, reaped, holder, up, thrVars, killer, cons>>

----------------------------------------------------------------------------
(* A consumer kennel and its SVC_CONNECT.                                  *)

ConsumerStarts(c) ==
    /\ cons[c] = "off"
    /\ cons' = [cons EXCEPT ![c] = "running"]
    /\ UNCHANGED <<policyVars, readiness, started, reaped, holder, up, thrVars, killer, ops>>

ConsumerEnds(c) ==
    /\ cons[c] \in {"running", "connected", "unavailable"}
    /\ cons' = [cons EXCEPT ![c] = "off"]
    /\ UNCHANGED <<policyVars, readiness, started, reaped, holder, up, thrVars, killer, ops>>

\* svc_connect: broker::decide on the selected provider's readiness.
Connect(c) ==
    /\ cons[c] \in {"running", "unavailable"}
    /\ cons' = [cons EXCEPT ![c] = CASE readiness = "ready"   -> "handoff"
                                     [] readiness = "pending" -> "activate"
                                     [] OTHER                 -> "unavailable"]
    /\ UNCHANGED <<policyVars, readiness, started, reaped, holder, up, thrVars, killer, ops>>

\* activate: already guarded, or not an ondemand provider.
ActivateNothing(c) ==
    /\ cons[c] = "activate"
    /\ started \/ enablement = "autorun"
    /\ cons' = [cons EXCEPT ![c] = "waiting"]
    /\ UNCHANGED <<policyVars, readiness, started, reaped, holder, up, thrVars, killer, ops>>

Activate(c) ==
    /\ cons[c] = "activate"
    /\ ~ started /\ enablement = "ondemand"
    /\ started' = TRUE
    /\ \E t \in Threads :
         /\ thr[t] = "none"
         /\ thr' = [thr EXCEPT ![t] = "begin"]
    /\ cons' = [cons EXCEPT ![c] = "waiting"]
    /\ UNCHANGED <<policyVars, readiness, reaped, holder, up, clean, restarts, killer, ops>>

\* One poll of svc_connect_activate_wait.
Poll(c) ==
    /\ cons[c] = "waiting"
    /\ readiness # "pending"
    /\ cons' = [cons EXCEPT ![c] = IF readiness = "ready" THEN "handoff" ELSE "unavailable"]
    /\ UNCHANGED <<policyVars, readiness, started, reaped, holder, up, thrVars, killer, ops>>

\* Mutant: the consume waits without a deadline.
WaitForever(c) == c \in Consumers /\ FALSE /\ UNCHANGED vars

\* CONSUME_WAIT_DEADLINE.
WaitTimesOut(c) ==
    /\ cons[c] = "waiting"
    /\ readiness = "pending"
    /\ cons' = [cons EXCEPT ![c] = "unavailable"]
    /\ UNCHANGED <<policyVars, readiness, started, reaped, holder, up, thrVars, killer, ops>>

\* svc_connect_handoff connects to the rendezvous socket.
Handoff(c) ==
    /\ cons[c] = "handoff"
    /\ cons' = [cons EXCEPT ![c] = IF up THEN "connected" ELSE "unavailable"]
    /\ UNCHANGED <<policyVars, readiness, started, reaped, holder, up, thrVars, killer, ops>>

----------------------------------------------------------------------------
Supervisor(t) ==
    \/ SinkFails(t) \/ NameTaken(t) \/ Reserve(t) \/ BuildFails(t) \/ Built(t)
    \/ NoteReady(t) \/ RunReturns(t) \/ Decide(t) \/ Note(t) \/ BackoffOver(t) \/ EndThread(t)

Killing(k) == Mark(k) \/ Unguard(k) \/ Kill(k)

Serving(c) ==
    \/ ActivateNothing(c) \/ Activate(c) \/ Poll(c) \/ WaitTimesOut(c) \/ Handoff(c)

Next ==
    \/ \E t \in Threads : Supervisor(t) \/ ProviderExits(t)
    \/ StopRequest \/ CensusEmpty \/ \E k \in Killers : Killing(k)
    \/ Reload
    \/ \E c \in Consumers : ConsumerStarts(c) \/ ConsumerEnds(c) \/ Connect(c) \/ Serving(c)

\* kenneld's own threads run; providers, consumers and operators owe nothing.
Fairness ==
    /\ \A t \in Threads : WF_vars(Supervisor(t))
    /\ \A k \in Killers : WF_vars(Killing(k))
    /\ \A c \in Consumers : WF_vars(Serving(c))

Spec == Init /\ [][Next]_vars
FairSpec == Spec /\ Fairness

----------------------------------------------------------------------------
(* Properties.                                                             *)

Live(t) == thr[t] \notin {"none", "ending"}

\* A guard entry has a thread that will remove it, whatever stops, reaps and
\* activations overlap: without one the provider would stay cold for the
\* daemon's life (the comment on Activator.started).
GuardHasThread == started => \E t \in Threads : thr[t] # "none"

\* A provider the catalogue calls ready has a supervision thread that built
\* it and has still to take it back out of ready.
ReadyBacked ==
    readiness = "ready" =>
        \E t \in Threads : thr[t] \in {"serving", "joined", "reap", "restart", "fail", "done"}

\* Every SVC_CONNECT is answered, even when the provider it waits for is
\* stopped, reaped or crash-looping meanwhile (the consume-with-wait deadline).
ConnectAnswered ==
    \A c \in Consumers :
        (cons[c] \in {"activate", "waiting", "handoff"})
            ~> (cons[c] \in {"connected", "unavailable"})

\* "at most one live supervision thread per provider" (Activator::activate).
OneSupervisor == Cardinality({t \in Threads : Live(t)}) <= 1

=============================================================================
