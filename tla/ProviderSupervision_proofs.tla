--------------------- MODULE ProviderSupervision_proofs --------------------
(***************************************************************************)
(* Proofs about ProviderSupervision, for any number of threads, consumers, *)
(* restarts, stops and reloads: type correctness, that no guard entry is   *)
(* left without a thread, and that a ready provider is backed by one.      *)
(* Both invariants are inductive together with the types.                  *)
(***************************************************************************)
EXTENDS ProviderSupervision, TLAPS

\* Readiness::on stays within the three states.
LEMMA OnType ==
    ASSUME NEW r \in {"pending", "ready", "failed"}, NEW e
    PROVE  On(r, e) \in {"pending", "ready", "failed"}
  BY DEF On

\* Every event that ends a run takes a ready provider out of ready, and none
\* of them makes one ready.
LEMMA OnLeavesReady ==
    ASSUME NEW r \in {"pending", "ready", "failed"},
           NEW e \in {"restarting", "reaped", "exhausted"}
    PROVE  On(r, e) # "ready"
  BY DEF On

\* on_exit answers one of three verdicts, and a restart only within the
\* budget.
LEMMA OnExitRange ==
    ASSUME NEW b \in BOOLEAN, NEW n \in 0 .. MaxAttempts
    PROVE  /\ OnExit(b, n) \in {"restart", "fail", "done"}
           /\ OnExit(b, n) = "restart" => n < MaxAttempts
  BY ProviderAssumption DEF OnExit

\* A thread that will restart has an attempt left.
BudgetLeft ==
    \A t \in Threads : thr[t] \in {"restart", "backoff"} => restarts[t] < MaxAttempts

Inv == TypeOK /\ BudgetLeft /\ GuardHasThread /\ ReadyBacked

\* The model's bounds are natural numbers.
LEMMA Bounds == MaxAttempts \in Nat /\ MaxOps \in Nat
  BY ProviderAssumption

\* Catalogue::project and Activator::new establish the invariant.
LEMMA InitInv == Init => Inv
  <1> SUFFICES ASSUME Init PROVE Inv
    OBVIOUS
  <1>1. PICK t0 \in Threads :
          thr = [s \in Threads |->
                   IF enablement = "autorun" /\ s = t0 THEN "begin" ELSE "none"]
    BY DEF Init
  <1>2. thr \in [Threads -> {"none", "begin"}]
    BY <1>1
  <1>3. /\ restarts \in [Threads -> 0 .. MaxAttempts]
        /\ ops \in 0 .. MaxOps
    BY Bounds DEF Init
  <1>4. /\ clean \in [Threads -> BOOLEAN]
        /\ started \in BOOLEAN /\ reaped \in BOOLEAN /\ up \in BOOLEAN
    BY DEF Init
  <1>5. TypeOK
    BY <1>2, <1>3, <1>4 DEF Init, TypeOK
  <1>6. BudgetLeft
    BY <1>2 DEF BudgetLeft
  <1>7. GuardHasThread /\ ReadyBacked
    BY DEF Init, GuardHasThread, ReadyBacked
  <1> QED
    BY <1>5, <1>6, <1>7 DEF Inv

\* The steps of a supervision thread keep the types and the budget.
LEMMA SupervisorType ==
    ASSUME Inv, NEW t \in Threads, Supervisor(t)
    PROVE  TypeOK' /\ BudgetLeft'
  <1> USE DEF Inv, TypeOK, BudgetLeft, policyVars
  <1>1. CASE SinkFails(t)  BY <1>1 DEF SinkFails
  <1>2. CASE NameTaken(t)  BY <1>2 DEF NameTaken
  <1>3. CASE Reserve(t)    BY <1>3 DEF Reserve
  <1>4. CASE BuildFails(t) BY <1>4 DEF BuildFails
  <1>5. CASE Built(t)      BY <1>5 DEF Built
  <1>6. CASE NoteReady(t)  BY <1>6, OnType DEF NoteReady
  <1>7. CASE RunReturns(t) BY <1>7 DEF RunReturns
  <1>8. CASE Decide(t)
    <2>1. clean[t] \in BOOLEAN /\ restarts[t] \in 0 .. MaxAttempts
      OBVIOUS
    <2> DEFINE v == IF reaped THEN "reap" ELSE OnExit(clean[t], restarts[t])
    <2>2. /\ v \in {"reap", "restart", "fail", "done"}
          /\ v = "restart" => restarts[t] < MaxAttempts
      BY <2>1, OnExitRange
    <2>3. /\ thr' = [thr EXCEPT ![t] = v]
          /\ clean' = [clean EXCEPT ![t] = FALSE] /\ reaped' = FALSE
          /\ UNCHANGED <<enablement, restart, readiness, started, holder, up,
                        restarts, killer, ops, cons>>
      BY <1>8 DEF Decide
    <2> HIDE DEF v
    <2>4. thr' \in [Threads -> {"none", "begin", "building", "built", "serving", "joined",
                            "reap", "restart", "fail", "done", "backoff", "ending"}]
      BY <2>2, <2>3
    <2>5. clean' \in [Threads -> BOOLEAN] /\ reaped' \in BOOLEAN
      BY <2>3
    <2>6. BudgetLeft'
      BY <2>2, <2>3
    <2> QED
      BY <2>3, <2>4, <2>5, <2>6
  <1>9. CASE Note(t)       BY <1>9, OnType DEF Note
  <1>10. CASE BackoffOver(t) BY <1>10, Bounds DEF BackoffOver
  <1>11. CASE EndThread(t)
    <2>1. started' \in BOOLEAN
      BY <1>11 DEF EndThread
    <2>2. /\ thr' = [thr EXCEPT ![t] = "none"] /\ restarts' = [restarts EXCEPT ![t] = 0]
          /\ UNCHANGED <<enablement, restart, readiness, reaped, holder, up, clean,
                        killer, ops, cons>>
      BY <1>11 DEF EndThread
    <2>3. 0 \in 0 .. MaxAttempts
      BY Bounds
    <2>4. restarts' \in [Threads -> 0 .. MaxAttempts]
      BY <2>2, <2>3
    <2> QED
      BY <2>1, <2>2, <2>4
  <1> QED
    BY <1>1, <1>2, <1>3, <1>4, <1>5, <1>6, <1>7, <1>8, <1>9, <1>10, <1>11 DEF Supervisor

\* The steps of a supervision thread keep the guard and ready backed.
LEMMA SupervisorSafe ==
    ASSUME Inv, NEW t \in Threads, Supervisor(t)
    PROVE  GuardHasThread' /\ ReadyBacked'
  <1> USE DEF Inv, TypeOK, GuardHasThread, ReadyBacked, policyVars
  <1>1. CASE SinkFails(t)  BY <1>1 DEF SinkFails
  <1>2. CASE NameTaken(t)  BY <1>2 DEF NameTaken
  <1>3. CASE Reserve(t)    BY <1>3 DEF Reserve
  <1>4. CASE BuildFails(t) BY <1>4 DEF BuildFails
  <1>5. CASE Built(t)      BY <1>5 DEF Built
  <1>6. CASE NoteReady(t)  BY <1>6 DEF NoteReady
  <1>7. CASE RunReturns(t) BY <1>7 DEF RunReturns
  <1>8. CASE Decide(t)
    <2>1. clean[t] \in BOOLEAN /\ restarts[t] \in 0 .. MaxAttempts
      OBVIOUS
    <2>2. /\ thr'[t] \in {"reap", "restart", "fail", "done"}
          /\ \A s \in Threads \ {t} : thr'[s] = thr[s]
          /\ UNCHANGED <<readiness, started>>
      BY <1>8, <2>1, OnExitRange DEF Decide
    <2> QED
      BY <2>2
  <1>9. CASE Note(t)
    <2>1. readiness' # "ready"
      BY <1>9, OnLeavesReady DEF Note
    <2> QED
      BY <1>9, <2>1 DEF Note
  <1>10. CASE BackoffOver(t) BY <1>10 DEF BackoffOver
  <1>11. CASE EndThread(t) BY <1>11 DEF EndThread
  <1> QED
    BY <1>1, <1>2, <1>3, <1>4, <1>5, <1>6, <1>7, <1>8, <1>9, <1>10, <1>11 DEF Supervisor

\* So do Stop, the idle reap, daemon-reload, the provider itself and the
\* consumers, of which only an activation changes a thread.
LEMMA OthersStep ==
    ASSUME Inv, Next, ~ \E t \in Threads : Supervisor(t)
    PROVE  Inv'
  <1> USE DEF Inv, TypeOK, BudgetLeft, GuardHasThread, ReadyBacked, policyVars, thrVars
  <1>1. ASSUME NEW t \in Threads, ProviderExits(t) PROVE Inv'
    BY <1>1 DEF ProviderExits
  <1>2. CASE StopRequest
    BY <1>2, Bounds DEF StopRequest, Killers
  <1>3. CASE CensusEmpty
    BY <1>3 DEF CensusEmpty, Killers
  <1>4. ASSUME NEW k \in Killers, Mark(k) PROVE Inv'
    BY <1>4 DEF Mark
  <1>5. ASSUME NEW k \in Killers, Unguard(k) PROVE Inv'
    BY <1>5 DEF Unguard
  <1>6. ASSUME NEW k \in Killers, Kill(k) PROVE Inv'
    <2>1. clean' \in [Threads -> BOOLEAN] /\ up' \in BOOLEAN
      BY <1>6 DEF Kill
    <2>2. killer' \in [Killers -> {"idle", "mark", "unguard", "kill"}]
      BY <1>6 DEF Kill
    <2>3. UNCHANGED <<enablement, restart, readiness, started, reaped, holder, thr,
                      restarts, ops, cons>>
      BY <1>6 DEF Kill
    <2> QED
      BY <2>1, <2>2, <2>3
  <1>7. CASE Reload
    BY <1>7, Bounds DEF Reload
  <1>8. ASSUME NEW c \in Consumers, ConsumerStarts(c) \/ ConsumerEnds(c) PROVE Inv'
    BY <1>8 DEF ConsumerStarts, ConsumerEnds
  <1>9. ASSUME NEW c \in Consumers, Connect(c) PROVE Inv'
    BY <1>9 DEF Connect
  <1>10. ASSUME NEW c \in Consumers, Activate(c) PROVE Inv'
    BY <1>10 DEF Activate
  <1>11. ASSUME NEW c \in Consumers,
                ActivateNothing(c) \/ Poll(c) \/ WaitTimesOut(c) \/ Handoff(c)
         PROVE  Inv'
    BY <1>11 DEF ActivateNothing, Poll, WaitTimesOut, Handoff
  <1> QED
    BY <1>1, <1>2, <1>3, <1>4, <1>5, <1>6, <1>7, <1>8, <1>9, <1>10, <1>11
       DEF Next, Killing, Serving

\* Every step of a supervision thread, a provider, a consumer or a reload keeps
\* the invariant.
LEMMA StepInv == Inv /\ [Next]_vars => Inv'
  <1> SUFFICES ASSUME Inv, [Next]_vars PROVE Inv'
    OBVIOUS
  <1>1. CASE \E t \in Threads : Supervisor(t)
    BY <1>1, SupervisorType, SupervisorSafe DEF Inv
  <1>2. CASE Next /\ ~ \E t \in Threads : Supervisor(t)
    BY <1>2, OthersStep
  <1>3. CASE UNCHANGED vars
    BY <1>3 DEF Inv, TypeOK, BudgetLeft, GuardHasThread, ReadyBacked, vars, policyVars, thrVars
  <1> QED
    BY <1>1, <1>2, <1>3

\* Inv is an inductive invariant of provider supervision.
THEOREM InvInvariant == Spec => []Inv
  BY InitInv, StepInv, PTL DEF Spec

\* Every variable keeps its type; in particular no provider is restarted
\* more often than [service].max_attempts allows (on_exit).
THEOREM ProviderTypeCorrect == Spec => []TypeOK
  BY InvInvariant, PTL DEF Inv

\* However many stops, reaps, consumes and crashes overlap, an entry of
\* Activator.started has a supervision thread that will remove it.
THEOREM NoStrandedGuard == Spec => []GuardHasThread
  BY InvInvariant, PTL DEF Inv

\* A provider the catalogue calls ready always has a supervision thread that
\* will take it out of ready again.
THEOREM ReadyIsBacked == Spec => []ReadyBacked
  BY InvInvariant, PTL DEF Inv
=============================================================================
