------------------------ MODULE TtlCustodian_proofs ------------------------
(***************************************************************************)
(* Proofs about TtlCustodian, for every policy and any number of renewals  *)
(* and facade crashes: type correctness, and that nothing in the kennel    *)
(* runs while its deadline is being decided.                               *)
(***************************************************************************)
EXTENDS TtlCustodian, TLAPS

\* Every facade zombie comes from a crash: the type of crashed needs it.
CrashesCounted == crashed <= crashes

Inv == TypeOK /\ CrashesCounted /\ FrozenWhileDeciding

\* The model's bounds are natural numbers.
LEMMA Bounds == MaxRenewals \in Nat /\ MaxCrashes \in Nat
  BY TtlAssumption

\* A kennel starts thawed with no expiry being decided.
LEMMA InitInv == Init => Inv
  <1> SUFFICES ASSUME Init PROVE Inv
    OBVIOUS
  <1>1. /\ fired \in BOOLEAN /\ alarm \in BOOLEAN /\ sig \in BOOLEAN
        /\ frozen \in BOOLEAN /\ tripFroze \in BOOLEAN
    BY DEF Init
  <1>2. crashed \in 0 .. MaxCrashes /\ crashes \in 0 .. MaxCrashes /\ renewals \in 0 .. MaxRenewals
    BY Bounds DEF Init
  <1>3. TypeOK
    BY <1>1, <1>2 DEF Init, TypeOK
  <1>4. CrashesCounted /\ FrozenWhileDeciding
    BY DEF Init, CrashesCounted, FrozenWhileDeciding
  <1> QED
    BY <1>3, <1>4 DEF Inv

\* kennel-bin-init and the signal that wakes it run only in a thawed cgroup.
LEMMA InitLoopStep ==
    ASSUME Inv, InitLoop \/ AlarmExpires \/ SignalDelivered
    PROVE  Inv'
  <1> USE DEF Inv, TypeOK, CrashesCounted, FrozenWhileDeciding, Runnable, Gone,
              initVars, procVars, custVars, tripVars
  <1>1. CASE CheckFired      BY <1>1 DEF CheckFired
  <1>2. CASE CheckNotFired   BY <1>2 DEF CheckNotFired
  <1>3. CASE EnterWait       BY <1>3 DEF EnterWait
  <1>4. CASE ReapWorkload    BY <1>4 DEF ReapWorkload, KillAll
  <1>5. CASE ReapFacade      BY <1>5, Bounds DEF ReapFacade
  <1>6. CASE RestartDone     BY <1>6 DEF RestartDone
  <1>7. CASE CallReturns     BY <1>7, ZenonT(40) DEF CallReturns
  <1>8. CASE CallInterrupted BY <1>8 DEF CallInterrupted
  <1>9. CASE AlarmExpires
    <2>1. alarm' \in BOOLEAN /\ sig' \in BOOLEAN
      BY <1>9 DEF AlarmExpires
    <2>2. UNCHANGED <<policy, onChange, ipc, fired, procVars, frozen, custVars, tripVars, teardown>>
      BY <1>9 DEF AlarmExpires
    <2> QED
      BY <2>1, <2>2
  <1>10. CASE SignalDelivered
    <2>1. sig' \in BOOLEAN /\ fired' \in BOOLEAN
      BY <1>10 DEF SignalDelivered
    <2>2. ipc' \in {"check", "enter", "restart", "call", "gone"} /\ ~ frozen
      BY <1>10 DEF SignalDelivered
    <2>3. UNCHANGED <<policy, onChange, alarm, procVars, frozen, custVars, tripVars, teardown>>
      BY <1>10 DEF SignalDelivered
    <2>4. TypeOK'
      BY <2>1, <2>2, <2>3
    <2>5. CrashesCounted' /\ FrozenWhileDeciding'
      BY <2>2, <2>3, <1>10 DEF SignalDelivered
    <2> QED
      BY <2>4, <2>5
  <1> QED
    BY <1>1, <1>2, <1>3, <1>4, <1>5, <1>6, <1>7, <1>8, <1>9, <1>10 DEF InitLoop

\* The custodian thaws only in the step in which it has decided.
LEMMA CustodianStep ==
    ASSUME Inv, Custodian \/ OperatorApproves \/ OperatorDeclines
    PROVE  Inv'
  <1> USE DEF Inv, TypeOK, CrashesCounted, FrozenWhileDeciding, Gone,
              initVars, procVars, tripVars, ThawAndReply, KillAndReply, KillAll
  <1>1. CASE Freeze           BY <1>1 DEF Freeze
  <1>2. CASE CensusKeep
    <2>0. frozen' \in BOOLEAN
      BY <1>2 DEF CensusKeep
    <2>1. renewals' \in 0 .. MaxRenewals
      <3>1. renewals' = renewals + 1 /\ renewals < MaxRenewals
        BY <1>2 DEF CensusKeep
      <3> QED
        BY <3>1, Bounds
    <2>2. custodian' = "replied" /\ decision' \in {"resume", "renew"}
      BY <1>2 DEF CensusKeep
    <2>3. UNCHANGED <<policy, onChange, ipc, fired, alarm, sig, workload, crashed, crashes,
                      tripVars, teardown>>
      BY <1>2 DEF CensusKeep
    <2>4. TypeOK'
      BY <2>0, <2>1, <2>2, <2>3
    <2>5. CrashesCounted' /\ FrozenWhileDeciding'
      BY <2>2, <2>3
    <2> QED
      BY <2>4, <2>5
  <1>3. CASE CensusReap       BY <1>3 DEF CensusReap
  <1>4. CASE DecideExit       BY <1>4 DEF DecideExit
  <1>5. CASE DecideWarn       BY <1>5, ZenonT(40) DEF DecideWarn
  <1>6. CASE Ask              BY <1>6 DEF Ask
  <1>7. CASE NoAnswer         BY <1>7, ZenonT(40) DEF NoAnswer
  <1>8. CASE ReplyDropped     BY <1>8 DEF ReplyDropped
  <1>9. CASE OperatorApproves
    <2>0. frozen' \in BOOLEAN
      BY <1>9 DEF OperatorApproves
    <2>1. renewals' \in 0 .. MaxRenewals
      <3>1. renewals' = renewals + 1 /\ renewals < MaxRenewals
        BY <1>9 DEF OperatorApproves
      <3> QED
        BY <3>1, Bounds
    <2>2. custodian' = "replied" /\ decision' \in {"resume", "renew"}
      BY <1>9 DEF OperatorApproves
    <2>3. UNCHANGED <<policy, onChange, ipc, fired, alarm, sig, workload, crashed, crashes,
                      tripVars, teardown>>
      BY <1>9 DEF OperatorApproves
    <2>4. TypeOK'
      BY <2>0, <2>1, <2>2, <2>3
    <2>5. CrashesCounted' /\ FrozenWhileDeciding'
      BY <2>2, <2>3
    <2> QED
      BY <2>4, <2>5
  <1>10. CASE OperatorDeclines BY <1>10 DEF OperatorDeclines
  <1> QED
    BY <1>1, <1>2, <1>3, <1>4, <1>5, <1>6, <1>7, <1>8, <1>9, <1>10 DEF Custodian

\* The tripwire, Stop, the kennel's processes and the teardown never thaw.
LEMMA OthersStep ==
    ASSUME Inv, OperatorStops \/ Environment \/ Teardown
    PROVE  Inv'
  <1> USE DEF Inv, TypeOK, CrashesCounted, FrozenWhileDeciding, Runnable, Gone, KillAll,
              initVars, procVars, custVars, tripVars
  <1>1. CASE OperatorStops   BY <1>1 DEF OperatorStops
  <1>2. CASE WorkloadExits   BY <1>2 DEF WorkloadExits
  <1>3. CASE FacadeCrashes   BY <1>3, Bounds DEF FacadeCrashes
  <1>4. CASE TripWarn        BY <1>4 DEF TripWarn, vars
  <1>5. CASE TripFreeze      BY <1>5 DEF TripFreeze
  <1>6. CASE TripKill        BY <1>6 DEF TripKill
  <1>7. CASE WaitReturns     BY <1>7 DEF WaitReturns
  <1>8. CASE LoopersJoined   BY <1>8 DEF LoopersJoined
  <1>9. CASE TripwireStopped BY <1>9 DEF TripwireStopped
  <1> QED
    BY <1>1, <1>2, <1>3, <1>4, <1>5, <1>6, <1>7, <1>8, <1>9 DEF Environment, Teardown

\* Every step of init, the custodian, the tripwire, Stop and the teardown keeps
\* the invariant.
LEMMA StepInv == Inv /\ [Next]_vars => Inv'
  <1> SUFFICES ASSUME Inv, [Next]_vars PROVE Inv'
    OBVIOUS
  <1>1. CASE Next
    BY <1>1, InitLoopStep, CustodianStep, OthersStep DEF Next, Operator
  <1>2. CASE UNCHANGED vars
    BY <1>2 DEF Inv, TypeOK, CrashesCounted, FrozenWhileDeciding, Gone,
                vars, initVars, procVars, custVars, tripVars
  <1> QED
    BY <1>1, <1>2

\* Inv is an inductive invariant of the lifetime machinery.
THEOREM InvInvariant == Spec => []Inv
  BY InitInv, StepInv, PTL DEF Spec

\* Every variable of the lifetime model keeps its type.
THEOREM TtlTypeCorrect == Spec => []TypeOK
  BY InvInvariant, PTL DEF Inv

\* From the freeze in ttl_expired to its decision the cgroup is frozen or
\* dead, whatever the tripwire, the operator and Stop do meanwhile.
THEOREM NothingRunsPastDeadline == Spec => []FrozenWhileDeciding
  BY InvInvariant, PTL DEF Inv
=============================================================================
