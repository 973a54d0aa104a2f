-------------------------- MODULE PtyBroker_proofs --------------------------
(***************************************************************************)
(* Proofs about PtyBroker: a terminal that lost the session is cut off     *)
(* from it both ways (SupersededIsCut), and every terminal sees one        *)
(* unbroken stream (StreamUnbroken), for any set of clients, any ring and  *)
(* buffer capacity and any amount of output and typing.                    *)
(***************************************************************************)
EXTENDS PtyBroker, SequenceTheorems, TLAPS

----------------------------------------------------------------------------
(* Who holds the session.                                                  *)

\* The types the arguments below rest on.
Shape ==
    /\ done \in BOOLEAN /\ generation \in Nat
    /\ lock \in {"free", "pump"} \cup Clients
    /\ client \in Clients \cup {None}
    /\ att \in [Clients -> {"idle", "wants", "replay", "wake", "check", "asleep",
                            "nowait", "exited", "takenover", "refused"}]
    /\ inp \in [Clients -> {"none", "reading", "got", "writing", "ended"}]
    /\ mine \in [Clients -> Nat] /\ late \in [Clients -> Nat]
    /\ shut \in [Clients -> BOOLEAN]
    /\ stop \in {"no", "wake", "done"}

\* attach that has not spawned an input thread.
Before == {"idle", "wants", "replay", "refused"}

\* The mutex stays held across steps by a replaying attach or by the pump's
\* write alone, and a replay began, and stays, before the end of the session.
HolderInv ==
    /\ \A c \in Clients : att[c] = "replay" <=> lock = c
    /\ \A c \in Clients : att[c] = "replay" => ~ done
    /\ pump = "write" <=> lock = "pump"
    /\ pump = "write" => client # None

\* The attached client has an input thread, and shutdown leaves none attached.
AttachedInv ==
    /\ \A c \in Clients : inp[c] = "none" <=> att[c] \in Before
    /\ client # None => inp[client] # "none"
    /\ stop # "no" => done /\ client = None

\* A generation is never handed out twice, and a client that got a chunk
\* through after its supersession is past its last write.
LateInv ==
    \A c \in Clients :
        /\ mine[c] <= generation
        /\ late[c] <= 1
        /\ late[c] = 1 => mine[c] < generation /\ inp[c] \notin {"none", "writing"}

SessionInv == Shape /\ HolderInv /\ AttachedInv /\ DroppedIsShut /\ LateInv

\* The broker's start establishes the invariant of the sessions.
LEMMA SessionInit == Init => SessionInv
<1>. SUFFICES ASSUME Init PROVE SessionInv
  OBVIOUS
<1>. USE PtyAssumption
<1>1. Shape
  BY DEF Init, Shape
<1>2. HolderInv /\ AttachedInv
  BY DEF Init, HolderInv, AttachedInv, Before
<1>3. DroppedIsShut /\ LateInv
  BY DEF Init, DroppedIsShut, LateInv
<1>. QED
  BY <1>1, <1>2, <1>3 DEF SessionInv

\* Waking sleepers moves nobody to or from the states the invariant names.
LEMMA WokenFacts ==
    ASSUME Shape
    PROVE  /\ Woken \in [Clients -> {"idle", "wants", "replay", "wake", "check", "asleep",
                                     "nowait", "exited", "takenover", "refused"}]
           /\ \A c \in Clients : Woken[c] = "replay" <=> att[c] = "replay"
           /\ \A c \in Clients : Woken[c] \in Before <=> att[c] \in Before
           /\ \A c \in Clients : att[c] = "wake" => Woken[c] = "wake"
  BY DEF Shape, Woken, Before

\* Every step of a client, its two relays and the pump keeps it.
LEMMA SessionStep == SessionInv /\ [Next]_vars => SessionInv'
<1>. SUFFICES ASSUME SessionInv, [Next]_vars PROVE SessionInv'
  OBVIOUS
<1>. USE PtyAssumption DEF SessionInv
<1>1. CASE UNCHANGED vars
  BY <1>1 DEF vars, inner, attVars, inVars, outVars, pumpVars,
     Shape, HolderInv, AttachedInv, DroppedIsShut, LateInv
<1>2. CASE WorkloadWrites
  BY <1>2 DEF WorkloadWrites, inner, attVars, inVars, outVars, pumpVars, workVars, Shape, HolderInv, AttachedInv, DroppedIsShut, LateInv
<1>3. CASE WorkloadExits
  BY <1>3 DEF WorkloadExits, inner, attVars, inVars, outVars, pumpVars, workVars, Shape, HolderInv, AttachedInv, DroppedIsShut, LateInv
<1>4. CASE ListRequest
  BY <1>4 DEF ListRequest, inner, attVars, inVars, outVars, pumpVars, workVars, Shape, HolderInv, AttachedInv, DroppedIsShut, LateInv
<1>5. CASE ListReply
  BY <1>5 DEF ListReply, inner, attVars, inVars, outVars, pumpVars, workVars, Shape, HolderInv, AttachedInv, DroppedIsShut, LateInv
<1>6. CASE PumpTop
  BY <1>6 DEF PumpTop, inner, attVars, inVars, outVars, pumpVars, workVars, Shape, HolderInv, AttachedInv, DroppedIsShut, LateInv
<1>7. CASE PumpRead
  BY <1>7 DEF PumpRead, inner, attVars, inVars, outVars, pumpVars, workVars, Shape, HolderInv, AttachedInv, DroppedIsShut, LateInv
<1>8. CASE PumpEof
  BY <1>8 DEF PumpEof, inner, attVars, inVars, outVars, pumpVars, workVars, Shape, HolderInv, AttachedInv, DroppedIsShut, LateInv
<1>9. CASE PumpDone
  <2>1. Shape'
    BY <1>9, WokenFacts DEF PumpDone, inner, attVars, inVars, outVars, pumpVars, workVars, Shape
  <2>2. HolderInv'
    BY <1>9, WokenFacts DEF PumpDone, inner, attVars, inVars, outVars, pumpVars, workVars, Shape, HolderInv, AttachedInv, Before
  <2>3. AttachedInv'
    BY <1>9, WokenFacts DEF PumpDone, inner, attVars, inVars, outVars, pumpVars, workVars, Shape, HolderInv, AttachedInv, Before
  <2>4. DroppedIsShut'
    BY <1>9 DEF PumpDone, inner, attVars, inVars, outVars, pumpVars, workVars, Shape, HolderInv, AttachedInv, DroppedIsShut, Before
  <2>5. LateInv'
    BY <1>9 DEF PumpDone, inner, attVars, inVars, outVars, pumpVars, workVars, Shape, HolderInv, AttachedInv, LateInv, Before
  <2>. QED
    BY <2>1, <2>2, <2>3, <2>4, <2>5
<1>10. CASE PumpNotify
  <2>1. Shape'
    BY <1>10, WokenFacts DEF PumpNotify, inner, attVars, inVars, outVars, pumpVars, workVars, Shape
  <2>2. HolderInv'
    BY <1>10, WokenFacts DEF PumpNotify, inner, attVars, inVars, outVars, pumpVars, workVars, Shape, HolderInv, AttachedInv, Before
  <2>3. AttachedInv'
    BY <1>10, WokenFacts DEF PumpNotify, inner, attVars, inVars, outVars, pumpVars, workVars, Shape, HolderInv, AttachedInv, Before
  <2>4. DroppedIsShut'
    BY <1>10 DEF PumpNotify, inner, attVars, inVars, outVars, pumpVars, workVars, Shape, HolderInv, AttachedInv, DroppedIsShut, Before
  <2>5. LateInv'
    BY <1>10 DEF PumpNotify, inner, attVars, inVars, outVars, pumpVars, workVars, Shape, HolderInv, AttachedInv, LateInv, Before
  <2>. QED
    BY <2>1, <2>2, <2>3, <2>4, <2>5
<1>11. CASE PumpAppend
  <2>1. Shape'
    BY <1>11, WokenFacts DEF PumpAppend, inner, attVars, inVars, outVars, pumpVars, workVars, Shape
  <2>2. HolderInv'
    BY <1>11, WokenFacts DEF PumpAppend, inner, attVars, inVars, outVars, pumpVars, workVars, Shape, HolderInv, AttachedInv, Before
  <2>3. AttachedInv'
    BY <1>11, WokenFacts DEF PumpAppend, inner, attVars, inVars, outVars, pumpVars, workVars, Shape, HolderInv, AttachedInv, Before
  <2>4. DroppedIsShut'
    BY <1>11 DEF PumpAppend, inner, attVars, inVars, outVars, pumpVars, workVars, Shape, HolderInv, AttachedInv, DroppedIsShut, Before
  <2>5. LateInv'
    BY <1>11 DEF PumpAppend, inner, attVars, inVars, outVars, pumpVars, workVars, Shape, HolderInv, AttachedInv, LateInv, Before
  <2>. QED
    BY <2>1, <2>2, <2>3, <2>4, <2>5
<1>12. CASE PumpWrite
  <2>1. Shape'
    BY <1>12, WokenFacts DEF PumpWrite, inner, attVars, inVars, outVars, pumpVars, workVars, Shape
  <2>2. HolderInv'
    BY <1>12, WokenFacts DEF PumpWrite, inner, attVars, inVars, outVars, pumpVars, workVars, Shape, HolderInv, AttachedInv, Before
  <2>3. AttachedInv'
    BY <1>12, WokenFacts DEF PumpWrite, inner, attVars, inVars, outVars, pumpVars, workVars, Shape, HolderInv, AttachedInv, Before
  <2>4. DroppedIsShut'
    BY <1>12 DEF PumpWrite, inner, attVars, inVars, outVars, pumpVars, workVars, Shape, HolderInv, AttachedInv, DroppedIsShut, Before
  <2>5. LateInv'
    BY <1>12 DEF PumpWrite, inner, attVars, inVars, outVars, pumpVars, workVars, Shape, HolderInv, AttachedInv, LateInv, Before
  <2>. QED
    BY <2>1, <2>2, <2>3, <2>4, <2>5
<1>13. CASE PumpWriteFails
  <2>1. Shape'
    BY <1>13, WokenFacts DEF PumpWriteFails, inner, attVars, inVars, outVars, pumpVars, workVars, ShutdownClient, Shape
  <2>2. HolderInv'
    BY <1>13, WokenFacts DEF PumpWriteFails, inner, attVars, inVars, outVars, pumpVars, workVars, ShutdownClient, Shape, HolderInv, AttachedInv, Before
  <2>3. AttachedInv'
    BY <1>13, WokenFacts DEF PumpWriteFails, inner, attVars, inVars, outVars, pumpVars, workVars, ShutdownClient, Shape, HolderInv, AttachedInv, Before
  <2>4. DroppedIsShut'
    BY <1>13 DEF PumpWriteFails, inner, attVars, inVars, outVars, pumpVars, workVars, ShutdownClient, Shape, HolderInv, AttachedInv, DroppedIsShut, Before
  <2>5. LateInv'
    BY <1>13 DEF PumpWriteFails, inner, attVars, inVars, outVars, pumpVars, workVars, ShutdownClient, Shape, HolderInv, AttachedInv, LateInv, Before
  <2>. QED
    BY <2>1, <2>2, <2>3, <2>4, <2>5
<1>14. CASE Shutdown
  <2>1. Shape'
    BY <1>14, WokenFacts DEF Shutdown, inner, attVars, inVars, outVars, pumpVars, workVars, ShutdownClient, Shape
  <2>2. HolderInv'
    BY <1>14, WokenFacts DEF Shutdown, inner, attVars, inVars, outVars, pumpVars, workVars, ShutdownClient, Shape, HolderInv, AttachedInv, Before
  <2>3. AttachedInv'
    BY <1>14, WokenFacts DEF Shutdown, inner, attVars, inVars, outVars, pumpVars, workVars, ShutdownClient, Shape, HolderInv, AttachedInv, Before
  <2>4. DroppedIsShut'
    BY <1>14 DEF Shutdown, inner, attVars, inVars, outVars, pumpVars, workVars, ShutdownClient, Shape, HolderInv, AttachedInv, DroppedIsShut, Before
  <2>5. LateInv'
    BY <1>14 DEF Shutdown, inner, attVars, inVars, outVars, pumpVars, workVars, ShutdownClient, Shape, HolderInv, AttachedInv, LateInv, Before
  <2>. QED
    BY <2>1, <2>2, <2>3, <2>4, <2>5
<1>15. CASE ShutdownNotify
  <2>1. Shape'
    BY <1>15, WokenFacts DEF ShutdownNotify, inner, attVars, inVars, outVars, pumpVars, workVars, Shape
  <2>2. HolderInv'
    BY <1>15, WokenFacts DEF ShutdownNotify, inner, attVars, inVars, outVars, pumpVars, workVars, Shape, HolderInv, AttachedInv, Before
  <2>3. AttachedInv'
    BY <1>15, WokenFacts DEF ShutdownNotify, inner, attVars, inVars, outVars, pumpVars, workVars, Shape, HolderInv, AttachedInv, Before
  <2>4. DroppedIsShut'
    BY <1>15 DEF ShutdownNotify, inner, attVars, inVars, outVars, pumpVars, workVars, Shape, HolderInv, AttachedInv, DroppedIsShut, Before
  <2>5. LateInv'
    BY <1>15 DEF ShutdownNotify, inner, attVars, inVars, outVars, pumpVars, workVars, Shape, HolderInv, AttachedInv, LateInv, Before
  <2>. QED
    BY <2>1, <2>2, <2>3, <2>4, <2>5
<1>16. ASSUME NEW c \in Clients, CliReads(c) PROVE SessionInv'
  BY <1>16 DEF CliReads, inner, attVars, inVars, outVars, pumpVars, workVars, Shape, HolderInv, AttachedInv, DroppedIsShut, LateInv
<1>17. ASSUME NEW c \in Clients, CliTypes(c) PROVE SessionInv'
  BY <1>17 DEF CliTypes, inner, attVars, inVars, outVars, pumpVars, workVars, Shape, HolderInv, AttachedInv, DroppedIsShut, LateInv
<1>18. ASSUME NEW c \in Clients, CliCloses(c) PROVE SessionInv'
  BY <1>18 DEF CliCloses, inner, attVars, inVars, outVars, pumpVars, workVars, Shape, HolderInv, AttachedInv, DroppedIsShut, LateInv
<1>19. ASSUME NEW c \in Clients, AttachReplay(c) PROVE SessionInv'
  BY <1>19 DEF AttachReplay, inner, attVars, inVars, outVars, pumpVars, workVars, Shape, HolderInv, AttachedInv, DroppedIsShut, LateInv
<1>20. ASSUME NEW c \in Clients, AttachRequest(c) PROVE SessionInv'
  <2>1. Shape'
    BY <1>20, WokenFacts DEF AttachRequest, inner, attVars, inVars, outVars, pumpVars, workVars, Shape
  <2>2. HolderInv'
    BY <1>20, WokenFacts DEF AttachRequest, inner, attVars, inVars, outVars, pumpVars, workVars, Shape, HolderInv, AttachedInv, Before
  <2>3. AttachedInv'
    BY <1>20, WokenFacts DEF AttachRequest, inner, attVars, inVars, outVars, pumpVars, workVars, Shape, HolderInv, AttachedInv, Before
  <2>4. DroppedIsShut'
    BY <1>20 DEF AttachRequest, inner, attVars, inVars, outVars, pumpVars, workVars, Shape, HolderInv, AttachedInv, DroppedIsShut, Before
  <2>5. LateInv'
    BY <1>20 DEF AttachRequest, inner, attVars, inVars, outVars, pumpVars, workVars, Shape, HolderInv, AttachedInv, LateInv, Before
  <2>. QED
    BY <2>1, <2>2, <2>3, <2>4, <2>5
<1>21. ASSUME NEW c \in Clients, AttachRefused(c) PROVE SessionInv'
  <2>1. Shape'
    BY <1>21, WokenFacts DEF AttachRefused, inner, attVars, inVars, outVars, pumpVars, workVars, Shape
  <2>2. HolderInv'
    BY <1>21, WokenFacts DEF AttachRefused, inner, attVars, inVars, outVars, pumpVars, workVars, Shape, HolderInv, AttachedInv, Before
  <2>3. AttachedInv'
    BY <1>21, WokenFacts DEF AttachRefused, inner, attVars, inVars, outVars, pumpVars, workVars, Shape, HolderInv, AttachedInv, Before
  <2>4. DroppedIsShut'
    BY <1>21 DEF AttachRefused, inner, attVars, inVars, outVars, pumpVars, workVars, Shape, HolderInv, AttachedInv, DroppedIsShut, Before
  <2>5. LateInv'
    BY <1>21 DEF AttachRefused, inner, attVars, inVars, outVars, pumpVars, workVars, Shape, HolderInv, AttachedInv, LateInv, Before
  <2>. QED
    BY <2>1, <2>2, <2>3, <2>4, <2>5
<1>22. ASSUME NEW c \in Clients, AttachLock(c) PROVE SessionInv'
  <2>1. Shape'
    BY <1>22, WokenFacts DEF AttachLock, inner, attVars, inVars, outVars, pumpVars, workVars, Shape
  <2>2. HolderInv'
    BY <1>22, WokenFacts DEF AttachLock, inner, attVars, inVars, outVars, pumpVars, workVars, Shape, HolderInv, AttachedInv, Before
  <2>3. AttachedInv'
    BY <1>22, WokenFacts DEF AttachLock, inner, attVars, inVars, outVars, pumpVars, workVars, Shape, HolderInv, AttachedInv, Before
  <2>4. DroppedIsShut'
    BY <1>22 DEF AttachLock, inner, attVars, inVars, outVars, pumpVars, workVars, Shape, HolderInv, AttachedInv, DroppedIsShut, Before
  <2>5. LateInv'
    BY <1>22 DEF AttachLock, inner, attVars, inVars, outVars, pumpVars, workVars, Shape, HolderInv, AttachedInv, LateInv, Before
  <2>. QED
    BY <2>1, <2>2, <2>3, <2>4, <2>5
<1>23. ASSUME NEW c \in Clients, AttachJoin(c) PROVE SessionInv'
  <2>1. Shape'
    BY <1>23, WokenFacts DEF AttachJoin, inner, attVars, inVars, outVars, pumpVars, workVars, ShutdownClient, Shape
  <2>2. HolderInv'
    BY <1>23, WokenFacts DEF AttachJoin, inner, attVars, inVars, outVars, pumpVars, workVars, ShutdownClient, Shape, HolderInv, AttachedInv, Before
  <2>3. AttachedInv'
    BY <1>23, WokenFacts DEF AttachJoin, inner, attVars, inVars, outVars, pumpVars, workVars, ShutdownClient, Shape, HolderInv, AttachedInv, Before
  <2>4. DroppedIsShut'
    BY <1>23 DEF AttachJoin, inner, attVars, inVars, outVars, pumpVars, workVars, ShutdownClient, Shape, HolderInv, AttachedInv, DroppedIsShut, Before
  <2>5. LateInv'
    BY <1>23 DEF AttachJoin, inner, attVars, inVars, outVars, pumpVars, workVars, ShutdownClient, Shape, HolderInv, AttachedInv, LateInv, Before
  <2>. QED
    BY <2>1, <2>2, <2>3, <2>4, <2>5
<1>24. ASSUME NEW c \in Clients, AttachNotify(c) PROVE SessionInv'
  <2>1. Shape'
    BY <1>24, WokenFacts DEF AttachNotify, inner, attVars, inVars, outVars, pumpVars, workVars, Shape
  <2>2. HolderInv'
    BY <1>24, WokenFacts DEF AttachNotify, inner, attVars, inVars, outVars, pumpVars, workVars, Shape, HolderInv, AttachedInv, Before
  <2>3. AttachedInv'
    BY <1>24, WokenFacts DEF AttachNotify, inner, attVars, inVars, outVars, pumpVars, workVars, Shape, HolderInv, AttachedInv, Before
  <2>4. DroppedIsShut'
    BY <1>24 DEF AttachNotify, inner, attVars, inVars, outVars, pumpVars, workVars, Shape, HolderInv, AttachedInv, DroppedIsShut, Before
  <2>5. LateInv'
    BY <1>24 DEF AttachNotify, inner, attVars, inVars, outVars, pumpVars, workVars, Shape, HolderInv, AttachedInv, LateInv, Before
  <2>. QED
    BY <2>1, <2>2, <2>3, <2>4, <2>5
<1>25. ASSUME NEW c \in Clients, WaitCheck(c) PROVE SessionInv'
  <2>1. Shape'
    BY <1>25, WokenFacts DEF WaitCheck, inner, attVars, inVars, outVars, pumpVars, workVars, Shape
  <2>2. HolderInv'
    BY <1>25, WokenFacts DEF WaitCheck, inner, attVars, inVars, outVars, pumpVars, workVars, Shape, HolderInv, AttachedInv, Before
  <2>3. AttachedInv'
    BY <1>25, WokenFacts DEF WaitCheck, inner, attVars, inVars, outVars, pumpVars, workVars, Shape, HolderInv, AttachedInv, Before
  <2>4. DroppedIsShut'
    BY <1>25 DEF WaitCheck, inner, attVars, inVars, outVars, pumpVars, workVars, Shape, HolderInv, AttachedInv, DroppedIsShut, Before
  <2>5. LateInv'
    BY <1>25 DEF WaitCheck, inner, attVars, inVars, outVars, pumpVars, workVars, Shape, HolderInv, AttachedInv, LateInv, Before
  <2>. QED
    BY <2>1, <2>2, <2>3, <2>4, <2>5
<1>26. ASSUME NEW c \in Clients, InputRead(c) PROVE SessionInv'
  <2>1. Shape'
    BY <1>26, WokenFacts DEF InputRead, inner, attVars, inVars, outVars, pumpVars, workVars, Shape
  <2>2. HolderInv'
    BY <1>26, WokenFacts DEF InputRead, inner, attVars, inVars, outVars, pumpVars, workVars, Shape, HolderInv, AttachedInv, Before
  <2>3. AttachedInv'
    BY <1>26, WokenFacts DEF InputRead, inner, attVars, inVars, outVars, pumpVars, workVars, Shape, HolderInv, AttachedInv, Before
  <2>4. DroppedIsShut'
    BY <1>26 DEF InputRead, inner, attVars, inVars, outVars, pumpVars, workVars, Shape, HolderInv, AttachedInv, DroppedIsShut, Before
  <2>5. LateInv'
    BY <1>26 DEF InputRead, inner, attVars, inVars, outVars, pumpVars, workVars, Shape, HolderInv, AttachedInv, LateInv, Before
  <2>. QED
    BY <2>1, <2>2, <2>3, <2>4, <2>5
<1>27. ASSUME NEW c \in Clients, InputEof(c) PROVE SessionInv'
  <2>1. Shape'
    BY <1>27, WokenFacts DEF InputEof, inner, attVars, inVars, outVars, pumpVars, workVars, Shape
  <2>2. HolderInv'
    BY <1>27, WokenFacts DEF InputEof, inner, attVars, inVars, outVars, pumpVars, workVars, Shape, HolderInv, AttachedInv, Before
  <2>3. AttachedInv'
    BY <1>27, WokenFacts DEF InputEof, inner, attVars, inVars, outVars, pumpVars, workVars, Shape, HolderInv, AttachedInv, Before
  <2>4. DroppedIsShut'
    BY <1>27 DEF InputEof, inner, attVars, inVars, outVars, pumpVars, workVars, Shape, HolderInv, AttachedInv, DroppedIsShut, Before
  <2>5. LateInv'
    BY <1>27 DEF InputEof, inner, attVars, inVars, outVars, pumpVars, workVars, Shape, HolderInv, AttachedInv, LateInv, Before
  <2>. QED
    BY <2>1, <2>2, <2>3, <2>4, <2>5
<1>28. ASSUME NEW c \in Clients, InputCheck(c) PROVE SessionInv'
  <2>1. Shape'
    BY <1>28, WokenFacts DEF InputCheck, inner, attVars, inVars, outVars, pumpVars, workVars, Shape
  <2>2. HolderInv'
    BY <1>28, WokenFacts DEF InputCheck, inner, attVars, inVars, outVars, pumpVars, workVars, Shape, HolderInv, AttachedInv, Before
  <2>3. AttachedInv'
    BY <1>28, WokenFacts DEF InputCheck, inner, attVars, inVars, outVars, pumpVars, workVars, Shape, HolderInv, AttachedInv, Before
  <2>4. DroppedIsShut'
    BY <1>28 DEF InputCheck, inner, attVars, inVars, outVars, pumpVars, workVars, Shape, HolderInv, AttachedInv, DroppedIsShut, Before
  <2>5. LateInv'
    BY <1>28 DEF InputCheck, inner, attVars, inVars, outVars, pumpVars, workVars, Shape, HolderInv, AttachedInv, LateInv, Before
  <2>. QED
    BY <2>1, <2>2, <2>3, <2>4, <2>5
<1>29. ASSUME NEW c \in Clients, InputWrite(c) PROVE SessionInv'
  <2>1. Shape'
    BY <1>29, WokenFacts DEF InputWrite, inner, attVars, inVars, outVars, pumpVars, workVars, Shape
  <2>2. HolderInv'
    BY <1>29, WokenFacts DEF InputWrite, inner, attVars, inVars, outVars, pumpVars, workVars, Shape, HolderInv, AttachedInv, Before
  <2>3. AttachedInv'
    BY <1>29, WokenFacts DEF InputWrite, inner, attVars, inVars, outVars, pumpVars, workVars, Shape, HolderInv, AttachedInv, Before
  <2>4. DroppedIsShut'
    BY <1>29 DEF InputWrite, inner, attVars, inVars, outVars, pumpVars, workVars, Shape, HolderInv, AttachedInv, DroppedIsShut, Before
  <2>5. LateInv'
    BY <1>29 DEF InputWrite, inner, attVars, inVars, outVars, pumpVars, workVars, Shape, HolderInv, AttachedInv, LateInv, Before
  <2>. QED
    BY <2>1, <2>2, <2>3, <2>4, <2>5
<1>30. ASSUME NEW c \in Clients, InputWriteFails(c) PROVE SessionInv'
  <2>1. Shape'
    BY <1>30, WokenFacts DEF InputWriteFails, inner, attVars, inVars, outVars, pumpVars, workVars, Shape
  <2>2. HolderInv'
    BY <1>30, WokenFacts DEF InputWriteFails, inner, attVars, inVars, outVars, pumpVars, workVars, Shape, HolderInv, AttachedInv, Before
  <2>3. AttachedInv'
    BY <1>30, WokenFacts DEF InputWriteFails, inner, attVars, inVars, outVars, pumpVars, workVars, Shape, HolderInv, AttachedInv, Before
  <2>4. DroppedIsShut'
    BY <1>30 DEF InputWriteFails, inner, attVars, inVars, outVars, pumpVars, workVars, Shape, HolderInv, AttachedInv, DroppedIsShut, Before
  <2>5. LateInv'
    BY <1>30 DEF InputWriteFails, inner, attVars, inVars, outVars, pumpVars, workVars, Shape, HolderInv, AttachedInv, LateInv, Before
  <2>. QED
    BY <2>1, <2>2, <2>3, <2>4, <2>5
<1>. QED
  BY <1>1, <1>2, <1>3, <1>4, <1>5, <1>6, <1>7, <1>8, <1>9, <1>10, <1>11, <1>12, <1>13, <1>14, <1>15, <1>16, <1>17, <1>18, <1>19, <1>20, <1>21, <1>22, <1>23, <1>24, <1>25, <1>26, <1>27, <1>28, <1>29, <1>30
     DEF Next, Pump, Control, InputReads, InputWrites

\* SessionInv is an inductive invariant of the broker.
THEOREM SessionInvariant == Spec => []SessionInv
<1>. QED
  BY SessionInit, SessionStep, PTL DEF Spec

\* A terminal that has lost the session is cut off from it both ways: its
\* socket is shut down, and at most the one chunk its input thread had already
\* checked reaches the workload (attach, shutdown, spawn_input).
THEOREM SupersededIsCutTheorem == Spec => []SupersededIsCut
<1>1. SessionInv => SupersededIsCut
  BY DEF SessionInv, LateInv, SupersededIsCut, AtMostOneLate
<1>. QED
  BY <1>1, SessionInvariant, PTL

----------------------------------------------------------------------------
(* What a terminal has been sent.                                          *)

Consecutive(s) == \A i \in 1 .. Len(s) - 1 : s[i + 1] = s[i] + 1
Stream(c) == recv[c] \o sock[c]

\* The chunks that are in the ring, or have been: the pump holds one it has
\* read and not yet appended.
Appended == IF pump = "append" THEN taken - 1 ELSE taken

Chunks ==
    /\ taken \in Nat /\ Appended \in Nat
    /\ ring \in Seq(Nat) /\ todo \in Seq(Nat)
    /\ sock \in [Clients -> Seq(Nat)] /\ recv \in [Clients -> Seq(Nat)]
    /\ open \in [Clients -> BOOLEAN]

\* The ring ends with the last chunk appended.
RingInv ==
    /\ Consecutive(ring)
    /\ ring = <<>> => Appended = 0
    /\ ring # <<>> => ring[Len(ring)] = Appended

\* Where the stream of one terminal stands against the ring: nothing before
\* the replay, with the rest of the replay the ring itself, and attached either
\* level with the ring or, while the pump writes, one chunk behind it.
StreamInv(c) ==
    /\ Consecutive(Stream(c))
    /\ ring = <<>> => Stream(c) = <<>>
    /\ att[c] \in {"idle", "wants"} => Stream(c) = <<>>
    /\ att[c] = "replay" /\ open[c] => Stream(c) \o todo = ring
    /\ client = c /\ open[c] /\ pump # "write" /\ ring # <<>> =>
         Stream(c) # <<>> /\ Stream(c)[1] <= ring[1] /\ Stream(c)[Len(Stream(c))] = Appended
    /\ client = c /\ open[c] /\ pump = "write" =>
         /\ ring # <<>>
         /\ Stream(c) = <<>> => ring[1] = taken
         /\ Stream(c) # <<>> =>
              Stream(c)[1] <= ring[1] /\ Stream(c)[Len(Stream(c))] = taken - 1

OutputInv == Chunks /\ RingInv /\ \A c \in Clients : StreamInv(c)

----------------------------------------------------------------------------
(* Sequences of chunks.                                                    *)

\* A chunk that moves from the socket to the terminal stays in the stream.
LEMMA ReadKeepsStream ==
    ASSUME NEW r \in Seq(Nat), NEW t \in Seq(Nat), t # <<>>
    PROVE  Append(r, Head(t)) \o Tail(t) = r \o t
<1>1. Head(t) \in Nat /\ Tail(t) \in Seq(Nat) /\ t = <<Head(t)>> \o Tail(t)
  OBVIOUS
<1>2. Append(r, Head(t)) = r \o <<Head(t)>>
  BY <1>1
<1>3. (r \o <<Head(t)>>) \o Tail(t) = r \o (<<Head(t)>> \o Tail(t))
  BY <1>1, ConcatAssociative, SMTT(40)
<1>. QED
  BY <1>1, <1>2, <1>3

\* A chunk written to the socket is the next one of the stream.
LEMMA WriteExtendsStream ==
    ASSUME NEW r \in Seq(Nat), NEW t \in Seq(Nat), NEW x \in Nat
    PROVE  r \o Append(t, x) = Append(r \o t, x)
<1>1. Append(t, x) = t \o <<x>> /\ Append(r \o t, x) = (r \o t) \o <<x>>
  BY AppendIsConcat, ConcatProperties
<1>2. (r \o t) \o <<x>> = r \o (t \o <<x>>)
  BY ConcatAssociative
<1>. QED
  BY <1>1, <1>2

\* Appending the next chunk keeps a stream consecutive.
LEMMA ConsecutiveAppend ==
    ASSUME NEW s \in Seq(Nat), NEW x \in Nat, Consecutive(s),
           s # <<>> => x = s[Len(s)] + 1
    PROVE  Consecutive(Append(s, x))
  BY DEF Consecutive

\* Dropping the oldest chunk does too.
LEMMA ConsecutiveTail ==
    ASSUME NEW s \in Seq(Nat), s # <<>>, Consecutive(s)
    PROVE  Consecutive(Tail(s))
  BY HeadTailProperties DEF Consecutive

\* append_ring keeps the ring consecutive, ends it with the new chunk, and
\* only ever moves its first chunk forward.
LEMMA AppendRingFacts ==
    ASSUME NEW r \in Seq(Nat), NEW x \in Nat, Consecutive(r),
           r # <<>> => x = r[Len(r)] + 1
    PROVE  LET q == AppendRing(r, x)
           IN  /\ q \in Seq(Nat) /\ q # <<>> /\ Consecutive(q) /\ q[Len(q)] = x
               /\ r = <<>> => q[1] = x
               /\ r # <<>> => r[1] <= q[1]
<1>. USE PtyAssumption
<1>1. CASE Len(r) < RingCap
  <2>1. AppendRing(r, x) = Append(r, x)
    BY <1>1 DEF AppendRing
  <2>2. Consecutive(Append(r, x))
    BY ConsecutiveAppend
  <2>. QED
    BY <2>1, <2>2
<1>2. CASE ~ (Len(r) < RingCap)
  <2>1. r # <<>> /\ AppendRing(r, x) = Append(Tail(r), x)
    BY <1>2 DEF AppendRing
  <2>2. /\ Tail(r) \in Seq(Nat) /\ Len(Tail(r)) = Len(r) - 1
        /\ \A i \in 1 .. Len(r) - 1 : Tail(r)[i] = r[i + 1]
    BY <2>1, HeadTailProperties
  <2>3. Consecutive(Tail(r))
    BY <2>1, ConsecutiveTail
  <2>4. Tail(r) # <<>> => x = Tail(r)[Len(Tail(r))] + 1
    BY <2>1, <2>2
  <2>5. Consecutive(Append(Tail(r), x))
    BY <2>2, <2>3, <2>4, ConsecutiveAppend
  <2>6. r[1] <= Append(Tail(r), x)[1]
    <3>. DEFINE y == Append(Tail(r), x)[1]
    <3>. HIDE DEF y
    <3>0. SUFFICES r[1] <= y
      BY DEF y
    <3>1. CASE Len(r) = 1
      <4>0. \A q \in Seq(Nat) : Append(q, x)[Len(q) + 1] = x
        OBVIOUS
      <4>1. Append(Tail(r), x)[Len(Tail(r)) + 1] = x /\ Len(Tail(r)) + 1 = 1
        <5>1. Append(Tail(r), x)[Len(Tail(r)) + 1] = x
          BY <4>0, <2>2, Zenon
        <5>2. Len(Tail(r)) + 1 = 1
          BY <3>1, <2>2
        <5>. QED
          BY <5>1, <5>2
      <4>2. x = r[1] + 1 /\ r[1] \in Nat
        BY <3>1, <2>1
      <4>. QED
        BY <4>1, <4>2, SMTT(40) DEF y
    <3>2. CASE Len(r) > 1
      <4>1. y = r[2]
        BY <3>2, <2>2 DEF y
      <4>2. r[2] = r[1] + 1 /\ r[1] \in Nat
        <5>1. 1 \in 1 .. Len(r) - 1 /\ 1 + 1 = 2
          BY <3>2
        <5>. QED
          BY <5>1, SMTT(40) DEF Consecutive
      <4>. QED
        BY <4>1, <4>2
    <3>3. Len(r) = 1 \/ Len(r) > 1
      <4>1. Len(r) \in Nat /\ Len(r) # 0
        BY <2>1, EmptySeq
      <4>2. \A n \in Nat : n # 0 => n = 1 \/ n > 1
        OBVIOUS
      <4>. QED
        BY <4>1, <4>2
    <3>. QED
      BY <3>1, <3>2, <3>3
  <2>. QED
    BY <2>1, <2>2, <2>5, <2>6
<1>. QED
  BY <1>1, <1>2

----------------------------------------------------------------------------
(* The stream.                                                             *)

\* The broker's start establishes the invariant of the output.
LEMMA OutputInit == Init => OutputInv
<1>. SUFFICES ASSUME Init PROVE OutputInv
  OBVIOUS
<1>1. Chunks /\ RingInv
  BY DEF Init, Chunks, RingInv, Appended, Consecutive
<1>2. ASSUME NEW c \in Clients PROVE StreamInv(c)
  <2>1. Stream(c) = <<>>
    BY DEF Init, Stream
  <2>. QED
    BY <2>1, PtyAssumption DEF Init, StreamInv, Consecutive
<1>. QED
  BY <1>1, <1>2 DEF OutputInv

\* What a step that touches neither the ring nor any stream has to keep.
Settled ==
    /\ ring' = ring /\ recv' = recv /\ sock' = sock
    /\ todo' = todo /\ Appended' = Appended /\ taken' \in Nat
    /\ pump = "write" <=> pump' = "write"
    /\ pump = "write" => taken' = taken
    /\ \A c \in Clients : /\ open'[c] => open[c]
                          /\ att'[c] \in {"idle", "wants"} => att[c] \in {"idle", "wants"}
                          /\ att'[c] = "replay" => att[c] = "replay"
                          /\ client' = c => client = c

\* A step that leaves the streams alone keeps it.
LEMMA SettledStep ==
    ASSUME SessionInv, OutputInv, Settled, open' \in [Clients -> BOOLEAN]
    PROVE  OutputInv'
<1>1. Chunks' /\ RingInv'
  BY DEF OutputInv, Chunks, RingInv, Settled, Consecutive
<1>2. ASSUME NEW c \in Clients PROVE StreamInv(c)'
  <2>1. Stream(c)' = Stream(c)
    BY DEF Settled, Stream
  <2>2. StreamInv(c) /\ open[c] \in BOOLEAN /\ open'[c] \in BOOLEAN
    BY DEF OutputInv, Chunks
  <2>. QED
    BY <2>1, <2>2 DEF StreamInv, Settled, Consecutive
<1>. QED
  BY <1>1, <1>2 DEF OutputInv

\* Every step of the pump, the replay and the clients keeps it.
LEMMA OutputStep == SessionInv /\ OutputInv /\ [Next]_vars => OutputInv'
<1>. SUFFICES ASSUME SessionInv, OutputInv, [Next]_vars PROVE OutputInv'
  OBVIOUS
<1>. USE PtyAssumption
<1>0. Shape /\ HolderInv /\ AttachedInv /\ Chunks /\ RingInv
  BY DEF SessionInv, OutputInv
<1>1. CASE UNCHANGED vars
  BY <1>0, <1>1, SettledStep DEF vars, inner, attVars, inVars, outVars, pumpVars, workVars, Settled, Appended, Chunks
<1>2. CASE WorkloadWrites
  BY <1>0, <1>2, SettledStep DEF WorkloadWrites, inner, attVars, inVars, outVars, pumpVars, workVars, Settled, Appended, Chunks, HolderInv, AttachedInv, Shape
<1>3. CASE WorkloadExits
  BY <1>0, <1>3, SettledStep DEF WorkloadExits, inner, attVars, inVars, outVars, pumpVars, workVars, Settled, Appended, Chunks, HolderInv, AttachedInv, Shape
<1>4. CASE ListRequest
  BY <1>0, <1>4, SettledStep DEF ListRequest, inner, attVars, inVars, outVars, pumpVars, workVars, Settled, Appended, Chunks, HolderInv, AttachedInv, Shape
<1>5. CASE ListReply
  BY <1>0, <1>5, SettledStep DEF ListReply, inner, attVars, inVars, outVars, pumpVars, workVars, Settled, Appended, Chunks, HolderInv, AttachedInv, Shape
<1>6. CASE PumpTop
  BY <1>0, <1>6, SettledStep DEF PumpTop, inner, attVars, inVars, outVars, pumpVars, workVars, Settled, Appended, Chunks, HolderInv, AttachedInv, Shape
<1>7. CASE PumpRead
  BY <1>0, <1>7, SettledStep DEF PumpRead, inner, attVars, inVars, outVars, pumpVars, workVars, Settled, Appended, Chunks, HolderInv, AttachedInv, Shape
<1>8. CASE PumpEof
  BY <1>0, <1>8, SettledStep DEF PumpEof, inner, attVars, inVars, outVars, pumpVars, workVars, Settled, Appended, Chunks, HolderInv, AttachedInv, Shape
<1>9. CASE PumpDone
  BY <1>0, <1>9, SettledStep DEF PumpDone, inner, attVars, inVars, outVars, pumpVars, workVars, Settled, Appended, Chunks, HolderInv, AttachedInv, Shape
<1>10. CASE PumpNotify
  <2>1. \A d \in Clients : Woken[d] \in {"idle", "wants", "replay"} => Woken[d] = att[d]
    BY <1>0 DEF Woken, Shape
  <2>. QED
    BY <1>0, <1>10, <2>1, WokenFacts, SettledStep DEF PumpNotify, inner, attVars, inVars, outVars, pumpVars, workVars, Settled, Appended, Chunks, HolderInv, AttachedInv, Shape
<1>11. CASE Shutdown
  BY <1>0, <1>11, SettledStep DEF Shutdown, inner, attVars, inVars, outVars, pumpVars, workVars, ShutdownClient, Settled, Appended, Chunks, HolderInv, AttachedInv, Shape
<1>12. CASE ShutdownNotify
  <2>1. \A d \in Clients : Woken[d] \in {"idle", "wants", "replay"} => Woken[d] = att[d]
    BY <1>0 DEF Woken, Shape
  <2>. QED
    BY <1>0, <1>12, <2>1, WokenFacts, SettledStep DEF ShutdownNotify, inner, attVars, inVars, outVars, pumpVars, workVars, Settled, Appended, Chunks, HolderInv, AttachedInv, Shape
<1>13. ASSUME NEW c \in Clients, CliTypes(c) PROVE OutputInv'
  BY <1>0, <1>13, SettledStep DEF CliTypes, inner, attVars, inVars, outVars, pumpVars, workVars, Settled, Appended, Chunks, HolderInv, AttachedInv, Shape
<1>14. ASSUME NEW c \in Clients, CliCloses(c) PROVE OutputInv'
  BY <1>0, <1>14, SettledStep DEF CliCloses, inner, attVars, inVars, outVars, pumpVars, workVars, Settled, Appended, Chunks, HolderInv, AttachedInv, Shape
<1>15. ASSUME NEW c \in Clients, AttachRequest(c) PROVE OutputInv'
  BY <1>0, <1>15, SettledStep DEF AttachRequest, inner, attVars, inVars, outVars, pumpVars, workVars, Settled, Appended, Chunks, HolderInv, AttachedInv, Shape
<1>16. ASSUME NEW c \in Clients, AttachRefused(c) PROVE OutputInv'
  BY <1>0, <1>16, SettledStep DEF AttachRefused, inner, attVars, inVars, outVars, pumpVars, workVars, Settled, Appended, Chunks, HolderInv, AttachedInv, Shape
<1>17. ASSUME NEW c \in Clients, InputRead(c) PROVE OutputInv'
  BY <1>0, <1>17, SettledStep DEF InputRead, inner, attVars, inVars, outVars, pumpVars, workVars, Settled, Appended, Chunks, HolderInv, AttachedInv, Shape
<1>18. ASSUME NEW c \in Clients, InputEof(c) PROVE OutputInv'
  BY <1>0, <1>18, SettledStep DEF InputEof, inner, attVars, inVars, outVars, pumpVars, workVars, Settled, Appended, Chunks, HolderInv, AttachedInv, Shape
<1>19. ASSUME NEW c \in Clients, InputCheck(c) PROVE OutputInv'
  BY <1>0, <1>19, SettledStep DEF InputCheck, inner, attVars, inVars, outVars, pumpVars, workVars, Settled, Appended, Chunks, HolderInv, AttachedInv, Shape
<1>20. ASSUME NEW c \in Clients, InputWrite(c) PROVE OutputInv'
  BY <1>0, <1>20, SettledStep DEF InputWrite, inner, attVars, inVars, outVars, pumpVars, workVars, Settled, Appended, Chunks, HolderInv, AttachedInv, Shape
<1>21. ASSUME NEW c \in Clients, InputWriteFails(c) PROVE OutputInv'
  BY <1>0, <1>21, SettledStep DEF InputWriteFails, inner, attVars, inVars, outVars, pumpVars, workVars, Settled, Appended, Chunks, HolderInv, AttachedInv, Shape
<1>22. ASSUME NEW c \in Clients, WaitCheck(c) PROVE OutputInv'
  BY <1>0, <1>22, SettledStep DEF WaitCheck, inner, attVars, inVars, outVars, pumpVars, workVars, Settled, Appended, Chunks, HolderInv, AttachedInv, Shape
<1>23. ASSUME NEW c \in Clients, AttachNotify(c) PROVE OutputInv'
  <2>1. \A d \in Clients : Woken[d] \in {"idle", "wants", "replay"} => Woken[d] = att[d]
    BY <1>0 DEF Woken, Shape
  <2>. QED
    BY <1>0, <1>23, <2>1, WokenFacts, SettledStep DEF AttachNotify, inner, attVars, inVars, outVars, pumpVars, workVars, Settled, Appended, Chunks, HolderInv, AttachedInv, Shape
<1>50. CASE PumpAppend
  <2>1. taken = Appended + 1 /\ (ring # <<>> => taken = ring[Len(ring)] + 1)
    BY <1>0, <1>50 DEF PumpAppend, Appended, Chunks, RingInv
  <2>2. /\ ring' \in Seq(Nat) /\ ring' # <<>> /\ Consecutive(ring') /\ ring'[Len(ring')] = taken
        /\ ring = <<>> => ring'[1] = taken
        /\ ring # <<>> => ring[1] <= ring'[1]
    BY <1>0, <1>50, <2>1, AppendRingFacts DEF PumpAppend, Chunks, RingInv
  <2>3. Chunks' /\ RingInv' /\ Appended' = taken
    BY <1>0, <1>50, <2>1, <2>2 DEF PumpAppend, Chunks, RingInv, Appended, attVars, outVars, Consecutive
  <2>4. ASSUME NEW d \in Clients PROVE StreamInv(d)'
    <3>1. StreamInv(d) /\ Stream(d)' = Stream(d) /\ att'[d] # "replay"
      BY <1>0, <1>50 DEF PumpAppend, outVars, attVars, Stream, OutputInv, HolderInv
    <3>2. Stream(d) \in Seq(Nat) /\ ring \in Seq(Nat)
      BY <1>0 DEF Chunks, Stream
    <3>3. Consecutive(Stream(d)') /\ (att'[d] \in {"idle", "wants"} => Stream(d)' = <<>>)
      BY <1>50, <3>1 DEF PumpAppend, attVars, StreamInv
    <3>4. client' = d => pump' = "write"
      BY <1>50 DEF PumpAppend
    <3>5. client' = d /\ open'[d] => (Stream(d) = <<>> => ring'[1] = taken)
      BY <1>50, <2>2, <3>1 DEF PumpAppend, StreamInv, outVars
    <3>6. client' = d /\ open'[d] /\ Stream(d) # <<>> =>
            Stream(d)[1] <= ring'[1] /\ Stream(d)[Len(Stream(d))] = taken - 1
      <4>. SUFFICES ASSUME client' = d, open'[d], Stream(d) # <<>>
                    PROVE  Stream(d)[1] <= ring'[1] /\ Stream(d)[Len(Stream(d))] = taken - 1
        OBVIOUS
      <4>1. ring # <<>> /\ Stream(d)[1] <= ring[1] /\ Stream(d)[Len(Stream(d))] = Appended
        BY <1>50, <3>1 DEF PumpAppend, StreamInv, outVars
      <4>2. Stream(d)[1] \in Nat /\ ring[1] \in Nat /\ ring'[1] \in Nat /\ Appended \in Nat
        <5>1. Len(Stream(d)) \in Nat \ {0} /\ Len(ring) \in Nat \ {0} /\ Len(ring') \in Nat \ {0}
          BY <4>1, <3>2, <2>2, EmptySeq
        <5>2. Stream(d)[1] \in Nat
          BY <5>1, <3>2
        <5>3. ring[1] \in Nat /\ ring'[1] \in Nat
          BY <5>1, <3>2, <2>2, SMTT(40)
        <5>. QED
          BY <1>0, <5>2, <5>3 DEF Chunks
      <4>. QED
        BY <4>1, <4>2, <2>1, <2>2, SMTT(40)
    <3>. QED
      BY <1>50, <2>2, <3>1, <3>3, <3>4, <3>5, <3>6 DEF StreamInv, PumpAppend
  <2>. QED
    BY <2>3, <2>4 DEF OutputInv
<1>51. CASE PumpWrite
  <2>1. client \in Clients /\ open[client] /\ lock = "pump" /\ pump = "write" /\ pump' = "top"
    BY <1>0, <1>51 DEF PumpWrite, Room, HolderInv, Shape
  <2>2. Chunks' /\ RingInv' /\ Appended' = taken /\ Appended = taken /\ ring' = ring
    BY <1>0, <1>51, <2>1 DEF PumpWrite, Chunks, RingInv, Appended, attVars, outVars, inner, Consecutive
  <2>3. ASSUME NEW d \in Clients PROVE StreamInv(d)'
    <3>1. StreamInv(d) /\ Stream(d) \in Seq(Nat) /\ taken \in Nat /\ ring \in Seq(Nat)
      BY <1>0 DEF OutputInv, Chunks, Stream
    <3>2. att'[d] = att[d] /\ open'[d] = open[d] /\ client' = client /\ att[d] # "replay"
      BY <1>0, <1>51, <2>1 DEF PumpWrite, attVars, inner, HolderInv
    <3>3. CASE d # client
      <4>1. Stream(d)' = Stream(d)
        BY <1>0, <1>51, <3>3 DEF PumpWrite, Stream, Chunks
      <4>. QED
        BY <3>1, <3>2, <3>3, <4>1, <2>2, <2>1 DEF StreamInv
    <3>4. CASE d = client
      <4>1. Stream(d)' = Append(Stream(d), taken)
        <5>1. /\ recv[d] \in Seq(Nat) /\ sock[d] \in Seq(Nat) /\ taken \in Nat
              /\ recv' = recv /\ sock'[d] = Append(sock[d], taken)
          BY <1>0, <1>51, <3>4, <2>1 DEF PumpWrite, Chunks
        <5>2. recv[d] \o Append(sock[d], taken) = Append(recv[d] \o sock[d], taken)
          BY <5>1, WriteExtendsStream, ZenonT(40)
        <5>. QED
          BY <5>1, <5>2, Zenon DEF Stream
      <4>2. /\ ring # <<>>
            /\ Stream(d) = <<>> => ring[1] = taken
            /\ Stream(d) # <<>> =>
                 Stream(d)[1] <= ring[1] /\ Stream(d)[Len(Stream(d))] = taken - 1
        BY <3>1, <3>4, <2>1 DEF StreamInv
      <4>3. Consecutive(Stream(d)')
        <5>1. Consecutive(Stream(d)) /\ (Stream(d) # <<>> => taken = Stream(d)[Len(Stream(d))] + 1)
          <6>1. Stream(d) # <<>> => Stream(d)[Len(Stream(d))] \in Nat
            BY <3>1
          <6>2. Consecutive(Stream(d))
            BY <3>1, Zenon DEF StreamInv
          <6>. QED
            BY <3>1, <4>2, <6>1, <6>2, SMTT(40)
        <5>2. Consecutive(Append(Stream(d), taken))
          BY <3>1, <5>1, ConsecutiveAppend
        <5>. QED
          BY <4>1, <5>2
      <4>4. Stream(d)' # <<>> /\ Stream(d)'[Len(Stream(d)')] = taken /\ Stream(d)'[1] <= ring[1]
        BY <3>1, <4>1, <4>2, SMTT(40)
      <4>5. att[d] \notin {"idle", "wants"}
        BY <1>0, <3>4, <2>1 DEF AttachedInv, Before, Shape
      <4>. QED
        BY <3>2, <4>2, <4>3, <4>4, <4>5, <2>1, <2>2 DEF StreamInv
    <3>. QED
      BY <3>3, <3>4
  <2>. QED
    BY <2>2, <2>3 DEF OutputInv
<1>52. CASE PumpWriteFails
  <2>1. pump = "write" /\ pump' = "top" /\ client' = None /\ Chunks' /\ RingInv' /\ ring' = ring
    BY <1>0, <1>52 DEF PumpWriteFails, Chunks, RingInv, Appended, attVars, Consecutive
  <2>2. ASSUME NEW d \in Clients PROVE StreamInv(d)'
    <3>1. StreamInv(d) /\ Stream(d)' = Stream(d) /\ att' = att /\ att[d] # "replay" /\ client' # d
      BY <1>0, <1>52, <2>1 DEF PumpWriteFails, attVars, OutputInv, Stream, HolderInv
    <3>. QED
      BY <2>1, <3>1 DEF StreamInv
  <2>. QED
    BY <2>1, <2>2 DEF OutputInv
<1>53. ASSUME NEW c \in Clients, CliReads(c) PROVE OutputInv'
  <2>1. Chunks' /\ RingInv' /\ Appended' = Appended
    BY <1>0, <1>53, SMTT(40) DEF CliReads, Chunks, RingInv, Appended, attVars, inner, pumpVars, Consecutive
  <2>2. ASSUME NEW d \in Clients PROVE StreamInv(d)'
    <3>1. Stream(d)' = Stream(d)
      <4>1. CASE d = c
        BY <1>0, <1>53, <4>1, ReadKeepsStream DEF CliReads, Stream, Chunks
      <4>2. CASE d # c
        BY <1>0, <1>53, <4>2 DEF CliReads, Stream, Chunks
      <4>. QED
        BY <4>1, <4>2
    <3>2. /\ StreamInv(d) /\ ring' = ring /\ att' = att /\ todo' = todo /\ taken' = taken
          /\ pump' = pump /\ client' = client /\ open' = open
      BY <1>53 DEF CliReads, OutputInv, attVars, inner, pumpVars
    <3>. QED
      BY <2>1, <3>1, <3>2 DEF StreamInv
  <2>. QED
    BY <2>1, <2>2 DEF OutputInv
<1>54. ASSUME NEW c \in Clients, AttachLock(c) PROVE OutputInv'
  <2>1. Chunks' /\ RingInv' /\ Appended' = Appended
    BY <1>0, <1>54 DEF AttachLock, Chunks, RingInv, Appended, outVars, inner, pumpVars, Consecutive
  <2>2. ASSUME NEW d \in Clients PROVE StreamInv(d)'
    <3>1. /\ StreamInv(d) /\ ring' = ring /\ todo' = ring /\ taken' = taken
          /\ pump' = pump /\ client' = client /\ open' = open /\ Stream(d)' = Stream(d)
      BY <1>54 DEF AttachLock, OutputInv, outVars, inner, pumpVars, Stream
    <3>2. CASE d = c
      <4>1. Stream(d) = <<>> /\ ring \in Seq(Nat) /\ att'[d] = "replay"
        BY <1>0, <1>54, <3>1, <3>2 DEF AttachLock, StreamInv, Chunks, Shape
      <4>2. Stream(d) \o ring = ring
        BY <4>1
      <4>. QED
        BY <2>1, <3>1, <4>1, <4>2 DEF StreamInv
    <3>3. CASE d # c
      <4>1. att'[d] = att[d] /\ att[d] # "replay"
        BY <1>0, <1>54, <3>3 DEF AttachLock, Shape, HolderInv
      <4>. QED
        BY <2>1, <3>1, <4>1 DEF StreamInv
    <3>. QED
      BY <3>2, <3>3
  <2>. QED
    BY <2>1, <2>2 DEF OutputInv
<1>55. ASSUME NEW c \in Clients, AttachReplay(c) PROVE OutputInv'
  <2>1. Chunks' /\ RingInv' /\ Appended' = Appended
    <3>1. todo \in Seq(Nat) /\ todo # <<>> /\ sock \in [Clients -> Seq(Nat)] /\ sock[c] \in Seq(Nat)
      BY <1>0, <1>55 DEF AttachReplay, Chunks
    <3>2. Head(todo) \in Nat /\ Tail(todo) \in Seq(Nat)
      BY <3>1, HeadTailProperties
    <3>3. Append(sock[c], Head(todo)) \in Seq(Nat) /\ <<>> \in Seq(Nat)
      BY <3>1, <3>2
    <3>4. todo' \in Seq(Nat) /\ sock' \in [Clients -> Seq(Nat)]
      BY <1>55, <3>1, <3>2, <3>3 DEF AttachReplay
    <3>. QED
      BY <1>0, <1>55, <3>4 DEF AttachReplay, Chunks, RingInv, Appended, inner, pumpVars, Consecutive
  <2>2. lock = c /\ pump # "write"
    BY <1>0, <1>55 DEF AttachReplay, HolderInv
  <2>3. ASSUME NEW d \in Clients PROVE StreamInv(d)'
    <3>1. /\ StreamInv(d) /\ ring' = ring /\ taken' = taken /\ att' = att
          /\ pump' = pump /\ client' = client /\ open' = open /\ recv' = recv
      BY <1>55 DEF AttachReplay, OutputInv, inner, pumpVars
    <3>2. CASE d # c
      <4>1. att[d] # "replay" /\ Stream(d)' = Stream(d)
        BY <1>0, <1>55, <2>2, <3>1, <3>2 DEF AttachReplay, HolderInv, Stream, Chunks
      <4>. QED
        BY <2>1, <3>1, <4>1 DEF StreamInv
    <3>3. CASE d = c /\ ~ open[c]
      <4>1. Stream(d)' = Stream(d) /\ att[d] = "replay"
        BY <1>55, <3>1, <3>3 DEF AttachReplay, Room, Stream
      <4>. QED
        BY <2>1, <3>1, <3>3, <4>1 DEF StreamInv
    <3>4. CASE d = c /\ open[c]
      <4>. DEFINE h == Head(todo)  r == Tail(todo)  t == Stream(d)
      <4>1. /\ att[d] = "replay" /\ todo # <<>> /\ todo \in Seq(Nat) /\ todo' = r
            /\ t \in Seq(Nat) /\ recv[d] \in Seq(Nat) /\ sock[d] \in Seq(Nat)
            /\ sock'[d] = Append(sock[d], h) /\ ring \in Seq(Nat)
        BY <1>0, <1>55, <3>4 DEF AttachReplay, Chunks, Stream
      <4>2. h \in Nat /\ r \in Seq(Nat) /\ todo = <<h>> \o r
        BY <4>1, SMTT(40)
      <4>3. Stream(d)' = Append(t, h)
        <5>1. Stream(d)' = recv[d] \o Append(sock[d], h)
          BY <3>1, <4>1 DEF Stream
        <5>. QED
          BY <4>1, <4>2, <5>1, WriteExtendsStream, ZenonT(40) DEF Stream
      <4>4. t \o todo = ring
        BY <3>1, <3>4, <4>1 DEF StreamInv
      <4>5. Append(t, h) \o r = ring
        BY <4>1, <4>4, ReadKeepsStream
      <4>6. Consecutive(Append(t, h))
        <5>. DEFINE q == Append(t, h)
        <5>. HIDE DEF q, h, r, t
        <5>1. q \in Seq(Nat) /\ r \in Seq(Nat) /\ q \o r = ring
          BY <4>1, <4>2, <4>5 DEF q
        <5>2. /\ Len(ring) = Len(q) + Len(r) /\ Len(q) \in Nat /\ Len(r) \in Nat
              /\ \A i \in 1 .. Len(q) : ring[i] = q[i]
          BY <5>1, ConcatProperties
        <5>3. Consecutive(q)
          BY <1>0, <5>2, SMTT(40) DEF Consecutive, RingInv
        <5>. QED
          BY <5>3 DEF q
      <4>7. client # d
        BY <1>0, <4>1 DEF AttachedInv, Before, Shape
      <4>8. ring # <<>>
        BY <4>1, <4>4
      <4>. QED
        BY <2>1, <3>1, <4>1, <4>3, <4>5, <4>6, <4>7, <4>8 DEF StreamInv
    <3>. QED
      BY <3>2, <3>3, <3>4
  <2>. QED
    BY <2>1, <2>3 DEF OutputInv
<1>56. ASSUME NEW c \in Clients, AttachJoin(c) PROVE OutputInv'
  <2>1. Chunks' /\ RingInv' /\ Appended' = Appended
    BY <1>0, <1>56 DEF AttachJoin, Chunks, RingInv, Appended, pumpVars, Consecutive
  <2>2. lock = c /\ pump # "write" /\ pump' = pump
    BY <1>0, <1>56 DEF AttachJoin, HolderInv, pumpVars
  <2>3. ASSUME NEW d \in Clients PROVE StreamInv(d)'
    <3>1. /\ StreamInv(d) /\ Stream(d)' = Stream(d) /\ ring' = ring /\ client' = c
          /\ taken' = taken /\ open' = open /\ att'[d] = IF d = c THEN "wake" ELSE att[d]
      BY <1>0, <1>56 DEF AttachJoin, OutputInv, Stream, pumpVars, Shape
    <3>2. CASE d # c
      <4>1. att[d] # "replay"
        BY <1>0, <2>2, <3>2 DEF HolderInv
      <4>. QED
        BY <2>1, <2>2, <3>1, <3>2, <4>1 DEF StreamInv
    <3>3. CASE d = c
      <4>1. open[d] => Stream(d) = ring
        <5>1. att[d] = "replay" /\ todo = <<>> /\ Stream(d) \in Seq(Nat)
          BY <1>0, <1>56, <3>3 DEF AttachJoin, Chunks, Stream
        <5>. QED
          BY <3>1, <5>1 DEF StreamInv
      <4>2. ring # <<>> => ring[1] <= ring[1] /\ ring[Len(ring)] = Appended
        BY <1>0, SMTT(40) DEF Chunks, RingInv
      <4>. QED
        BY <2>1, <2>2, <3>1, <3>3, <4>1, <4>2 DEF StreamInv
    <3>. QED
      BY <3>2, <3>3
  <2>. QED
    BY <2>1, <2>3 DEF OutputInv
<1>. QED
  BY <1>1, <1>2, <1>3, <1>4, <1>5, <1>6, <1>7, <1>8, <1>9, <1>10, <1>11, <1>12, <1>13, <1>14, <1>15, <1>16, <1>17, <1>18, <1>19, <1>20, <1>21, <1>22, <1>23, <1>50, <1>51, <1>52, <1>53, <1>54, <1>55, <1>56
     DEF Next, Pump, Control, InputReads, InputWrites

\* OutputInv is an inductive invariant of the broker.
THEOREM OutputInvariant == Spec => [](SessionInv /\ OutputInv)
<1>. QED
  BY SessionInit, SessionStep, OutputInit, OutputStep, PTL DEF Spec

\* Every terminal sees one unbroken stream: what it has received and has
\* buffered is a run of consecutive chunks, and the attached one's covers the
\* ring, however attach's replay, the pump and the terminals' own reads and
\* hang-ups interleave (attach, spawn_pump).
THEOREM StreamUnbrokenTheorem == Spec => []StreamUnbroken
<1>1. SessionInv /\ OutputInv => StreamUnbroken
  <2>. SUFFICES ASSUME SessionInv, OutputInv, NEW c \in Clients
                PROVE  /\ Consecutive(Stream(c))
                       /\ client = c /\ open[c] /\ lock # "pump" /\ ring # <<>> =>
                            /\ Stream(c) # <<>> /\ Stream(c)[1] <= Head(ring)
                            /\ Last(Stream(c)) = Last(ring)
    BY DEF StreamUnbroken, Consecutive, Stream
  <2>1. StreamInv(c) /\ RingInv /\ HolderInv /\ ring \in Seq(Nat) /\ ring # <<>> => Head(ring) = ring[1]
    BY DEF SessionInv, OutputInv, Chunks
  <2>. QED
    BY <2>1 DEF SessionInv, OutputInv, StreamInv, RingInv, HolderInv, Last
<1>. QED
  BY <1>1, OutputInvariant, PTL

=============================================================================
