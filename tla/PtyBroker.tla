----------------------------- MODULE PtyBroker -----------------------------
(***************************************************************************)
(* kenneld's pty broker (kenneld/src/pty_broker.rs) with the run_kennel    *)
(* and run_attach threads that use it: the pump thread from the pty master *)
(* to the ring and the attached client, one input thread per client in the *)
(* other direction, take-over by a later attach, and shutdown when the     *)
(* workload exits.                                                         *)
(*                                                                         *)
(* Inner's mutex is held across steps in two places only, the pump's       *)
(* write_all to the client and attach's write_all of the ring; every other *)
(* critical section is one step that needs the lock to be free.  The       *)
(* workload's output is numbered in chunks, one per pump read.             *)
(***************************************************************************)
EXTENDS Naturals, Sequences, FiniteSets, SequencesExt

CONSTANTS
    Clients,    \* the terminals: `kennel run`'s and those of `kennel attach`
    RunClient,  \* the one of `kennel run`, passed to PtyBroker::start, or None
    None,       \* Option::None for Inner.client
    Stalled,    \* clients that may stop reading without closing
    RingCap,    \* RING_CAPACITY, in chunks
    SockCap,    \* what a client's socket buffer holds, in chunks
    PtyCap,     \* what the pty buffer holds, in chunks
    MaxOut,     \* bound: chunks the workload writes
    Typists,    \* the clients at which anything is typed
    MaxIn       \* bound: chunks typed at one client

ASSUME PtyAssumption ==
    /\ RunClient \in Clients \cup {None} /\ None \notin Clients /\ Stalled \subseteq Clients /\ Typists \subseteq Clients
    /\ {RingCap, SockCap, PtyCap} \subseteq Nat \ {0}
    /\ {MaxOut, MaxIn} \subseteq Nat
    /\ Clients \cap {"free", "pump"} = {}   \* the other values of lock

VARIABLES
    alive,      \* the workload runs
    produced,   \* chunks the workload has written
    taken,      \* chunks the pump has read from the master
    pump,       \* the pump thread
    lock,       \* holder of Inner's mutex between steps
    ring, client, generation, done,     \* Inner
    att,        \* the control thread of a client: attach, wait_for_outcome
    mine,       \* the generation attach returned
    todo,       \* what attach still has to replay, under the lock
    sock, shut, open, recv, \* the socket, SHUT_RDWR, the CLI's end, what it got
    inp, pend, typed, late, \* the input thread, its socket queue, counts
    stop,       \* run_kennel's shutdown call
    list        \* a List request inside the registry lock

workVars == <<alive, produced>>
pumpVars == <<taken, pump>>
inner    == <<ring, client, generation, done>>
attVars  == <<att, mine, todo>>
outVars  == <<sock, shut, open, recv>>
inVars   == <<inp, pend, typed, late>>
vars == <<workVars, pumpVars, lock, inner, attVars, outVars, inVars, stop, list>>

TypeOK ==
    /\ alive \in BOOLEAN /\ done \in BOOLEAN
    /\ produced \in 0 .. MaxOut /\ taken \in 0 .. produced
    /\ produced - taken <= PtyCap
    /\ pump \in {"top", "read", "append", "write", "eof", "notify", "ended"}
    /\ lock \in {"free", "pump"} \cup Clients
    /\ ring \in Seq(1 .. MaxOut) /\ Len(ring) <= RingCap
    /\ client \in Clients \cup {None}
    /\ generation \in 0 .. Cardinality(Clients)
    /\ att \in [Clients -> {"idle", "wants", "replay", "wake", "check", "asleep",
                            "nowait", "exited", "takenover", "refused"}]
    /\ mine \in [Clients -> 0 .. Cardinality(Clients)]
    /\ todo \in Seq(1 .. MaxOut)
    /\ \A c \in Clients : sock[c] \in Seq(1 .. MaxOut) /\ Len(sock[c]) <= SockCap
    /\ shut \in [Clients -> BOOLEAN] /\ open \in [Clients -> BOOLEAN]
    /\ \A c \in Clients : recv[c] \in Seq(1 .. MaxOut)
    /\ inp \in [Clients -> {"none", "reading", "got", "writing", "ended"}]
    /\ pend \in [Clients -> 0 .. MaxIn] /\ typed \in [Clients -> 0 .. MaxIn]
    /\ late \in [Clients -> 0 .. MaxIn]
    /\ stop \in {"no", "wake", "done"}
    /\ list \in {"idle", "waiting"}

\* PtyBroker::start has spawned the pump and attaches `kennel run`'s terminal.
Init ==
    /\ alive = TRUE /\ produced = 0 /\ taken = 0 /\ pump = "top" /\ lock = "free"
    /\ ring = <<>> /\ client = None /\ generation = 0 /\ done = FALSE
    /\ att = [c \in Clients |-> IF c = RunClient THEN "wants" ELSE "idle"]
    /\ mine = [c \in Clients |-> 0] /\ todo = <<>>
    /\ sock = [c \in Clients |-> <<>>] /\ recv = [c \in Clients |-> <<>>]
    /\ shut = [c \in Clients |-> FALSE] /\ open = [c \in Clients |-> TRUE]
    /\ inp = [c \in Clients |-> "none"]
    /\ pend = [c \in Clients |-> 0] /\ typed = [c \in Clients |-> 0]
    /\ late = [c \in Clients |-> 0]
    /\ stop = "no" /\ list = "idle"

\* A blocking write_all of one chunk to c's socket can complete.
Room(c) == open[c] /\ Len(sock[c]) < SockCap

\* notify_all on `changed`.
Woken == [c \in Clients |-> IF att[c] = "asleep" THEN "check" ELSE att[c]]

\* append_ring: keep the trailing RingCap chunks.
AppendRing(r, x) ==
    IF Len(r) < RingCap THEN Append(r, x) ELSE Append(Tail(r), x)

\* shutdown_client: SHUT_RDWR on d's socket, for a client d or None.
ShutdownClient(d) == [c \in Clients |-> shut[c] \/ c = d]

----------------------------------------------------------------------------
(* The kennel and the operator's terminals.                                *)

WorkloadWrites ==
    /\ alive
    /\ produced < MaxOut /\ produced - taken < PtyCap
    /\ produced' = produced + 1
    /\ UNCHANGED <<alive, pumpVars, lock, inner, attVars, outVars, inVars, stop, list>>

WorkloadExits ==
    /\ alive
    /\ alive' = FALSE
    /\ UNCHANGED <<produced, pumpVars, lock, inner, attVars, outVars, inVars, stop, list>>

CliReads(c) ==
    /\ open[c]
    /\ sock[c] # <<>>
    /\ recv' = [recv EXCEPT ![c] = Append(@, Head(sock[c]))]
    /\ sock' = [sock EXCEPT ![c] = Tail(@)]
    /\ UNCHANGED <<workVars, pumpVars, lock, inner, attVars, shut, open, inVars, stop, list>>

CliTypes(c) ==
    /\ c \in Typists
    /\ open[c] /\ ~ shut[c]
    /\ inp[c] # "none"
    /\ typed[c] < MaxIn
    /\ typed' = [typed EXCEPT ![c] = @ + 1]
    /\ pend' = [pend EXCEPT ![c] = @ + 1]
    /\ UNCHANGED <<workVars, pumpVars, lock, inner, attVars, outVars, inp, late, stop, list>>

CliCloses(c) ==
    /\ open[c]
    /\ att[c] # "idle"
    /\ open' = [open EXCEPT ![c] = FALSE]
    /\ UNCHANGED <<workVars, pumpVars, lock, inner, attVars, sock, shut, recv, inVars, stop, list>>

----------------------------------------------------------------------------
(* spawn_pump.                                                             *)

PumpTop ==
    /\ pump = "top" /\ lock = "free"
    /\ pump' = IF done THEN "ended" ELSE "read"
    /\ UNCHANGED <<workVars, taken, lock, inner, attVars, outVars, inVars, stop, list>>

PumpRead ==
    /\ pump = "read"
    /\ taken < produced
    /\ taken' = taken + 1
    /\ pump' = "append"
    /\ UNCHANGED <<workVars, lock, inner, attVars, outVars, inVars, stop, list>>

\* The slave is closed and its output is drained: read fails.
PumpEof ==
    /\ pump = "read"
    /\ ~ alive /\ taken = produced
    /\ pump' = "eof"
    /\ UNCHANGED <<workVars, taken, lock, inner, attVars, outVars, inVars, stop, list>>

PumpDone ==
    /\ pump = "eof" /\ lock = "free"
    /\ done' = TRUE
    /\ pump' = "notify"
    /\ UNCHANGED <<workVars, taken, lock, ring, client, generation, attVars, outVars, inVars, stop, list>>

PumpNotify ==
    /\ pump = "notify"
    /\ att' = Woken
    /\ pump' = "ended"
    /\ UNCHANGED <<workVars, taken, lock, inner, mine, todo, outVars, inVars, stop, list>>

\* Into the ring, and on to the client with the lock held.
PumpAppend ==
    /\ pump = "append" /\ lock = "free"
    /\ ring' = AppendRing(ring, taken)
    /\ IF client = None
       THEN pump' = "top" /\ UNCHANGED lock
       ELSE pump' = "write" /\ lock' = "pump"
    /\ UNCHANGED <<workVars, taken, client, generation, done, attVars, outVars, inVars, stop, list>>

PumpWrite ==
    /\ pump = "write"
    /\ Room(client)
    /\ sock' = [sock EXCEPT ![client] = Append(@, taken)]
    /\ pump' = "top" /\ lock' = "free"
    /\ UNCHANGED <<workVars, taken, inner, attVars, shut, open, recv, inVars, stop, list>>

\* Mutant: a write to a closed terminal does not fail.
PumpIgnoresHangup == FALSE /\ UNCHANGED vars

PumpWriteFails ==
    /\ pump = "write"
    /\ ~ open[client]
    /\ shut' = ShutdownClient(client)
    /\ client' = None
    /\ pump' = "top" /\ lock' = "free"
    /\ UNCHANGED <<workVars, taken, ring, generation, done, attVars, sock, open, recv, inVars, stop, list>>

----------------------------------------------------------------------------
(* run_attach: attach, then wait_for_outcome.                              *)

\* set_broker publishes the broker once PtyBroker::start has returned.
Published ==
    \A c \in Clients : c = RunClient => att[c] \notin {"wants", "replay", "wake"}

\* broker_for, under the registry lock a List may be holding.
AttachRequest(c) ==
    /\ att[c] = "idle"
    /\ Published /\ list = "idle"
    /\ att' = [att EXCEPT ![c] = "wants"]
    /\ UNCHANGED <<workVars, pumpVars, lock, inner, mine, todo, outVars, inVars, stop, list>>

\* Refused, the socket is dropped; the CLI sees it close.
AttachRefused(c) ==
    /\ att[c] = "wants" /\ lock = "free"
    /\ done
    /\ att' = [att EXCEPT ![c] = "refused"]
    /\ shut' = [shut EXCEPT ![c] = TRUE]
    /\ UNCHANGED <<workVars, pumpVars, lock, inner, mine, todo, sock, open, recv, inVars, stop, list>>

\* Mutant: the tail is cloned under the lock but written after its release.
AttachUnlocked(c) ==
    /\ att[c] = "wants" /\ lock = "free"
    /\ ~ done
    /\ todo' = ring
    /\ att' = [att EXCEPT ![c] = "replay"]
    /\ UNCHANGED <<workVars, pumpVars, lock, inner, mine, outVars, inVars, stop, list>>

AttachLock(c) ==
    /\ att[c] = "wants" /\ lock = "free"
    /\ ~ done
    /\ lock' = c
    /\ todo' = ring
    /\ att' = [att EXCEPT ![c] = "replay"]
    /\ UNCHANGED <<workVars, pumpVars, inner, mine, outVars, inVars, stop, list>>

AttachReplay(c) ==
    /\ att[c] = "replay"
    /\ todo # <<>>
    /\ \/ /\ Room(c)
          /\ sock' = [sock EXCEPT ![c] = Append(@, Head(todo))]
          /\ todo' = Tail(todo)
       \/ /\ ~ open[c]
          /\ todo' = <<>>
          /\ UNCHANGED sock
    /\ UNCHANGED <<workVars, pumpVars, lock, inner, att, mine, shut, open, recv, inVars, stop, list>>

\* Mutant: the prior client is dropped and not shut down.
AttachJoinDrop(c) ==
    /\ att[c] = "replay" /\ todo = <<>>
    /\ generation' = generation + 1
    /\ mine' = [mine EXCEPT ![c] = generation + 1]
    /\ client' = c
    /\ inp' = [inp EXCEPT ![c] = "reading"]
    /\ lock' = "free"
    /\ att' = [att EXCEPT ![c] = "wake"]
    /\ UNCHANGED <<workVars, pumpVars, ring, done, todo, outVars, pend, typed, late, stop, list>>

\* Bump the generation, shut the prior client down, start the input thread.
AttachJoin(c) ==
    /\ att[c] = "replay" /\ todo = <<>>
    /\ generation' = generation + 1
    /\ mine' = [mine EXCEPT ![c] = generation + 1]
    /\ client' = c
    /\ shut' = ShutdownClient(client)
    /\ inp' = [inp EXCEPT ![c] = "reading"]
    /\ lock' = "free"
    /\ att' = [att EXCEPT ![c] = "wake"]
    /\ UNCHANGED <<workVars, pumpVars, ring, done, todo, sock, open, recv, pend, typed, late, stop, list>>

\* Mutant: attach returns without notify_all.
AttachSilent(c) ==
    /\ att[c] = "wake"
    /\ att' = [att EXCEPT ![c] = IF c = RunClient THEN "nowait" ELSE "check"]
    /\ UNCHANGED <<workVars, pumpVars, lock, inner, mine, todo, outVars, inVars, stop, list>>

\* notify_all; only run_attach goes on to wait_for_outcome.
AttachNotify(c) ==
    /\ att[c] = "wake"
    /\ att' = [Woken EXCEPT ![c] = IF c = RunClient THEN "nowait" ELSE "check"]
    /\ UNCHANGED <<workVars, pumpVars, lock, inner, mine, todo, outVars, inVars, stop, list>>

\* One round of wait_for_outcome: report, or release the lock and sleep.
WaitCheck(c) ==
    /\ att[c] = "check" /\ lock = "free"
    /\ att' = [att EXCEPT ![c] =
                 IF done THEN "exited"
                 ELSE IF generation # mine[c] THEN "takenover" ELSE "asleep"]
    /\ UNCHANGED <<workVars, pumpVars, lock, inner, mine, todo, outVars, inVars, stop, list>>

----------------------------------------------------------------------------
(* spawn_input.                                                            *)

\* Queued input is still readable after the socket was shut down.
InputRead(c) ==
    /\ inp[c] = "reading"
    /\ pend[c] > 0
    /\ pend' = [pend EXCEPT ![c] = @ - 1]
    /\ inp' = [inp EXCEPT ![c] = "got"]
    /\ UNCHANGED <<workVars, pumpVars, lock, inner, attVars, outVars, typed, late, stop, list>>

InputEof(c) ==
    /\ inp[c] = "reading"
    /\ pend[c] = 0
    /\ shut[c] \/ ~ open[c]
    /\ inp' = [inp EXCEPT ![c] = "ended"]
    /\ UNCHANGED <<workVars, pumpVars, lock, inner, attVars, outVars, pend, typed, late, stop, list>>

\* The lock is dropped before the write.
InputCheck(c) ==
    /\ inp[c] = "got" /\ lock = "free"
    /\ inp' = [inp EXCEPT ![c] =
                 IF done \/ generation # mine[c] THEN "ended" ELSE "writing"]
    /\ UNCHANGED <<workVars, pumpVars, lock, inner, attVars, outVars, pend, typed, late, stop, list>>

InputWrite(c) ==
    /\ inp[c] = "writing"
    /\ inp' = [inp EXCEPT ![c] = "reading"]
    /\ late' = [late EXCEPT ![c] = IF generation = mine[c] THEN @ ELSE @ + 1]
    /\ UNCHANGED <<workVars, pumpVars, lock, inner, attVars, outVars, pend, typed, stop, list>>

InputWriteFails(c) ==
    /\ inp[c] = "writing"
    /\ ~ alive
    /\ inp' = [inp EXCEPT ![c] = "ended"]
    /\ UNCHANGED <<workVars, pumpVars, lock, inner, attVars, outVars, pend, typed, late, stop, list>>

----------------------------------------------------------------------------
(* The end of run_kennel, and `kennel list`.                               *)

\* PtyBroker::shutdown, after Kennel::stop returned.
Shutdown ==
    /\ ~ alive /\ Published
    /\ stop = "no" /\ lock = "free"
    /\ done' = TRUE
    /\ shut' = ShutdownClient(client)
    /\ client' = None
    /\ stop' = "wake"
    /\ UNCHANGED <<workVars, pumpVars, lock, ring, generation, attVars, sock, open, recv, inVars, list>>

ShutdownNotify ==
    /\ stop = "wake"
    /\ att' = Woken
    /\ stop' = "done"
    /\ UNCHANGED <<workVars, pumpVars, lock, inner, mine, todo, outVars, inVars, list>>

\* list() calls is_attached with the registry locked.
ListRequest ==
    /\ list = "idle" /\ Published
    /\ stop # "done"
    /\ list' = "waiting"
    /\ UNCHANGED <<workVars, pumpVars, lock, inner, attVars, outVars, inVars, stop>>

ListReply ==
    /\ list = "waiting" /\ lock = "free"
    /\ list' = "idle"
    /\ UNCHANGED <<workVars, pumpVars, lock, inner, attVars, outVars, inVars, stop>>

----------------------------------------------------------------------------
Pump == \/ PumpTop \/ PumpRead \/ PumpEof \/ PumpDone \/ PumpNotify
        \/ PumpAppend \/ PumpWrite \/ PumpWriteFails

Control(c) == \/ AttachRefused(c) \/ AttachLock(c) \/ AttachReplay(c)
              \/ AttachJoin(c) \/ AttachNotify(c) \/ WaitCheck(c)

InputReads(c) == InputRead(c) \/ InputEof(c) \/ InputCheck(c)
InputWrites(c) == InputWrite(c) \/ InputWriteFails(c)

Next ==
    \/ WorkloadWrites \/ WorkloadExits \/ Pump
    \/ \E c \in Clients :
         \/ CliReads(c) \/ CliTypes(c) \/ CliCloses(c)
         \/ AttachRequest(c) \/ Control(c) \/ InputReads(c) \/ InputWrites(c)
    \/ Shutdown \/ ShutdownNotify \/ ListRequest \/ ListReply

\* kenneld's threads run when they can.  A terminal outside Stalled reads what
\* it is sent; nobody owes typing, closing or attaching.  A write to the pty
\* is owed an end only when the workload, its reader, is gone.
Fairness ==
    /\ WF_vars(Pump) /\ WF_vars(Shutdown) /\ WF_vars(ShutdownNotify)
    /\ WF_vars(ListReply)
    /\ \A c \in Clients :
         /\ WF_vars(Control(c))
         /\ WF_vars(InputReads(c))
         /\ WF_vars(~ alive /\ InputWrites(c))
    /\ \A c \in Clients \ Stalled : WF_vars(CliReads(c))

Spec == Init /\ [][Next]_vars
FairSpec == Spec /\ Fairness

----------------------------------------------------------------------------
(* Properties.                                                             *)

\* The terminal sees one unbroken stream: what a client has received and has
\* buffered is a run of consecutive chunks, and for the attached client it
\* covers the ring up to its last chunk (attach replays and joins under one
\* lock, so the pump can add nothing in between and nothing twice).
StreamUnbroken ==
    \A c \in Clients :
        LET s == recv[c] \o sock[c]
        IN  /\ \A i \in 1 .. Len(s) - 1 : s[i + 1] = s[i] + 1
            /\ client = c /\ open[c] /\ lock # "pump" /\ ring # <<>> =>
                 s # <<>> /\ s[1] <= Head(ring) /\ Last(s) = Last(ring)

\* A terminal that was attached and is no longer the broker's client was shut
\* down, by a take-over, a failed write or shutdown, so its CLI sees EOF and
\* its input thread can end; once shutdown has run none is left out, however an
\* attach was racing it (attach reads done under the lock).
DroppedIsShut ==
    \A c \in Clients : inp[c] # "none" /\ (client # c \/ stop # "no") => shut[c]

\* A superseded terminal gets at most the one chunk through to the workload
\* that its input thread had already checked when the take-over came.
AtMostOneLate == \A c \in Clients : late[c] <= 1

\* A terminal that has lost the session is cut off from it both ways.
SupersededIsCut == DroppedIsShut /\ AtMostOneLate

\* A session that ends is reported and leaves nothing behind: a waiting
\* run_attach learns its outcome, no take-over and no exit being missed between
\* its check and its sleep (wait_for_outcome), and no input thread outlives the
\* kennel, blocked on a dup of a client socket (shutdown).
SessionsEnd ==
    /\ \A c \in Clients :
         (att[c] \in {"check", "asleep"} /\ (done \/ generation # mine[c]))
             ~> att[c] \in {"exited", "takenover"}
    /\ (stop = "done") ~> \A c \in Clients : inp[c] \in {"none", "ended"}

\* Whoever asks for the broker gets through: an attach takes over from the
\* terminal there (the "my SSH dropped, reconnect" case) or is refused, and a
\* List, which waits for the broker with the registry locked, returns.
BrokerAnswers ==
    /\ \A c \in Clients : (att[c] = "wants") ~> (att[c] # "wants")
    /\ (list = "waiting") ~> (list = "idle")

=============================================================================
