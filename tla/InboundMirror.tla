--------------------------- MODULE InboundMirror ---------------------------
(***************************************************************************)
(* The inbound BIND mirror of one kennel: host-inetd accepts on the        *)
(* mirrored ports (kennel-host-delegate/src/inetd/listen.rs), kenneld's    *)
(* reader threads route each conduit (kenneld/src/inbound.rs), and         *)
(* facade-client registers a callback node per port and splices what is    *)
(* pushed to it (kennel-facade/src/bin/facade-client.rs).                  *)
(*                                                                         *)
(* Four parties interleave: the accept loops, one reader thread per port,  *)
(* the loopers that register nodes and handle their deaths, and a facade   *)
(* that init restarts.  A binder handle is a number in kenneld's table of  *)
(* references; the driver gives out the lowest free one.                   *)
(***************************************************************************)
EXTENDS Naturals, Sequences, FiniteSets

CONSTANTS
    NPorts,     \* mirrored ports, 1 .. NPorts, in the order of the facade's arguments
    Conduits,   \* host-side connections that can exist at the same time
    Loopers,    \* looper threads of the kennel's binder manager
    None,
    Cap,        \* MAX_ACTIVE_CONDUITS of one listener
    MaxStarts,  \* bound: starts of the facade
    Overlap,    \* a registration may still be handled when the facade is back
    CloneFails  \* splice's try_clone may fail

Ports == 1 .. NPorts
Handles == 1 .. NPorts * MaxStarts
Nodes == [port : Ports, gen : 1 .. MaxStarts]
Messages == [node : Nodes, payload : Ports, to : Ports \cup {0}]

ASSUME MirrorAssumption ==
    /\ {NPorts, Cap, MaxStarts} \subseteq Nat \ {0}
    /\ IsFiniteSet(Conduits) /\ None \notin Conduits \cup Handles \cup Nodes \cup Messages
    /\ Overlap \in BOOLEAN /\ CloneFails \in BOOLEAN

VARIABLES
    mirrors,    \* InboundRuntime.mirrors: port -> handle
    bounce,     \* InboundRuntime.bounce: the conduits queued per port
    chan,       \* each registration connection: conduits not yet received
    reader,     \* each reader thread: the conduit and the handle it has read
    at,         \* where the kennel end of each conduit is
    port,       \* the port it was accepted on
    dest,       \* the message it was pushed with and the port it was spliced to
    open,       \* its client has not closed
    splicing,   \* host-inetd's splice thread, counted in `active`
    inetd,      \* host-inetd is alive
    facade,     \* facade-client: incarnation, place, port to register next
    refs,       \* the driver: the node behind each handle kenneld refers to
    dead,       \* the driver: handles whose BR_DEAD_BINDER no looper has read
    looper      \* what each looper is doing

runtimeVars == <<mirrors, bounce>>
hostVars == <<chan, port, open, splicing, inetd>>
mirrorVars == <<runtimeVars, reader, at, dest, hostVars, facade, refs, dead, looper>>

Idle == [op |-> "idle", node |-> None, handle |-> None, fd |-> None]

MirrorTypeOK ==
    /\ mirrors \in [Ports -> Handles \cup {None}]
    /\ bounce \in [Ports -> Seq(Conduits)] /\ chan \in [Ports -> Seq(Conduits)]
    /\ reader \in [Ports -> [fd : Conduits \cup {None}, handle : Handles \cup {None}]]
    /\ at \in [Conduits -> {"closed", "channel", "reader", "bounced", "popped", "queued", "served"}]
    /\ port \in [Conduits -> Ports]
    /\ dest \in [Conduits -> {None} \cup Messages]
    /\ open \in [Conduits -> BOOLEAN] /\ splicing \in [Conduits -> BOOLEAN] /\ inetd \in BOOLEAN
    /\ facade \in [gen : 0 .. MaxStarts, next : 1 .. NPorts + 1,
                   at : {"down", "registering", "waiting", "exiting", "serving"}]
    /\ refs \in [Handles -> Nodes \cup {None}] /\ dead \subseteq Handles
    /\ looper \in [Loopers -> [op : {"idle", "acquire", "insert", "pop", "push", "reply",
                                     "dead", "release"},
                               node : Nodes \cup {None}, handle : Handles \cup {None},
                               fd : Conduits \cup {None}]]

MirrorInit ==
    /\ mirrors = [p \in Ports |-> None]
    /\ bounce = [p \in Ports |-> <<>>] /\ chan = [p \in Ports |-> <<>>]
    /\ reader = [p \in Ports |-> [fd |-> None, handle |-> None]]
    /\ at = [c \in Conduits |-> "closed"] /\ port = [c \in Conduits |-> 1]
    /\ dest = [c \in Conduits |-> None]
    /\ open = [c \in Conduits |-> FALSE] /\ splicing = [c \in Conduits |-> FALSE]
    /\ inetd = TRUE
    /\ facade = [gen |-> 0, next |-> 1, at |-> "down"]
    /\ refs = [h \in Handles |-> None] /\ dead = {}
    /\ looper = [l \in Loopers |-> Idle]

Alive(n) == n # None /\ facade.at # "down" /\ n.gen = facade.gen

----------------------------------------------------------------------------
(* host-inetd: handle_registration's accept loop and the splice threads.   *)

Active(p) == Cardinality({c \in Conduits : splicing[c] /\ port[c] = p})

\* An accept below the cap; at the cap the connection is dropped at once.
\* When splice cannot duplicate its sockets it returns with both closed.
Accept(p, c) ==
    /\ inetd
    /\ at[c] = "closed" /\ ~ splicing[c]
    /\ Active(p) < Cap
    /\ port' = [port EXCEPT ![c] = p]
    /\ at' = [at EXCEPT ![c] = "channel"]
    /\ chan' = [chan EXCEPT ![p] = Append(@, c)]
    /\ \E cloned \in {TRUE, ~ CloneFails} :
         /\ open' = [open EXCEPT ![c] = cloned]
         /\ splicing' = [splicing EXCEPT ![c] = cloned]
    /\ UNCHANGED <<runtimeVars, reader, dest, inetd, facade, refs, dead, looper>>

ClientCloses(c) ==
    /\ open[c]
    /\ open' = [open EXCEPT ![c] = FALSE]
    /\ UNCHANGED <<runtimeVars, reader, at, dest, chan, port, splicing, inetd, facade, refs, dead, looper>>

\* splice returns when both directions have ended: the client has closed and
\* nobody holds the kennel end any more.
SpliceEnds(c) ==
    /\ splicing[c] /\ ~ open[c]
    /\ at[c] = "closed"
    /\ splicing' = [splicing EXCEPT ![c] = FALSE]
    /\ UNCHANGED <<runtimeVars, reader, at, dest, chan, port, open, inetd, facade, refs, dead, looper>>

\* host-inetd dies; what it had sent can still be received.
DelegateDies ==
    /\ inetd
    /\ inetd' = FALSE
    /\ open' = [c \in Conduits |-> FALSE] /\ splicing' = [c \in Conduits |-> FALSE]
    /\ UNCHANGED <<runtimeVars, reader, at, dest, chan, port, facade, refs, dead, looper>>

----------------------------------------------------------------------------
(* kenneld: run_reader and InboundRuntime::deliver, one thread per port.   *)

\* transact_oneway_fd to handle h can succeed: the reference exists and its
\* node lives.  A full buffer may fail it all the same.
Deliverable(h) == h # None /\ Alive(refs[h])

\* recv_with_fds and the look-up of the port's handle; the lock is released
\* before the push.
ReaderReceives(p) ==
    /\ reader[p].fd = None
    /\ chan[p] # <<>>
    /\ reader' = [reader EXCEPT ![p] = [fd |-> Head(chan[p]), handle |-> mirrors[p]]]
    /\ at' = [at EXCEPT ![Head(chan[p])] = "reader"]
    /\ chan' = [chan EXCEPT ![p] = Tail(@)]
    /\ UNCHANGED <<runtimeVars, dest, port, open, splicing, inetd, facade, refs, dead, looper>>

\* push_conduit succeeds: the message carries the port.
ReaderPushes(p) ==
    /\ reader[p].fd # None
    /\ Deliverable(reader[p].handle)
    /\ at' = [at EXCEPT ![reader[p].fd] = "queued"]
    /\ dest' = [dest EXCEPT ![reader[p].fd] =
                    [node |-> refs[reader[p].handle], payload |-> p, to |-> 0]]
    /\ reader' = [reader EXCEPT ![p] = [fd |-> None, handle |-> None]]
    /\ UNCHANGED <<runtimeVars, hostVars, facade, refs, dead, looper>>

\* No node, or the push failed.
ReaderBounces(p) ==
    /\ reader[p].fd # None
    /\ at' = [at EXCEPT ![reader[p].fd] = "bounced"]
    /\ bounce' = [bounce EXCEPT ![p] = Append(@, reader[p].fd)]
    /\ reader' = [reader EXCEPT ![p] = [fd |-> None, handle |-> None]]
    /\ UNCHANGED <<mirrors, dest, hostVars, facade, refs, dead, looper>>

----------------------------------------------------------------------------
(* kenneld: register_mirror on a looper.                                   *)

Handling == {l \in Loopers : looper[l].op \in {"acquire", "insert", "pop", "push", "reply"}}

LowestFree == CHOOSE h \in Handles :
    refs[h] = None /\ \A g \in Handles : refs[g] = None => h <= g

\* The facade's REGISTER_MIRROR reaches a looper; the driver has translated
\* the node into a handle, which the transaction's buffer keeps.
RegisterMirror(l) ==
    /\ facade.at = "registering"
    /\ looper[l].op = "idle"
    /\ LET n == [port |-> facade.next, gen |-> facade.gen] IN
         /\ refs' = [refs EXCEPT ![LowestFree] = n]
         /\ looper' = [looper EXCEPT ![l] =
                         [op |-> "acquire", node |-> n, handle |-> LowestFree, fd |-> None]]
    /\ facade' = [facade EXCEPT !.at = "waiting"]
    /\ UNCHANGED <<runtimeVars, reader, at, dest, hostVars, dead>>

\* acquire_handle and request_death; the driver reports a node that is dead
\* already at once.
Acquire(l) ==
    /\ looper[l].op = "acquire"
    /\ dead' = IF Alive(looper[l].node) THEN dead ELSE dead \cup {looper[l].handle}
    /\ looper' = [looper EXCEPT ![l].op = "insert"]
    /\ UNCHANGED <<runtimeVars, reader, at, dest, hostVars, facade, refs>>

\* acquire_handle failed: BAD_REQUEST, and the reference goes with the buffer.
AcquireFails(l) ==
    /\ looper[l].op = "acquire"
    /\ refs' = [refs EXCEPT ![looper[l].handle] = None]
    /\ facade' = IF Alive(looper[l].node) THEN [facade EXCEPT !.at = "exiting"] ELSE facade
    /\ looper' = [looper EXCEPT ![l] = Idle]
    /\ UNCHANGED <<runtimeVars, reader, at, dest, hostVars, dead>>

\* InboundRuntime::register stores the handle ...
Insert(l) ==
    /\ looper[l].op = "insert"
    /\ mirrors' = [mirrors EXCEPT ![looper[l].node.port] = looper[l].handle]
    /\ looper' = [looper EXCEPT ![l].op = "pop"]
    /\ UNCHANGED <<bounce, reader, at, dest, hostVars, facade, refs, dead>>

\* ... and drains the bounce buffer, one conduit at a time,
PopBounce(l) ==
    /\ looper[l].op = "pop"
    /\ LET p == looper[l].node.port IN
         IF bounce[p] = <<>>
         THEN /\ looper' = [looper EXCEPT ![l].op = "reply"]
              /\ UNCHANGED <<bounce, at>>
         ELSE /\ looper' = [looper EXCEPT ![l].op = "push", ![l].fd = Head(bounce[p])]
              /\ at' = [at EXCEPT ![Head(bounce[p])] = "popped"]
              /\ bounce' = [bounce EXCEPT ![p] = Tail(@)]
    /\ UNCHANGED <<mirrors, reader, dest, hostVars, facade, refs, dead>>

PushPopped(l) ==
    /\ looper[l].op = "push"
    /\ Deliverable(looper[l].handle)
    /\ at' = [at EXCEPT ![looper[l].fd] = "queued"]
    /\ dest' = [dest EXCEPT ![looper[l].fd] = [node |-> refs[looper[l].handle],
                                               payload |-> looper[l].node.port, to |-> 0]]
    /\ looper' = [looper EXCEPT ![l].op = "pop", ![l].fd = None]
    /\ UNCHANGED <<runtimeVars, reader, hostVars, facade, refs, dead>>

\* until a push fails: that one is queued again and the drain stops.
Rebounce(l) ==
    /\ looper[l].op = "push"
    /\ at' = [at EXCEPT ![looper[l].fd] = "bounced"]
    /\ bounce' = [bounce EXCEPT ![looper[l].node.port] = Append(@, looper[l].fd)]
    /\ looper' = [looper EXCEPT ![l].op = "reply", ![l].fd = None]
    /\ UNCHANGED <<mirrors, reader, dest, hostVars, facade, refs, dead>>

\* status::OK; the facade registers its next port or starts to serve.
Reply(l) ==
    /\ looper[l].op = "reply"
    /\ facade' = IF ~ Alive(looper[l].node) THEN facade
                 ELSE [facade EXCEPT !.next = @ + 1,
                         !.at = IF facade.next = NPorts THEN "serving" ELSE "registering"]
    /\ looper' = [looper EXCEPT ![l] = Idle]
    /\ UNCHANGED <<runtimeVars, reader, at, dest, hostVars, refs, dead>>

----------------------------------------------------------------------------
(* kenneld: drop_dead on a looper.                                         *)

\* recv_batch returns BR_DEAD_BINDER with the handle as its cookie.
DeathNotice(l, h) ==
    /\ looper[l].op = "idle"
    /\ h \in dead
    /\ dead' = dead \ {h}
    /\ looper' = [looper EXCEPT ![l] = [Idle EXCEPT !.op = "dead", !.handle = h]]
    /\ UNCHANGED <<runtimeVars, reader, at, dest, hostVars, facade, refs>>

ForgetHandle(h) == [p \in Ports |-> IF mirrors[p] = h THEN None ELSE mirrors[p]]

\* Mutant: the handle is released before its ports are forgotten.
ReleaseThenForget(l) ==
    \/ /\ looper[l].op = "dead"
       /\ refs' = [refs EXCEPT ![looper[l].handle] = None]
       /\ looper' = [looper EXCEPT ![l].op = "release"]
       /\ UNCHANGED <<runtimeVars, reader, at, dest, hostVars, facade, dead>>
    \/ /\ looper[l].op = "release"
       /\ mirrors' = ForgetHandle(looper[l].handle)
       /\ looper' = [looper EXCEPT ![l] = Idle]
       /\ UNCHANGED <<bounce, reader, at, dest, hostVars, facade, refs, dead>>

\* forget_handle, then release_handle when a port was mapped to it; a handle
\* that another registration has replaced keeps its reference.
DropDead(l) ==
    \/ /\ looper[l].op = "dead"
       /\ mirrors' = ForgetHandle(looper[l].handle)
       /\ looper' = [looper EXCEPT ![l] =
                       IF mirrors' = mirrors THEN Idle ELSE [@ EXCEPT !.op = "release"]]
       /\ UNCHANGED <<bounce, reader, at, dest, hostVars, facade, refs, dead>>
    \/ /\ looper[l].op = "release"
       /\ refs' = [refs EXCEPT ![looper[l].handle] = None]
       /\ looper' = [looper EXCEPT ![l] = Idle]
       /\ UNCHANGED <<runtimeVars, reader, at, dest, hostVars, facade, dead>>

----------------------------------------------------------------------------
(* facade-client.                                                          *)

FacadeStarts ==
    /\ facade.at = "down"
    /\ facade.gen < MaxStarts
    /\ Overlap \/ Handling = {}
    /\ facade' = [gen |-> facade.gen + 1, next |-> 1, at |-> "registering"]
    /\ UNCHANGED <<runtimeVars, reader, at, dest, hostVars, refs, dead, looper>>

\* deliver reads the port from the message.
PortOfMessage(m) == m.payload

\* deliver_conduit connects to the workload, or drops the conduit.
FacadeDelivers(c) ==
    /\ at[c] = "queued"
    /\ facade.at = "serving"
    /\ \/ /\ at' = [at EXCEPT ![c] = "served"]
          /\ dest' = [dest EXCEPT ![c].to = PortOfMessage(dest[c])]
       \/ /\ at' = [at EXCEPT ![c] = "closed"]
          /\ dest' = [dest EXCEPT ![c] = None]
    /\ UNCHANGED <<runtimeVars, reader, hostVars, facade, refs, dead, looper>>

\* The facade's own splice ends.
FacadeCloses(c) ==
    /\ at[c] = "served" /\ ~ open[c]
    /\ at' = [at EXCEPT ![c] = "closed"]
    /\ dest' = [dest EXCEPT ![c] = None]
    /\ UNCHANGED <<runtimeVars, reader, hostVars, facade, refs, dead, looper>>

\* The kernel closes what it held and reports its nodes to who asked.
FacadeDies ==
    /\ facade.at # "down"
    /\ facade' = [facade EXCEPT !.at = "down"]
    /\ at' = [c \in Conduits |-> IF at[c] \in {"queued", "served"} THEN "closed" ELSE at[c]]
    /\ dest' = [c \in Conduits |-> None]
    /\ dead' = dead \cup {h \in Handles :
                            /\ Alive(refs[h])
                            /\ ~ \E l \in Loopers : looper[l].op = "acquire" /\ looper[l].handle = h}
    /\ UNCHANGED <<runtimeVars, reader, hostVars, refs, looper>>

----------------------------------------------------------------------------
Host == DelegateDies \/ \E c \in Conduits :
          \/ ClientCloses(c) \/ SpliceEnds(c)
          \/ \E p \in Ports : Accept(p, c)

Reader(p) == ReaderReceives(p) \/ ReaderPushes(p) \/ ReaderBounces(p)

Looper(l) ==
    \/ RegisterMirror(l) \/ Acquire(l) \/ AcquireFails(l) \/ Insert(l)
    \/ PopBounce(l) \/ PushPopped(l) \/ Rebounce(l) \/ Reply(l)
    \/ DropDead(l) \/ \E h \in Handles : DeathNotice(l, h)

FacadeClientStep ==
    \/ FacadeStarts \/ FacadeDies
    \/ \E c \in Conduits : FacadeDelivers(c) \/ FacadeCloses(c)

MirrorNext ==
    \/ Host
    \/ \E p \in Ports : Reader(p)
    \/ \E l \in Loopers : Looper(l)
    \/ FacadeClientStep

MirrorSpec == MirrorInit /\ [][MirrorNext]_mirrorVars

----------------------------------------------------------------------------
(* Properties.                                                             *)

\* A host-side connection is spliced to the port it was accepted on, even
\* when it is pushed through a handle that has meanwhile come to stand for
\* another port's node (deliver in inbound.rs and in facade-client.rs).
RightPort == \A c \in Conduits : at[c] = "served" => dest[c].to = port[c]

\* While a facade lives, each port whose registration it was told of is mapped
\* to its own node: no late death notice of an earlier incarnation, and no
\* reuse of its handles, takes the mapping away (drop_dead, register).
RegisteredStaysMapped ==
    facade.at # "down" =>
        \A p \in Ports : p < facade.next =>
            /\ mirrors[p] # None
            /\ refs[mirrors[p]] = [port |-> p, gen |-> facade.gen]

\* "this cap is what bounds it: we never push past the cap" (listen.rs): the
\* conduits on their way to or queued in kenneld's unbounded buffer never
\* outnumber what host-inetd splices, though it never asks kenneld.
BounceBounded == \A p \in Ports : Len(chan[p]) + Len(bounce[p]) <= Cap

\* The mirror as its three parties see it: the right port, a live
\* registration that is never lost, and a queue within the splicer's cap.
MirrorExact == RightPort /\ RegisteredStaysMapped /\ BounceBounded

\* "the bounce buffer, drained on the next register/push" (InboundRuntime):
\* after a push that succeeds nothing waits for that port.
DrainedOnPush ==
    [][\A p \in Ports : ReaderPushes(p) => bounce'[p] = <<>>]_mirrorVars
=============================================================================
