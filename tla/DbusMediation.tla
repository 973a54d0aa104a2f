--------------------------- MODULE DbusMediation ---------------------------
(***************************************************************************)
(* The data plane of the D-Bus broker: a workload's calls from facade-dbus *)
(* to the operator's bus and the answers back.  Per connection the facade  *)
(* has two threads (workload_to_binder and recv_loop); the broker serves   *)
(* every consumer from one thread; and per session, once its filter has    *)
(* been pulled, it starts a mediation thread, which owns the connection to *)
(* the real bus, and a reader thread, joined to the broker by a socketpair *)
(* whose broker end the session and the reader both hold.                  *)
(*                                                                         *)
(* Connecting a session and pulling a policy are MeshBus's subject; here   *)
(* they are one step each.  A DBUS_RECV that finds nothing is answered     *)
(* AGAIN and sent again, which changes nothing and is not a step.  A name  *)
(* is a sequence of labels.                                                *)
(***************************************************************************)
EXTENDS Naturals, Sequences, FiniteSets, SequencesExt, Functions

CONSTANTS
    Sessions,       \* the connections of workloads to their facade
    Calls,          \* what each workload may call: sets of [dest, method]
    Hello,          \* the bootstrap call
    Signals,        \* the interfaces the bus emits signals of
    REFUSE_TO_BROKER,
    Rules,          \* kenneld's filter for each session: [talk, call, broadcast, deny]
    BigEndian,      \* the calls whose body, either way, is big-endian
    Silent,         \* the sessions whose bus accepts and never speaks
    BusDrops,       \* whether the bus may close a connection
    NCalls,         \* bound: calls of each session
    MaxSignals,     \* bound: signals to each session
    SockCap,        \* frames the socketpair holds towards the mediation
    HighWater,      \* frames towards the reader above which the bus is not read
    MaxSerial,      \* u32::MAX
    None

ASSUME DbusAssumption ==
    /\ {SockCap, HighWater, MaxSerial} \subseteq Nat \ {0} /\ MaxSerial > 1
    /\ {NCalls, MaxSignals} \subseteq [Sessions -> Nat] /\ Silent \subseteq Sessions
    /\ BusDrops \in BOOLEAN /\ None \notin {"pull", "write"} \X Sessions
    \* Fewer calls than serials: no serial is taken while it is in use.
    /\ \A s \in Sessions : NCalls[s] < MaxSerial

VARIABLES
    wl,         \* workload_to_binder: "off", "read", "send", "close", "join" or "done"
    rl,         \* recv_loop: "off", "recv" or "done"
    issued,     \* the workload's calls, numbered by their serial
    got,        \* the answers the workload has had on its connection
    sess,       \* the broker's session: "none", "minted", "open" or "gone"
    broker,     \* what the broker's thread is blocked in
    conduit,    \* the socketpair towards the mediation: serials
    med,        \* the mediation: "none", "connect", "run" or "ended"
    pending,    \* Delegate::pending: bus serial -> kennel serial
    next,       \* next_bus_serial
    onBus,      \* what the bus has still to answer: [serial, of]
    back,       \* conduit_out and the socketpair towards the reader
    rd,         \* the reader: "none", "run" or "ended"
    inbound,    \* the queue DBUS_RECV is served from
    signalled   \* signals emitted so far

facadeVars == <<wl, rl, issued, got>>
brokerVars == <<sess, broker>>
medVars == <<med, pending, next, onBus, signalled>>
dbusVars == <<facadeVars, brokerVars, conduit, medVars, back, rd, inbound>>

Serials(s) == 1 .. Len(issued[s])
AnswerFrames == [kind : {"reply", "denied"}, serial : Nat, of : Nat]
SignalFrames == [kind : {"signal"}, of : Signals]

DbusTypeOK ==
    /\ wl \in [Sessions -> {"off", "read", "send", "close", "join", "done"}]
    /\ rl \in [Sessions -> {"off", "recv", "done"}]
    /\ \A s \in Sessions :
        /\ issued[s] \in Seq(Calls[s]) /\ Len(issued[s]) <= NCalls[s]
        /\ got[s] \subseteq AnswerFrames
        /\ Range(back[s]) \cup Range(inbound[s]) \subseteq AnswerFrames \cup SignalFrames
        /\ \A k \in Range(conduit[s]) : k \in Serials(s)
        /\ Range(pending[s]) \subseteq Serials(s)
    /\ sess \in [Sessions -> {"none", "minted", "open", "gone"}]
    /\ broker \in {None} \cup ({"pull", "write"} \X Sessions)
    /\ med \in [Sessions -> {"none", "connect", "run", "ended"}]
    /\ rd \in [Sessions -> {"none", "run", "ended"}]
    /\ next \in [Sessions -> 2 .. MaxSerial]
    /\ \A s \in Sessions : signalled[s] \in 0 .. MaxSignals[s]

DbusInit ==
    /\ wl = [s \in Sessions |-> "off"] /\ rl = wl
    /\ issued = [s \in Sessions |-> <<>>] /\ got = [s \in Sessions |-> {}]
    /\ sess = [s \in Sessions |-> "none"] /\ broker = None
    /\ conduit = [s \in Sessions |-> <<>>] /\ back = conduit /\ inbound = conduit
    /\ med = [s \in Sessions |-> "none"] /\ rd = med
    /\ pending = [s \in Sessions |-> <<>>]
    /\ next = [s \in Sessions |-> 2]
    /\ onBus = [s \in Sessions |-> {}] /\ signalled = [s \in Sessions |-> 0]

----------------------------------------------------------------------------
(* The filter.                                                             *)

\* A pattern is [labels, star]: the name itself, or it and what is under it.
pattern_admits(p, name) ==
    IF p.star THEN IsPrefix(p.labels, name) ELSE p.labels = name

is_refused(name) == \E r \in REFUSE_TO_BROKER : IsPrefix(r, name)

call_admits(rules, c) ==
    \E e \in rules.call : pattern_admits(e.dest, c.dest) /\ pattern_admits(e.method, c.method)

\* Filter::decide.  A facade names the bus of its own session only, whose
\* rules are the ones the filter has.
decide(rules, c) ==
    /\ ~is_refused(c.dest)
    /\ ~\E p \in rules.deny : pattern_admits(p, c.dest)
    /\ \/ \E p \in rules.talk : pattern_admits(p, c.dest)
       \/ call_admits(rules, c)

signal_allowed(rules, interface) ==
    \E p \in rules.broadcast \cup rules.talk : pattern_admits(p, interface)

----------------------------------------------------------------------------
(* The facade.                                                             *)

Reply(k, of) == [kind |-> "reply", serial |-> k, of |-> of]
Denied(k) == [kind |-> "denied", serial |-> k, of |-> k]

\* NEW_SESSION through kenneld: the node is minted, or the reply that carries
\* it fails and the facade gives up.
NewSession(s) ==
    /\ wl[s] = "off" /\ broker = None
    /\ \/ /\ sess' = [sess EXCEPT ![s] = "minted"]
          /\ wl' = [wl EXCEPT ![s] = "read"] /\ rl' = [rl EXCEPT ![s] = "recv"]
       \/ /\ wl' = [wl EXCEPT ![s] = "done"] /\ rl' = [rl EXCEPT ![s] = "done"]
          /\ UNCHANGED sess
    /\ UNCHANGED <<issued, got, broker, conduit, medVars, back, rd, inbound>>

\* handle_message: Hello and the refused destinations are answered here.
WorkloadCalls(s, c) ==
    LET k == Len(issued[s]) + 1
    IN /\ wl[s] = "read" /\ k <= NCalls[s]
       /\ issued' = [issued EXCEPT ![s] = Append(@, c)]
       /\ \/ c = Hello /\ got' = [got EXCEPT ![s] = @ \cup {Reply(k, k)}] /\ UNCHANGED wl
          \/ /\ c # Hello /\ is_refused(c.dest)
             /\ got' = [got EXCEPT ![s] = @ \cup {Denied(k)}] /\ UNCHANGED wl
          \/ /\ c # Hello /\ ~is_refused(c.dest)
             /\ wl' = [wl EXCEPT ![s] = "send"] /\ UNCHANGED got
       /\ UNCHANGED <<rl, brokerVars, conduit, medVars, back, rd, inbound>>

\* The workload closes its socket, or what it wrote does not decode.
WorkloadEnds(s) ==
    /\ wl[s] = "read"
    /\ wl' = [wl EXCEPT ![s] = "close"]
    /\ UNCHANGED <<rl, issued, got, brokerVars, conduit, medVars, back, rd, inbound>>

\* mediate_brokered joins recv_loop and drops the workload's connection.
FacadeJoins(s) ==
    /\ wl[s] = "join" /\ rl[s] = "done"
    /\ wl' = [wl EXCEPT ![s] = "done"] /\ got' = [got EXCEPT ![s] = {}]
    /\ UNCHANGED <<rl, issued, brokerVars, conduit, medVars, back, rd, inbound>>

\* The consumer's kennel exits with whatever was under way.
KennelDies(s) ==
    /\ wl[s] \notin {"off", "done"}
    /\ wl' = [wl EXCEPT ![s] = "done"] /\ rl' = [rl EXCEPT ![s] = "done"]
    /\ got' = [got EXCEPT ![s] = {}]
    /\ UNCHANGED <<issued, brokerVars, conduit, medVars, back, rd, inbound>>

----------------------------------------------------------------------------
(* The broker's thread.                                                    *)

\* The reply to a DBUS_SEND: OK goes on reading, anything else closes.
Sent(s, pc) == wl' = [wl EXCEPT ![s] = IF @ = "send" THEN pc ELSE @]

\* sessions.remove: the queue has no reader any more.
DropSession(s) ==
    /\ sess' = [sess EXCEPT ![s] = "gone"]
    /\ inbound' = [inbound EXCEPT ![s] = <<>>]

\* write_all returns once the frame fits; it fails when the mediation's end
\* is closed, and the session is dropped.
Fits(s) == med[s] = "ended" \/ Len(conduit[s]) < SockCap

WriteAll(s) ==
    \/ /\ med[s] # "ended"
       /\ conduit' = [conduit EXCEPT ![s] = Append(@, Len(issued[s]))]
       /\ Sent(s, "read") /\ UNCHANGED <<sess, inbound>>
    \/ /\ med[s] = "ended" /\ DropSession(s)
       /\ Sent(s, "close") /\ UNCHANGED conduit

HandleSend(s) ==
    /\ broker = None /\ wl[s] = "send"
    /\ \/ /\ sess[s] = "minted" /\ broker' = <<"pull", s>>
          /\ UNCHANGED <<wl, sess, conduit, inbound>>
       \/ /\ sess[s] = "open" /\ ~Fits(s) /\ broker' = <<"write", s>>
          /\ UNCHANGED <<wl, sess, conduit, inbound>>
       \/ sess[s] = "open" /\ Fits(s) /\ WriteAll(s) /\ UNCHANGED broker
       \/ /\ sess[s] \in {"none", "gone"} /\ Sent(s, "close")
          /\ UNCHANGED <<broker, sess, conduit, inbound>>
    /\ UNCHANGED <<rl, issued, got, medVars, back, rd>>

WriteUnblocked(s) ==
    /\ broker = <<"write", s>> /\ Fits(s)
    /\ WriteAll(s) /\ broker' = None
    /\ UNCHANGED <<rl, issued, got, medVars, back, rd>>

\* ensure_conduit: with the policy the two threads start and the first frame
\* is written; a refusal, or a failure, leaves the session as it was.
EnsureConduit(s) ==
    /\ broker = <<"pull", s>> /\ broker' = None
    /\ \/ /\ sess' = [sess EXCEPT ![s] = "open"]
          /\ med' = [med EXCEPT ![s] = "connect"] /\ rd' = [rd EXCEPT ![s] = "run"]
          /\ conduit' = [conduit EXCEPT ![s] = <<Len(issued[s])>>]
          /\ Sent(s, "read")
       \/ Sent(s, "close") /\ UNCHANGED <<sess, med, rd, conduit>>
    /\ UNCHANGED <<rl, issued, got, pending, next, onBus, signalled, back, inbound>>

\* DBUS_RECV and what recv_loop does with the answer: a frame it cannot
\* reconstruct, or cannot write to the workload, ends it.
HandleRecv(s) ==
    /\ broker = None /\ rl[s] = "recv"
    /\ \/ /\ sess[s] \in {"none", "gone"}
          /\ rl' = [rl EXCEPT ![s] = "done"] /\ UNCHANGED <<got, inbound>>
       \/ /\ sess[s] = "open" /\ inbound[s] # <<>>
          /\ LET f == Head(inbound[s])
                 undeliverable == f.kind = "reply" /\ issued[s][f.serial] \in BigEndian
             IN \/ /\ ~undeliverable
                   /\ got' = [got EXCEPT ![s] = @ \cup ({f} \ SignalFrames)] /\ UNCHANGED rl
                \/ /\ undeliverable \/ wl[s] = "close"
                   /\ rl' = [rl EXCEPT ![s] = "done"] /\ UNCHANGED got
          /\ inbound' = [inbound EXCEPT ![s] = Tail(@)]
    /\ UNCHANGED <<wl, issued, brokerVars, conduit, medVars, back, rd>>

\* DBUS_CLOSE.
HandleClose(s) ==
    /\ broker = None /\ wl[s] = "close"
    /\ DropSession(s)
    /\ wl' = [wl EXCEPT ![s] = "join"]
    /\ UNCHANGED <<rl, issued, got, broker, conduit, medVars, back, rd>>

\* Br::Release, once the facade's connection is gone.
Release(s) ==
    /\ broker = None /\ wl[s] = "done" /\ sess[s] \in {"minted", "open"}
    /\ DropSession(s)
    /\ UNCHANGED <<facadeVars, broker, conduit, medVars, back, rd>>

----------------------------------------------------------------------------
(* The mediation and the reader.                                           *)

\* connect, the handshake and Hello, which has serial 1; either may fail.
MedConnect(s) ==
    /\ med[s] = "connect" /\ s \notin Silent
    /\ \/ /\ med' = [med EXCEPT ![s] = "run"]
          /\ onBus' = [onBus EXCEPT ![s] = {[serial |-> 1, of |-> 0]}]
          /\ UNCHANGED conduit
       \/ /\ med' = [med EXCEPT ![s] = "ended"]
          /\ conduit' = [conduit EXCEPT ![s] = <<>>] /\ UNCHANGED onBus
    /\ UNCHANGED <<facadeVars, brokerVars, pending, next, signalled, back, rd, inbound>>

take_bus_serial(n) == IF n = MaxSerial THEN 2 ELSE n + 1

\* Mutant: a refused call is only dropped.
RefuseSilently(s, k) == UNCHANGED back

\* The AccessDenied a refused call is answered with.
Refuse(s, k) == back' = [back EXCEPT ![s] = Append(@, Denied(k))]

\* read_conduit and Delegate::on_conduit_call: an approved call that cannot be
\* encoded has used its serial and is dropped.
ReadConduit(s) ==
    LET k == Head(conduit[s])
        c == issued[s][k]
    IN /\ med[s] = "run" /\ conduit[s] # <<>>
       /\ conduit' = [conduit EXCEPT ![s] = Tail(@)]
       /\ \/ /\ ~decide(Rules[s], c)
             /\ Refuse(s, k) /\ UNCHANGED <<pending, next, onBus>>
          \/ /\ decide(Rules[s], c)
             /\ next' = [next EXCEPT ![s] = take_bus_serial(@)]
             /\ IF c \in BigEndian
                THEN UNCHANGED <<pending, onBus>>
                ELSE /\ pending' = [pending EXCEPT ![s] =
                            [n \in DOMAIN @ \cup {next[s]} |-> IF n = next[s] THEN k ELSE @[n]]]
                     /\ onBus' = [onBus EXCEPT ![s] = @ \cup {[serial |-> next[s], of |-> k]}]
             /\ UNCHANGED back
       /\ UNCHANGED <<facadeVars, brokerVars, med, signalled, rd, inbound>>

\* Mutant: answers are matched to calls in the order of the calls.
InFlightFirst(s, n) == IF DOMAIN pending[s] = {} THEN {} ELSE {Min(DOMAIN pending[s])}

\* Delegate::on_bus_reply: the call in flight that n answers, if there is one.
InFlight(s, n) == {n} \cap DOMAIN pending[s]

\* The bus answers in any order; read_bus forwards what answers a call in
\* flight and drops the rest, the answer to Hello with them.
BusReplies(s, n) ==
    /\ med[s] = "run" /\ Len(back[s]) < HighWater
    /\ n \in {m.serial : m \in onBus[s]}
    /\ LET of == (CHOOSE m \in onBus[s] : m.serial = n).of
           frames == [i \in 1 .. Cardinality(InFlight(s, n)) |->
                        Reply(pending[s][CHOOSE p \in InFlight(s, n) : TRUE], of)]
       IN back' = [back EXCEPT ![s] = @ \o frames]
    /\ pending' = [pending EXCEPT ![s] = Restrict(@, DOMAIN @ \ InFlight(s, n))]
    /\ onBus' = [onBus EXCEPT ![s] = {m \in @ : m.serial # n}]
    /\ UNCHANGED <<facadeVars, brokerVars, conduit, med, next, signalled, rd, inbound>>

\* Delegate::on_bus_signal.
BusSignals(s, interface) ==
    /\ med[s] = "run" /\ Len(back[s]) < HighWater /\ signalled[s] < MaxSignals[s]
    /\ signalled' = [signalled EXCEPT ![s] = @ + 1]
    /\ back' = IF signal_allowed(Rules[s], interface)
               THEN [back EXCEPT ![s] = Append(@, [kind |-> "signal", of |-> interface])]
               ELSE back
    /\ UNCHANGED <<facadeVars, brokerVars, conduit, med, pending, next, onBus, rd, inbound>>

\* The broker's end of the socketpair is closed when the session is dropped
\* and the reader's clone of it is.
ConduitClosed(s) == sess[s] = "gone" /\ rd[s] = "ended"

\* Loop::run returns when either side closes; what it had not written to the
\* socketpair is lost.
MedEnds(s) ==
    /\ med[s] = "run" /\ (BusDrops \/ ConduitClosed(s))
    /\ med' = [med EXCEPT ![s] = "ended"]
    /\ onBus' = [onBus EXCEPT ![s] = {}]
    /\ conduit' = [conduit EXCEPT ![s] = <<>>]
    /\ \E n \in 0 .. Len(back[s]) : back' = [back EXCEPT ![s] = SubSeq(@, 1, n)]
    /\ pending' = [pending EXCEPT ![s] = <<>>] /\ next' = [next EXCEPT ![s] = 2]
    /\ UNCHANGED <<facadeVars, brokerVars, signalled, rd, inbound>>

\* drain_inbound: it goes on filling a queue nobody reads, and ends when the
\* mediation's end is closed.
ReaderTakes(s) ==
    /\ rd[s] = "run" /\ back[s] # <<>>
    /\ inbound' = IF sess[s] = "gone" THEN inbound
                  ELSE [inbound EXCEPT ![s] = Append(@, Head(back[s]))]
    /\ back' = [back EXCEPT ![s] = Tail(@)]
    /\ UNCHANGED <<facadeVars, brokerVars, conduit, medVars, rd>>

ReaderEnds(s) ==
    /\ rd[s] = "run" /\ med[s] = "ended" /\ back[s] = <<>>
    /\ rd' = [rd EXCEPT ![s] = "ended"]
    /\ UNCHANGED <<facadeVars, brokerVars, conduit, medVars, back, inbound>>

----------------------------------------------------------------------------
DbusNext ==
    \E s \in Sessions :
        \/ NewSession(s) \/ WorkloadEnds(s) \/ FacadeJoins(s) \/ KennelDies(s)
        \/ \E c \in Calls[s] : WorkloadCalls(s, c)
        \/ HandleSend(s) \/ EnsureConduit(s) \/ WriteUnblocked(s)
        \/ HandleRecv(s) \/ HandleClose(s) \/ Release(s)
        \/ MedConnect(s) \/ ReadConduit(s) \/ MedEnds(s)
        \/ \E n \in 1 .. MaxSerial : BusReplies(s, n)
        \/ \E i \in Signals : BusSignals(s, i)
        \/ ReaderTakes(s) \/ ReaderEnds(s)

\* Every thread is scheduled; the driver queues the broker's transactions in
\* order; the bus answers every call it accepted.  A behaviour makes finitely
\* many calls, so the broker is busy with another session finitely often and
\* weak fairness is enough.
DbusFairness ==
    \A s \in Sessions :
        /\ WF_dbusVars(HandleSend(s)) /\ WF_dbusVars(HandleRecv(s))
        /\ WF_dbusVars(HandleClose(s)) /\ WF_dbusVars(Release(s))
        /\ WF_dbusVars(EnsureConduit(s) \/ WriteUnblocked(s))
        /\ WF_dbusVars(FacadeJoins(s))
        /\ WF_dbusVars(MedConnect(s) \/ ReadConduit(s) \/ (ConduitClosed(s) /\ MedEnds(s)))
        /\ \A n \in 1 .. MaxSerial : WF_dbusVars(BusReplies(s, n))
        /\ WF_dbusVars(ReaderTakes(s) \/ ReaderEnds(s))

DbusSpec == DbusInit /\ [][DbusNext]_dbusVars /\ DbusFairness

----------------------------------------------------------------------------
(* Properties.                                                             *)

\* The frames of session s on their way to its workload.
OnTheWay(s) == back[s] \o inbound[s]

Answered(s, k) == \E f \in got[s] : f.serial = k

\* Every answer a workload gets, or is going to get, is the answer to its own
\* call of that serial, whatever order the bus answered in; only calls the
\* session's filter allows are on the bus, only those it does not are refused,
\* only allowed signals are forwarded; and no call has two answers under way
\* (kennel-lib-dbus delegate.rs, the pairing of the two serial namespaces).
RepliesMatched ==
    \A s \in Sessions :
        LET frames == OnTheWay(s)
        IN /\ \A f \in got[s] \cup Range(frames) :
                /\ f.kind = "reply" =>
                    f.of = f.serial /\ (issued[s][f.serial] # Hello => decide(Rules[s], issued[s][f.serial]))
                /\ f.kind = "denied" => ~decide(Rules[s], issued[s][f.serial])
                /\ f.kind = "signal" => signal_allowed(Rules[s], f.of)
           /\ \A m \in onBus[s] : m.of # 0 => decide(Rules[s], issued[s][m.of])
           /\ \A k \in Serials(s) :
                Cardinality({i \in DOMAIN frames : frames[i].kind # "signal" /\ frames[i].serial = k})
                + Cardinality({n \in DOMAIN pending[s] : pending[s][n] = k})
                + Cardinality({i \in DOMAIN conduit[s] : conduit[s][i] = k})
                + (IF Answered(s, k) THEN 1 ELSE 0) <= 1

\* Every call is answered, or the workload's connection is closed, or the
\* session's connection to the bus has ended.
CallsAnswered ==
    \A s \in Sessions \ Silent : \A k \in 1 .. NCalls[s] :
        Len(issued[s]) >= k ~> (Answered(s, k) \/ wl[s] = "done" \/ med[s] = "ended")

\* The documentation of Broker::release: dropping the session ends the
\* mediation and its reader thread.
ThreadsEnd ==
    \A s \in Sessions : sess[s] = "gone" ~> (med[s] \in {"none", "ended"} /\ rd[s] \in {"none", "ended"})

=============================================================================
