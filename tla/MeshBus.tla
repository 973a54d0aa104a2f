------------------------------- MODULE MeshBus ------------------------------
(***************************************************************************)
(* One mesh bus of the mediation kind: a binderfs shared by the D-Bus      *)
(* broker's kennel and its consumers' kennels, node 0 served by kenneld's  *)
(* looper pool.  Kennels take part by a reference count under the          *)
(* mesh_buses lock; the last one out tears the bus down with that lock     *)
(* held.  A consumer's SVC_CONNECT makes a looper call the broker (a       *)
(* nested NEW_SESSION); the broker mints a session keyed by a node cookie  *)
(* and, on the session's first frame, calls node 0 back for the policy of  *)
(* the consumer's context (GET_SESSION_POLICY).                            *)
(*                                                                         *)
(* Each consumer connects once and at most one bus is made (bounds).  The  *)
(* broker process is one thread; its inbox is the driver's queue.          *)
(***************************************************************************)
EXTENDS LooperPool

CONSTANTS
    Consumers,      \* consumer kennels
    NoOne,
    Ctxs,           \* context numbers, reused lowest-first elsewhere
    NoCtx,
    CloneMayFail,   \* the holder may fail to clone the mount
    BrokerMayDie,   \* the broker process may end
    Sends           \* bound: frames the consumers send

ASSUME MeshAssumption ==
    /\ IsFiniteSet(Consumers) /\ {NoOne, "broker"} \cap Consumers = {} /\ NoCtx \notin Ctxs
    /\ CloneMayFail \in BOOLEAN /\ BrokerMayDie \in BOOLEAN
    /\ Sends \in Nat

VARIABLES
    refcount,   \* MeshBus.refcount
    busy,       \* who holds the mesh_buses lock across steps: a kennel or NoOne
    kst,        \* kennels: the consumers'
    bst,        \* the broker's kennel
    ctxOf,      \* the context a consumer runs under
    leaks,      \* participants counted whose clone failed (history)
    watched,    \* kenneld asked for the control node's death notice
    control,    \* handle_map holds the broker's control node
    sess,       \* the broker's sessions: the context each was minted for
    conduit,    \* whose policy a session's mediation applies
    inbox,      \* transactions the broker has not read
    pulling,    \* the session whose policy the broker is waiting for
    sent        \* frames sent

meshVars == <<refcount, busy, kst, bst, ctxOf, leaks, watched, control,
              sess, conduit, inbox, pulling, sent>>
vars == <<poolVars, meshVars>>

Broker == "broker"      \* the broker's kennel, as a participant
Alive == {"in", "asking", "node", "refused"}

TypeOK ==
    /\ PoolTypeOK
    /\ refcount \in Nat
    /\ busy \in Consumers \cup {NoOne, Broker}
    /\ kst \in [Consumers -> Alive \cup {"out", "meshless", "dead", "released"}]
    /\ bst \in {"out", "adding", "idle", "pulling", "dead", "released"}
    /\ ctxOf \in [Consumers -> Ctxs \cup {NoCtx}]
    /\ leaks \in Nat
    /\ watched \in BOOLEAN /\ control \in BOOLEAN
    /\ sess \in [Consumers -> Ctxs \cup {NoCtx}]
    /\ conduit \in [Consumers -> Consumers \cup {NoOne}]
    /\ inbox \in Seq({"new", "send"} \X Consumers)
    /\ pulling \in Consumers \cup {NoOne}
    /\ sent \in 0 .. Sends

Init ==
    /\ NoPool
    /\ refcount = 0 /\ busy = NoOne /\ leaks = 0
    /\ kst = [c \in Consumers |-> "out"]
    /\ bst = "out"
    /\ ctxOf = [c \in Consumers |-> NoCtx]
    /\ watched = FALSE /\ control = FALSE
    /\ sess = [c \in Consumers |-> NoCtx]
    /\ conduit = [c \in Consumers |-> NoOne]
    /\ inbox = <<>> /\ pulling = NoOne
    /\ sent = 0

brokerVars == <<sess, conduit, inbox, pulling>>
mapVars == <<watched, control>>

-----------------------------------------------------------------------------
(* Participants (kenneld, under the mesh_buses lock)                       *)

\* Mutant: only the kennel that makes the bus is counted.
EnsureFirst ==
    /\ busy = NoOne
    /\ \/ /\ owner = "serving"
          /\ UNCHANGED <<looperVars, live, ownerVars, requested, started, refcount>>
       \/ /\ ServePool
          /\ refcount' = refcount + 1

\* ensure_mesh_bus: find the bus or make it (holder, node 0, pool), then count
\* the participant.
Ensure ==
    /\ busy = NoOne
    /\ \/ /\ owner = "serving"
          /\ UNCHANGED <<looperVars, live, ownerVars, requested, started>>
       \/ ServePool
    /\ refcount' = refcount + 1

\* The clone comes after the count and an error returns without giving it back.
\* The kennel then runs without the mount and its guard has nothing to release.
Counted(ok) == leaks' = leaks + (IF ok THEN 0 ELSE 1)

ConsumerStarts(c) ==
    /\ kst[c] = "out"
    /\ Ensure
    /\ \E x \in Ctxs \ {ctxOf[d] : d \in Consumers} :
         ctxOf' = [ctxOf EXCEPT ![c] = x]
    /\ \E ok \in {TRUE, ~CloneMayFail} :
         /\ Counted(ok)
         /\ kst' = [kst EXCEPT ![c] = IF ok THEN "in" ELSE "meshless"]
    /\ UNCHANGED <<queue, busy, bst, mapVars, brokerVars, sent>>

\* The broker's kennel comes up; the broker registers its control node first.
BrokerStarts ==
    /\ bst = "out"
    /\ Ensure
    /\ bst' = "adding"
    /\ queue' = Append(queue, <<"add", NoOne>>)
    /\ UNCHANGED <<busy, kst, ctxOf, leaks, mapVars, brokerVars, sent>>

\* run_kennel ends: the processes are gone, the context is given back ...
ConsumerExits(c) ==
    /\ kst[c] \in Alive \cup {"meshless"}
    /\ kst' = [kst EXCEPT ![c] = IF kst[c] = "meshless" THEN "released" ELSE "dead"]
    /\ ctxOf' = [ctxOf EXCEPT ![c] = NoCtx]
    /\ UNCHANGED <<poolVars, refcount, busy, bst, leaks, mapVars, brokerVars, sent>>

\* ... and MeshBusGuard drops last: release_mesh_bus, the last one out starts
\* the teardown and keeps the mesh_buses lock until it returns.
LeaveBus(p) ==
    /\ busy = NoOne
    /\ refcount' = refcount - 1
    /\ IF refcount = 1
          THEN /\ SetStop
               /\ busy' = p
          ELSE UNCHANGED <<poolVars, busy>>

ConsumerReleases(c) ==
    /\ kst[c] = "dead"
    /\ LeaveBus(c)
    /\ kst' = [kst EXCEPT ![c] = "released"]
    /\ UNCHANGED <<bst, ctxOf, leaks, mapVars, brokerVars, sent>>

BrokerReleases ==
    /\ bst = "dead"
    /\ LeaveBus(Broker)
    /\ bst' = "released"
    /\ UNCHANGED <<kst, ctxOf, leaks, mapVars, brokerVars, sent>>

\* Teardown returns (the holder is killed and reaped) and the lock is released.
TeardownStep ==
    \/ /\ TakeHandles
       /\ UNCHANGED meshVars
    \/ /\ Joined
       /\ busy' = NoOne
       /\ UNCHANGED <<refcount, kst, bst, ctxOf, leaks, mapVars, brokerVars, sent>>

-----------------------------------------------------------------------------
(* Consumers and the broker's death                                        *)

Connect(c) ==
    /\ kst[c] = "in"
    /\ kst' = [kst EXCEPT ![c] = "asking"]
    /\ queue' = Append(queue, <<"connect", c>>)
    /\ UNCHANGED <<looperVars, live, ownerVars, requested, started,
                   refcount, busy, bst, ctxOf, leaks, mapVars, brokerVars, sent>>

\* A one-way DBUS_SEND to the session node.
Send(c) ==
    /\ kst[c] = "node" /\ sent < Sends /\ bst \in {"idle", "pulling"}
    /\ sent' = sent + 1
    /\ inbox' = Append(inbox, <<"send", c>>)
    /\ UNCHANGED <<poolVars, refcount, busy, kst, bst, ctxOf, leaks, mapVars,
                   sess, conduit, pulling>>

\* The broker's process ends with its sessions and its inbox; a looper that
\* waits for it gets BR_DEAD_REPLY (see Answered); a watched node is reported.
BrokerDies ==
    /\ BrokerMayDie
    /\ bst \in {"adding", "idle", "pulling"}
    /\ bst' = "dead"
    /\ queue' = IF watched THEN Append(queue, <<"dead", NoOne>>) ELSE queue
    /\ sess' = [c \in Consumers |-> NoCtx]
    /\ conduit' = [c \in Consumers |-> NoOne]
    /\ inbox' = <<>> /\ pulling' = NoOne
    /\ UNCHANGED <<looperVars, live, ownerVars, requested, started,
                   refcount, busy, kst, ctxOf, leaks, mapVars, sent>>

-----------------------------------------------------------------------------
(* Node 0: mesh_handle on a looper                                         *)

Handling(t, kind) == pc[t] = "handle" /\ tx[t][1] = kind

\* mesh_add_service: acquire the node and ask for its death notice, which comes
\* at once when it is already dead ...
AddWatch(t) ==
    /\ Handling(t, "add")
    /\ watched' = TRUE
    /\ queue' = IF bst = "dead" THEN Append(queue, <<"dead", NoOne>>) ELSE queue
    /\ pc' = [pc EXCEPT ![t] = "insert"]
    /\ UNCHANGED <<tx, asked, child, live, ownerVars, requested, started,
                   refcount, busy, kst, bst, ctxOf, leaks, control, brokerVars, sent>>

\* ... and only then insert it under the handles lock, and reply.
AddInsert(t) ==
    /\ pc[t] = "insert"
    /\ control' = TRUE
    /\ bst' = IF bst = "adding" THEN "idle" ELSE bst
    /\ Reply(t)
    /\ UNCHANGED <<ownerVars, driverVars, refcount, busy, kst, ctxOf, leaks,
                   watched, brokerVars, sent>>

\* The death handler: every name under this handle is forgotten.
Death(t) ==
    /\ Handling(t, "dead")
    /\ control' = FALSE
    /\ Reply(t)
    /\ UNCHANGED <<ownerVars, driverVars, refcount, busy, kst, bst, ctxOf,
                   leaks, watched, brokerVars, sent>>

\* The consumer learns the outcome of its SVC_CONNECT, if it still exists.
Told(c, outcome) ==
    kst' = [kst EXCEPT ![c] = IF @ = "asking" THEN outcome ELSE @]

\* mesh_new_session: no cgroup to attribute the caller to, or no control node.
Refuse(t) ==
    /\ Handling(t, "connect")
    /\ LET c == tx[t][2] IN
         /\ ctxOf[c] = NoCtx \/ ~control
         /\ Told(c, "refused")
    /\ Reply(t)
    /\ UNCHANGED <<ownerVars, driverVars, refcount, busy, bst, ctxOf, leaks,
                   mapVars, brokerVars, sent>>

\* mesh_new_session: the nested call, under the context read from the caller's
\* cgroup.  transact_handle ignores everything but its reply, so a request for
\* a looper that ends this read is lost.
NewSession(t) ==
    /\ Handling(t, "connect")
    /\ LET c == tx[t][2] IN
         /\ ctxOf[c] # NoCtx /\ control
         /\ inbox' = IF bst \in {"idle", "pulling"} THEN Append(inbox, <<"new", c>>)
                                                    ELSE inbox
         /\ tx' = [tx EXCEPT ![t] = <<"connect", c, ctxOf[c]>>]
    /\ pc' = [pc EXCEPT ![t] = "nested"]
    /\ requested' = (requested \/ DriverAsks)
    /\ UNCHANGED <<asked, child, live, ownerVars, queue, started, refcount, busy,
                   kst, bst, ctxOf, leaks, mapVars, sess, conduit, pulling, sent>>

\* Mutant: the looper waits for a reply and does not know BR_DEAD_REPLY.
NestedHangs(t) == FALSE /\ UNCHANGED <<vars, tx[t]>>

\* The nested call fails: BR_DEAD_REPLY.
NestedFails(t) ==
    /\ pc[t] = "nested"
    /\ bst \in {"dead", "released"}
    /\ Told(tx[t][2], "refused")
    /\ Reply(t)
    /\ UNCHANGED <<ownerVars, driverVars, refcount, busy, bst, ctxOf, leaks,
                   mapVars, brokerVars, sent>>

\* GET_SESSION_POLICY: the settled policy of whoever is registered under the
\* context now, if anybody; the broker goes on with its frame.
Occupant(x) == {c \in Consumers : ctxOf[c] = x /\ x # NoCtx}

ServePolicy(t) ==
    /\ Handling(t, "pull")
    /\ LET c == tx[t][2] IN
         /\ Reply(t)
         /\ IF bst = "pulling" /\ pulling = c
               THEN /\ bst' = "idle"
                    /\ pulling' = NoOne
                    /\ conduit' = [conduit EXCEPT ![c] =
                         IF Occupant(sess[c]) = {} THEN NoOne
                         ELSE CHOOSE d \in Occupant(sess[c]) : TRUE]
               ELSE UNCHANGED <<bst, pulling, conduit>>
    /\ UNCHANGED <<ownerVars, driverVars, refcount, busy, kst, ctxOf, leaks,
                   mapVars, sess, inbox, sent>>

-----------------------------------------------------------------------------
(* The broker: one thread, one transaction at a time                       *)

Reads(kind) == bst = "idle" /\ inbox # <<>> /\ Head(inbox)[1] = kind

\* Mutant: one session per context instead of one per node.
MintPerCtx ==
    /\ Reads("new")
    /\ LET c == Head(inbox)[2] IN
         \E t \in Threads :
           /\ pc[t] = "nested" /\ tx[t][2] = c
           /\ sess' = [sess EXCEPT ![c] = tx[t][3]]
           /\ conduit' = [conduit EXCEPT ![c] =
                IF \E d \in Consumers : sess[d] = tx[t][3]
                   THEN conduit[CHOOSE d \in Consumers : sess[d] = tx[t][3]] ELSE NoOne]
           /\ Told(c, "node")
           /\ Reply(t)
    /\ inbox' = Tail(inbox)
    /\ requested' = (requested \/ DriverAsks)
    /\ UNCHANGED <<ownerVars, queue, started, refcount, busy, bst, ctxOf, leaks,
                   mapVars, pulling, sent>>

\* new_session: a fresh cookie, no policy yet; the looper passes the node on.
\* The looper's read of the reply, too, drops a request for another looper.
Mint ==
    /\ Reads("new")
    /\ LET c == Head(inbox)[2] IN
         \E t \in Threads :
           /\ pc[t] = "nested" /\ tx[t][2] = c
           /\ sess' = [sess EXCEPT ![c] = tx[t][3]]
           /\ Told(c, "node")
           /\ Reply(t)
    /\ inbox' = Tail(inbox)
    /\ requested' = (requested \/ DriverAsks)
    /\ UNCHANGED <<ownerVars, queue, started, refcount, busy, bst, ctxOf, leaks,
                   mapVars, conduit, pulling, sent>>

\* handle_session on a session with no conduit: the frame waits for the pull.
Pull ==
    /\ Reads("send")
    /\ LET c == Head(inbox)[2] IN
         /\ sess[c] # NoCtx /\ conduit[c] = NoOne
         /\ queue' = Append(queue, <<"pull", c>>)
         /\ pulling' = c
    /\ bst' = "pulling"
    /\ inbox' = Tail(inbox)
    /\ UNCHANGED <<looperVars, live, ownerVars, requested, started, refcount,
                   busy, kst, ctxOf, leaks, mapVars, sess, conduit, sent>>

\* The session is gone, or its conduit takes the frame (or is closed, which
\* ends the session).
Forward ==
    /\ Reads("send")
    /\ LET c == Head(inbox)[2] IN
         /\ sess[c] = NoCtx \/ conduit[c] # NoOne
         /\ \/ UNCHANGED <<sess, conduit>>
            \/ /\ sess' = [sess EXCEPT ![c] = NoCtx]
               /\ conduit' = [conduit EXCEPT ![c] = NoOne]
    /\ inbox' = Tail(inbox)
    /\ UNCHANGED <<poolVars, refcount, busy, kst, bst, ctxOf, leaks, mapVars,
                   pulling, sent>>

\* BR_RELEASE: the consumer is gone, and so is the looper's reference.
Release(c) ==
    /\ bst = "idle" /\ sess[c] # NoCtx
    /\ kst[c] \in {"dead", "released"}
    /\ ~\E i \in DOMAIN inbox : inbox[i][2] = c
    /\ sess' = [sess EXCEPT ![c] = NoCtx]
    /\ conduit' = [conduit EXCEPT ![c] = NoOne]
    /\ UNCHANGED <<poolVars, refcount, busy, kst, bst, ctxOf, leaks, mapVars,
                   inbox, pulling, sent>>

-----------------------------------------------------------------------------
Handler(t) ==
    \/ AddWatch(t) \/ AddInsert(t) \/ Death(t) \/ Refuse(t)
    \/ NewSession(t) \/ NestedFails(t) \/ ServePolicy(t)

BrokerStep == Mint \/ Pull \/ Forward \/ \E c \in Consumers : Release(c)

PoolStep(t) == LooperStep(t) /\ UNCHANGED meshVars

Next ==
    \/ \E t \in Threads : PoolStep(t) \/ Handler(t)
    \/ \E c \in Consumers :
         ConsumerStarts(c) \/ ConsumerExits(c) \/ ConsumerReleases(c)
         \/ Connect(c) \/ Send(c)
    \/ BrokerStarts \/ BrokerDies \/ BrokerReleases
    \/ TeardownStep
    \/ BrokerStep

Spec == Init /\ [][Next]_vars

\* Threads of kenneld and the broker's thread run; consumers, their frames and
\* the broker's death owe nothing.  That a dead participant's run_kennel returns
\* is kenneld's own step.
Fairness ==
    /\ \A t \in Threads : WF_vars(PoolStep(t)) /\ WF_vars(Handler(t))
    /\ \A c \in Consumers : WF_vars(ConsumerReleases(c))
    /\ WF_vars(BrokerReleases)
    /\ WF_vars(TeardownStep)
    /\ WF_vars(BrokerStep)

FairSpec == Spec /\ Fairness

-----------------------------------------------------------------------------
(* Properties                                                              *)

Holders == {c \in Consumers : kst[c] \in Alive \cup {"dead"}}
              \cup (IF bst \in {"adding", "idle", "pulling", "dead"} THEN {Broker} ELSE {})

\* A kennel that has the mount in its view never loses the bus under it: the
\* count covers every holder, across failed clones and any order of exits
\* (add_participant, remove_participant, MeshBusGuard).
BusOutlivesHolders == Holders # {} => owner = "serving" /\ refcount >= Cardinality(Holders)

\* A session of a running consumer is only ever mediated under that consumer's
\* own policy, although the broker names the consumer to kenneld by a context
\* number that is reused (mesh_new_session, session_policy_for).
OwnPolicy ==
    \A c \in Consumers :
        kst[c] \in Alive /\ conduit[c] # NoOne => conduit[c] = c

\* The broker's GET_SESSION_POLICY pull is serviceable while NEW_SESSIONs are
\* outstanding (the reason given for MESH_POOL_MAX): some looper is not itself
\* waiting for the broker.
PullServiceable ==
    bst = "pulling" => \E t \in Threads : pc[t] \notin {"none", "gone", "nested"}

\* Every SVC_CONNECT is answered, whatever the broker does meanwhile, and so is
\* the broker's own pull, on which its only thread waits: neither side of the
\* nested NEW_SESSION waits for the other for ever.
BusAnswers ==
    /\ \A c \in Consumers : kst[c] = "asking" ~> kst[c] # "asking"
    /\ bst = "pulling" ~> bst # "pulling"

\* The last participant's release returns, and with it the mesh_buses lock.
TeardownReturns == owner = "take" ~> owner = "done"
=============================================================================
