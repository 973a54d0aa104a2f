----------------------------- MODULE TunBroker ------------------------------
(***************************************************************************)
(* The mediator of one kennel's UDP egress session (tun-flow): a single    *)
(* thread that answers DNS queries with synthetic addresses, dials a flow  *)
(* for the first datagram to one, and relays what comes back.  Its state   *)
(* is the pool of minted names (a rotating window per allowlist grant),    *)
(* the flow table with its cap and idle expiry, the token bucket for new   *)
(* flows, and the loop's two maps between poller tokens and flows.         *)
(*                                                                         *)
(* The loop takes a batch of ready tokens from the poller, reads the clock *)
(* once, handles the batch in order and then expires idle flows.  A flow   *)
(* is removed by its own event or by the sweep only, so a token of the     *)
(* batch still has its flow when it is handled.  A name is a sequence of   *)
(* labels, the most specific one first.                                    *)
(***************************************************************************)
EXTENDS Naturals, Sequences, FiniteSets

CONSTANTS
    Rules,          \* the allowlist: a sequence of [name, dot, ports]
    Names,          \* the names the workload asks for
    DstPorts, SrcPorts,
    MaxPool, MaxPerGrant, MaxFlows, Burst, PerSec, IdleTimeout,
    Second,         \* clock units in a second (1000 in the code)
    MaxTick,        \* bound: queries in a behaviour
    MaxTime,        \* bound: the clock
    MaxBatch,       \* bound: ready tokens in one batch
    MaxDials        \* bound: flows dialled in a behaviour

ASSUME TunAssumption ==
    /\ DOMAIN Rules = 1 .. Len(Rules) /\ Len(Rules) \in Nat
    /\ \A i \in DOMAIN Rules : Rules[i].dot \in BOOLEAN
    /\ {MaxPool, MaxPerGrant, MaxFlows, Burst, PerSec, IdleTimeout, Second,
        MaxTick, MaxTime, MaxBatch, MaxDials} \subseteq Nat \ {0}
    /\ PerSec <= Second

VARIABLES
    mapping,    \* the pool: name -> [addr, grant, use]
    nextHost,   \* the next host suffix
    tick,       \* the recency clock
    perGrant,   \* mints per grant
    flows,      \* the table: key -> when the flow was last seen
    tokens, last,           \* the bucket
    now,                    \* the clock as the loop read it
    nextToken, tokenKey, keyToken,
    ready,      \* the tokens of the batch still to handle
    loop,       \* "wait", "batch" or "gone"
    dialled,    \* history: flows dialled so far
    answered    \* history: <<address, name>> of every AAAA answer

poolVars == <<mapping, nextHost, tick, perGrant>>
tableVars == <<flows, tokens, last>>
loopVars == <<now, nextToken, tokenKey, keyToken, ready, loop>>
vars == <<poolVars, tableVars, loopVars, dialled, answered>>

FirstPoolHost == 16
FacadeToken == 0
DnsPorts == {53, 5353}
Grants == DOMAIN Rules
Keys == [synthetic : Nat, dst : DstPorts, src : SrcPorts]

Without(f, S) == [x \in DOMAIN f \ S |-> f[x]]
With(f, x, v) == [y \in DOMAIN f \cup {x} |-> IF y = x THEN v ELSE f[y]]

TypeOK ==
    /\ DOMAIN mapping \subseteq Names
    /\ \A n \in DOMAIN mapping : mapping[n] \in [addr : Nat, grant : Grants, use : Nat]
    /\ nextHost \in Nat /\ tick \in 0 .. MaxTick
    /\ perGrant \in [Grants -> Nat]
    /\ DOMAIN flows \subseteq Keys
    /\ \A k \in DOMAIN flows : flows[k] \in 0 .. now
    /\ tokens \in 0 .. Burst /\ last \in Nat /\ now \in 0 .. MaxTime /\ last <= now
    /\ nextToken \in Nat
    /\ loop \in {"wait", "batch", "gone"}
    /\ dialled \in 0 .. MaxDials
-----------------------------------------------------------------------------
(* The allowlist.                                                          *)

\* A plain pattern is exact; a dotted one is the apex and what ends in it.
NameMatches(rule, name) ==
    IF rule.dot
    THEN /\ Len(name) >= Len(rule.name)
         /\ SubSeq(name, Len(name) - Len(rule.name) + 1, Len(name)) = rule.name
    ELSE name = rule.name

Matching(name) == {i \in Grants : NameMatches(Rules[i], name)}

FirstMatch(name) == CHOOSE i \in Matching(name) : \A j \in Matching(name) : i <= j

\* An empty port set permits every port.
Allows(name, port) ==
    \E i \in Matching(name) : Rules[i].ports = {} \/ port \in Rules[i].ports
-----------------------------------------------------------------------------
(* The pool.                                                               *)

LiveSynthetics == {k.synthetic : k \in DOMAIN flows}

NameOf(addr) == {n \in DOMAIN mapping : mapping[n].addr = addr}

WindowFull(grant) == perGrant[grant] >= MaxPerGrant

\* Mutant: a mint with a live flow may be evicted.
EvictableLive(grant) == {n \in DOMAIN mapping : mapping[n].grant = grant}

\* The mints of the grant that may be evicted.
Evictable(grant) ==
    {n \in DOMAIN mapping : mapping[n].grant = grant /\ mapping[n].addr \notin LiveSynthetics}

Victims(grant) ==
    IF WindowFull(grant)
    THEN {n \in Evictable(grant) :
            \A m \in Evictable(grant) : mapping[n].use <= mapping[m].use}
    ELSE {}

Touch(name) ==
    /\ name \in DOMAIN mapping
    /\ mapping' = [mapping EXCEPT ![name].use = tick + 1]
    /\ answered' = answered \cup {<<mapping[name].addr, name>>}
    /\ UNCHANGED <<nextHost, perGrant>>

\* A new name is refused at the ceiling, or when every mint of its full window
\* has a live flow.
Refused(name, grant) ==
    \/ Cardinality(DOMAIN mapping) >= MaxPool
    \/ WindowFull(grant) /\ Evictable(grant) = {}

MintRefused(name, grant) ==
    /\ name \notin DOMAIN mapping /\ Refused(name, grant)
    /\ UNCHANGED <<mapping, nextHost, perGrant, answered>>

MintNew(name, grant) ==
    /\ name \notin DOMAIN mapping /\ ~Refused(name, grant)
    /\ mapping' = With(Without(mapping, Victims(grant)), name,
                       [addr |-> nextHost, grant |-> grant, use |-> tick + 1])
    /\ nextHost' = nextHost + 1
    /\ perGrant' = [perGrant EXCEPT ![grant] = @ + 1 - Cardinality(Victims(grant))]
    /\ answered' = answered \cup {<<nextHost, name>>}

Mint(name, grant) ==
    /\ tick < MaxTick /\ tick' = tick + 1
    /\ Touch(name) \/ MintRefused(name, grant) \/ MintNew(name, grant)
-----------------------------------------------------------------------------
(* The token bucket: whole tokens are credited and the clock advances by   *)
(* the time they stand for.                                                *)

Credited == ((now - last) * PerSec) \div Second

Refilled == IF tokens + Credited < Burst THEN tokens + Credited ELSE Burst

\* Mutant: the clock does not move with the credit.
RefilledAtStuck == last

RefilledAt == last + (Credited * Second) \div PerSec

NoToken ==
    /\ Refilled = 0
    /\ tokens' = Refilled /\ last' = RefilledAt

TakeToken ==
    /\ Refilled > 0
    /\ tokens' = Refilled - 1 /\ last' = RefilledAt
-----------------------------------------------------------------------------
(* The loop.                                                               *)

\* The clock is read once per batch.
Wait ==
    /\ loop = "wait" /\ loop' = "batch"
    /\ now' \in now .. MaxTime
    /\ \E n \in 0 .. MaxBatch :
         \E toks \in [1 .. n -> DOMAIN tokenKey \cup {FacadeToken}] :
           /\ \A i, j \in 1 .. n : toks[i] = toks[j] => i = j
           /\ ready' = toks
    /\ UNCHANGED <<poolVars, tableVars, nextToken, tokenKey, keyToken, dialled, answered>>

Facade == loop = "batch" /\ ready # <<>> /\ Head(ready) = FacadeToken /\ ready' = Tail(ready)

\* The kennel is gone.
HangUp ==
    /\ Facade
    /\ loop' = "gone"
    /\ UNCHANGED <<poolVars, tableVars, now, nextToken, tokenKey, keyToken, dialled, answered>>

\* A query: AAAA for an allowed name mints, everything else is NODATA.
OnQuery(name) ==
    /\ Facade
    /\ Matching(name) # {} /\ Mint(name, FirstMatch(name))
    /\ UNCHANGED <<tableVars, now, nextToken, tokenKey, keyToken, loop, dialled>>

\* A datagram whose destination is not minted, a query that mints nothing, an
\* empty read: dropped or answered without a change of state.
OnNothing ==
    /\ Facade
    /\ UNCHANGED <<poolVars, tableVars, now, nextToken, tokenKey, keyToken, loop, dialled, answered>>

\* A datagram of an established flow goes out on its socket.
OnEstablished(key) ==
    /\ Facade
    /\ NameOf(key.synthetic) # {} /\ key \in DOMAIN flows
    /\ flows' = [flows EXCEPT ![key] = now]
    /\ UNCHANGED <<poolVars, tokens, last, now, nextToken, tokenKey, keyToken, loop,
                   dialled, answered>>

NewFlow(key) == Facade /\ NameOf(key.synthetic) # {} /\ key \notin DOMAIN flows

OnRateExceeded(key) ==
    /\ NewFlow(key) /\ NoToken
    /\ UNCHANGED <<poolVars, flows, now, nextToken, tokenKey, keyToken, loop, dialled, answered>>

\* Not allowed, not resolved, rebound, not connected: a token is spent.
OnDialFails(key) ==
    /\ NewFlow(key) /\ TakeToken
    /\ UNCHANGED <<poolVars, flows, now, nextToken, tokenKey, keyToken, loop, dialled, answered>>

Dialable(key) ==
    /\ \E n \in NameOf(key.synthetic) : Allows(n, key.dst)
    /\ key.dst \notin DnsPorts

Dial(key) ==
    /\ NewFlow(key) /\ TakeToken /\ Dialable(key)
    /\ dialled < MaxDials /\ dialled' = dialled + 1
    /\ UNCHANGED <<poolVars, now, loop, answered>>

AtCapacity == Cardinality(DOMAIN flows) >= MaxFlows

\* The socket is registered and the flow admitted.
OnDialled(key) ==
    /\ Dial(key) /\ ~AtCapacity
    /\ flows' = With(flows, key, now)
    /\ nextToken' = nextToken + 1
    /\ tokenKey' = With(tokenKey, nextToken, key)
    /\ keyToken' = With(keyToken, key, nextToken)

\* At capacity, or the poller refuses the socket: it is closed, its first
\* datagram already sent.
OnNotAdmitted(key) ==
    /\ Dial(key)
    /\ nextToken' = nextToken + 1
    /\ UNCHANGED <<flows, tokenKey, keyToken>>

FlowEvent ==
    /\ loop = "batch" /\ ready # <<>> /\ Head(ready) # FacadeToken
    /\ ready' = Tail(ready)

\* A reply, or an error that is none of ours: the flow was seen.
OnReply ==
    /\ FlowEvent /\ Head(ready) \in DOMAIN tokenKey
    /\ flows' = [flows EXCEPT ![tokenKey[Head(ready)]] = now]
    /\ UNCHANGED <<poolVars, tokens, last, now, nextToken, tokenKey, keyToken, loop,
                   dialled, answered>>

\* Mutant: the eviction after a refusal leaves the loop's maps alone.
ForgetNothing(keys) == UNCHANGED <<keyToken, tokenKey>>

Forget(keys) ==
    /\ keyToken' = Without(keyToken, keys)
    /\ tokenKey' = Without(tokenKey, {keyToken[k] : k \in keys \cap DOMAIN keyToken})

\* ECONNREFUSED: port unreachable to the workload, the flow is evicted.
OnRefused ==
    /\ FlowEvent /\ Head(ready) \in DOMAIN tokenKey
    /\ LET key == tokenKey[Head(ready)] IN
         /\ flows' = Without(flows, {key})
         /\ Forget({key})
    /\ UNCHANGED <<poolVars, tokens, last, now, nextToken, loop, dialled, answered>>

\* The batch is done: idle flows are expired and forgotten.
Sweep ==
    /\ loop = "batch" /\ ready = <<>>
    /\ LET expired == {k \in DOMAIN flows : now - flows[k] >= IdleTimeout} IN
         /\ flows' = Without(flows, expired)
         /\ Forget(expired)
    /\ loop' = "wait"
    /\ UNCHANGED <<poolVars, tokens, last, now, nextToken, ready, dialled, answered>>
-----------------------------------------------------------------------------
Init ==
    /\ mapping = <<>> /\ nextHost = FirstPoolHost /\ tick = 0
    /\ perGrant = [g \in Grants |-> 0]
    /\ flows = <<>> /\ tokens = Burst /\ last = 0
    /\ now = 0 /\ nextToken = 1 /\ tokenKey = <<>> /\ keyToken = <<>>
    /\ ready = <<>> /\ loop = "wait"
    /\ dialled = 0 /\ answered = {}

\* The workload addresses what it was told, or an address nobody minted.
Addressed == {a[1] : a \in answered} \cup {FirstPoolHost - 1}

FacadeStep ==
    \/ HangUp \/ OnNothing
    \/ \E n \in Names : OnQuery(n)
    \/ \E a \in Addressed, d \in DstPorts, s \in SrcPorts :
         LET key == [synthetic |-> a, dst |-> d, src |-> s] IN
           \/ OnEstablished(key) \/ OnRateExceeded(key) \/ OnDialFails(key)
           \/ OnDialled(key) \/ OnNotAdmitted(key)

Next == Wait \/ FacadeStep \/ OnReply \/ OnRefused \/ Sweep

Spec == Init /\ [][Next]_vars
-----------------------------------------------------------------------------
(* Properties.                                                             *)

\* An address the workload was given for a name never stands for another
\* name, however often mints are evicted: a stale AAAA reaches its own name
\* or nothing (Pool::mint's monotonic suffixes).
NoAlias ==
    \A a \in answered : NameOf(a[1]) \subseteq {a[2]}

\* Eviction from a full window never takes the mint of a live flow, so every
\* flow in the table can still be routed (live_synthetics, Pool::mint).
LiveFlowRouted ==
    \A k \in DOMAIN flows : NameOf(k.synthetic) # {}

\* What an address stands for never changes, and not at all while it is used.
AddressStable == NoAlias /\ LiveFlowRouted

\* The window counters, which are kept by hand on mint and eviction, agree
\* with the pool and never exceed the window.
WindowExact ==
    \A g \in Grants :
        /\ perGrant[g] = Cardinality({n \in DOMAIN mapping : mapping[n].grant = g})
        /\ perGrant[g] <= MaxPerGrant

\* The loop's two maps and the flow table describe the same flows, never more
\* than MaxFlows, through dialling, refusal and expiry.
MapsMirrorTable ==
    /\ DOMAIN keyToken = DOMAIN flows
    /\ DOMAIN tokenKey = {keyToken[k] : k \in DOMAIN keyToken}
    /\ \A k \in DOMAIN keyToken : tokenKey[keyToken[k]] = k
    /\ Cardinality(DOMAIN flows) <= MaxFlows

\* Everything the session counts or maps twice, by hand, agrees with what it
\* counts or maps, whatever a batch of events contains.
BooksExact == WindowExact /\ MapsMirrorTable

\* Every flow in the table is to a port one of its name's grants permits,
\* although names are vetted at query time and ports at the first datagram.
FlowsPermitted ==
    \A k \in DOMAIN flows :
        \E n \in NameOf(k.synthetic) : Allows(n, k.dst) /\ k.dst \notin DnsPorts

\* The new-flow ceiling, as the integer clock gives it: the burst plus one
\* flow per whole number of clock units a token stands for.
RateBounded == dialled <= Burst + now \div (Second \div PerSec)
=============================================================================
