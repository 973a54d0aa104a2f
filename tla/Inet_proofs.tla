---------------------------- MODULE Inet_proofs ----------------------------
(***************************************************************************)
(* Proofs about a kennel's network: the tun session (TunBroker) for every  *)
(* allowlist, window, flow cap, number of names and ports, however long it *)
(* lasts; the inbound mirror (InboundMirror) for any number of ports,      *)
(* connections, loopers and restarts of the facade; and the audit trail    *)
(* (AuditTrail), its ring and its sinks, for any ring, records, sinks and  *)
(* CPUs; and the egress decision (InetEgress) for any address width,       *)
(* policy, request and resolver.                                           *)
(***************************************************************************)
EXTENDS InetEgress, TunBroker, InboundMirror, AuditTrail,
        FiniteSetTheorems, SequenceTheorems, WellFoundedInduction, TLAPS

-----------------------------------------------------------------------------
(* What has to be carried along to make the invariants inductive.          *)

\* The pool is a function from names to mints.
PoolShape ==
    /\ mapping \in [DOMAIN mapping -> [addr : Nat, grant : Grants, use : Nat]]
    /\ nextHost \in Nat /\ tick \in Nat

\* Every address ever handed out lies below the next one, so the next one is
\* new, also to a client that remembers an evicted mint.
AddressesSpent ==
    /\ \A n \in DOMAIN mapping :
         mapping[n].addr < nextHost /\ <<mapping[n].addr, n>> \in answered
    /\ \A a \in answered : a[1] \in Nat /\ a[1] < nextHost

\* The loop's maps are functions, and their tokens lie below the next one.
TokensSpent ==
    /\ nextToken \in Nat
    /\ \A t \in DOMAIN tokenKey : t \in Nat /\ t < nextToken
    /\ \A k \in DOMAIN keyToken : keyToken[k] \in DOMAIN tokenKey
    /\ IsFiniteSet(DOMAIN flows)

PoolInv == PoolShape /\ AddressesSpent /\ NoAlias

TableInv == TokensSpent /\ MapsMirrorTable

IInv == PoolInv /\ TableInv /\ LiveFlowRouted /\ FlowsPermitted
-----------------------------------------------------------------------------
\* A set of naturals has a least element.
LEMMA Least ==
    ASSUME NEW S \in SUBSET Nat, S # {}
    PROVE  \E i \in S : \A j \in S : i <= j
<1>1. \E i \in S : \A j \in S : ~ (<<j, i>> \in OpToRel(<, Nat))
  BY NatLessThanWellFounded, WFMin
<1>2. \A i, j \in Nat : j < i => <<j, i>> \in OpToRel(<, Nat)
  BY Zenon DEF OpToRel
<1>3. \E i \in S : \A j \in S : ~ (j < i)
  BY <1>1, <1>2
<1> QED BY <1>3

\* Allowlist::first_match of a name that some grant permits is a grant.
LEMMA FirstMatchIsGrant ==
    ASSUME TunAssumption, NEW n, Matching(n) # {}
    PROVE  FirstMatch(n) \in Grants
<1>1. Matching(n) \subseteq Nat
  BY DEF Matching, Grants, TunAssumption
<1>2. \E i \in Matching(n) : \A j \in Matching(n) : i <= j
  BY <1>1, Least
<1>3. FirstMatch(n) \in Matching(n)
  BY <1>2 DEF FirstMatch
<1> QED BY <1>3 DEF Matching

\* A query only ever adds fresh addresses, and takes none from a live flow.
LEMMA MintKeeps ==
    ASSUME PoolInv, NEW n, NEW g \in Grants, Mint(n, g), UNCHANGED flows
    PROVE  /\ PoolInv'
           /\ \A k \in DOMAIN flows : NameOf(k.synthetic) # {} =>
                 NameOf(k.synthetic)' = NameOf(k.synthetic)
<1>1. CASE Touch(n)
  <2>1. /\ DOMAIN mapping' = DOMAIN mapping
        /\ mapping' \in [DOMAIN mapping -> [addr : Nat, grant : Grants, use : Nat]]
        /\ \A m \in DOMAIN mapping : mapping'[m].addr = mapping[m].addr
        /\ nextHost' = nextHost /\ tick' \in Nat
    BY <1>1 DEF Touch, Mint, PoolInv, PoolShape
  <2>2. AddressesSpent'
    BY <1>1, <2>1 DEF Touch, PoolInv, PoolShape, AddressesSpent
  <2>3. \A a : NameOf(a)' = NameOf(a)
    BY <2>1 DEF NameOf
  <2>4. NoAlias'
    <3>1. answered' = answered
      BY <1>1 DEF Touch, PoolInv, AddressesSpent
    <3> QED BY <2>3, <3>1 DEF PoolInv, NoAlias
  <2> QED BY <2>1, <2>2, <2>3, <2>4 DEF PoolInv, PoolShape
<1>2. CASE MintRefused(n, g)
  BY <1>2 DEF MintRefused, Mint, PoolInv, PoolShape, AddressesSpent, NoAlias, NameOf
<1>3. CASE MintNew(n, g)
  <2> DEFINE V == Victims(g)
  <2>1. /\ DOMAIN mapping' = (DOMAIN mapping \ V) \cup {n}
        /\ \A m \in DOMAIN mapping' :
              mapping'[m] = IF m = n THEN [addr |-> nextHost, grant |-> g, use |-> tick + 1]
                            ELSE mapping[m]
        /\ mapping' \in [DOMAIN mapping' -> [addr : Nat, grant : Grants, use : Nat]]
        /\ nextHost' = nextHost + 1 /\ tick' \in Nat
        /\ answered' = answered \cup {<<nextHost, n>>}
    BY <1>3 DEF MintNew, Mint, With, Without, PoolInv, PoolShape
  <2>2. AddressesSpent'
    BY <2>1 DEF PoolInv, PoolShape, AddressesSpent
  <2>3. NoAlias'
    <3> SUFFICES ASSUME NEW a \in answered', NEW m \in DOMAIN mapping',
                        mapping'[m].addr = a[1]
                 PROVE  m = a[2]
      BY DEF NoAlias, NameOf
    <3>1. nextHost \in Nat /\ \A b \in answered : b[1] \in Nat /\ b[1] < nextHost
      BY DEF PoolInv, PoolShape, AddressesSpent
    <3>2. CASE m = n
      <4>1. a[1] = nextHost
        BY <2>1, <3>2
      <4>2. a = <<nextHost, n>>
        BY <2>1, <3>1, <4>1
      <4> QED BY <3>2, <4>2
    <3>3. CASE m # n
      <4>1. m \in DOMAIN mapping /\ mapping[m].addr = a[1]
        BY <2>1, <3>3
      <4>2. a[1] \in Nat /\ a[1] < nextHost
        BY <4>1 DEF PoolInv, PoolShape, AddressesSpent
      <4>3. a \in answered
        BY <2>1, <3>1, <4>2
      <4> QED BY <4>1, <4>3 DEF PoolInv, NoAlias, NameOf
    <3> QED BY <3>2, <3>3
  <2>4. ASSUME NEW k \in DOMAIN flows, NameOf(k.synthetic) # {}
        PROVE  NameOf(k.synthetic)' = NameOf(k.synthetic)
    <3>1. \A m \in V : mapping[m].addr # k.synthetic
      BY DEF Victims, Evictable, LiveSynthetics
    <3>2. k.synthetic # nextHost
      <4>1. PICK m \in DOMAIN mapping : mapping[m].addr = k.synthetic
        BY <2>4 DEF NameOf
      <4>2. mapping[m].addr \in Nat /\ mapping[m].addr < nextHost /\ nextHost \in Nat
        BY DEF PoolInv, PoolShape, AddressesSpent
      <4>3. mapping[m].addr # nextHost
        BY <4>2
      <4> QED BY <4>1, <4>3
    <3>3. n \notin DOMAIN mapping
      BY <1>3 DEF MintNew
    <3> QED BY <2>1, <3>1, <3>2, <3>3 DEF NameOf
  <2>5. PoolShape'
    <3>1. nextHost' \in Nat
      BY <2>1 DEF PoolInv, PoolShape
    <3> QED BY <2>1, <3>1 DEF PoolShape
  <2>6. PoolInv'
    BY <2>2, <2>3, <2>5 DEF PoolInv
  <2> QED BY <2>4, <2>6
<1> QED BY <1>1, <1>2, <1>3 DEF Mint

\* Forgetting flows together with their tokens keeps the maps in step.
LEMMA ForgetKeeps ==
    ASSUME TableInv, NEW gone,
           flows' = Without(flows, gone), Forget(gone), UNCHANGED nextToken
    PROVE  TableInv'
<1>1. /\ DOMAIN flows' = DOMAIN flows \ gone
      /\ DOMAIN keyToken' = DOMAIN keyToken \ gone
      /\ \A k \in DOMAIN keyToken' : keyToken'[k] = keyToken[k]
      /\ DOMAIN tokenKey' = DOMAIN tokenKey \ {keyToken[k] : k \in gone \cap DOMAIN keyToken}
      /\ \A t \in DOMAIN tokenKey' : tokenKey'[t] = tokenKey[t]
  BY DEF Forget, Without
<1>2. \A k, m \in DOMAIN keyToken : keyToken[k] = keyToken[m] => k = m
  BY DEF TableInv, MapsMirrorTable
<1>3. \A k \in DOMAIN keyToken' : keyToken'[k] \in DOMAIN tokenKey'
  BY <1>1, <1>2 DEF TableInv, TokensSpent
<1>4. DOMAIN tokenKey' = {keyToken'[k] : k \in DOMAIN keyToken'}
  <2>1. ASSUME NEW t \in DOMAIN tokenKey' PROVE \E k \in DOMAIN keyToken' : keyToken'[k] = t
    <3>1. PICK k \in DOMAIN keyToken : keyToken[k] = t
      BY <1>1, <2>1 DEF TableInv, MapsMirrorTable
    <3> QED BY <1>1, <2>1, <3>1
  <2> QED BY <1>3, <2>1
<1>5. /\ IsFiniteSet(DOMAIN flows')
      /\ Cardinality(DOMAIN flows') <= Cardinality(DOMAIN flows)
  BY <1>1, FS_Subset DEF TableInv, TokensSpent
<1>6. Cardinality(DOMAIN flows') <= MaxFlows
  <2>1. Cardinality(DOMAIN flows) \in Nat /\ Cardinality(DOMAIN flows') \in Nat
    BY <1>5, FS_CardinalityType DEF TableInv, TokensSpent
  <2> QED BY <1>5, <2>1, TunAssumption DEF TableInv, MapsMirrorTable, TunAssumption
<1>7. TokensSpent'
  BY <1>1, <1>3, <1>5 DEF TableInv, TokensSpent
<1>8. MapsMirrorTable'
  BY <1>1, <1>3, <1>4, <1>6 DEF TableInv, TokensSpent, MapsMirrorTable
<1> QED BY <1>7, <1>8 DEF TableInv

\* A flow is admitted under a token nobody has.
LEMMA AdmitKeeps ==
    ASSUME TableInv, NEW key, key \notin DOMAIN flows, ~AtCapacity,
           flows' = With(flows, key, now),
           nextToken' = nextToken + 1,
           tokenKey' = With(tokenKey, nextToken, key),
           keyToken' = With(keyToken, key, nextToken)
    PROVE  TableInv'
<1>1. /\ DOMAIN flows' = DOMAIN flows \cup {key}
      /\ DOMAIN keyToken' = DOMAIN keyToken \cup {key}
      /\ \A k \in DOMAIN keyToken' : keyToken'[k] = IF k = key THEN nextToken ELSE keyToken[k]
      /\ DOMAIN tokenKey' = DOMAIN tokenKey \cup {nextToken}
      /\ \A t \in DOMAIN tokenKey' : tokenKey'[t] = IF t = nextToken THEN key ELSE tokenKey[t]
  BY DEF With
<1>2. key \notin DOMAIN keyToken /\ nextToken \notin DOMAIN tokenKey
  BY DEF TableInv, MapsMirrorTable, TokensSpent
<1>3. /\ IsFiniteSet(DOMAIN flows')
      /\ Cardinality(DOMAIN flows') = Cardinality(DOMAIN flows) + 1
  BY <1>1, FS_AddElement DEF TableInv, TokensSpent
<1>4. Cardinality(DOMAIN flows') <= MaxFlows
  <2>1. Cardinality(DOMAIN flows) \in Nat
    BY FS_CardinalityType DEF TableInv, TokensSpent
  <2> QED BY <1>3, <2>1, TunAssumption DEF AtCapacity, TunAssumption
<1>5. TokensSpent'
  BY <1>1, <1>2, <1>3 DEF TableInv, TokensSpent
<1>6. DOMAIN tokenKey' = {keyToken'[k] : k \in DOMAIN keyToken'}
  <2>1. ASSUME NEW t \in DOMAIN tokenKey' PROVE \E k \in DOMAIN keyToken' : keyToken'[k] = t
    <3>1. CASE t = nextToken
      BY <1>1, <3>1
    <3>2. CASE t # nextToken
      <4>1. PICK k \in DOMAIN keyToken : keyToken[k] = t
        BY <1>1, <2>1, <3>2 DEF TableInv, MapsMirrorTable
      <4> QED BY <1>1, <1>2, <4>1
    <3> QED BY <3>1, <3>2
  <2>2. \A k \in DOMAIN keyToken' : keyToken'[k] \in DOMAIN tokenKey'
    BY <1>5 DEF TokensSpent
  <2> QED BY <2>1, <2>2
<1>7. MapsMirrorTable'
  <2>1. ASSUME NEW k \in DOMAIN keyToken' PROVE tokenKey'[keyToken'[k]] = k
    <3>1. CASE k = key
      BY <1>1, <3>1
    <3>2. CASE k # key
      <4>1. k \in DOMAIN keyToken /\ keyToken'[k] = keyToken[k]
        BY <1>1, <2>1, <3>2
      <4>2. keyToken[k] \in DOMAIN tokenKey
        BY <4>1 DEF TableInv, TokensSpent
      <4>3. keyToken[k] # nextToken
        BY <1>2, <4>2
      <4> QED BY <1>1, <4>1, <4>2, <4>3 DEF TableInv, MapsMirrorTable
    <3> QED BY <3>1, <3>2
  <2> QED BY <1>1, <1>4, <1>6, <2>1 DEF TableInv, MapsMirrorTable
<1> QED BY <1>5, <1>7 DEF TableInv

\* The pool does not move, and the table's keys do not grow: flows stay
\* routed and permitted.
LEMMA PoolStill ==
    ASSUME IInv, UNCHANGED <<poolVars, answered>>, DOMAIN flows' \subseteq DOMAIN flows
    PROVE  PoolInv' /\ LiveFlowRouted' /\ FlowsPermitted'
<1>1. \A a : NameOf(a)' = NameOf(a)
  BY DEF poolVars, NameOf
<1>2. PoolInv'
  BY <1>1 DEF IInv, PoolInv, PoolShape, AddressesSpent, NoAlias, poolVars
<1>3. LiveFlowRouted' /\ FlowsPermitted'
  BY <1>1 DEF IInv, LiveFlowRouted, FlowsPermitted
<1> QED BY <1>2, <1>3

\* The table does not move.
LEMMA TableStill ==
    ASSUME TableInv, UNCHANGED <<tokenKey, keyToken>>, DOMAIN flows' = DOMAIN flows,
           nextToken' \in {nextToken, nextToken + 1}
    PROVE  TableInv'
BY DEF TableInv, TokensSpent, MapsMirrorTable

\* The broker's start establishes the invariant.
LEMMA InitInv == Init => IInv
<1> SUFFICES ASSUME Init PROVE IInv
  OBVIOUS
<1>1. /\ DOMAIN mapping = {} /\ DOMAIN flows = {} /\ DOMAIN tokenKey = {}
      /\ DOMAIN keyToken = {} /\ answered = {}
      /\ nextHost \in Nat /\ tick \in Nat /\ nextToken \in Nat
  BY DEF Init, FirstPoolHost
<1>2. PoolInv
  <2>1. mapping \in [DOMAIN mapping -> [addr : Nat, grant : Grants, use : Nat]]
    BY DEF Init
  <2> QED BY <1>1, <2>1 DEF PoolInv, PoolShape, AddressesSpent, NoAlias
<1>3. IsFiniteSet(DOMAIN flows) /\ Cardinality(DOMAIN flows) = 0
  BY <1>1, FS_EmptySet
<1>4. TableInv
  BY <1>1, <1>3, TunAssumption DEF TableInv, TokensSpent, MapsMirrorTable, TunAssumption
<1> QED BY <1>1, <1>2, <1>4 DEF IInv, LiveFlowRouted, FlowsPermitted

\* Every step of the broker, the loop and the facade keeps it.
LEMMA NextInv == IInv /\ [Next]_vars => IInv'
<1> SUFFICES ASSUME IInv, [Next]_vars PROVE IInv'
  OBVIOUS
<1> USE DEF IInv
<1>1. CASE Wait
  BY <1>1, PoolStill, TableStill DEF Wait, tableVars
<1>2. CASE HangUp \/ OnNothing
  BY <1>2, PoolStill, TableStill DEF HangUp, OnNothing, tableVars
<1>3. ASSUME NEW n \in Names, OnQuery(n) PROVE IInv'
  <2>1. FirstMatch(n) \in Grants
    BY <1>3, FirstMatchIsGrant, TunAssumption DEF OnQuery
  <2>2. flows' = flows /\ Mint(n, FirstMatch(n))
    BY <1>3 DEF OnQuery, tableVars
  <2>3. /\ PoolInv'
        /\ \A k \in DOMAIN flows : NameOf(k.synthetic)' = NameOf(k.synthetic)
    BY <2>1, <2>2, MintKeeps DEF LiveFlowRouted
  <2>4. TableInv'
    BY <1>3, <2>2, TableStill DEF OnQuery
  <2>5. LiveFlowRouted' /\ FlowsPermitted'
    BY <2>2, <2>3 DEF LiveFlowRouted, FlowsPermitted
  <2> QED BY <2>3, <2>4, <2>5
<1>4. ASSUME NEW key, OnEstablished(key) \/ OnRateExceeded(key) \/ OnDialFails(key)
                       \/ OnNotAdmitted(key)
      PROVE IInv'
  <2>1. DOMAIN flows' = DOMAIN flows
    BY <1>4 DEF OnEstablished, OnRateExceeded, OnDialFails, OnNotAdmitted
  <2>2. UNCHANGED <<poolVars, answered, tokenKey, keyToken>>
    BY <1>4 DEF OnEstablished, OnRateExceeded, OnDialFails, OnNotAdmitted, Dial
  <2>3. nextToken' \in {nextToken, nextToken + 1}
    BY <1>4 DEF OnEstablished, OnRateExceeded, OnDialFails, OnNotAdmitted
  <2> QED BY <2>1, <2>2, <2>3, PoolStill, TableStill
<1>5. ASSUME NEW key, OnDialled(key) PROVE IInv'
  <2>1. /\ NameOf(key.synthetic) # {} /\ key \notin DOMAIN flows
        /\ Dialable(key) /\ UNCHANGED <<poolVars, answered>>
    BY <1>5 DEF OnDialled, Dial, NewFlow
  <2>2. TableInv'
    BY <1>5, <2>1, AdmitKeeps DEF OnDialled
  <2>3. DOMAIN flows' = DOMAIN flows \cup {key}
    BY <1>5 DEF OnDialled, With
  <2>4. \A a : NameOf(a)' = NameOf(a)
    BY <2>1 DEF poolVars, NameOf
  <2>5. PoolInv'
    BY <2>1, <2>4 DEF PoolInv, PoolShape, AddressesSpent, NoAlias, poolVars
  <2>6. LiveFlowRouted'
    BY <2>1, <2>3, <2>4 DEF LiveFlowRouted
  <2>7. FlowsPermitted'
    BY <2>1, <2>3, <2>4 DEF FlowsPermitted, Dialable
  <2> QED BY <2>2, <2>5, <2>6, <2>7
<1>6. CASE OnReply
  <2>1. DOMAIN flows' = DOMAIN flows
    BY <1>6 DEF OnReply
  <2> QED BY <1>6, <2>1, PoolStill, TableStill DEF OnReply
<1>7. CASE OnRefused
  <2>1. PICK key : flows' = Without(flows, {key}) /\ Forget({key})
    BY <1>7 DEF OnRefused
  <2>2. UNCHANGED <<poolVars, answered, nextToken>>
    BY <1>7 DEF OnRefused
  <2>3. TableInv'
    BY <2>1, <2>2, ForgetKeeps
  <2>4. DOMAIN flows' \subseteq DOMAIN flows
    BY <2>1 DEF Without
  <2> QED BY <2>2, <2>3, <2>4, PoolStill
<1>8. CASE Sweep
  <2>1. PICK gone : flows' = Without(flows, gone) /\ Forget(gone)
    BY <1>8 DEF Sweep
  <2>2. UNCHANGED <<poolVars, answered, nextToken>>
    BY <1>8 DEF Sweep
  <2>3. TableInv'
    BY <2>1, <2>2, ForgetKeeps
  <2>4. DOMAIN flows' \subseteq DOMAIN flows
    BY <2>1 DEF Without
  <2> QED BY <2>2, <2>3, <2>4, PoolStill
<1>9. CASE UNCHANGED vars
  BY <1>9, PoolStill, TableStill DEF vars, tableVars, loopVars
<1> QED BY <1>1, <1>2, <1>3, <1>4, <1>5, <1>6, <1>7, <1>8, <1>9 DEF Next, FacadeStep

\* The inductive invariant holds throughout a session.
THEOREM SessionInvariant == Spec => []IInv
BY InitInv, NextInv, PTL DEF Spec

\* A stale answer never leads to another name, however the pool rotates, and
\* eviction never unroutes a flow of the table.
THEOREM AddressStableTheorem == Spec => []AddressStable
<1>1. IInv => AddressStable
  BY DEF IInv, PoolInv, AddressStable
<1> QED BY <1>1, SessionInvariant, PTL

\* No flow is in the table without a grant that permits its port.
THEOREM FlowsPermittedTheorem == Spec => []FlowsPermitted
<1>1. IInv => FlowsPermitted
  BY DEF IInv
<1> QED BY <1>1, SessionInvariant, PTL

\* The loop's maps and the flow table agree, and the flow cap holds.
THEOREM MapsMirrorTableTheorem == Spec => []MapsMirrorTable
<1>1. IInv => MapsMirrorTable
  BY DEF IInv, TableInv
<1> QED BY <1>1, SessionInvariant, PTL
-----------------------------------------------------------------------------
(* The window counters.                                                    *)

OfGrant(g) == {n \in DOMAIN mapping : mapping[n].grant = g}

WindowInv ==
    /\ IsFiniteSet(DOMAIN mapping)
    /\ perGrant \in [Grants -> Nat]
    /\ WindowExact

\* A full window that is not refused has a victim, and victims are mints of
\* the grant.
LEMMA VictimExists ==
    ASSUME PoolShape, NEW n, NEW g \in Grants, ~Refused(n, g)
    PROVE  /\ Victims(g) \subseteq OfGrant(g)
           /\ WindowFull(g) <=> Victims(g) # {}
<1>1. Evictable(g) \subseteq OfGrant(g)
  BY DEF Evictable, OfGrant
<1>2. ASSUME WindowFull(g) PROVE Victims(g) # {}
  <2> DEFINE U == {mapping[m].use : m \in Evictable(g)}
  <2>1. U \in SUBSET Nat /\ U # {}
    BY <1>2 DEF Evictable, PoolShape, Refused
  <2>2. PICK u \in U : \A v \in U : u <= v
    BY <2>1, Least
  <2>3. PICK m \in Evictable(g) : mapping[m].use = u
    OBVIOUS
  <2>4. m \in Victims(g)
    BY <1>2, <2>2, <2>3 DEF Victims
  <2> QED BY <2>4
<1> QED BY <1>1, <1>2 DEF Victims

\* A mint with its evictions keeps the window exact.
LEMMA WindowStep ==
    ASSUME PoolShape, WindowInv, NEW n, NEW g \in Grants, MintNew(n, g)
    PROVE  WindowInv'
<1> DEFINE V == Victims(g)
<1>1. /\ n \notin DOMAIN mapping
      /\ DOMAIN mapping' = (DOMAIN mapping \ V) \cup {n}
      /\ \A m \in DOMAIN mapping' :
            mapping'[m].grant = IF m = n THEN g ELSE mapping[m].grant
      /\ perGrant' = [perGrant EXCEPT ![g] = @ + 1 - Cardinality(V)]
  BY DEF MintNew, With, Without
<1>2. V \subseteq OfGrant(g) /\ (WindowFull(g) <=> V # {})
  BY VictimExists DEF MintNew
<1>3. IsFiniteSet(DOMAIN mapping')
  BY <1>1, FS_Difference, FS_AddElement DEF WindowInv
<1>4. \A h \in Grants : h # g => OfGrant(h)' = OfGrant(h)
  BY <1>1, <1>2 DEF OfGrant
<1>5. OfGrant(g)' = (OfGrant(g) \ V) \cup {n}
  BY <1>1, <1>2 DEF OfGrant
<1>6. IsFiniteSet(OfGrant(g)) /\ IsFiniteSet(V)
  <2>1. OfGrant(g) \in SUBSET DOMAIN mapping
    BY DEF OfGrant
  <2>2. IsFiniteSet(OfGrant(g))
    BY <2>1, FS_Subset DEF WindowInv
  <2> QED BY <1>2, <2>2, FS_Subset
<1>7. Cardinality(OfGrant(g)) \in Nat /\ Cardinality(V) \in Nat
  BY <1>6, FS_CardinalityType
<1>8. Cardinality(V) <= Cardinality(OfGrant(g))
  BY <1>2, <1>6, FS_Subset
<1>9. Cardinality(OfGrant(g)') = Cardinality(OfGrant(g)) - Cardinality(V) + 1
  <2>1. OfGrant(g) \cap V = V
    BY <1>2
  <2>2. /\ IsFiniteSet(OfGrant(g) \ V)
        /\ Cardinality(OfGrant(g) \ V) = Cardinality(OfGrant(g)) - Cardinality(V)
    BY <1>6, <2>1, FS_Difference
  <2>3. n \notin OfGrant(g) \ V
    BY <1>1 DEF OfGrant
  <2>4. Cardinality((OfGrant(g) \ V) \cup {n}) = Cardinality(OfGrant(g) \ V) + 1
    BY <2>2, <2>3, FS_AddElement
  <2> QED BY <1>5, <2>2, <2>4
<1>10. perGrant[g] = Cardinality(OfGrant(g)) /\ perGrant[g] <= MaxPerGrant
  BY DEF WindowInv, WindowExact, OfGrant
<1>11. V = {} => Cardinality(V) = 0
  BY FS_EmptySet
<1>12. V # {} => Cardinality(V) # 0
  BY <1>6, FS_EmptySet
<1>13. /\ perGrant'[g] = Cardinality(OfGrant(g)')
       /\ perGrant'[g] \in Nat
       /\ perGrant'[g] <= MaxPerGrant
  <2>1. perGrant'[g] = perGrant[g] + 1 - Cardinality(V)
    BY <1>1 DEF WindowInv
  <2>2. MaxPerGrant \in Nat
    BY TunAssumption DEF TunAssumption
  <2>3. perGrant'[g] = Cardinality(OfGrant(g)') /\ perGrant'[g] \in Nat
    BY <1>7, <1>8, <1>9, <1>10, <2>1
  <2>4. CASE WindowFull(g)
    <3>1. Cardinality(V) >= 1
      BY <1>2, <1>7, <1>12, <2>4
    <3> QED BY <1>7, <1>10, <2>1, <2>2, <2>3, <3>1
  <2>5. CASE ~WindowFull(g)
    <3>1. perGrant[g] < MaxPerGrant
      BY <1>7, <1>10, <2>2, <2>5 DEF WindowFull
    <3> QED BY <1>7, <1>10, <2>1, <2>2, <2>3, <3>1
  <2> QED BY <2>4, <2>5
<1>14. \A h \in Grants : h # g => perGrant'[h] = perGrant[h]
  BY <1>1 DEF WindowInv
<1>15. perGrant' \in [Grants -> Nat]
  BY <1>1, <1>13, <1>14 DEF WindowInv
<1>16. WindowExact'
  <2> SUFFICES ASSUME NEW h \in Grants
               PROVE  perGrant'[h] = Cardinality(OfGrant(h)') /\ perGrant'[h] <= MaxPerGrant
    BY DEF WindowExact, OfGrant
  <2>1. CASE h = g
    BY <1>13, <2>1
  <2>2. CASE h # g
    BY <1>4, <1>14, <2>2 DEF WindowInv, WindowExact, OfGrant
  <2> QED BY <2>1, <2>2
<1> QED BY <1>3, <1>15, <1>16 DEF WindowInv

\* Neither the pool nor its counters move, or a mint is only touched.
LEMMA WindowStill ==
    ASSUME WindowInv, UNCHANGED perGrant, DOMAIN mapping' = DOMAIN mapping,
           \A m \in DOMAIN mapping : mapping'[m].grant = mapping[m].grant
    PROVE  WindowInv'
<1>1. \A g : OfGrant(g)' = OfGrant(g)
  BY DEF OfGrant
<1> QED BY <1>1 DEF WindowInv, WindowExact, OfGrant

\* The window counters are exact and the window is never exceeded.
THEOREM WindowExactTheorem == Spec => []WindowExact
<1>1. Init => WindowInv
  <2> SUFFICES ASSUME Init PROVE WindowInv
    OBVIOUS
  <2>1. DOMAIN mapping = {} /\ perGrant = [g \in Grants |-> 0]
    BY DEF Init
  <2>2. \A g \in Grants : {n \in DOMAIN mapping : mapping[n].grant = g} = {}
    BY <2>1
  <2> QED BY <2>1, <2>2, FS_EmptySet, TunAssumption DEF WindowInv, WindowExact, TunAssumption
<1>2. IInv /\ WindowInv /\ [Next]_vars => WindowInv'
  <2> SUFFICES ASSUME IInv, WindowInv, [Next]_vars PROVE WindowInv'
    OBVIOUS
  <2>1. PoolShape
    BY DEF IInv, PoolInv
  <2>2. ASSUME NEW n \in Names, OnQuery(n) PROVE WindowInv'
    <3> DEFINE g == FirstMatch(n)
    <3>1. g \in Grants /\ Mint(n, g)
      BY <2>2, FirstMatchIsGrant, TunAssumption DEF OnQuery
    <3>2. CASE Touch(n)
      BY <2>1, <3>2, WindowStill DEF Touch, PoolShape
    <3>3. CASE MintRefused(n, g)
      BY <3>3, WindowStill DEF MintRefused
    <3>4. CASE MintNew(n, g)
      BY <2>1, <3>1, <3>4, WindowStep
    <3> QED BY <3>1, <3>2, <3>3, <3>4 DEF Mint
  <2>3. CASE UNCHANGED poolVars
    BY <2>3, WindowStill DEF poolVars
  <2>4. ASSUME NEW key, OnEstablished(key) \/ OnRateExceeded(key) \/ OnDialFails(key)
                         \/ OnDialled(key) \/ OnNotAdmitted(key)
        PROVE  UNCHANGED poolVars
    BY <2>4 DEF OnEstablished, OnRateExceeded, OnDialFails, OnDialled, OnNotAdmitted, Dial
  <2>5. ASSUME Wait \/ HangUp \/ OnNothing \/ OnReply \/ OnRefused \/ Sweep
        PROVE  UNCHANGED poolVars
    BY <2>5 DEF Wait, HangUp, OnNothing, OnReply, OnRefused, Sweep
  <2>6. CASE UNCHANGED vars
    BY <2>3, <2>6 DEF vars
  <2>7. CASE Next
    BY <2>2, <2>3, <2>4, <2>5, <2>7 DEF Next, FacadeStep
  <2> QED BY <2>6, <2>7
<1>3. WindowInv => WindowExact
  BY DEF WindowInv
<1> QED BY <1>1, <1>2, <1>3, SessionInvariant, PTL DEF Spec

\* Both together: the session's books (Pool::per_grant, the loop's maps) are
\* exact.
THEOREM BooksExactTheorem == Spec => []BooksExact
<1>1. WindowExact /\ MapsMirrorTable => BooksExact
  BY DEF BooksExact
<1> QED BY <1>1, WindowExactTheorem, MapsMirrorTableTheorem, PTL
-----------------------------------------------------------------------------
(* The rate of new flows.  The argument: a flow is paid for with a token,  *)
(* tokens come from the burst or from a credit, and the bucket's clock     *)
(* moves by at least Unit for every token credited, never past the loop's. *)

\* Clock units that one token stands for, rounded down.
Unit == Second \div PerSec

RateInv ==
    /\ tokens \in Nat /\ last \in Nat /\ now \in Nat /\ dialled \in Nat
    /\ last <= now
    /\ dialled + tokens <= Burst + last \div Unit

\* What a quotient is.
LEMMA Quotient ==
    ASSUME NEW a \in Nat, NEW b \in Nat \ {0}
    PROVE  a \div b \in Nat /\ b * (a \div b) <= a /\ a < b * (a \div b) + b
OBVIOUS

\* A product grows with its factors.
LEMMA Grows ==
    ASSUME NEW a \in Nat, NEW b \in Nat, NEW c \in Nat, a <= b
    PROVE  a * c <= b * c
OBVIOUS

\* Factors may be taken in any order.
LEMMA Permute ==
    ASSUME NEW a \in Nat, NEW b \in Nat, NEW c \in Nat
    PROVE  (a * b) * c = (c * a) * b
OBVIOUS

\* A factor of a smaller product is smaller.
LEMMA Cancel ==
    ASSUME NEW a \in Nat, NEW b \in Nat, NEW c \in Nat \ {0}, a * c < b * c + c
    PROVE  a <= b
<1> SUFFICES ASSUME b + 1 <= a PROVE FALSE
  OBVIOUS
<1>1. (b + 1) * c <= a * c
  BY Grows
<1>2. (b + 1) * c = b * c + c
  OBVIOUS
<1>3. a * c \in Nat /\ b * c \in Nat
  OBVIOUS
<1> QED BY <1>1, <1>2, <1>3

\* A quotient is the largest number whose product fits.
LEMMA QuotientLargest ==
    ASSUME NEW a \in Nat, NEW b \in Nat \ {0}, NEW q \in Nat, q * b <= a
    PROVE  q <= a \div b
<1> DEFINE d == a \div b
<1>1. d \in Nat /\ a < b * d + b
  BY Quotient
<1>2. b * d = d * b /\ d * b \in Nat /\ q * b \in Nat
  BY <1>1
<1> HIDE DEF d
<1>3. q * b < d * b + b
  BY <1>1, <1>2
<1>4. q <= d
  BY <1>1, <1>3, Cancel
<1> QED BY <1>4 DEF d

\* A token stands for at least one clock unit.
LEMMA UnitPositive == TunAssumption => Unit \in Nat \ {0} /\ Unit * PerSec <= Second
<1> SUFFICES ASSUME TunAssumption PROVE Unit \in Nat \ {0} /\ Unit * PerSec <= Second
  OBVIOUS
<1>1. Second \in Nat /\ PerSec \in Nat \ {0} /\ 1 * PerSec <= Second
  BY DEF TunAssumption
<1>2. Unit \in Nat /\ PerSec * Unit <= Second /\ 1 <= Unit
  BY <1>1, Quotient, QuotientLargest DEF Unit
<1>3. PerSec * Unit = Unit * PerSec
  BY <1>1, <1>2
<1> QED BY <1>2, <1>3

\* A refill moves the bucket's clock by at least a unit per token credited,
\* and not past the time it was asked at (RateLimiter::refill).
LEMMA RefillPays ==
    ASSUME TunAssumption, RateInv
    PROVE  /\ Credited \in Nat
           /\ RefilledAt \in Nat /\ RefilledAt <= now
           /\ last \div Unit + Credited <= RefilledAt \div Unit
<1> DEFINE span == now - last
           paid == (Credited * Second) \div PerSec
<1>1. /\ Second \in Nat \ {0} /\ PerSec \in Nat \ {0} /\ span \in Nat /\ last \in Nat
      /\ Unit \in Nat \ {0} /\ Unit * PerSec <= Second
  BY UnitPositive DEF TunAssumption, RateInv
<1>2. span * PerSec \in Nat
  BY <1>1, SMTT(40)
<1>3. Credited \in Nat /\ Second * Credited <= span * PerSec
  BY <1>1, <1>2, Quotient DEF Credited
<1>4. Credited * Second \in Nat /\ Credited * Second <= span * PerSec
  BY <1>1, <1>3
<1>5. paid \in Nat /\ PerSec * paid <= Credited * Second
  BY <1>1, <1>4, Quotient
<1> HIDE DEF span, paid
<1>6. paid <= span
  <2>1. PerSec * paid = paid * PerSec /\ paid * PerSec \in Nat
    BY <1>1, <1>5
  <2>2. paid * PerSec <= span * PerSec
    BY <1>2, <1>4, <1>5, <2>1, SMTT(40)
  <2>3. \A x, y \in Nat : x <= y => x < y + PerSec
    BY <1>1
  <2>4. paid * PerSec < span * PerSec + PerSec
    BY <1>2, <2>1, <2>2, <2>3
  <2> QED BY <1>1, <1>5, <2>4, Cancel
<1>7. Credited * Unit <= paid
  <2>1. Unit * PerSec \in Nat
    BY <1>1
  <2>2. (Unit * PerSec) * Credited <= Second * Credited
    BY <1>1, <1>3, <2>1, Grows
  <2>3. (Unit * PerSec) * Credited = (Credited * Unit) * PerSec /\ Second * Credited = Credited * Second
    <3> HIDE DEF Unit, Credited
    <3> QED BY <1>1, <1>3, Permute
  <2>4. Credited * Unit \in Nat
    BY <1>1, <1>3
  <2>5. Credited * Unit <= (Credited * Second) \div PerSec
    BY <1>1, <1>4, <2>2, <2>3, <2>4, QuotientLargest
  <2> QED BY <2>5 DEF paid
<1>8. RefilledAt = last + paid
  BY DEF RefilledAt, paid
<1>9. RefilledAt \in Nat /\ RefilledAt <= now
  BY <1>1, <1>5, <1>6, <1>8 DEF RateInv, span
<1>10. last \div Unit + Credited <= RefilledAt \div Unit
  <2> DEFINE d == last \div Unit
  <2>1. d \in Nat /\ Unit * d <= last
    BY <1>1, Quotient
  <2> HIDE DEF d
  <2>2. (d + Credited) * Unit = Unit * d + Credited * Unit
    BY <1>1, <1>3, <2>1
  <2>3. Unit * d \in Nat /\ Credited * Unit \in Nat
    BY <1>1, <1>3, <2>1
  <2>4. (d + Credited) * Unit <= RefilledAt
    BY <1>1, <1>5, <1>7, <1>8, <2>1, <2>2, <2>3, SMTT(40)
  <2>5. d + Credited \in Nat
    BY <1>3, <2>1
  <2>6. d + Credited <= RefilledAt \div Unit
    BY <1>1, <1>9, <2>4, <2>5, QuotientLargest
  <2> QED BY <2>6 DEF d
<1> QED BY <1>3, <1>9, <1>10

\* Every step of the loop keeps the account of tokens.
LEMMA RateStep ==
    ASSUME TunAssumption, RateInv, [Next]_vars
    PROVE  RateInv'
<1>1. /\ Burst \in Nat /\ Unit \in Nat \ {0} /\ last \div Unit \in Nat
      /\ Credited \in Nat /\ RefilledAt \in Nat /\ RefilledAt <= now
      /\ last \div Unit + Credited <= RefilledAt \div Unit /\ RefilledAt \div Unit \in Nat
  BY UnitPositive, RefillPays, Quotient DEF TunAssumption, RateInv
<1>2. tokens \in Nat /\ now \in Nat /\ dialled \in Nat /\ dialled + tokens <= Burst + last \div Unit
  BY DEF RateInv
<1>3. Refilled \in Nat /\ Refilled <= tokens + Credited
  <2>1. \A t, c, b \in Nat : LET f == IF t + c < b THEN t + c ELSE b IN f \in Nat /\ f <= t + c
    OBVIOUS
  <2> QED BY <1>1, <1>2, <2>1 DEF Refilled
<1>4. dialled + Refilled <= Burst + RefilledAt \div Unit
  <2> DEFINE x == last \div Unit
             y == RefilledAt \div Unit
  <2>1. x \in Nat /\ y \in Nat /\ x + Credited <= y /\ dialled + tokens <= Burst + x
    BY <1>1, <1>2
  <2>2. /\ dialled \in Nat /\ tokens \in Nat /\ Credited \in Nat /\ Burst \in Nat
        /\ Refilled \in Nat /\ Refilled <= tokens + Credited
    BY <1>1, <1>2, <1>3
  <2> HIDE DEF x, y
  <2>3. dialled + Refilled <= (dialled + tokens) + Credited
    BY <2>2, SMTT(20)
  <2>4. (dialled + tokens) + Credited <= Burst + (x + Credited)
    BY <2>1, <2>2, SMTT(20)
  <2>5. Burst + (x + Credited) <= Burst + y
    BY <2>1, <2>2, SMTT(20)
  <2>6. dialled + Refilled <= Burst + y
    <3>1. \A i, j, k, l \in Int : i <= j /\ j <= k /\ k <= l => i <= l
      OBVIOUS
    <3>2. /\ dialled + Refilled \in Int /\ (dialled + tokens) + Credited \in Int
          /\ Burst + (x + Credited) \in Int /\ Burst + y \in Int
      BY <2>1, <2>2
    <3> QED BY <2>3, <2>4, <2>5, <3>1, <3>2, Zenon
  <2> QED BY <2>6 DEF y
<1>5. ASSUME NEW key, OnRateExceeded(key) PROVE RateInv'
  <2>1. tokens' = Refilled /\ last' = RefilledAt /\ UNCHANGED <<now, dialled>>
    BY <1>5 DEF OnRateExceeded, NoToken
  <2> QED BY <1>1, <1>2, <1>3, <1>4, <2>1 DEF RateInv
<1>6. ASSUME NEW key, OnDialFails(key) \/ OnDialled(key) \/ OnNotAdmitted(key) PROVE RateInv'
  <2>1. /\ Refilled > 0 /\ tokens' = Refilled - 1 /\ last' = RefilledAt /\ UNCHANGED now
        /\ dialled' \in {dialled, dialled + 1}
    BY <1>6 DEF OnDialFails, OnDialled, OnNotAdmitted, Dial, TakeToken
  <2>2. \A d, e, f, b, y \in Nat :
          f > 0 /\ d + f <= b + y /\ e \in {d, d + 1} => f - 1 \in Nat /\ e + (f - 1) <= b + y
    OBVIOUS
  <2>3. dialled' \in Nat
    BY <1>2, <2>1, SMTT(40)
  <2>4. tokens' \in Nat /\ dialled' + tokens' <= Burst + RefilledAt \div Unit
    BY <1>1, <1>2, <1>3, <1>4, <2>1, <2>2, <2>3
  <2> QED BY <1>1, <1>2, <2>1, <2>3, <2>4 DEF RateInv
<1>7. CASE Wait
  <2>1. now' \in now .. MaxTime /\ UNCHANGED <<tokens, last, dialled>>
    BY <1>7 DEF Wait, tableVars
  <2>2. last \in Nat /\ now \in Nat /\ MaxTime \in Nat /\ last <= now
    BY DEF RateInv, TunAssumption
  <2>3. now' \in Nat /\ last' <= now'
    BY <2>1, <2>2
  <2> QED BY <1>2, <2>1, <2>2, <2>3, Zenon DEF RateInv
<1>8. ASSUME UNCHANGED <<tokens, last, now, dialled>> PROVE RateInv'
  BY <1>8 DEF RateInv
<1>9. ASSUME NEW key, OnEstablished(key) PROVE RateInv'
  BY <1>8, <1>9 DEF OnEstablished
<1>10. CASE HangUp \/ OnNothing \/ (\E n \in Names : OnQuery(n)) \/ OnReply \/ OnRefused \/ Sweep
  BY <1>8, <1>10 DEF HangUp, OnNothing, OnQuery, OnReply, OnRefused, Sweep, tableVars
<1>11. CASE FacadeStep
  BY <1>9, <1>10, <1>11, <1>5, <1>6 DEF FacadeStep
<1>12. CASE UNCHANGED vars
  BY <1>8, <1>12 DEF vars, tableVars, loopVars
<1> QED BY <1>7, <1>10, <1>11, <1>12 DEF Next

\* The session never dials more flows than the burst and one for each Unit of
\* time that has passed, however its queries and datagrams are spaced and
\* although the bucket counts in whole tokens (RateLimiter::allow).
THEOREM RateBoundedTheorem == Spec => []RateBounded
<1>1. Init => RateInv
  <2>1. Unit \in Nat \ {0} /\ Burst \in Nat
    BY UnitPositive, TunAssumption DEF TunAssumption
  <2>2. 0 \div Unit \in Nat
    BY <2>1, Quotient
  <2> QED BY <2>1, <2>2 DEF Init, RateInv
<1>2. RateInv /\ [Next]_vars => RateInv'
  BY RateStep, TunAssumption
<1>3. RateInv => RateBounded
  <2> SUFFICES ASSUME RateInv PROVE RateBounded
    OBVIOUS
  <2>1. Unit \in Nat \ {0} /\ Burst \in Nat
    BY UnitPositive, TunAssumption DEF TunAssumption
  <2>2. last \div Unit \in Nat /\ Unit * (last \div Unit) <= last
    BY <2>1, Quotient DEF RateInv
  <2>3. (last \div Unit) * Unit <= now
    BY <2>1, <2>2 DEF RateInv
  <2>4. last \div Unit <= now \div Unit /\ now \div Unit \in Nat
    BY <2>1, <2>2, <2>3, Quotient, QuotientLargest DEF RateInv
  <2> QED BY <2>1, <2>2, <2>4 DEF RateInv, RateBounded, Unit
<1> QED BY <1>1, <1>2, <1>3, PTL DEF Spec

----------------------------------------------------------------------------
(* The inbound mirror: where a conduit's kennel end is.                    *)

\* The record types of MirrorTypeOK.
LooperStates ==
    [op : {"idle", "acquire", "insert", "pop", "push", "reply", "dead", "release"},
     node : Nodes \cup {None}, handle : Handles \cup {None}, fd : Conduits \cup {None}]
FacadeStates ==
    [gen : 0 .. MaxStarts, next : 1 .. NPorts + 1,
     at : {"down", "registering", "waiting", "exiting", "serving"}]
ReaderStates == [fd : Conduits \cup {None}, handle : Handles \cup {None}]

\* No conduit stands twice in a queue.
Distinct(s) == \A i, j \in 1 .. Len(s) : s[i] = s[j] => i = j

\* Queue s holds conduits of port p, which a says are at `place`.
Within(s, a, o, place, p) ==
    /\ Distinct(s)
    /\ \A i \in 1 .. Len(s) : a[s[i]] = place /\ o[s[i]] = p

\* Every conduit is in the one place `at` names, and keeps its port there.
QueuesHold ==
    \A p \in Ports : /\ Within(chan[p], at, port, "channel", p)
                     /\ Within(bounce[p], at, port, "bounced", p)

ReaderHolds ==
    \A p \in Ports : reader[p].fd # None =>
        at[reader[p].fd] = "reader" /\ port[reader[p].fd] = p

LooperHolds ==
    /\ \A l \in Loopers : looper[l].op = "push" =>
         /\ looper[l].fd # None
         /\ at[looper[l].fd] = "popped" /\ port[looper[l].fd] = looper[l].node.port
    /\ \A l, m \in Loopers :
         looper[l].op = "push" /\ looper[m].op = "push" /\ looper[l].fd = looper[m].fd => l = m

MessageHolds ==
    \A c \in Conduits :
        /\ at[c] = "queued" => dest[c] # None /\ dest[c].payload = port[c]
        /\ at[c] = "served" => dest[c] # None /\ dest[c].to = port[c]

\* A registration that is being handled has its node and handle; it is the
\* one the living facade waits for, or a dead facade's.
HandlingInv ==
    /\ \A l \in Loopers : looper[l].op # "idle" => looper[l].handle # None
    /\ \A l \in Handling :
         /\ looper[l].node # None /\ looper[l].node.gen <= facade.gen
         /\ Alive(looper[l].node) => facade.at = "waiting" /\ looper[l].node.port = facade.next
    /\ \A l, m \in Handling : Alive(looper[l].node) /\ Alive(looper[m].node) => l = m
    /\ facade.at \in {"registering", "waiting"} => facade.gen > 0 /\ facade.next <= NPorts

\* No two handles stand for one node, and the node to be registered next is
\* not among them: a handle is free for it.
RefsInv ==
    /\ \A g, h \in Handles : refs[g] # None /\ refs[g] = refs[h] => g = h
    /\ \A h \in Handles : refs[h] # None =>
         /\ refs[h].gen <= facade.gen
         /\ refs[h].gen = facade.gen /\ facade.at # "down" =>
              refs[h].port < facade.next \/ (refs[h].port = facade.next /\ facade.at # "registering")

PlaceInv ==
    /\ MirrorTypeOK /\ HandlingInv /\ RefsInv
    /\ QueuesHold /\ ReaderHolds /\ LooperHolds /\ MessageHolds

\* What is in kenneld or the facade on behalf of a port.
Carried(p) == {c \in Conduits : at[c] # "closed" /\ port[c] = p}

\* While host-inetd lives it splices every conduit that is anywhere, so its
\* own count bounds them; when it is gone they only become fewer.
CarriedInv ==
    /\ inetd => \A c \in Conduits : at[c] # "closed" => splicing[c]
    /\ \A p \in Ports : Cardinality(Carried(p)) <= Cap

----------------------------------------------------------------------------
(* The inbound mirror: which handle stands for which node.                 *)

Condemned(l) == looper[l].op \in {"dead", "release"}

\* One registration at a time, and while a facade lives it is that one's.
OneRegistration ==
    /\ \A l, m \in Handling : l = m
    /\ facade.at # "down" => \A l \in Handling : Alive(looper[l].node)

\* A death is reported once, of a node that is dead, and a handle that is
\* about to be released is in no other hands.
DeathsInv ==
    /\ \A h \in dead : refs[h] # None /\ ~ Alive(refs[h])
    /\ \A l \in Loopers : Condemned(l) =>
         /\ looper[l].handle \notin dead
         /\ refs[looper[l].handle] # None /\ ~ Alive(refs[looper[l].handle])
    /\ \A l, m \in Loopers :
         Condemned(l) /\ Condemned(m) /\ looper[l].handle = looper[m].handle => l = m
    /\ \A l \in Loopers : looper[l].op = "release" =>
         \A p \in Ports : mirrors[p] # looper[l].handle

\* A handle that is not yet in `mirrors` refers to its node and is in no other
\* hands; one that was stored is where it was stored while its facade lives.
HandlerInv ==
    /\ \A p \in Ports : mirrors[p] # None => refs[mirrors[p]] # None
    /\ \A l \in Handling :
        /\ looper[l].op \in {"acquire", "insert"} =>
             /\ refs[looper[l].handle] = looper[l].node
             /\ \A p \in Ports : mirrors[p] # looper[l].handle
             /\ \A m \in Loopers : looper[m].op = "release" => looper[m].handle # looper[l].handle
        /\ looper[l].op = "acquire" =>
             /\ looper[l].handle \notin dead
             /\ \A m \in Loopers : Condemned(m) => looper[m].handle # looper[l].handle
        /\ looper[l].op \in {"pop", "push", "reply"} /\ facade.at # "down" =>
             /\ mirrors[looper[l].node.port] = looper[l].handle
             /\ refs[looper[l].handle] = looper[l].node

MappingInv == OneRegistration /\ DeathsInv /\ HandlerInv /\ RegisteredStaysMapped

----------------------------------------------------------------------------
(* Queues of conduits.                                                     *)

\* A queue whose conduits have not moved.
LEMMA WithinKept ==
    ASSUME NEW s \in Seq(Conduits), NEW a, NEW o, NEW b, NEW q, NEW place, NEW p,
           Within(s, a, o, place, p),
           \A c \in Conduits : a[c] = place /\ o[c] = p => b[c] = place /\ q[c] = p
    PROVE  Within(s, b, q, place, p)
  BY DEF Within

\* The conduit at the head of a queue is where the queue says.
LEMMA WithinHead ==
    ASSUME NEW s \in Seq(Conduits), s # <<>>, NEW a, NEW o, NEW place, NEW p,
           Within(s, a, o, place, p)
    PROVE  /\ Head(s) \in Conduits /\ Tail(s) \in Seq(Conduits)
           /\ a[Head(s)] = place /\ o[Head(s)] = p
  BY DEF Within

\* Taking the head off a queue ...
LEMMA WithinTail ==
    ASSUME NEW s \in Seq(Conduits), s # <<>>, NEW a, NEW o, NEW b, NEW place, NEW p,
           Within(s, a, o, place, p),
           \A c \in Conduits : c # Head(s) => b[c] = a[c]
    PROVE  Within(Tail(s), b, o, place, p)
<1>1. /\ Len(Tail(s)) = Len(s) - 1 /\ Len(s) \in Nat
      /\ \A i \in 1 .. Len(Tail(s)) : i + 1 \in 1 .. Len(s) /\ Tail(s)[i] = s[i + 1]
  BY HeadTailProperties
<1>2. Distinct(Tail(s))
  BY <1>1 DEF Within, Distinct
<1>3. \A i \in 1 .. Len(Tail(s)) : Tail(s)[i] \in Conduits /\ Tail(s)[i] # Head(s)
  BY <1>1 DEF Within, Distinct
<1>. QED
  BY <1>1, <1>2, <1>3 DEF Within

\* ... and putting a conduit at its end.
LEMMA WithinAppend ==
    ASSUME NEW s \in Seq(Conduits), NEW a, NEW o, NEW b, NEW q, NEW place, NEW p,
           Within(s, a, o, place, p), NEW c \in Conduits, a[c] # place,
           b[c] = place, q[c] = p,
           \A d \in Conduits : d # c => b[d] = a[d] /\ q[d] = o[d]
    PROVE  Within(Append(s, c), b, q, place, p)
<1>1. /\ Len(Append(s, c)) = Len(s) + 1 /\ Len(s) \in Nat /\ Append(s, c)[Len(s) + 1] = c
      /\ \A i \in 1 .. Len(s) : Append(s, c)[i] = s[i] /\ s[i] \in Conduits /\ s[i] # c
  BY DEF Within
<1>2. Distinct(Append(s, c))
  BY <1>1 DEF Within, Distinct
<1>. QED
  BY <1>1, <1>2 DEF Within

\* A step that moves no queued conduit keeps the queues.
LEMMA QueuesKept ==
    ASSUME MirrorTypeOK, QueuesHold, chan' = chan, bounce' = bounce,
           \A c \in Conduits : at[c] \in {"channel", "bounced"} =>
               at'[c] = at[c] /\ port'[c] = port[c]
    PROVE  QueuesHold'
<1>. SUFFICES ASSUME NEW p \in Ports
              PROVE  /\ Within(chan[p], at', port', "channel", p)
                     /\ Within(bounce[p], at', port', "bounced", p)
  BY DEF QueuesHold
<1>1. /\ chan[p] \in Seq(Conduits) /\ Within(chan[p], at, port, "channel", p)
      /\ bounce[p] \in Seq(Conduits) /\ Within(bounce[p], at, port, "bounced", p)
  BY DEF MirrorTypeOK, QueuesHold
<1>2. Within(chan[p], at', port', "channel", p)
  BY <1>1, WithinKept
<1>3. Within(bounce[p], at', port', "bounced", p)
  BY <1>1, WithinKept
<1>. QED
  BY <1>2, <1>3

\* How many numbers there are from 1 to n.
LEMMA CountUpTo ==
    ASSUME NEW n \in Nat
    PROVE  IsFiniteSet(1 .. n) /\ Cardinality(1 .. n) = n
<1>1. IsFiniteSet(1 .. n) /\ Cardinality(1 .. n) = IF 1 > n THEN 0 ELSE n - 1 + 1
  BY FS_Interval, 1 \in Int, n \in Int
<1>. QED
  BY <1>1

\* A facade that still has a port to register finds a free handle: there are
\* as many as nodes, and its next node has none.
LEMMA FreeHandle ==
    ASSUME MirrorTypeOK, HandlingInv, RefsInv, facade.at = "registering"
    PROVE  LowestFree \in Handles /\ refs[LowestFree] = None
<1>. USE MirrorAssumption
<1>. DEFINE Gens == 1 .. MaxStarts
            next == <<facade.next, facade.gen>>
            Others == (Ports \X Gens) \ {next}
<1>1. /\ facade.next \in Ports /\ facade.gen \in Gens
      /\ NPorts \in Nat /\ MaxStarts \in Nat /\ NPorts * MaxStarts \in Nat
  BY DEF MirrorTypeOK, HandlingInv, Ports
<1>2. \E h \in Handles : refs[h] = None
  <2>. SUFFICES ASSUME \A h \in Handles : refs[h] # None
                PROVE  FALSE
    OBVIOUS
  <2>. DEFINE f == [h \in Handles |-> <<refs[h].port, refs[h].gen>>]
  <2>1. IsFiniteSet(Ports \X Gens) /\ Cardinality(Ports \X Gens) = NPorts * MaxStarts
    <3>1. IsFiniteSet(Ports) /\ Cardinality(Ports) = NPorts
      BY CountUpTo, <1>1 DEF Ports
    <3>2. IsFiniteSet(Gens) /\ Cardinality(Gens) = MaxStarts
      BY CountUpTo, <1>1
    <3>. QED
      BY <3>1, <3>2, FS_Product
  <2>2. IsFiniteSet(Handles) /\ Cardinality(Handles) = NPorts * MaxStarts
    BY CountUpTo, <1>1 DEF Handles
  <2>3. IsFiniteSet(Others) /\ Cardinality(Others) = NPorts * MaxStarts - 1
    <3>1. next \in Ports \X Gens
      BY <1>1
    <3>2. \A S : IsFiniteSet(S) => \A x \in S :
            IsFiniteSet(S \ {x}) /\ Cardinality(S \ {x}) = Cardinality(S) - 1
      BY FS_RemoveElement
    <3>. HIDE DEF next, Gens
    <3>. QED
      BY <2>1, <3>1, <3>2
  <2>4. f \in [Handles -> Others]
    <3>1. ASSUME NEW h \in Handles
          PROVE  refs[h].port \in Ports /\ refs[h].gen \in Gens
                 /\ ~ (refs[h].port = facade.next /\ refs[h].gen = facade.gen)
      <4>1. refs[h] \in Nodes
        BY DEF MirrorTypeOK
      <4>2. refs[h].port \in Ports /\ refs[h].gen \in Gens
        BY <4>1 DEF Nodes
      <4>3. refs[h].gen = facade.gen => refs[h].port < facade.next
        BY DEF RefsInv
      <4>. QED
        BY <1>1, <4>2, <4>3 DEF Ports
    <3>. QED
      BY <3>1
  <2>5. Cardinality(Others) < Cardinality(Handles)
    BY <1>1, <2>2, <2>3
  <2>6. PICK g \in Handles, h \in Handles : g # h /\ f[g] = f[h]
    <3>. HIDE DEF Others, f
    <3>. QED
      BY <2>2, <2>3, <2>4, <2>5, FS_PigeonHole
  <2>7. refs[g] \in Nodes /\ refs[h] \in Nodes
    BY DEF MirrorTypeOK
  <2>8. refs[g] = refs[h]
    BY <2>6, <2>7 DEF Nodes
  <2>. QED
    BY <2>6, <2>8 DEF RefsInv
<1>3. \E h \in Handles : refs[h] = None /\ \A g \in Handles : refs[g] = None => h <= g
  <2>. DEFINE F == {h \in Handles : refs[h] = None}
  <2>1. F \subseteq Nat /\ F # {}
    BY <1>2 DEF Handles
  <2>2. \E h \in F : \A g \in F : h <= g
    <3>. HIDE DEF F
    <3>. QED
      BY <2>1, Least
  <2>. QED
    BY <2>2
<1>. QED
  BY <1>3 DEF LowestFree

----------------------------------------------------------------------------
(* Records that a step changes in one or two fields.                       *)

\* None stands for the absence of a node and of a message.
LEMMA NoNone == None \notin Nodes /\ None \notin Messages
  BY MirrorAssumption

\* Looper l has moved to the given state and the others have not moved.
Moved(f, g, l, op, node, handle, fd) ==
    /\ g \in [Loopers -> LooperStates]
    /\ g[l].op = op /\ g[l].node = node /\ g[l].handle = handle /\ g[l].fd = fd
    /\ \A m \in Loopers : m # l => g[m] = f[m]

\* A looper that moves on.
LEMMA LooperOp ==
    ASSUME NEW f \in [Loopers -> LooperStates], NEW l \in Loopers,
           NEW o \in {"idle", "acquire", "insert", "pop", "push", "reply", "dead", "release"}
    PROVE  Moved(f, [f EXCEPT ![l].op = o], l, o, f[l].node, f[l].handle, f[l].fd)
  BY DEF LooperStates, Moved

\* A looper that moves on and takes up, or puts down, a conduit.
LEMMA LooperOpFd ==
    ASSUME NEW f \in [Loopers -> LooperStates], NEW l \in Loopers, NEW x \in Conduits \cup {None},
           NEW o \in {"idle", "acquire", "insert", "pop", "push", "reply", "dead", "release"}
    PROVE  Moved(f, [f EXCEPT ![l].op = o, ![l].fd = x], l, o, f[l].node, f[l].handle, x)
  BY DEF LooperStates, Moved

\* A looper that takes up a transaction.
LEMMA LooperSet ==
    ASSUME NEW f \in [Loopers -> LooperStates], NEW l \in Loopers,
           NEW o \in {"idle", "acquire", "insert", "pop", "push", "reply", "dead", "release"},
           NEW n \in Nodes \cup {None}, NEW h \in Handles \cup {None}, NEW x \in Conduits \cup {None}
    PROVE  Moved(f, [f EXCEPT ![l] = [op |-> o, node |-> n, handle |-> h, fd |-> x]], l, o, n, h, x)
  BY DEF LooperStates, Moved

\* A looper that is done.
LEMMA IdleMoved ==
    ASSUME NEW f \in [Loopers -> LooperStates], NEW l \in Loopers
    PROVE  Moved(f, [f EXCEPT ![l] = Idle], l, "idle", None, None, None)
  BY DEF Idle, LooperStates, Moved

\* A looper that takes up a death notice.
LEMMA DeadMoved ==
    ASSUME NEW f \in [Loopers -> LooperStates], NEW l \in Loopers, NEW h \in Handles
    PROVE  Moved(f, [f EXCEPT ![l] = [Idle EXCEPT !.op = "dead", !.handle = h]], l, "dead", None, h, None)
  BY DEF Idle, LooperStates, Moved

\* A facade that moves on.
LEMMA FacadeAt ==
    ASSUME NEW f \in FacadeStates,
           NEW a \in {"down", "registering", "waiting", "exiting", "serving"}
    PROVE  LET g == [f EXCEPT !.at = a]
           IN  g \in FacadeStates /\ g.at = a /\ g.gen = f.gen /\ g.next = f.next
  BY DEF FacadeStates

\* A facade that moves on to its next port.
LEMMA FacadeNext ==
    ASSUME NEW f \in FacadeStates, f.next <= NPorts,
           NEW a \in {"down", "registering", "waiting", "exiting", "serving"}
    PROVE  LET g == [f EXCEPT !.next = f.next + 1, !.at = a]
           IN  g \in FacadeStates /\ g.at = a /\ g.gen = f.gen /\ g.next = f.next + 1
<1>1. NPorts \in Nat /\ f.next \in 1 .. NPorts + 1
  BY MirrorAssumption DEF FacadeStates
<1>2. f.next + 1 \in 1 .. NPorts + 1
  BY <1>1
<1>. QED
  BY <1>2 DEF FacadeStates

\* A message that has been delivered.
LEMMA MessageTo ==
    ASSUME NEW m \in Messages, NEW x \in Ports
    PROVE  LET k == [m EXCEPT !.to = x]
           IN  k \in Messages /\ k.to = x /\ k.payload = m.payload
  BY DEF Messages

\* MirrorTypeOK with the record types named, ...
LEMMA TypedParts ==
    MirrorTypeOK <=>
        /\ mirrors \in [Ports -> Handles \cup {None}]
        /\ bounce \in [Ports -> Seq(Conduits)] /\ chan \in [Ports -> Seq(Conduits)]
        /\ reader \in [Ports -> ReaderStates]
        /\ at \in [Conduits -> {"closed", "channel", "reader", "bounced", "popped", "queued", "served"}]
        /\ port \in [Conduits -> Ports]
        /\ dest \in [Conduits -> {None} \cup Messages]
        /\ open \in [Conduits -> BOOLEAN] /\ splicing \in [Conduits -> BOOLEAN] /\ inetd \in BOOLEAN
        /\ facade \in FacadeStates
        /\ refs \in [Handles -> Nodes \cup {None}] /\ dead \subseteq Handles
        /\ looper \in [Loopers -> LooperStates]
  BY DEF MirrorTypeOK, ReaderStates, Messages, FacadeStates, LooperStates

\* ... and its primed form.
LEMMA TypedNext ==
    (
        /\ mirrors' \in [Ports -> Handles \cup {None}]
        /\ bounce' \in [Ports -> Seq(Conduits)] /\ chan' \in [Ports -> Seq(Conduits)]
        /\ reader' \in [Ports -> ReaderStates]
        /\ at' \in [Conduits -> {"closed", "channel", "reader", "bounced", "popped", "queued", "served"}]
        /\ port' \in [Conduits -> Ports]
        /\ dest' \in [Conduits -> {None} \cup Messages]
        /\ open' \in [Conduits -> BOOLEAN] /\ splicing' \in [Conduits -> BOOLEAN] /\ inetd' \in BOOLEAN
        /\ facade' \in FacadeStates
        /\ refs' \in [Handles -> Nodes \cup {None}] /\ dead' \subseteq Handles
        /\ looper' \in [Loopers -> LooperStates]
    ) => MirrorTypeOK'
  BY DEF MirrorTypeOK, ReaderStates, Messages, FacadeStates, LooperStates

\* Nothing is anywhere at the start.
LEMMA PlaceInit == MirrorInit => PlaceInv
<1>. SUFFICES ASSUME MirrorInit PROVE PlaceInv
  OBVIOUS
<1>. USE MirrorAssumption
<1>1. MirrorTypeOK
  BY DEF MirrorInit, MirrorTypeOK, Idle, Ports, Handles
<1>2. HandlingInv /\ RefsInv
  BY DEF MirrorInit, HandlingInv, RefsInv, Handling, Idle
<1>3. QueuesHold
  BY DEF MirrorInit, QueuesHold, Within, Distinct
<1>4. ReaderHolds /\ LooperHolds /\ MessageHolds
  BY DEF MirrorInit, ReaderHolds, LooperHolds, MessageHolds, Idle
<1>. QED
  BY <1>1, <1>2, <1>3, <1>4 DEF PlaceInv

\* Every step keeps each conduit in the one place `at` names.
LEMMA PlaceStep == PlaceInv /\ [MirrorNext]_mirrorVars => PlaceInv'
<1>. SUFFICES ASSUME PlaceInv, [MirrorNext]_mirrorVars PROVE PlaceInv'
  OBVIOUS
<1>. USE MirrorAssumption DEF PlaceInv
<1>0. /\ mirrors \in [Ports -> Handles \cup {None}]
      /\ bounce \in [Ports -> Seq(Conduits)] /\ chan \in [Ports -> Seq(Conduits)]
      /\ reader \in [Ports -> ReaderStates]
      /\ at \in [Conduits -> {"closed", "channel", "reader", "bounced", "popped", "queued", "served"}]
      /\ port \in [Conduits -> Ports]
      /\ dest \in [Conduits -> {None} \cup Messages]
      /\ open \in [Conduits -> BOOLEAN] /\ splicing \in [Conduits -> BOOLEAN] /\ inetd \in BOOLEAN
      /\ facade \in FacadeStates
      /\ refs \in [Handles -> Nodes \cup {None}] /\ dead \subseteq Handles
      /\ looper \in [Loopers -> LooperStates]
  BY TypedParts
<1>1. CASE UNCHANGED mirrorVars
  BY <1>1 DEF mirrorVars, runtimeVars, hostVars, MirrorTypeOK, HandlingInv, RefsInv, Handling, Alive,
     QueuesHold, ReaderHolds, LooperHolds, MessageHolds
<1>2. ASSUME NEW p \in Ports, NEW c \in Conduits, Accept(p, c) PROVE PlaceInv'
  <2>1. MirrorTypeOK'
    <3>1. PICK cloned \in {TRUE, ~ CloneFails} :
            open' = [open EXCEPT ![c] = cloned] /\ splicing' = [splicing EXCEPT ![c] = cloned]
      BY <1>2 DEF Accept
    <3>2. open' \in [Conduits -> BOOLEAN] /\ splicing' \in [Conduits -> BOOLEAN]
      BY <1>0, <3>1
    <3>. QED
      BY <1>0, <1>2, <3>2, TypedNext DEF Accept, runtimeVars, hostVars
  <2>2. HandlingInv'
    BY <1>0, <1>2 DEF Accept, runtimeVars, hostVars, HandlingInv, Handling, Alive, Moved
  <2>3. RefsInv'
    BY <1>0, <1>2 DEF Accept, runtimeVars, hostVars, RefsInv, Nodes, FacadeStates, Ports
  <2>4. QueuesHold'
    <3>. SUFFICES ASSUME NEW q \in Ports
                  PROVE  /\ Within(chan'[q], at', port', "channel", q)
                         /\ Within(bounce[q], at', port', "bounced", q)
      BY <1>2 DEF Accept, runtimeVars, hostVars, QueuesHold
    <3>1. /\ chan[q] \in Seq(Conduits) /\ Within(chan[q], at, port, "channel", q)
          /\ bounce[q] \in Seq(Conduits) /\ Within(bounce[q], at, port, "bounced", q)
      BY DEF MirrorTypeOK, QueuesHold
    <3>2. /\ at[c] = "closed" /\ at'[c] = "channel" /\ port'[c] = p
          /\ \A d \in Conduits : d # c => at'[d] = at[d] /\ port'[d] = port[d]
      BY <1>2 DEF Accept, MirrorTypeOK
    <3>3. Within(bounce[q], at', port', "bounced", q)
      BY <3>1, <3>2, WithinKept
    <3>4. CASE q = p
      <4>1. chan'[q] = Append(chan[q], c)
        BY <1>2, <3>4 DEF Accept, MirrorTypeOK
      <4>2. Within(Append(chan[q], c), at', port', "channel", q)
        BY <3>1, <3>2, <3>4, WithinAppend
      <4>. QED
        BY <3>3, <4>1, <4>2
    <3>5. CASE q # p
      <4>1. chan'[q] = chan[q]
        BY <1>2, <3>5 DEF Accept, MirrorTypeOK
      <4>2. Within(chan[q], at', port', "channel", q)
        BY <3>1, <3>2, WithinKept
      <4>. QED
        BY <3>3, <4>1, <4>2
    <3>. QED
      BY <3>4, <3>5
  <2>5. ReaderHolds'
    BY <1>0, <1>2 DEF Accept, runtimeVars, hostVars, ReaderHolds, LooperHolds, ReaderStates
  <2>6. LooperHolds'
    BY <1>0, <1>2 DEF Accept, runtimeVars, hostVars, LooperHolds, Moved
  <2>7. MessageHolds'
    BY <1>0, <1>2 DEF Accept, runtimeVars, hostVars, ReaderHolds, LooperHolds, MessageHolds, LooperStates, Messages
  <2>. QED
    BY <2>1, <2>2, <2>3, <2>4, <2>5, <2>6, <2>7
<1>3. ASSUME NEW c \in Conduits, ClientCloses(c) PROVE PlaceInv'
  <2>1. MirrorTypeOK'
    BY <1>0, <1>3, TypedNext DEF ClientCloses, runtimeVars, hostVars, Moved
  <2>2. HandlingInv'
    BY <1>0, <1>3 DEF ClientCloses, runtimeVars, hostVars, HandlingInv, Handling, Alive, Moved
  <2>3. RefsInv'
    BY <1>0, <1>3 DEF ClientCloses, runtimeVars, hostVars, RefsInv, Nodes, FacadeStates, Ports
  <2>4. QueuesHold'
    BY <1>0, <1>3, QueuesKept DEF ClientCloses, runtimeVars, hostVars, ReaderHolds, LooperHolds
  <2>5. ReaderHolds'
    BY <1>0, <1>3 DEF ClientCloses, runtimeVars, hostVars, ReaderHolds, LooperHolds, ReaderStates
  <2>6. LooperHolds'
    BY <1>0, <1>3 DEF ClientCloses, runtimeVars, hostVars, LooperHolds, Moved
  <2>7. MessageHolds'
    BY <1>0, <1>3 DEF ClientCloses, runtimeVars, hostVars, ReaderHolds, LooperHolds, MessageHolds, LooperStates, Messages
  <2>. QED
    BY <2>1, <2>2, <2>3, <2>4, <2>5, <2>6, <2>7
<1>4. ASSUME NEW c \in Conduits, SpliceEnds(c) PROVE PlaceInv'
  <2>1. MirrorTypeOK'
    BY <1>0, <1>4, TypedNext DEF SpliceEnds, runtimeVars, hostVars, Moved
  <2>2. HandlingInv'
    BY <1>0, <1>4 DEF SpliceEnds, runtimeVars, hostVars, HandlingInv, Handling, Alive, Moved
  <2>3. RefsInv'
    BY <1>0, <1>4 DEF SpliceEnds, runtimeVars, hostVars, RefsInv, Nodes, FacadeStates, Ports
  <2>4. QueuesHold'
    BY <1>0, <1>4, QueuesKept DEF SpliceEnds, runtimeVars, hostVars, ReaderHolds, LooperHolds
  <2>5. ReaderHolds'
    BY <1>0, <1>4 DEF SpliceEnds, runtimeVars, hostVars, ReaderHolds, LooperHolds, ReaderStates
  <2>6. LooperHolds'
    BY <1>0, <1>4 DEF SpliceEnds, runtimeVars, hostVars, LooperHolds, Moved
  <2>7. MessageHolds'
    BY <1>0, <1>4 DEF SpliceEnds, runtimeVars, hostVars, ReaderHolds, LooperHolds, MessageHolds, LooperStates, Messages
  <2>. QED
    BY <2>1, <2>2, <2>3, <2>4, <2>5, <2>6, <2>7
<1>5. CASE DelegateDies
  <2>1. MirrorTypeOK'
    BY <1>0, <1>5, TypedNext DEF DelegateDies, runtimeVars, hostVars, Moved
  <2>2. HandlingInv'
    BY <1>0, <1>5 DEF DelegateDies, runtimeVars, hostVars, HandlingInv, Handling, Alive, Moved
  <2>3. RefsInv'
    BY <1>0, <1>5 DEF DelegateDies, runtimeVars, hostVars, RefsInv, Nodes, FacadeStates, Ports
  <2>4. QueuesHold'
    BY <1>0, <1>5, QueuesKept DEF DelegateDies, runtimeVars, hostVars, ReaderHolds, LooperHolds
  <2>5. ReaderHolds'
    BY <1>0, <1>5 DEF DelegateDies, runtimeVars, hostVars, ReaderHolds, LooperHolds, ReaderStates
  <2>6. LooperHolds'
    BY <1>0, <1>5 DEF DelegateDies, runtimeVars, hostVars, LooperHolds, Moved
  <2>7. MessageHolds'
    BY <1>0, <1>5 DEF DelegateDies, runtimeVars, hostVars, ReaderHolds, LooperHolds, MessageHolds, LooperStates, Messages
  <2>. QED
    BY <2>1, <2>2, <2>3, <2>4, <2>5, <2>6, <2>7
<1>6. ASSUME NEW p \in Ports, ReaderReceives(p) PROVE PlaceInv'
  <2>a. /\ reader[p].fd = None
        /\ chan[p] # <<>> /\ chan[p] \in Seq(Conduits) /\ Within(chan[p], at, port, "channel", p)
        /\ Head(chan[p]) \in Conduits /\ Tail(chan[p]) \in Seq(Conduits)
        /\ at[Head(chan[p])] = "channel" /\ port[Head(chan[p])] = p
    BY <1>0, <1>6, WithinHead DEF ReaderReceives, QueuesHold
  <2>b. /\ reader' = [reader EXCEPT ![p] = [fd |-> Head(chan[p]), handle |-> mirrors[p]]]
        /\ at' = [at EXCEPT ![Head(chan[p])] = "reader"]
        /\ chan' = [chan EXCEPT ![p] = Tail(chan[p])]
        /\ UNCHANGED <<mirrors, bounce, dest, port, open, splicing, inetd, facade, refs, dead, looper>>
    BY <1>6 DEF ReaderReceives, runtimeVars, hostVars
  <2>1. MirrorTypeOK'
    BY <1>0, <2>a, <2>b, TypedNext DEF ReaderStates
  <2>2. HandlingInv'
    BY <2>a, <2>b DEF HandlingInv, Handling, Alive, Moved
  <2>3. RefsInv'
    BY <1>0, <2>a, <2>b DEF RefsInv, Nodes, FacadeStates, Ports
  <2>4. QueuesHold'
    <3>. SUFFICES ASSUME NEW q \in Ports
                  PROVE  /\ Within(chan'[q], at', port, "channel", q)
                         /\ Within(bounce[q], at', port, "bounced", q)
      BY <1>6 DEF ReaderReceives, runtimeVars, hostVars, QueuesHold
    <3>1. /\ chan[q] \in Seq(Conduits) /\ Within(chan[q], at, port, "channel", q)
          /\ bounce[q] \in Seq(Conduits) /\ Within(bounce[q], at, port, "bounced", q)
      BY DEF MirrorTypeOK, QueuesHold
    <3>2. \A d \in Conduits : d # Head(chan[p]) => at'[d] = at[d]
      BY <1>6, <2>a DEF ReaderReceives, MirrorTypeOK
    <3>3. Within(bounce[q], at', port, "bounced", q)
      BY <2>a, <3>1, <3>2, WithinKept
    <3>4. CASE q = p
      <4>1. chan'[q] = Tail(chan[q])
        BY <1>6, <3>4 DEF ReaderReceives, MirrorTypeOK
      <4>2. Within(Tail(chan[q]), at', port, "channel", q)
        BY <2>a, <3>1, <3>2, <3>4, WithinTail
      <4>. QED
        BY <3>3, <4>1, <4>2
    <3>5. CASE q # p
      <4>1. chan'[q] = chan[q]
        BY <1>6, <3>5 DEF ReaderReceives, MirrorTypeOK
      <4>2. Within(chan[q], at', port, "channel", q)
        BY <2>a, <3>1, <3>2, <3>5, WithinKept
      <4>. QED
        BY <3>3, <4>1, <4>2
    <3>. QED
      BY <3>4, <3>5
  <2>5. ReaderHolds'
    BY <1>0, <2>a, <2>b DEF ReaderHolds, LooperHolds, ReaderStates
  <2>6. LooperHolds'
    BY <2>a, <2>b DEF LooperHolds, Moved
  <2>7. MessageHolds'
    BY <1>0, <2>a, <2>b DEF ReaderHolds, LooperHolds, MessageHolds, LooperStates, Messages
  <2>. QED
    BY <2>1, <2>2, <2>3, <2>4, <2>5, <2>6, <2>7
<1>7. ASSUME NEW p \in Ports, ReaderPushes(p) PROVE PlaceInv'
  <2>. DEFINE c == reader[p].fd
               m == [node |-> refs[reader[p].handle], payload |-> p, to |-> 0]
  <2>a. c \in Conduits /\ at[c] = "reader" /\ port[c] = p /\ m \in Messages /\ m.payload = p /\ m # None
    BY <1>0, <1>7, NoNone DEF ReaderPushes, Deliverable, Alive, ReaderHolds, ReaderStates, Messages
  <2>b. /\ at' = [at EXCEPT ![c] = "queued"] /\ dest' = [dest EXCEPT ![c] = m]
        /\ reader' = [reader EXCEPT ![p] = [fd |-> None, handle |-> None]]
        /\ UNCHANGED <<mirrors, bounce, chan, port, open, splicing, inetd, facade, refs, dead, looper>>
    BY <1>7 DEF ReaderPushes, runtimeVars, hostVars
  <2>. HIDE DEF m
  <2>1. MirrorTypeOK'
    BY <1>0, <2>a, <2>b, TypedNext DEF ReaderStates
  <2>2. HandlingInv'
    BY <2>a, <2>b DEF HandlingInv, Handling, Alive, Moved
  <2>3. RefsInv'
    BY <1>0, <2>a, <2>b DEF RefsInv, Nodes, FacadeStates, Ports
  <2>4. QueuesHold'
    BY <1>0, <2>a, <2>b, QueuesKept DEF ReaderHolds, LooperHolds
  <2>5. ReaderHolds'
    BY <1>0, <2>a, <2>b DEF ReaderHolds, LooperHolds, ReaderStates
  <2>6. LooperHolds'
    BY <2>a, <2>b DEF LooperHolds, Moved
  <2>7. MessageHolds'
    BY <1>0, <2>a, <2>b DEF ReaderHolds, LooperHolds, MessageHolds, LooperStates, Messages
  <2>. QED
    BY <2>1, <2>2, <2>3, <2>4, <2>5, <2>6, <2>7
<1>8. ASSUME NEW p \in Ports, ReaderBounces(p) PROVE PlaceInv'
  <2>1. MirrorTypeOK'
    BY <1>0, <1>8, TypedNext DEF ReaderBounces, runtimeVars, hostVars, ReaderStates
  <2>2. HandlingInv'
    BY <1>0, <1>8 DEF ReaderBounces, runtimeVars, hostVars, HandlingInv, Handling, Alive, Moved
  <2>3. RefsInv'
    BY <1>0, <1>8 DEF ReaderBounces, runtimeVars, hostVars, RefsInv, Nodes, FacadeStates, Ports
  <2>4. QueuesHold'
    <3>. SUFFICES ASSUME NEW q \in Ports
                  PROVE  /\ Within(chan[q], at', port, "channel", q)
                         /\ Within(bounce'[q], at', port, "bounced", q)
      BY <1>8 DEF ReaderBounces, runtimeVars, hostVars, QueuesHold
    <3>1. /\ chan[q] \in Seq(Conduits) /\ Within(chan[q], at, port, "channel", q)
          /\ bounce[q] \in Seq(Conduits) /\ Within(bounce[q], at, port, "bounced", q)
      BY DEF MirrorTypeOK, QueuesHold
    <3>2. /\ reader[p].fd \in Conduits /\ at[reader[p].fd] \notin {"channel", "bounced"}
          /\ at'[reader[p].fd] = "bounced" /\ port[reader[p].fd] = p
          /\ \A d \in Conduits : d # reader[p].fd => at'[d] = at[d]
      BY <1>8 DEF ReaderBounces, MirrorTypeOK, ReaderHolds, LooperHolds
    <3>3. Within(chan[q], at', port, "channel", q)
      BY <3>1, <3>2, WithinKept
    <3>4. CASE q = p
      <4>1. bounce'[q] = Append(bounce[q], reader[p].fd)
        BY <1>8, <3>4 DEF ReaderBounces, MirrorTypeOK
      <4>2. Within(Append(bounce[q], reader[p].fd), at', port, "bounced", q)
        BY <3>1, <3>2, <3>4, WithinAppend
      <4>. QED
        BY <3>3, <4>1, <4>2
    <3>5. CASE q # p
      <4>1. bounce'[q] = bounce[q]
        BY <1>8, <3>5 DEF ReaderBounces, MirrorTypeOK
      <4>2. Within(bounce[q], at', port, "bounced", q)
        BY <3>1, <3>2, <3>5, WithinKept
      <4>. QED
        BY <3>3, <4>1, <4>2
    <3>. QED
      BY <3>4, <3>5
  <2>5. ReaderHolds'
    BY <1>0, <1>8 DEF ReaderBounces, runtimeVars, hostVars, ReaderHolds, LooperHolds, ReaderStates
  <2>6. LooperHolds'
    BY <1>8 DEF ReaderBounces, runtimeVars, hostVars, LooperHolds, ReaderHolds
  <2>7. MessageHolds'
    BY <1>0, <1>8 DEF ReaderBounces, runtimeVars, hostVars, ReaderHolds, LooperHolds, MessageHolds, LooperStates, Messages
  <2>. QED
    BY <2>1, <2>2, <2>3, <2>4, <2>5, <2>6, <2>7
<1>9. ASSUME NEW l \in Loopers, RegisterMirror(l) PROVE PlaceInv'
  <2>. DEFINE h == LowestFree  n == [port |-> facade.next, gen |-> facade.gen]
  <2>a. /\ h \in Handles /\ refs[h] = None /\ n \in Nodes /\ n # None
        /\ n.port = facade.next /\ n.gen = facade.gen /\ facade.at = "registering"
    <3>1. h \in Handles /\ refs[h] = None
      BY <1>9, FreeHandle DEF RegisterMirror
    <3>. QED
      BY <1>0, <1>9, <3>1, NoNone DEF RegisterMirror, HandlingInv, FacadeStates, Nodes, Ports
  <2>b. Moved(looper, looper', l, "acquire", n, h, None)
    <3>. HIDE DEF n, h
    <3>1. looper' = [looper EXCEPT ![l] = [op |-> "acquire", node |-> n, handle |-> h, fd |-> None]]
      BY <1>9 DEF RegisterMirror, n, h
    <3>. QED
      BY <1>0, <2>a, <3>1, LooperSet
  <2>c. facade' \in FacadeStates /\ facade'.at = "waiting" /\ facade'.gen = facade.gen /\ facade'.next = facade.next
    BY <1>0, <1>9, FacadeAt DEF RegisterMirror
  <2>d. refs' = [refs EXCEPT ![h] = n] /\ UNCHANGED <<mirrors, bounce, reader, at, dest, chan, port, open, splicing, inetd, dead>>
    BY <1>9 DEF RegisterMirror, runtimeVars, hostVars
  <2>. HIDE DEF h, n
  <2>1. MirrorTypeOK'
    BY <1>0, <2>a, <2>b, <2>c, <2>d, TypedNext DEF Moved
  <2>2. HandlingInv'
    BY <2>a, <2>b, <2>c DEF HandlingInv, Handling, Alive, Moved, FacadeStates
  <2>3. RefsInv'
    BY <1>0, <2>a, <2>b, <2>c, <2>d DEF RefsInv, Nodes, FacadeStates, Ports
  <2>4. QueuesHold'
    BY <1>0, <2>a, <2>b, <2>c, <2>d, QueuesKept DEF ReaderHolds, LooperHolds
  <2>5. ReaderHolds'
    BY <1>0, <2>a, <2>b, <2>c, <2>d DEF ReaderHolds, LooperHolds, ReaderStates
  <2>6. LooperHolds'
    BY <2>a, <2>b, <2>c, <2>d DEF LooperHolds, Moved
  <2>7. MessageHolds'
    BY <1>0, <2>a, <2>b, <2>c, <2>d DEF ReaderHolds, LooperHolds, MessageHolds, LooperStates, Messages
  <2>. QED
    BY <2>1, <2>2, <2>3, <2>4, <2>5, <2>6, <2>7
<1>10. ASSUME NEW l \in Loopers, Acquire(l) PROVE PlaceInv'
  <2>a. Moved(looper, looper', l, "insert", looper[l].node, looper[l].handle, looper[l].fd)
    BY <1>0, <1>10, LooperOp DEF Acquire
  <2>b. looper[l].op = "acquire" /\ dead' \subseteq dead \cup {looper[l].handle} /\ UNCHANGED <<mirrors, bounce, reader, at, dest, chan, port, open, splicing, inetd, facade, refs>>
    BY <1>10 DEF Acquire, runtimeVars, hostVars
  <2>1. MirrorTypeOK'
    BY <1>0, <2>a, <2>b, TypedNext DEF Moved, HandlingInv, LooperStates
  <2>2. HandlingInv'
    BY <2>a, <2>b DEF HandlingInv, Handling, Alive, Moved
  <2>3. RefsInv'
    BY <1>0, <2>a, <2>b DEF RefsInv, Nodes, FacadeStates, Ports
  <2>4. QueuesHold'
    BY <1>0, <2>a, <2>b, QueuesKept DEF ReaderHolds, LooperHolds
  <2>5. ReaderHolds'
    BY <1>0, <2>a, <2>b DEF ReaderHolds, LooperHolds, ReaderStates
  <2>6. LooperHolds'
    BY <2>a, <2>b DEF LooperHolds, Moved
  <2>7. MessageHolds'
    BY <1>0, <2>a, <2>b DEF ReaderHolds, LooperHolds, MessageHolds, LooperStates, Messages
  <2>. QED
    BY <2>1, <2>2, <2>3, <2>4, <2>5, <2>6, <2>7
<1>11. ASSUME NEW l \in Loopers, AcquireFails(l) PROVE PlaceInv'
  <2>a. Moved(looper, looper', l, "idle", None, None, None)
    BY <1>0, <1>11, IdleMoved DEF AcquireFails
  <2>b. /\ facade' \in FacadeStates /\ facade'.gen = facade.gen /\ facade'.next = facade.next
        /\ \/ facade' = facade /\ ~ Alive(looper[l].node)
           \/ facade'.at = "exiting" /\ facade.at # "down" /\ Alive(looper[l].node)
    BY <1>0, <1>11, FacadeAt DEF AcquireFails, Alive
  <2>c. /\ looper[l].op = "acquire" /\ refs' = [refs EXCEPT ![looper[l].handle] = None]
        /\ UNCHANGED <<mirrors, bounce, reader, at, dest, chan, port, open, splicing, inetd, dead>>
    BY <1>11 DEF AcquireFails, runtimeVars, hostVars
  <2>1. MirrorTypeOK'
    BY <1>0, <2>a, <2>b, <2>c, TypedNext DEF Moved
  <2>2. HandlingInv'
    BY <2>a, <2>b, <2>c DEF HandlingInv, Handling, Alive, Moved
  <2>3. RefsInv'
    BY <1>0, <2>a, <2>b, <2>c DEF RefsInv, Nodes, FacadeStates, Ports
  <2>4. QueuesHold'
    BY <1>0, <2>a, <2>b, <2>c, QueuesKept DEF ReaderHolds, LooperHolds
  <2>5. ReaderHolds'
    BY <1>0, <2>a, <2>b, <2>c DEF ReaderHolds, LooperHolds, ReaderStates
  <2>6. LooperHolds'
    BY <2>a, <2>b, <2>c DEF LooperHolds, Moved
  <2>7. MessageHolds'
    BY <1>0, <2>a, <2>b, <2>c DEF ReaderHolds, LooperHolds, MessageHolds, LooperStates, Messages
  <2>. QED
    BY <2>1, <2>2, <2>3, <2>4, <2>5, <2>6, <2>7
<1>12. ASSUME NEW l \in Loopers, Insert(l) PROVE PlaceInv'
  <2>a. Moved(looper, looper', l, "pop", looper[l].node, looper[l].handle, looper[l].fd)
    BY <1>0, <1>12, LooperOp DEF Insert
  <2>b. looper[l].op = "insert" /\ mirrors' = [mirrors EXCEPT ![looper[l].node.port] = looper[l].handle] /\ UNCHANGED <<bounce, reader, at, dest, chan, port, open, splicing, inetd, facade, refs, dead>>
    BY <1>12 DEF Insert, runtimeVars, hostVars
  <2>1. MirrorTypeOK'
    BY <1>0, <2>a, <2>b, TypedNext DEF Moved, HandlingInv, Handling, LooperStates
  <2>2. HandlingInv'
    BY <2>a, <2>b DEF HandlingInv, Handling, Alive, Moved
  <2>3. RefsInv'
    BY <1>0, <2>a, <2>b DEF RefsInv, Nodes, FacadeStates, Ports
  <2>4. QueuesHold'
    BY <1>0, <2>a, <2>b, QueuesKept DEF ReaderHolds, LooperHolds
  <2>5. ReaderHolds'
    BY <1>0, <2>a, <2>b DEF ReaderHolds, LooperHolds, ReaderStates
  <2>6. LooperHolds'
    BY <2>a, <2>b DEF LooperHolds, Moved
  <2>7. MessageHolds'
    BY <1>0, <2>a, <2>b DEF ReaderHolds, LooperHolds, MessageHolds, LooperStates, Messages
  <2>. QED
    BY <2>1, <2>2, <2>3, <2>4, <2>5, <2>6, <2>7
<1>13. ASSUME NEW l \in Loopers, PopBounce(l) PROVE PlaceInv'
  <2>. DEFINE q == looper[l].node.port
  <2>a. q \in Ports /\ bounce[q] \in Seq(Conduits) /\ looper[l].op = "pop" /\ Within(bounce[q], at, port, "bounced", q)
    BY <1>0, <1>13 DEF PopBounce, HandlingInv, Handling, LooperStates, Nodes, QueuesHold
  <2>b. UNCHANGED <<mirrors, reader, dest, chan, port, open, splicing, inetd, facade, refs, dead>>
    BY <1>13 DEF PopBounce, runtimeVars, hostVars
  <2>c. CASE bounce[q] = <<>>
    <3>a. Moved(looper, looper', l, "reply", looper[l].node, looper[l].handle, looper[l].fd)
      <4>1. looper' = [looper EXCEPT ![l].op = "reply"]
        BY <1>13, <2>c DEF PopBounce
      <4>. QED
        BY <1>0, <4>1, LooperOp
    <3>b. UNCHANGED <<bounce, at>>
      BY <1>13, <2>c DEF PopBounce
    <3>1. MirrorTypeOK'
      BY <1>0, <2>b, <3>a, <3>b, TypedNext DEF Moved
    <3>2. HandlingInv' /\ RefsInv'
      BY <2>a, <2>b, <3>a DEF HandlingInv, RefsInv, Handling, Moved, Alive
    <3>3. QueuesHold' /\ ReaderHolds' /\ MessageHolds'
      BY <1>0, <2>b, <3>b DEF QueuesHold, ReaderHolds, MessageHolds
    <3>4. LooperHolds'
      BY <2>b, <3>a, <3>b DEF LooperHolds, Moved
    <3>. QED
      BY <3>1, <3>2, <3>3, <3>4
  <2>d. CASE bounce[q] # <<>>
    <3>. DEFINE c == Head(bounce[q])
    <3>a. /\ c \in Conduits /\ Tail(bounce[q]) \in Seq(Conduits)
          /\ at[c] = "bounced" /\ port[c] = q
      BY <2>a, <2>d, WithinHead
    <3>b. Moved(looper, looper', l, "push", looper[l].node, looper[l].handle, c)
      <4>1. looper' = [looper EXCEPT ![l].op = "push", ![l].fd = c]
        BY <1>13, <2>d DEF PopBounce
      <4>. HIDE DEF c
      <4>. QED
        BY <1>0, <3>a, <4>1, LooperOpFd
    <3>c. at' = [at EXCEPT ![c] = "popped"] /\ bounce' = [bounce EXCEPT ![q] = Tail(bounce[q])]
      BY <1>13, <2>d DEF PopBounce
    <3>1. MirrorTypeOK'
      BY <1>0, <2>a, <2>b, <3>a, <3>b, <3>c, TypedNext DEF Moved
    <3>2. HandlingInv' /\ RefsInv'
      BY <2>a, <2>b, <3>b DEF HandlingInv, RefsInv, Handling, Moved, Alive
    <3>3. QueuesHold'
      <4>. SUFFICES ASSUME NEW r \in Ports
                    PROVE  /\ Within(chan[r], at', port, "channel", r)
                           /\ Within(bounce'[r], at', port, "bounced", r)
        BY <2>b DEF QueuesHold
      <4>1. /\ chan[r] \in Seq(Conduits) /\ Within(chan[r], at, port, "channel", r)
            /\ bounce[r] \in Seq(Conduits) /\ Within(bounce[r], at, port, "bounced", r)
        BY <1>0 DEF QueuesHold
      <4>2. \A d \in Conduits : d # c => at'[d] = at[d]
        BY <1>0, <3>c
      <4>3. Within(chan[r], at', port, "channel", r)
        BY <3>a, <4>1, <4>2, WithinKept
      <4>4. CASE r = q
        <5>1. bounce'[r] = Tail(bounce[r])
          BY <1>0, <3>c, <4>4
        <5>2. Within(Tail(bounce[r]), at', port, "bounced", r)
          BY <2>d, <4>1, <4>2, <4>4, WithinTail
        <5>. QED
          BY <4>3, <5>1, <5>2
      <4>5. CASE r # q
        <5>1. bounce'[r] = bounce[r]
          BY <1>0, <3>c, <4>5
        <5>2. Within(bounce[r], at', port, "bounced", r)
          BY <3>a, <4>1, <4>2, <4>5, WithinKept
        <5>. QED
          BY <4>3, <5>1, <5>2
      <4>. QED
        BY <4>4, <4>5
    <3>4. ReaderHolds' /\ MessageHolds'
      <4>. HIDE DEF c
      <4>. QED
        BY <1>0, <2>b, <3>a, <3>c DEF ReaderHolds, MessageHolds, ReaderStates
    <3>5. LooperHolds'
      <4>. HIDE DEF c
      <4>. QED
        <5>1. \A m \in Loopers : m # l /\ looper'[m].op = "push" =>
                /\ looper'[m] = looper[m] /\ looper[m].fd # c /\ looper[m].fd \in Conduits
                /\ looper[m].fd # None /\ at'[looper[m].fd] = "popped"
                /\ port[looper[m].fd] = looper[m].node.port
          <6>1. \A m \in Loopers : m # l => looper'[m] = looper[m]
            BY <3>b DEF Moved
          <6>2. \A m \in Loopers : looper[m].op = "push" => looper[m].fd \in Conduits
            BY <1>0 DEF LooperStates, LooperHolds
          <6>3. \A d \in Conduits : d # c => at'[d] = at[d]
            BY <1>0, <3>c
          <6>. QED
            BY <3>a, <6>1, <6>2, <6>3 DEF LooperHolds
        <5>2. /\ looper'[l].fd = c /\ looper'[l].node = looper[l].node /\ c # None
              /\ at'[c] = "popped" /\ port[c] = looper[l].node.port
          BY <1>0, <3>a, <3>b, <3>c DEF Moved
        <5>. QED
          BY <2>b, <5>1, <5>2 DEF LooperHolds
    <3>. QED
      BY <3>1, <3>2, <3>3, <3>4, <3>5
  <2>. QED
    BY <2>c, <2>d
<1>14. ASSUME NEW l \in Loopers, PushPopped(l) PROVE PlaceInv'
  <2>. DEFINE c == looper[l].fd  q == looper[l].node.port
               m == [node |-> refs[looper[l].handle], payload |-> q, to |-> 0]
  <2>a. /\ c \in Conduits /\ at[c] = "popped" /\ port[c] = q /\ q \in Ports /\ looper[l].op = "push"
        /\ m \in Messages /\ m.payload = q /\ m # None
    BY <1>0, <1>14, NoNone DEF PushPopped, Deliverable, Alive, LooperHolds, HandlingInv, Handling, LooperStates, Nodes, Messages
  <2>b. Moved(looper, looper', l, "pop", looper[l].node, looper[l].handle, None)
    BY <1>0, <1>14, LooperOpFd DEF PushPopped
  <2>c. /\ at' = [at EXCEPT ![c] = "queued"] /\ dest' = [dest EXCEPT ![c] = m]
        /\ UNCHANGED <<mirrors, bounce, reader, chan, port, open, splicing, inetd, facade, refs, dead>>
    BY <1>14 DEF PushPopped, runtimeVars, hostVars
  <2>. HIDE DEF m
  <2>1. MirrorTypeOK'
    BY <1>0, <2>a, <2>b, <2>c, TypedNext DEF Moved
  <2>2. HandlingInv'
    BY <2>a, <2>b, <2>c DEF HandlingInv, Handling, Alive, Moved
  <2>3. RefsInv'
    BY <1>0, <2>a, <2>b, <2>c DEF RefsInv, Nodes, FacadeStates, Ports
  <2>4. QueuesHold'
    BY <1>0, <2>a, <2>b, <2>c, QueuesKept DEF ReaderHolds, LooperHolds
  <2>5. ReaderHolds'
    BY <1>0, <2>a, <2>b, <2>c DEF ReaderHolds, LooperHolds, ReaderStates
  <2>6. LooperHolds'
    BY <2>a, <2>b, <2>c DEF LooperHolds, Moved
  <2>7. MessageHolds'
    BY <1>0, <2>a, <2>b, <2>c DEF ReaderHolds, LooperHolds, MessageHolds, LooperStates, Messages
  <2>. QED
    BY <2>1, <2>2, <2>3, <2>4, <2>5, <2>6, <2>7
<1>15. ASSUME NEW l \in Loopers, Rebounce(l) PROVE PlaceInv'
  <2>. DEFINE c == looper[l].fd  r == looper[l].node.port
  <2>a. c \in Conduits /\ at[c] = "popped" /\ port[c] = r /\ r \in Ports /\ looper[l].op = "push"
    BY <1>0, <1>15 DEF Rebounce, LooperHolds, HandlingInv, Handling, LooperStates, Nodes
  <2>b. Moved(looper, looper', l, "reply", looper[l].node, looper[l].handle, None)
    BY <1>0, <1>15, LooperOpFd DEF Rebounce
  <2>c. /\ at' = [at EXCEPT ![c] = "bounced"] /\ bounce' = [bounce EXCEPT ![r] = Append(bounce[r], c)]
        /\ UNCHANGED <<mirrors, reader, dest, chan, port, open, splicing, inetd, facade, refs, dead>>
    BY <1>15 DEF Rebounce, runtimeVars, hostVars
  <2>1. MirrorTypeOK'
    BY <1>0, <2>a, <2>b, <2>c, TypedNext DEF Moved
  <2>2. HandlingInv'
    BY <2>a, <2>b, <2>c DEF HandlingInv, Handling, Alive, Moved
  <2>3. RefsInv'
    BY <1>0, <2>a, <2>b, <2>c DEF RefsInv, Nodes, FacadeStates, Ports
  <2>4. QueuesHold'
    <3>. SUFFICES ASSUME NEW q \in Ports
                  PROVE  /\ Within(chan[q], at', port, "channel", q)
                         /\ Within(bounce'[q], at', port, "bounced", q)
      BY <1>15 DEF Rebounce, runtimeVars, hostVars, QueuesHold
    <3>1. /\ chan[q] \in Seq(Conduits) /\ Within(chan[q], at, port, "channel", q)
          /\ bounce[q] \in Seq(Conduits) /\ Within(bounce[q], at, port, "bounced", q)
      BY DEF MirrorTypeOK, QueuesHold
    <3>2. /\ looper[l].fd \in Conduits /\ at[looper[l].fd] \notin {"channel", "bounced"}
          /\ at'[looper[l].fd] = "bounced" /\ port[looper[l].fd] = looper[l].node.port
          /\ \A d \in Conduits : d # looper[l].fd => at'[d] = at[d]
      BY <1>15 DEF Rebounce, MirrorTypeOK, ReaderHolds, LooperHolds
    <3>3. Within(chan[q], at', port, "channel", q)
      BY <3>1, <3>2, WithinKept
    <3>4. CASE q = looper[l].node.port
      <4>1. bounce'[q] = Append(bounce[q], looper[l].fd)
        BY <1>15, <3>4 DEF Rebounce, MirrorTypeOK
      <4>2. Within(Append(bounce[q], looper[l].fd), at', port, "bounced", q)
        BY <3>1, <3>2, <3>4, WithinAppend
      <4>. QED
        BY <3>3, <4>1, <4>2
    <3>5. CASE q # looper[l].node.port
      <4>1. bounce'[q] = bounce[q]
        BY <1>15, <3>5 DEF Rebounce, MirrorTypeOK
      <4>2. Within(bounce[q], at', port, "bounced", q)
        BY <3>1, <3>2, <3>5, WithinKept
      <4>. QED
        BY <3>3, <4>1, <4>2
    <3>. QED
      BY <3>4, <3>5
  <2>5. ReaderHolds'
    BY <1>0, <2>a, <2>b, <2>c DEF ReaderHolds, LooperHolds, ReaderStates
  <2>6. LooperHolds'
    BY <2>a, <2>b, <2>c DEF LooperHolds, Moved
  <2>7. MessageHolds'
    BY <1>0, <2>a, <2>b, <2>c DEF ReaderHolds, LooperHolds, MessageHolds, LooperStates, Messages
  <2>. QED
    BY <2>1, <2>2, <2>3, <2>4, <2>5, <2>6, <2>7
<1>16. ASSUME NEW l \in Loopers, Reply(l) PROVE PlaceInv'
  <2>a. Moved(looper, looper', l, "idle", None, None, None)
    BY <1>0, <1>16, IdleMoved DEF Reply
  <2>b. looper[l].op = "reply" /\ l \in Handling /\ UNCHANGED <<mirrors, bounce, reader, at, dest, chan, port, open, splicing, inetd, refs, dead>>
    BY <1>16 DEF Reply, runtimeVars, hostVars, Handling
  <2>c. \/ facade' = facade /\ ~ Alive(looper[l].node)
        \/ /\ Alive(looper[l].node) /\ facade.at = "waiting"
           /\ facade.next <= NPorts /\ facade.gen > 0 /\ facade.gen \in Nat /\ facade.next \in Nat
           /\ facade' \in FacadeStates /\ facade'.gen = facade.gen /\ facade'.next = facade.next + 1
           /\ facade'.at \in {"serving", "registering"}
           /\ facade'.at = "registering" => facade'.next <= NPorts
    <3>1. CASE ~ Alive(looper[l].node)
      BY <1>16, <3>1 DEF Reply
    <3>2. CASE Alive(looper[l].node)
      <4>1. facade.at = "waiting" /\ facade.gen > 0 /\ facade.next <= NPorts
        BY <2>b, <3>2 DEF HandlingInv
      <4>2. facade' = [facade EXCEPT !.next = facade.next + 1,
                         !.at = IF facade.next = NPorts THEN "serving" ELSE "registering"]
        BY <1>16, <3>2 DEF Reply
      <4>3. NPorts \in Nat /\ facade.next \in Nat /\ facade.gen \in Nat
        BY <1>0 DEF FacadeStates
      <4>4. /\ facade' \in FacadeStates /\ facade'.gen = facade.gen /\ facade'.next = facade.next + 1
            /\ facade'.at = IF facade.next = NPorts THEN "serving" ELSE "registering"
        <5>. DEFINE a == IF facade.next = NPorts THEN "serving" ELSE "registering"
        <5>1. a \in {"down", "registering", "waiting", "exiting", "serving"}
          OBVIOUS
        <5>. HIDE DEF a
        <5>2. LET g == [facade EXCEPT !.next = facade.next + 1, !.at = a]
              IN  g \in FacadeStates /\ g.at = a /\ g.gen = facade.gen /\ g.next = facade.next + 1
          <6>1. facade \in FacadeStates /\ facade.next <= NPorts
            BY <1>0, <4>1
          <6>. QED
            BY <5>1, <6>1, FacadeNext, ZenonT(40)
        <5>3. facade' = [facade EXCEPT !.next = facade.next + 1, !.at = a]
          BY <4>2 DEF a
        <5>. QED
          BY <5>2, <5>3 DEF a
      <4>. QED
        BY <3>2, <4>1, <4>3, <4>4
    <3>. QED
      BY <3>1, <3>2
  <2>1. MirrorTypeOK'
    BY <1>0, <2>a, <2>b, <2>c, TypedNext DEF Moved
  <2>2. HandlingInv'
    BY <2>a, <2>b, <2>c DEF HandlingInv, Handling, Alive, Moved
  <2>3. RefsInv'
    BY <1>0, <2>a, <2>b, <2>c DEF RefsInv, Nodes, FacadeStates, Ports
  <2>4. QueuesHold'
    BY <1>0, <2>a, <2>b, <2>c, QueuesKept DEF ReaderHolds, LooperHolds
  <2>5. ReaderHolds'
    BY <1>0, <2>a, <2>b, <2>c DEF ReaderHolds, LooperHolds, ReaderStates
  <2>6. LooperHolds'
    BY <2>a, <2>b, <2>c DEF LooperHolds, Moved
  <2>7. MessageHolds'
    BY <1>0, <2>a, <2>b, <2>c DEF ReaderHolds, LooperHolds, MessageHolds, LooperStates, Messages
  <2>. QED
    BY <2>1, <2>2, <2>3, <2>4, <2>5, <2>6, <2>7
<1>17. ASSUME NEW l \in Loopers, NEW h \in Handles, DeathNotice(l, h) PROVE PlaceInv'
  <2>a. Moved(looper, looper', l, "dead", None, h, None)
    BY <1>0, <1>17, DeadMoved DEF DeathNotice
  <2>b. h \in dead /\ dead' = dead \ {h} /\ UNCHANGED <<mirrors, bounce, reader, at, dest, chan, port, open, splicing, inetd, facade, refs>>
    BY <1>17 DEF DeathNotice, runtimeVars, hostVars
  <2>1. MirrorTypeOK'
    BY <1>0, <2>a, <2>b, TypedNext DEF Moved
  <2>2. HandlingInv'
    BY <2>a, <2>b DEF HandlingInv, Handling, Alive, Moved
  <2>3. RefsInv'
    BY <1>0, <2>a, <2>b DEF RefsInv, Nodes, FacadeStates, Ports
  <2>4. QueuesHold'
    BY <1>0, <2>a, <2>b, QueuesKept DEF ReaderHolds, LooperHolds
  <2>5. ReaderHolds'
    BY <1>0, <2>a, <2>b DEF ReaderHolds, LooperHolds, ReaderStates
  <2>6. LooperHolds'
    BY <2>a, <2>b DEF LooperHolds, Moved
  <2>7. MessageHolds'
    BY <1>0, <2>a, <2>b DEF ReaderHolds, LooperHolds, MessageHolds, LooperStates, Messages
  <2>. QED
    BY <2>1, <2>2, <2>3, <2>4, <2>5, <2>6, <2>7
<1>18. ASSUME NEW l \in Loopers, DropDead(l) PROVE PlaceInv'
  <2>a. \/ looper[l].op = "dead" /\ Moved(looper, looper', l, "release", looper[l].node, looper[l].handle, looper[l].fd)
        \/ Moved(looper, looper', l, "idle", None, None, None)
    <3>1. Moved(looper, [looper EXCEPT ![l] = Idle], l, "idle", None, None, None)
      BY <1>0, IdleMoved
    <3>2. Moved(looper, [looper EXCEPT ![l].op = "release"], l, "release", looper[l].node, looper[l].handle, looper[l].fd)
      BY <1>0, LooperOp
    <3>3. \/ looper[l].op = "dead" /\ looper' = [looper EXCEPT ![l].op = "release"]
          \/ looper' = [looper EXCEPT ![l] = Idle]
      BY <1>0, <1>18 DEF DropDead
    <3>. QED
      BY <3>1, <3>2, <3>3
  <2>b. /\ \A p \in Ports : mirrors'[p] \in {mirrors[p], None}
        /\ mirrors' \in [Ports -> Handles \cup {None}]
        /\ looper[l].op \in {"dead", "release"} /\ looper[l].handle \in Handles
        /\ \/ refs' = refs
           \/ refs' = [refs EXCEPT ![looper[l].handle] = None]
        /\ UNCHANGED <<bounce, reader, at, dest, chan, port, open, splicing, inetd, facade, dead>>
    BY <1>0, <1>18 DEF DropDead, runtimeVars, hostVars, ForgetHandle, HandlingInv, LooperStates
  <2>1. MirrorTypeOK'
    BY <1>0, <2>a, <2>b, TypedNext DEF Moved
  <2>2. HandlingInv'
    BY <2>a, <2>b DEF HandlingInv, Handling, Alive, Moved
  <2>3. RefsInv'
    BY <1>0, <2>a, <2>b, ZenonT(40) DEF RefsInv, Nodes, FacadeStates, Ports
  <2>4. QueuesHold'
    BY <1>0, <2>a, <2>b, QueuesKept DEF ReaderHolds, LooperHolds
  <2>5. ReaderHolds'
    BY <1>0, <2>a, <2>b DEF ReaderHolds, LooperHolds, ReaderStates
  <2>6. LooperHolds'
    BY <2>a, <2>b DEF LooperHolds, Moved
  <2>7. MessageHolds'
    BY <1>0, <2>a, <2>b DEF ReaderHolds, LooperHolds, MessageHolds, LooperStates, Messages
  <2>. QED
    BY <2>1, <2>2, <2>3, <2>4, <2>5, <2>6, <2>7
<1>19. CASE FacadeStarts
  <2>a. /\ facade' \in FacadeStates /\ facade'.gen = facade.gen + 1 /\ facade'.next = 1 /\ facade'.at = "registering"
        /\ facade.at = "down"
        /\ UNCHANGED <<mirrors, bounce, reader, at, dest, chan, port, open, splicing, inetd, refs, dead, looper>>
    BY <1>0, <1>19 DEF FacadeStarts, runtimeVars, hostVars, FacadeStates
  <2>1. MirrorTypeOK'
    BY <1>0, <2>a, TypedNext DEF Moved
  <2>2. HandlingInv'
    BY <1>0, <2>a DEF HandlingInv, Handling, Alive, FacadeStates, LooperStates, Nodes
  <2>3. RefsInv'
    BY <1>0, <2>a DEF RefsInv, Nodes, FacadeStates, Ports
  <2>4. QueuesHold'
    BY <1>0, <2>a, QueuesKept DEF ReaderHolds, LooperHolds
  <2>5. ReaderHolds'
    BY <1>0, <2>a DEF ReaderHolds, LooperHolds, ReaderStates
  <2>6. LooperHolds'
    BY <2>a DEF LooperHolds, Moved
  <2>7. MessageHolds'
    BY <1>0, <2>a DEF ReaderHolds, LooperHolds, MessageHolds, LooperStates, Messages
  <2>. QED
    BY <2>1, <2>2, <2>3, <2>4, <2>5, <2>6, <2>7
<1>20. ASSUME NEW c \in Conduits, FacadeDelivers(c) PROVE PlaceInv'
  <2>a. /\ dest[c] \in Messages /\ dest[c].payload = port[c] /\ at[c] = "queued"
        /\ [dest[c] EXCEPT !.to = port[c]] \in Messages /\ [dest[c] EXCEPT !.to = port[c]].to = port[c]
    BY <1>0, <1>20, MessageTo DEF FacadeDelivers, MessageHolds
  <2>b. /\ \/ /\ at' = [at EXCEPT ![c] = "served"]
              /\ dest' = [dest EXCEPT ![c] = [dest[c] EXCEPT !.to = port[c]]]
           \/ at' = [at EXCEPT ![c] = "closed"] /\ dest' = [dest EXCEPT ![c] = None]
        /\ UNCHANGED <<mirrors, bounce, reader, chan, port, open, splicing, inetd, facade, refs, dead, looper>>
    BY <1>20, <2>a DEF FacadeDelivers, PortOfMessage, runtimeVars, hostVars
  <2>1. MirrorTypeOK'
    <3>1. dest' \in [Conduits -> {None} \cup Messages] /\ at' \in [Conduits ->
            {"closed", "channel", "reader", "bounced", "popped", "queued", "served"}]
      <4>. DEFINE m == [dest[c] EXCEPT !.to = port[c]]
      <4>1. m \in Messages
        BY <2>a
      <4>. HIDE DEF m
      <4>2. \/ at' = [at EXCEPT ![c] = "served"] /\ dest' = [dest EXCEPT ![c] = m]
            \/ at' = [at EXCEPT ![c] = "closed"] /\ dest' = [dest EXCEPT ![c] = None]
        BY <2>b DEF m
      <4>3. dest \in [Conduits -> {None} \cup Messages]
        BY <1>0
      <4>4. dest' \in [Conduits -> {None} \cup Messages]
        BY <4>1, <4>2, <4>3
      <4>5. at' \in [Conduits -> {"closed", "channel", "reader", "bounced", "popped", "queued", "served"}]
        BY <1>0, <2>b
      <4>. QED
        BY <4>4, <4>5
    <3>2. UNCHANGED <<mirrors, bounce, reader, chan, port, open, splicing, inetd, facade, refs, dead, looper>>
      BY <2>b
    <3>. QED
      BY <1>0, <3>1, <3>2, TypedNext
  <2>2. HandlingInv'
    BY <1>0, <1>20 DEF FacadeDelivers, runtimeVars, hostVars, PortOfMessage, HandlingInv, Handling, Alive, Moved
  <2>3. RefsInv'
    BY <1>0, <1>20 DEF FacadeDelivers, runtimeVars, hostVars, PortOfMessage, RefsInv, Nodes, FacadeStates, Ports
  <2>4. QueuesHold'
    BY <1>0, <1>20, QueuesKept DEF FacadeDelivers, runtimeVars, hostVars, PortOfMessage, ReaderHolds, LooperHolds
  <2>5. ReaderHolds'
    BY <1>0, <1>20 DEF FacadeDelivers, runtimeVars, hostVars, PortOfMessage, ReaderHolds, LooperHolds, ReaderStates
  <2>6. LooperHolds'
    BY <1>20 DEF FacadeDelivers, runtimeVars, hostVars, LooperHolds, MirrorTypeOK
  <2>7. MessageHolds'
    <3>. DEFINE m == [dest[c] EXCEPT !.to = port[c]]
    <3>1. m # None /\ m.to = port[c]
      BY <2>a, NoNone
    <3>. HIDE DEF m
    <3>2. \/ at' = [at EXCEPT ![c] = "served"] /\ dest' = [dest EXCEPT ![c] = m]
          \/ at' = [at EXCEPT ![c] = "closed"] /\ dest' = [dest EXCEPT ![c] = None]
      BY <2>b DEF m
    <3>. QED
      BY <1>0, <2>b, <3>1, <3>2, ZenonT(40) DEF MessageHolds
  <2>. QED
    BY <2>1, <2>2, <2>3, <2>4, <2>5, <2>6, <2>7
<1>21. ASSUME NEW c \in Conduits, FacadeCloses(c) PROVE PlaceInv'
  <2>1. MirrorTypeOK'
    BY <1>0, <1>21, TypedNext DEF FacadeCloses, runtimeVars, hostVars, Moved
  <2>2. HandlingInv'
    BY <1>0, <1>21 DEF FacadeCloses, runtimeVars, hostVars, HandlingInv, Handling, Alive, Moved
  <2>3. RefsInv'
    BY <1>0, <1>21 DEF FacadeCloses, runtimeVars, hostVars, RefsInv, Nodes, FacadeStates, Ports
  <2>4. QueuesHold'
    BY <1>0, <1>21, QueuesKept DEF FacadeCloses, runtimeVars, hostVars, ReaderHolds, LooperHolds
  <2>5. ReaderHolds'
    BY <1>0, <1>21 DEF FacadeCloses, runtimeVars, hostVars, ReaderHolds, LooperHolds, ReaderStates
  <2>6. LooperHolds'
    BY <1>0, <1>21 DEF FacadeCloses, runtimeVars, hostVars, LooperHolds, Moved
  <2>7. MessageHolds'
    BY <1>0, <1>21 DEF FacadeCloses, runtimeVars, hostVars, ReaderHolds, LooperHolds, MessageHolds, LooperStates, Messages
  <2>. QED
    BY <2>1, <2>2, <2>3, <2>4, <2>5, <2>6, <2>7
<1>22. CASE FacadeDies
  <2>1. MirrorTypeOK'
    BY <1>0, <1>22, TypedNext, FacadeAt DEF FacadeDies, runtimeVars, hostVars
  <2>2. HandlingInv'
    BY <1>0, <1>22 DEF FacadeDies, runtimeVars, hostVars, HandlingInv, Handling, Alive, Moved
  <2>3. RefsInv'
    BY <1>0, <1>22 DEF FacadeDies, runtimeVars, hostVars, RefsInv, Nodes, FacadeStates, Ports
  <2>4. QueuesHold'
    BY <1>0, <1>22, QueuesKept DEF FacadeDies, runtimeVars, hostVars, ReaderHolds, LooperHolds
  <2>5. ReaderHolds'
    BY <1>0, <1>22 DEF FacadeDies, runtimeVars, hostVars, ReaderHolds, LooperHolds, ReaderStates
  <2>6. LooperHolds'
    BY <1>22 DEF FacadeDies, runtimeVars, hostVars, LooperHolds, MirrorTypeOK
  <2>7. MessageHolds'
    BY <1>0, <1>22 DEF FacadeDies, runtimeVars, hostVars, ReaderHolds, LooperHolds, MessageHolds, LooperStates, Messages
  <2>. QED
    BY <2>1, <2>2, <2>3, <2>4, <2>5, <2>6, <2>7
<1>. QED
  BY <1>1, <1>2, <1>3, <1>4, <1>5, <1>6, <1>7, <1>8, <1>9, <1>10, <1>11, <1>12, <1>13, <1>14, <1>15, <1>16, <1>17, <1>18, <1>19, <1>20, <1>21, <1>22
     DEF MirrorNext, Host, Reader, Looper, FacadeClientStep

\* Every conduit accepted by host-inetd is in exactly one place on its way to
\* the facade, in no queue twice, and carries its port wherever it is
\* (listen.rs, inbound.rs, facade-client.rs).
THEOREM PlaceInvariant == MirrorSpec => []PlaceInv
<1>. QED
  BY PlaceInit, PlaceStep, PTL DEF MirrorSpec

\* A host-side connection is spliced to the port it was accepted on, for any
\* number of ports, conduits and loopers, with overlapping registrations and
\* failing splices too (deliver in inbound.rs and in facade-client.rs).
THEOREM RightPortTheorem == MirrorSpec => []RightPort
<1>1. PlaceInv => RightPort
  BY DEF PlaceInv, MessageHolds, RightPort
<1>. QED
  BY <1>1, PlaceInvariant, PTL

----------------------------------------------------------------------------
(* The inbound mirror: the queue that host-inetd's own count bounds.       *)

\* A step that carries nothing new, and under which host-inetd goes on
\* splicing what is carried.
LEMMA Thinner ==
    ASSUME PlaceInv, CarriedInv, port' = port,
           \A c \in Conduits : at'[c] # "closed" => at[c] # "closed",
           inetd' => inetd /\ \A c \in Conduits : splicing[c] /\ at[c] # "closed" => splicing'[c]
    PROVE  CarriedInv'
<1>1. inetd' => \A c \in Conduits : at'[c] # "closed" => splicing'[c]
  BY DEF CarriedInv
<1>2. ASSUME NEW p \in Ports PROVE Cardinality(Carried(p)') <= Cap
  <2>1. Carried(p)' \subseteq Carried(p) /\ Carried(p) \subseteq Conduits
    BY DEF Carried
  <2>2. IsFiniteSet(Carried(p)) /\ IsFiniteSet(Carried(p)')
    BY <2>1, FS_Subset, MirrorAssumption
  <2>3. Cardinality(Carried(p)') <= Cardinality(Carried(p))
    BY <2>1, <2>2, FS_Subset
  <2>4. Cardinality(Carried(p)') \in Nat /\ Cardinality(Carried(p)) \in Nat /\ Cap \in Nat
    BY <2>2, FS_CardinalityType, MirrorAssumption
  <2>5. Cardinality(Carried(p)) <= Cap
    BY DEF CarriedInv
  <2>. QED
    BY <2>3, <2>4, <2>5
<1>. QED
  BY <1>1, <1>2 DEF CarriedInv

\* Every step keeps what is carried within what host-inetd splices.
LEMMA CarriedStep ==
    ASSUME ~ CloneFails, PlaceInv, CarriedInv, [MirrorNext]_mirrorVars
    PROVE  CarriedInv'
<1>. USE MirrorAssumption
<1>0. /\ at \in [Conduits -> {"closed", "channel", "reader", "bounced", "popped", "queued", "served"}]
      /\ port \in [Conduits -> Ports] /\ splicing \in [Conduits -> BOOLEAN]
      /\ ReaderHolds /\ LooperHolds
      /\ chan \in [Ports -> Seq(Conduits)] /\ bounce \in [Ports -> Seq(Conduits)]
  BY DEF PlaceInv, MirrorTypeOK
<1>1. CASE UNCHANGED mirrorVars
  BY <1>1, Thinner DEF mirrorVars, hostVars
<1>2. ASSUME NEW p \in Ports, NEW c \in Conduits, Accept(p, c) PROVE CarriedInv'
  <2>1. /\ inetd /\ inetd' = inetd /\ at[c] = "closed" /\ Active(p) < Cap
        /\ at' = [at EXCEPT ![c] = "channel"] /\ port' = [port EXCEPT ![c] = p]
        /\ splicing' = [splicing EXCEPT ![c] = TRUE]
    BY <1>2 DEF Accept
  <2>2. inetd' => \A d \in Conduits : at'[d] # "closed" => splicing'[d]
    BY <1>0, <2>1 DEF CarriedInv
  <2>3. ASSUME NEW q \in Ports PROVE Cardinality(Carried(q)') <= Cap
    <3>1. /\ IsFiniteSet(Carried(q)) /\ Cardinality(Carried(q)) \in Nat
          /\ Cap \in Nat /\ Cardinality(Carried(q)) <= Cap
      <4>1. Carried(q) \subseteq Conduits
        BY DEF Carried
      <4>. QED
        BY <4>1, FS_Subset, FS_CardinalityType DEF CarriedInv
    <3>2. CASE q # p
      <4>1. Carried(q)' = Carried(q)
        BY <1>0, <2>1, <3>2 DEF Carried
      <4>. QED
        BY <3>1, <4>1
    <3>3. CASE q = p
      <4>. DEFINE S == {d \in Conduits : splicing[d] /\ port[d] = p}
      <4>1. Carried(q)' = Carried(q) \cup {c} /\ c \notin Carried(q)
        BY <1>0, <2>1, <3>3 DEF Carried
      <4>2. Carried(q) \subseteq S /\ S \subseteq Conduits
        BY <2>1, <3>3 DEF Carried, CarriedInv
      <4>3. IsFiniteSet(S) /\ Cardinality(S) \in Nat /\ Cardinality(S) < Cap
        BY <2>1, <4>2, FS_Subset, FS_CardinalityType DEF Active
      <4>4. Cardinality(Carried(q)) <= Cardinality(S)
        BY <4>2, <4>3, FS_Subset
      <4>5. Cardinality(Carried(q)') = Cardinality(Carried(q)) + 1
        BY <3>1, <4>1, FS_AddElement
      <4>. HIDE DEF S
      <4>. QED
        BY <3>1, <4>3, <4>4, <4>5
    <3>. QED
      BY <3>2, <3>3
  <2>. QED
    BY <2>2, <2>3 DEF CarriedInv
<1>3. ASSUME NEW c \in Conduits, ClientCloses(c) \/ SpliceEnds(c) PROVE CarriedInv'
  <2>1. at' = at /\ port' = port /\ inetd' = inetd
    BY <1>3 DEF ClientCloses, SpliceEnds
  <2>2. \A d \in Conduits : splicing[d] /\ at[d] # "closed" => splicing'[d]
    <3>1. CASE ClientCloses(c)
      BY <3>1 DEF ClientCloses
    <3>2. CASE SpliceEnds(c)
      BY <1>0, <3>2 DEF SpliceEnds
    <3>. QED
      BY <1>3, <3>1, <3>2
  <2>. QED
    BY <2>1, <2>2, Thinner
<1>4. CASE DelegateDies
  BY <1>4, Thinner DEF DelegateDies
<1>5. ASSUME NEW p \in Ports, ReaderReceives(p) PROVE CarriedInv'
  <2>1. Head(chan[p]) \in Conduits /\ at[Head(chan[p])] = "channel"
    BY <1>0, <1>5, WithinHead DEF ReaderReceives, PlaceInv, QueuesHold
  <2>. QED
    BY <1>0, <1>5, <2>1, Thinner DEF ReaderReceives
<1>6. ASSUME NEW p \in Ports, ReaderPushes(p) \/ ReaderBounces(p) PROVE CarriedInv'
  BY <1>0, <1>6, Thinner DEF ReaderPushes, ReaderBounces, hostVars, ReaderHolds
<1>7. ASSUME NEW l \in Loopers,
             \/ RegisterMirror(l) \/ Acquire(l) \/ AcquireFails(l) \/ Insert(l) \/ Reply(l)
             \/ DropDead(l) \/ \E h \in Handles : DeathNotice(l, h)
      PROVE  CarriedInv'
  <2>1. at' = at /\ port' = port /\ inetd' = inetd /\ splicing' = splicing
    <3>1. CASE RegisterMirror(l) \/ Acquire(l) \/ AcquireFails(l)
      BY <3>1 DEF RegisterMirror, Acquire, AcquireFails, hostVars
    <3>2. CASE Insert(l) \/ Reply(l) \/ DropDead(l)
      BY <3>2 DEF Insert, Reply, DropDead, hostVars
    <3>3. CASE \E h \in Handles : DeathNotice(l, h)
      BY <3>3 DEF DeathNotice, hostVars
    <3>. QED
      BY <1>7, <3>1, <3>2, <3>3
  <2>. QED
    BY <2>1, Thinner
<1>8. ASSUME NEW l \in Loopers, PopBounce(l) PROVE CarriedInv'
  <2>. DEFINE q == looper[l].node.port
  <2>1. q \in Ports
    BY <1>8 DEF PopBounce, PlaceInv, HandlingInv, Handling, MirrorTypeOK, Nodes
  <2>2. bounce[q] # <<>> => Head(bounce[q]) \in Conduits /\ at[Head(bounce[q])] = "bounced"
    BY <1>0, <2>1, WithinHead DEF PlaceInv, QueuesHold
  <2>3. at' = at \/ (bounce[q] # <<>> /\ at' = [at EXCEPT ![Head(bounce[q])] = "popped"])
    BY <1>8 DEF PopBounce
  <2>. QED
    BY <1>0, <1>8, <2>2, <2>3, Thinner DEF PopBounce, hostVars
<1>9. ASSUME NEW l \in Loopers, PushPopped(l) \/ Rebounce(l) PROVE CarriedInv'
  BY <1>0, <1>9, Thinner DEF PushPopped, Rebounce, hostVars, LooperHolds
<1>10. CASE FacadeStarts \/ FacadeDies \/ \E c \in Conduits : FacadeDelivers(c) \/ FacadeCloses(c)
  BY <1>0, <1>10, Thinner DEF FacadeStarts, FacadeDies, FacadeDelivers, FacadeCloses, hostVars
<1>. QED
  BY <1>1, <1>2, <1>3, <1>4, <1>5, <1>6, <1>7, <1>8, <1>9, <1>10
     DEF MirrorNext, Host, Reader, Looper, FacadeClientStep

\* Two queues without repetitions that share no element hold no more than
\* the set they are drawn from.
LEMMA TwoQueues ==
    ASSUME NEW S, IsFiniteSet(S), NEW n \in Nat, NEW m \in Nat, NEW s, NEW t,
           \A i \in 1 .. n : s[i] \in S, \A i \in 1 .. m : t[i] \in S,
           \A i, j \in 1 .. n : s[i] = s[j] => i = j,
           \A i, j \in 1 .. m : t[i] = t[j] => i = j,
           \A i \in 1 .. n, j \in 1 .. m : s[i] # t[j]
    PROVE  n + m <= Cardinality(S)
<1>. DEFINE k == n + m
            f == [i \in 1 .. k |-> IF i <= n THEN s[i] ELSE t[i - n]]
<1>0. k \in Nat
  OBVIOUS
<1>1. \A i \in 1 .. k :
        (i \in 1 .. n /\ i <= n) \/ (i - n \in 1 .. m /\ ~ (i <= n))
  OBVIOUS
<1>a. \A i, j \in 1 .. k : i - n = j - n => i = j
  OBVIOUS
<1>2. \A i \in 1 .. k : f[i] = IF i <= n THEN s[i] ELSE t[i - n]
  OBVIOUS
<1>3. f \in [1 .. k -> S]
  BY <1>1
<1>. HIDE DEF k, f
<1>4. \A i, j \in 1 .. k : f[i] = f[j] => i = j
  BY <1>1, <1>a, <1>2
<1>5. IsFiniteSet(1 .. k) /\ Cardinality(1 .. k) = k
  BY <1>0, CountUpTo
<1>6. Cardinality(S) \in Nat
  BY FS_CardinalityType
<1>7. ~ (Cardinality(S) < k)
  <2>. SUFFICES ASSUME Cardinality(S) < Cardinality(1 .. k) PROVE FALSE
    BY <1>5
  <2>. DEFINE D == 1 .. k
  <2>1. \E i, j \in D : i # j /\ f[i] = f[j]
    <3>1. IsFiniteSet(D) /\ Cardinality(S) < Cardinality(D) /\ f \in [D -> S]
      BY <1>3, <1>5
    <3>. HIDE DEF D
    <3>. QED
      BY <3>1, FS_PigeonHole
  <2>. QED
    BY <1>4, <2>1
<1>8. k <= Cardinality(S)
  BY <1>0, <1>6, <1>7
<1>. QED
  BY <1>8 DEF k

\* What is queued at kenneld for a port is carried for it, each conduit once.
LEMMA QueuedIsCarried ==
    ASSUME PlaceInv, CarriedInv
    PROVE  BounceBounded
<1>. SUFFICES ASSUME NEW p \in Ports PROVE Len(chan[p]) + Len(bounce[p]) <= Cap
  BY DEF BounceBounded
<1>. DEFINE s == chan[p]  t == bounce[p]  n == Len(s)  m == Len(t)
<1>1. /\ chan[p] \in Seq(Conduits) /\ Within(chan[p], at, port, "channel", p)
      /\ bounce[p] \in Seq(Conduits) /\ Within(bounce[p], at, port, "bounced", p)
  BY DEF PlaceInv, MirrorTypeOK, QueuesHold
<1>2. n \in Nat /\ m \in Nat
  BY <1>1
<1>3. /\ \A i \in 1 .. n : s[i] \in Carried(p) /\ at[s[i]] = "channel"
      /\ \A i \in 1 .. m : t[i] \in Carried(p) /\ at[t[i]] = "bounced"
  BY <1>1 DEF Within, Carried
<1>4. /\ \A i, j \in 1 .. n : s[i] = s[j] => i = j
      /\ \A i, j \in 1 .. m : t[i] = t[j] => i = j
  BY <1>1 DEF Within, Distinct
<1>5. \A i \in 1 .. n, j \in 1 .. m : s[i] # t[j]
  BY <1>3
<1>6. IsFiniteSet(Carried(p)) /\ Cardinality(Carried(p)) \in Nat
  <2>1. Carried(p) \subseteq Conduits
    BY DEF Carried
  <2>. QED
    BY <2>1, FS_Subset, FS_CardinalityType, MirrorAssumption
<1>. HIDE DEF s, t, n, m
<1>7. n + m <= Cardinality(Carried(p))
  BY <1>2, <1>3, <1>4, <1>5, <1>6, TwoQueues
<1>8. Cardinality(Carried(p)) <= Cap /\ Cap \in Nat
  BY MirrorAssumption DEF CarriedInv
<1>. QED
  <2>1. n + m <= Cap
    BY <1>2, <1>6, <1>7, <1>8
  <2>. QED
    BY <2>1 DEF n, m, s, t

----------------------------------------------------------------------------
(* The inbound mirror: a live registration stays mapped.                   *)

\* Nothing is registered at the start.
LEMMA MappingInit == MirrorInit => MappingInv
<1>. SUFFICES ASSUME MirrorInit PROVE MappingInv
  OBVIOUS
<1>1. /\ \A l \in Loopers : looper[l].op = "idle"
      /\ dead = {} /\ facade.at = "down" /\ \A p \in Ports : mirrors[p] = None
  BY DEF MirrorInit, Idle
<1>. QED
  BY <1>1 DEF MappingInv, OneRegistration, DeathsInv, HandlerInv, RegisteredStaysMapped, Handling, Condemned

\* The readers, the accept loops and the conduits take no part in it.
LEMMA MappingKept ==
    ASSUME MappingInv, UNCHANGED <<mirrors, facade, refs, dead, looper>>
    PROVE  MappingInv'
<1>1. OneRegistration'
  BY DEF MappingInv, OneRegistration, Handling, Alive
<1>2. DeathsInv'
  BY DEF MappingInv, DeathsInv, Condemned, Alive
<1>3. HandlerInv'
  BY DEF MappingInv, HandlerInv, Handling, Condemned
<1>4. RegisteredStaysMapped'
  BY DEF MappingInv, RegisteredStaysMapped
<1>. QED
  BY <1>1, <1>2, <1>3, <1>4 DEF MappingInv

\* Nor does the drain of the bounce buffer.
LEMMA MappingDrained ==
    ASSUME MappingInv, UNCHANGED <<mirrors, facade, refs, dead>>, NEW l \in Loopers,
           NEW o \in {"pop", "push", "reply"}, NEW x,
           looper[l].op \in {"pop", "push", "reply"},
           Moved(looper, looper', l, o, looper[l].node, looper[l].handle, x)
    PROVE  MappingInv'
<1>1. /\ \A m \in Loopers : /\ looper'[m].node = looper[m].node /\ looper'[m].handle = looper[m].handle
                            /\ m # l => looper'[m].op = looper[m].op
      /\ looper'[l].op = o
  BY DEF Moved
<1>2. Handling' = Handling
  BY <1>1 DEF Handling
<1>3. OneRegistration'
  BY <1>1, <1>2 DEF MappingInv, OneRegistration, Handling, Alive
<1>4. DeathsInv'
  BY <1>1 DEF MappingInv, DeathsInv, Condemned, Alive
<1>5. HandlerInv'
  BY <1>1, <1>2 DEF MappingInv, HandlerInv, Handling, Condemned
<1>6. RegisteredStaysMapped'
  BY DEF MappingInv, RegisteredStaysMapped
<1>. QED
  BY <1>3, <1>4, <1>5, <1>6 DEF MappingInv

\* Every step keeps the handles in the hands they belong to.
LEMMA MappingStep ==
    ASSUME ~ Overlap, PlaceInv, MappingInv, [MirrorNext]_mirrorVars
    PROVE  MappingInv'
<1>0. /\ mirrors \in [Ports -> Handles \cup {None}] /\ refs \in [Handles -> Nodes \cup {None}]
      /\ looper \in [Loopers -> LooperStates] /\ facade \in FacadeStates /\ dead \subseteq Handles
      /\ \A l \in Loopers : /\ looper[l].handle \in Handles \cup {None}
                            /\ looper[l].node \in Nodes \cup {None}
      /\ MirrorTypeOK /\ HandlingInv /\ RefsInv
  BY TypedParts DEF PlaceInv, LooperStates
<1>n. None \notin Handles /\ None \notin Nodes
  BY MirrorAssumption
<1>m. OneRegistration /\ DeathsInv /\ HandlerInv /\ RegisteredStaysMapped
  BY DEF MappingInv
<1>h. \A l \in Loopers : looper[l].op # "idle" => looper[l].handle \in Handles
  BY <1>0 DEF HandlingInv
<1>1. CASE UNCHANGED mirrorVars
  BY <1>1, MappingKept DEF mirrorVars, runtimeVars
<1>2. CASE Host
  <2>1. UNCHANGED <<mirrors, facade, refs, dead, looper>>
    BY <1>2 DEF Host, DelegateDies, ClientCloses, SpliceEnds, Accept, runtimeVars
  <2>. QED
    BY <2>1, MappingKept
<1>3. ASSUME NEW p \in Ports, Reader(p) PROVE MappingInv'
  <2>1. UNCHANGED <<mirrors, facade, refs, dead, looper>>
    BY <1>3 DEF Reader, ReaderReceives, ReaderPushes, ReaderBounces, runtimeVars
  <2>. QED
    BY <2>1, MappingKept
<1>4. ASSUME NEW c \in Conduits, FacadeDelivers(c) \/ FacadeCloses(c) PROVE MappingInv'
  <2>1. UNCHANGED <<mirrors, facade, refs, dead, looper>>
    BY <1>4 DEF FacadeDelivers, FacadeCloses, runtimeVars
  <2>. QED
    BY <2>1, MappingKept
<1>5. ASSUME NEW l \in Loopers, PopBounce(l) \/ PushPopped(l) \/ Rebounce(l) PROVE MappingInv'
  <2>1. UNCHANGED <<mirrors, facade, refs, dead>>
    BY <1>5 DEF PopBounce, PushPopped, Rebounce, runtimeVars
  <2>2. looper[l].op \in {"pop", "push"}
    BY <1>5 DEF PopBounce, PushPopped, Rebounce
  <2>3. \E o \in {"pop", "push", "reply"} : \E x :
          Moved(looper, looper', l, o, looper[l].node, looper[l].handle, x)
    <3>1. CASE PopBounce(l)
      <4>. DEFINE q == looper[l].node.port
      <4>1. looper[l].node \in Nodes
        BY <1>0, <3>1 DEF PopBounce, HandlingInv, Handling
      <4>2. q \in Ports
        BY <4>1 DEF Nodes
      <4>3. bounce[q] # <<>> => Head(bounce[q]) \in Conduits
        BY <4>2, WithinHead DEF PlaceInv, MirrorTypeOK, QueuesHold
      <4>. HIDE DEF q
      <4>4. \/ looper' = [looper EXCEPT ![l].op = "reply"]
            \/ bounce[q] # <<>> /\ looper' = [looper EXCEPT ![l].op = "push", ![l].fd = Head(bounce[q])]
        BY <3>1 DEF PopBounce, q
      <4>. QED
        <5>1. CASE looper' = [looper EXCEPT ![l].op = "reply"]
          BY <1>0, <5>1, LooperOp
        <5>2. CASE bounce[q] # <<>> /\ looper' = [looper EXCEPT ![l].op = "push", ![l].fd = Head(bounce[q])]
          <6>. DEFINE x == Head(bounce[q])
          <6>1. x \in Conduits /\ looper' = [looper EXCEPT ![l].op = "push", ![l].fd = x]
            BY <4>3, <5>2
          <6>. HIDE DEF x
          <6>. QED
            BY <1>0, <6>1, LooperOpFd
        <5>. QED
          BY <4>4, <5>1, <5>2
    <3>2. CASE PushPopped(l)
      BY <1>0, <3>2, LooperOpFd DEF PushPopped
    <3>3. CASE Rebounce(l)
      BY <1>0, <3>3, LooperOpFd DEF Rebounce
    <3>. QED
      BY <1>5, <3>1, <3>2, <3>3
  <2>. QED
    BY <2>1, <2>2, <2>3, MappingDrained
<1>6. ASSUME NEW l \in Loopers, RegisterMirror(l) PROVE MappingInv'
  <2>. DEFINE n == [port |-> facade.next, gen |-> facade.gen]
              h == LowestFree
  <2>1. /\ h \in Handles /\ refs[h] = None
    BY <1>0, <1>6, FreeHandle DEF RegisterMirror
  <2>2. n \in Nodes
    BY <1>0, <1>6, MirrorAssumption DEF RegisterMirror, HandlingInv, FacadeStates, Nodes, Ports
  <2>3. n.gen = facade.gen
    OBVIOUS
  <2>. HIDE DEF n, h
  <2>4. /\ refs' = [refs EXCEPT ![h] = n]
        /\ looper' = [looper EXCEPT ![l] = [op |-> "acquire", node |-> n, handle |-> h, fd |-> None]]
        /\ facade.at = "registering" /\ looper[l].op = "idle" /\ facade' = [facade EXCEPT !.at = "waiting"]
        /\ UNCHANGED <<mirrors, dead>>
    BY <1>6 DEF RegisterMirror, runtimeVars, n, h
  <2>5. Moved(looper, looper', l, "acquire", n, h, None)
    BY <1>0, <2>1, <2>2, <2>4, LooperSet
  <2>6. facade'.at = "waiting" /\ facade'.gen = facade.gen /\ facade'.next = facade.next
    BY <1>0, <2>4, FacadeAt
  <2>7. Handling = {}
    BY <1>0, <1>m, <2>4 DEF OneRegistration, HandlingInv
  <2>8. Handling' = {l}
    BY <2>5, <2>7 DEF Handling, Moved
  <2>9. \A g \in Handles : g # h => refs'[g] = refs[g]
    BY <1>0, <2>4
  <2>10. refs'[h] = n
    BY <1>0, <2>1, <2>4
  <2>11. \A m \in Loopers : Condemned(m)' <=> (m # l /\ Condemned(m))
    BY <2>5 DEF Condemned, Moved
  <2>12. \A m \in Loopers : Condemned(m) => looper[m].handle # h /\ looper'[m].handle = looper[m].handle
    BY <1>m, <2>1, <2>4, <2>5 DEF DeathsInv, Condemned, Moved
  <2>13. \A p \in Ports : mirrors[p] # h
    BY <1>m, <1>n, <2>1 DEF HandlerInv
  <2>14. \A m \in Loopers : m # l => looper'[m] = looper[m]
    BY <2>5 DEF Moved
  <2>15. h \notin dead
    BY <1>m, <2>1 DEF DeathsInv
  <2>16. looper'[l].op = "acquire" /\ looper'[l].node = n /\ looper'[l].handle = h
    BY <2>5 DEF Moved
  <2>17. \A x : Alive(x)' <=> Alive(x)
    BY <2>4, <2>6 DEF Alive
  <2>a. OneRegistration'
    BY <1>n, <2>2, <2>3, <2>6, <2>8, <2>16 DEF OneRegistration, Alive
  <2>b. DeathsInv'
    <3>1. \A g \in dead' : refs'[g] # None /\ ~ Alive(refs[g])'
      BY <1>0, <1>m, <2>4, <2>9, <2>15, <2>17 DEF DeathsInv, Alive
    <3>2. ASSUME NEW m \in Loopers, Condemned(m)'
          PROVE  /\ looper'[m].handle \notin dead'
                 /\ refs'[looper'[m].handle] # None /\ ~ Alive(refs[looper[m].handle])'
      <4>1. Condemned(m) /\ looper[m].handle # h /\ looper'[m].handle = looper[m].handle /\ looper[m].handle \in Handles
        BY <1>h, <2>11, <2>12, <3>2 DEF Condemned, Alive
      <4>. QED
        BY <1>m, <2>4, <2>9, <2>17, <4>1 DEF DeathsInv
    <3>3. \A i, m \in Loopers :
             Condemned(i)' /\ Condemned(m)' /\ looper'[i].handle = looper'[m].handle => i = m
      BY <1>m, <2>11, <2>12 DEF DeathsInv
    <3>4. \A m \in Loopers : looper'[m].op = "release" =>
             \A p \in Ports : mirrors'[p] # looper'[m].handle
      BY <1>m, <2>4, <2>14, <2>16 DEF DeathsInv
    <3>. QED
      BY <3>1, <3>2, <3>3, <3>4 DEF DeathsInv
  <2>c. HandlerInv'
    <3>1. \A p \in Ports : mirrors'[p] # None => refs'[mirrors'[p]] # None
      BY <1>0, <1>m, <2>4, <2>9, <2>13 DEF HandlerInv
    <3>2. \A m \in Loopers : Condemned(m)' => looper'[m].handle # h
      BY <2>11, <2>12
    <3>3. \A m \in Loopers : looper'[m].op = "release" => Condemned(m)'
      BY DEF Condemned
    <3>. QED
      BY <2>4, <2>8, <2>10, <2>13, <2>15, <2>16, <3>1, <3>2, <3>3 DEF HandlerInv
  <2>d. RegisteredStaysMapped'
    BY <1>0, <1>m, <2>4, <2>6, <2>9, <2>13 DEF RegisteredStaysMapped
  <2>. QED
    BY <2>a, <2>b, <2>c, <2>d DEF MappingInv
<1>7. ASSUME NEW l \in Loopers, Acquire(l) PROVE MappingInv'
  <2>. DEFINE h == looper[l].handle
  <2>1. /\ looper[l].op = "acquire" /\ looper' = [looper EXCEPT ![l].op = "insert"]
        /\ dead' = (IF Alive(looper[l].node) THEN dead ELSE dead \cup {h})
        /\ UNCHANGED <<mirrors, facade, refs>>
    BY <1>7 DEF Acquire, runtimeVars
  <2>2. /\ Moved(looper, looper', l, "insert", looper[l].node, h, looper[l].fd)
    BY <1>0, <2>1, LooperOp
  <2>3. /\ \A m \in Loopers : /\ looper'[m].node = looper[m].node /\ looper'[m].handle = looper[m].handle
                              /\ m # l => looper'[m].op = looper[m].op
        /\ looper'[l].op = "insert"
    BY <2>2 DEF Moved
  <2>4. l \in Handling /\ Handling' = Handling /\ h \in Handles
    BY <1>h, <2>1, <2>3 DEF Handling
  <2>5. /\ refs[h] = looper[l].node /\ h \notin dead /\ looper[l].node # None
        /\ \A m \in Loopers : Condemned(m) => looper[m].handle # h
    BY <1>0, <1>m, <2>1, <2>4 DEF HandlerInv, HandlingInv
  <2>6. \A m \in Loopers : Condemned(m)' <=> Condemned(m)
    BY <2>1, <2>3 DEF Condemned
  <2>7. \A x : Alive(x)' <=> Alive(x)
    BY <2>1 DEF Alive
  <2>8. dead' = dead \/ (dead' = dead \cup {h} /\ ~ Alive(refs[h]))
    BY <2>1, <2>5
  <2>. HIDE DEF h
  <2>a. OneRegistration'
    BY <1>m, <2>1, <2>3, <2>4, <2>7 DEF OneRegistration
  <2>b. DeathsInv'
    <3>1. \A g \in dead' : refs'[g] # None /\ ~ Alive(refs[g])'
      BY <1>m, <2>1, <2>5, <2>7, <2>8 DEF DeathsInv, Alive
    <3>2. \A m \in Loopers : Condemned(m)' =>
            /\ looper'[m].handle \notin dead'
            /\ refs'[looper'[m].handle] # None /\ ~ Alive(refs[looper[m].handle])'
      BY <1>m, <2>1, <2>3, <2>5, <2>6, <2>7, <2>8 DEF DeathsInv, Alive
    <3>3. \A i, m \in Loopers :
             Condemned(i)' /\ Condemned(m)' /\ looper'[i].handle = looper'[m].handle => i = m
      BY <1>m, <2>3, <2>6 DEF DeathsInv
    <3>4. \A m \in Loopers : looper'[m].op = "release" =>
             \A p \in Ports : mirrors'[p] # looper'[m].handle
      BY <1>m, <2>1, <2>3 DEF DeathsInv
    <3>. QED
      BY <3>1, <3>2, <3>3, <3>4 DEF DeathsInv
  <2>c. HandlerInv'
    <3>1. \A m \in Loopers : looper'[m].op = "release" <=> looper[m].op = "release"
      BY <2>1, <2>3
    <3>2. Handling = {l}
      BY <1>m, <2>4 DEF OneRegistration
    <3>3. /\ looper'[l].op = "insert" /\ refs'[looper'[l].handle] = looper'[l].node
          /\ \A p \in Ports : mirrors'[p] # looper'[l].handle
          /\ \A m \in Loopers : looper'[m].op = "release" => looper'[m].handle # looper'[l].handle
      BY <1>m, <2>1, <2>3, <2>4, <3>1 DEF HandlerInv
    <3>4. \A p \in Ports : mirrors'[p] # None => refs'[mirrors'[p]] # None
      BY <1>m, <2>1 DEF HandlerInv
    <3>. QED
      BY <2>4, <3>2, <3>3, <3>4 DEF HandlerInv
  <2>d. RegisteredStaysMapped'
    BY <1>m, <2>1 DEF RegisteredStaysMapped
  <2>. QED
    BY <2>a, <2>b, <2>c, <2>d DEF MappingInv
<1>8. ASSUME NEW l \in Loopers, AcquireFails(l) PROVE MappingInv'
  <2>. DEFINE h == looper[l].handle
  <2>1. /\ looper[l].op = "acquire" /\ looper' = [looper EXCEPT ![l] = Idle]
        /\ refs' = [refs EXCEPT ![h] = None]
        /\ facade' = facade \/ (Alive(looper[l].node) /\ facade' = [facade EXCEPT !.at = "exiting"])
        /\ UNCHANGED <<mirrors, dead>>
    BY <1>8 DEF AcquireFails, runtimeVars
  <2>2. Moved(looper, looper', l, "idle", None, None, None)
    BY <1>0, <2>1, IdleMoved
  <2>3. (\A m \in Loopers : m # l => looper'[m] = looper[m]) /\ looper'[l].op = "idle"
    BY <2>2 DEF Moved
  <2>4. l \in Handling /\ Handling = {l} /\ h \in Handles
    BY <1>h, <1>m, <2>1 DEF Handling, OneRegistration
  <2>5. Handling' = {}
    BY <2>3, <2>4 DEF Handling
  <2>6. /\ h \notin dead /\ (\A p \in Ports : mirrors[p] # h)
        /\ \A m \in Loopers : Condemned(m) => looper[m].handle # h
    BY <1>m, <2>1, <2>4 DEF HandlerInv
  <2>7. /\ (facade'.at = "down" <=> facade.at = "down")
        /\ facade'.gen = facade.gen /\ facade'.next = facade.next
    <3>1. CASE facade' = facade
      BY <3>1
    <3>2. CASE Alive(looper[l].node) /\ facade' = [facade EXCEPT !.at = "exiting"]
      <4>1. facade'.at = "exiting" /\ facade'.gen = facade.gen /\ facade'.next = facade.next
        BY <1>0, <3>2, FacadeAt
      <4>. QED
        BY <3>2, <4>1 DEF Alive
    <3>. QED
      BY <2>1, <3>1, <3>2
  <2>8. \A x : Alive(x)' <=> Alive(x)
    BY <2>7 DEF Alive
  <2>9. \A g \in Handles : g # h => refs'[g] = refs[g]
    BY <1>0, <2>1
  <2>10. \A m \in Loopers : Condemned(m)' => Condemned(m) /\ m # l /\ looper[m].handle \in Handles
    BY <1>h, <2>3 DEF Condemned
  <2>. HIDE DEF h
  <2>a. OneRegistration'
    BY <2>5 DEF OneRegistration
  <2>b. DeathsInv'
    <3>1. \A g \in dead' : refs'[g] # None /\ ~ Alive(refs[g])'
      BY <1>0, <1>m, <2>1, <2>6, <2>8, <2>9 DEF DeathsInv, Alive
    <3>2. \A m \in Loopers : Condemned(m)' =>
            /\ looper'[m].handle \notin dead'
            /\ refs'[looper'[m].handle] # None /\ ~ Alive(refs[looper[m].handle])'
      BY <1>m, <2>1, <2>3, <2>6, <2>8, <2>9, <2>10 DEF DeathsInv, Alive
    <3>3. \A i, m \in Loopers :
             Condemned(i)' /\ Condemned(m)' /\ looper'[i].handle = looper'[m].handle => i = m
      BY <1>m, <2>3, <2>10 DEF DeathsInv
    <3>4. \A m \in Loopers : looper'[m].op = "release" =>
             \A p \in Ports : mirrors'[p] # looper'[m].handle
      BY <1>m, <2>1, <2>3 DEF DeathsInv
    <3>. QED
      BY <3>1, <3>2, <3>3, <3>4 DEF DeathsInv
  <2>c. HandlerInv'
    BY <1>0, <1>m, <2>1, <2>5, <2>6, <2>9 DEF HandlerInv
  <2>d. RegisteredStaysMapped'
    BY <1>0, <1>m, <2>1, <2>6, <2>7, <2>9 DEF RegisteredStaysMapped
  <2>. QED
    BY <2>a, <2>b, <2>c, <2>d DEF MappingInv
<1>9. ASSUME NEW l \in Loopers, Insert(l) PROVE MappingInv'
  <2>. DEFINE h == looper[l].handle  q == looper[l].node.port
  <2>1. /\ looper[l].op = "insert" /\ looper' = [looper EXCEPT ![l].op = "pop"]
        /\ mirrors' = [mirrors EXCEPT ![q] = h]
        /\ UNCHANGED <<facade, refs, dead>>
    BY <1>9 DEF Insert
  <2>2. Moved(looper, looper', l, "pop", looper[l].node, h, looper[l].fd)
    BY <1>0, <2>1, LooperOp
  <2>3. /\ \A m \in Loopers : /\ looper'[m].node = looper[m].node /\ looper'[m].handle = looper[m].handle
                              /\ m # l => looper'[m].op = looper[m].op
        /\ looper'[l].op = "pop"
    BY <2>2 DEF Moved
  <2>4. l \in Handling /\ Handling' = Handling /\ Handling = {l} /\ h \in Handles
    BY <1>h, <1>m, <2>1, <2>3 DEF Handling, OneRegistration
  <2>5. /\ refs[h] = looper[l].node /\ looper[l].node # None
        /\ \A m \in Loopers : looper[m].op = "release" => looper[m].handle # h
    BY <1>0, <1>m, <2>1, <2>4 DEF HandlerInv, HandlingInv
  <2>6. q \in Ports
    BY <1>0, <2>5 DEF Nodes
  <2>7. \A x : Alive(x)' <=> Alive(x)
    BY <2>1 DEF Alive
  <2>8. \A m \in Loopers : Condemned(m)' <=> Condemned(m)
    BY <2>1, <2>3 DEF Condemned
  <2>9. mirrors'[q] = h /\ \A p \in Ports : p # q => mirrors'[p] = mirrors[p]
    BY <1>0, <2>1, <2>6
  <2>. HIDE DEF h, q
  <2>a. OneRegistration'
    BY <1>m, <2>1, <2>3, <2>4, <2>7 DEF OneRegistration
  <2>b. DeathsInv'
    <3>1. \A g \in dead' : refs'[g] # None /\ ~ Alive(refs[g])'
      BY <1>m, <2>1, <2>7 DEF DeathsInv, Alive
    <3>2. \A m \in Loopers : Condemned(m)' =>
            /\ looper'[m].handle \notin dead'
            /\ refs'[looper'[m].handle] # None /\ ~ Alive(refs[looper[m].handle])'
      BY <1>m, <2>1, <2>3, <2>7, <2>8 DEF DeathsInv, Alive
    <3>3. \A i, m \in Loopers :
             Condemned(i)' /\ Condemned(m)' /\ looper'[i].handle = looper'[m].handle => i = m
      BY <1>m, <2>3, <2>8 DEF DeathsInv
    <3>4. \A m \in Loopers : looper'[m].op = "release" =>
             \A p \in Ports : mirrors'[p] # looper'[m].handle
      BY <1>m, <2>1, <2>3, <2>5, <2>9 DEF DeathsInv
    <3>. QED
      BY <3>1, <3>2, <3>3, <3>4 DEF DeathsInv
  <2>c. HandlerInv'
    <3>1. \A p \in Ports : mirrors'[p] # None => refs'[mirrors'[p]] # None
      BY <1>m, <2>1, <2>5, <2>9 DEF HandlerInv
    <3>2. /\ looper'[l].op = "pop" /\ refs'[looper'[l].handle] = looper'[l].node
          /\ mirrors'[looper'[l].node.port] = looper'[l].handle
      BY <2>1, <2>3, <2>5, <2>9 DEF h, q
    <3>. QED
      BY <2>4, <3>1, <3>2 DEF HandlerInv
  <2>d. RegisteredStaysMapped'
    <3>. SUFFICES ASSUME facade.at # "down", NEW p \in Ports, p < facade.next
                  PROVE  mirrors'[p] # None /\ refs[mirrors'[p]] = [port |-> p, gen |-> facade.gen]
      BY <2>1 DEF RegisteredStaysMapped
    <3>1. q = facade.next
      BY <1>0, <1>m, <2>4 DEF OneRegistration, HandlingInv, q
    <3>2. p # q
      BY <3>1 DEF Ports
    <3>. QED
      BY <1>m, <2>9, <3>2 DEF RegisteredStaysMapped
  <2>. QED
    BY <2>a, <2>b, <2>c, <2>d DEF MappingInv
<1>10. ASSUME NEW l \in Loopers, Reply(l) PROVE MappingInv'
  <2>1. /\ looper[l].op = "reply" /\ looper' = [looper EXCEPT ![l] = Idle]
        /\ UNCHANGED <<mirrors, refs, dead>>
    BY <1>10 DEF Reply, runtimeVars
  <2>2. Moved(looper, looper', l, "idle", None, None, None)
    BY <1>0, <2>1, IdleMoved
  <2>3. (\A m \in Loopers : m # l => looper'[m] = looper[m]) /\ looper'[l].op = "idle"
    BY <2>2 DEF Moved
  <2>4. l \in Handling /\ Handling = {l}
    BY <1>m, <2>1 DEF Handling, OneRegistration
  <2>5. Handling' = {}
    BY <2>3, <2>4 DEF Handling
  <2>6. \/ facade.at = "down" /\ facade' = facade
        \/ /\ facade.at = "waiting" /\ Alive(looper[l].node) /\ looper[l].node.port = facade.next
           /\ facade'.at # "down" /\ facade'.gen = facade.gen /\ facade'.next = facade.next + 1
    <3>1. CASE facade.at = "down"
      BY <1>10, <3>1 DEF Reply, Alive
    <3>2. CASE facade.at # "down"
      <4>1. Alive(looper[l].node) /\ facade.at = "waiting" /\ looper[l].node.port = facade.next
        BY <1>0, <1>m, <2>4, <3>2 DEF OneRegistration, HandlingInv
      <4>2. facade.next <= NPorts
        BY <1>0, <4>1 DEF HandlingInv
      <4>3. \E a \in {"serving", "registering"} : facade' = [facade EXCEPT !.next = facade.next + 1, !.at = a]
        BY <1>10, <4>1 DEF Reply
      <4>. QED
        <5>1. PICK a \in {"serving", "registering"} : facade' = [facade EXCEPT !.next = facade.next + 1, !.at = a]
          BY <4>3
        <5>2. facade'.at = a /\ facade'.gen = facade.gen /\ facade'.next = facade.next + 1
          <6>1. facade \in FacadeStates /\ a \in {"down", "registering", "waiting", "exiting", "serving"}
            BY <1>0
          <6>. QED
            BY <4>2, <5>1, <6>1, FacadeNext, ZenonT(40)
        <5>. QED
          BY <4>1, <5>2
    <3>. QED
      BY <3>1, <3>2
  <2>7. \A x : Alive(x)' <=> Alive(x)
    BY <2>6 DEF Alive
  <2>8. \A m \in Loopers : Condemned(m)' => Condemned(m) /\ m # l
    BY <2>3 DEF Condemned
  <2>a. OneRegistration'
    BY <2>5 DEF OneRegistration
  <2>b. DeathsInv'
    <3>1. \A g \in dead' : refs'[g] # None /\ ~ Alive(refs[g])'
      BY <1>m, <2>1, <2>7 DEF DeathsInv, Alive
    <3>2. \A m \in Loopers : Condemned(m)' =>
            /\ looper'[m].handle \notin dead'
            /\ refs'[looper'[m].handle] # None /\ ~ Alive(refs[looper[m].handle])'
      BY <1>m, <2>1, <2>3, <2>7, <2>8 DEF DeathsInv, Alive
    <3>3. \A i, m \in Loopers :
             Condemned(i)' /\ Condemned(m)' /\ looper'[i].handle = looper'[m].handle => i = m
      BY <1>m, <2>3, <2>8 DEF DeathsInv
    <3>4. \A m \in Loopers : looper'[m].op = "release" =>
             \A p \in Ports : mirrors'[p] # looper'[m].handle
      BY <1>m, <2>1, <2>3 DEF DeathsInv
    <3>. QED
      BY <3>1, <3>2, <3>3, <3>4 DEF DeathsInv
  <2>c. HandlerInv'
    BY <1>m, <2>1, <2>5 DEF HandlerInv
  <2>d. RegisteredStaysMapped'
    <3>. SUFFICES ASSUME facade'.at # "down", NEW p \in Ports, p < facade'.next
                  PROVE  mirrors[p] # None /\ refs[mirrors[p]] = [port |-> p, gen |-> facade'.gen]
      BY <2>1 DEF RegisteredStaysMapped
    <3>0. /\ facade.at = "waiting" /\ Alive(looper[l].node) /\ looper[l].node.port = facade.next
          /\ facade'.gen = facade.gen /\ facade'.next = facade.next + 1
      BY <2>6
    <3>1. CASE p < facade.next
      BY <1>m, <3>0, <3>1 DEF RegisteredStaysMapped
    <3>2. CASE p = facade.next
      <4>1. looper[l].node \in Nodes /\ looper[l].node.gen = facade.gen
        BY <1>0, <3>0 DEF Alive
      <4>2. looper[l].node = [port |-> p, gen |-> facade.gen]
        BY <3>0, <3>2, <4>1 DEF Nodes
      <4>3. mirrors[p] = looper[l].handle /\ refs[looper[l].handle] = looper[l].node
        BY <1>m, <2>1, <2>4, <3>0, <3>2 DEF HandlerInv
      <4>4. looper[l].handle # None
        BY <1>0, <2>1 DEF HandlingInv
      <4>. QED
        BY <3>0, <4>2, <4>3, <4>4
    <3>3. p < facade.next \/ p = facade.next
      <4>1. facade.next \in Nat /\ p \in Nat
        BY <1>0 DEF FacadeStates, Ports
      <4>. QED
        BY <3>0, <4>1
    <3>. QED
      BY <3>1, <3>2, <3>3
  <2>. QED
    BY <2>a, <2>b, <2>c, <2>d DEF MappingInv
<1>11. ASSUME NEW l \in Loopers, DropDead(l), looper[l].op = "dead" PROVE MappingInv'
  <2>. DEFINE h == looper[l].handle
  <2>1. /\ looper[l].op = "dead" /\ mirrors' = ForgetHandle(h)
        /\ looper' = [looper EXCEPT ![l] = IF mirrors' = mirrors THEN Idle ELSE [@ EXCEPT !.op = "release"]]
        /\ UNCHANGED <<facade, refs, dead>>
    BY <1>11 DEF DropDead
  <2>2. \/ mirrors' = mirrors /\ Moved(looper, looper', l, "idle", None, None, None)
        \/ mirrors' # mirrors /\ Moved(looper, looper', l, "release", looper[l].node, h, looper[l].fd)
    <3>1. CASE mirrors' = mirrors
      BY <1>0, <2>1, <3>1, IdleMoved
    <3>2. CASE mirrors' # mirrors
      <4>1. looper' = [looper EXCEPT ![l].op = "release"]
        BY <2>1, <3>2
      <4>. QED
        BY <1>0, <3>2, <4>1, LooperOp
    <3>. QED
      BY <3>1, <3>2
  <2>3. /\ \A m \in Loopers : m # l => looper'[m] = looper[m]
        /\ \/ mirrors' = mirrors /\ looper'[l].op = "idle"
           \/ mirrors' # mirrors /\ looper'[l].op = "release" /\ looper'[l].handle = h
    BY <2>2 DEF Moved
  <2>4. /\ h \in Handles /\ h \notin dead /\ refs[h] # None /\ ~ Alive(refs[h]) /\ Condemned(l)
        /\ \A m \in Loopers : Condemned(m) /\ m # l => looper[m].handle # h
    BY <1>h, <1>m, <2>1 DEF DeathsInv, Condemned
  <2>5. Handling' = Handling /\ l \notin Handling
    BY <2>1, <2>3 DEF Handling
  <2>6. \A m \in Handling : m # l /\ looper'[m] = looper[m]
    BY <2>3, <2>5 DEF Handling
  <2>7. \A p \in Ports : /\ mirrors[p] = h => mirrors'[p] = None
                         /\ mirrors[p] # h => mirrors'[p] = mirrors[p]
    BY <2>1 DEF ForgetHandle
  <2>8. mirrors' # mirrors => \E p \in Ports : mirrors[p] = h
    BY <1>0, <2>1 DEF ForgetHandle
  <2>9. \A x : Alive(x)' <=> Alive(x)
    BY <2>1 DEF Alive
  <2>10. \A m \in Loopers : Condemned(m)' => Condemned(m) /\ looper'[m].handle = looper[m].handle
    BY <2>3, <2>4 DEF Condemned
  <2>. HIDE DEF h
  <2>a. OneRegistration'
    BY <1>m, <2>1, <2>5, <2>6, <2>9 DEF OneRegistration
  <2>b. DeathsInv'
    <3>1. \A g \in dead' : refs'[g] # None /\ ~ Alive(refs[g])'
      BY <1>m, <2>1, <2>9 DEF DeathsInv, Alive
    <3>2. \A m \in Loopers : Condemned(m)' =>
            /\ looper'[m].handle \notin dead'
            /\ refs'[looper'[m].handle] # None /\ ~ Alive(refs[looper[m].handle])'
      BY <1>m, <2>1, <2>9, <2>10 DEF DeathsInv, Alive
    <3>3. \A i, m \in Loopers :
             Condemned(i)' /\ Condemned(m)' /\ looper'[i].handle = looper'[m].handle => i = m
      BY <1>m, <2>10 DEF DeathsInv
    <3>4. \A m \in Loopers : looper'[m].op = "release" =>
             \A p \in Ports : mirrors'[p] # looper'[m].handle
      <4>1. ASSUME NEW m \in Loopers, looper'[m].op = "release", NEW p \in Ports
            PROVE  mirrors'[p] # looper'[m].handle
        <5>1. CASE m = l
          BY <1>n, <2>3, <2>4, <2>7, <4>1, <5>1
        <5>2. CASE m # l
          BY <1>h, <1>m, <1>n, <2>3, <2>7, <4>1, <5>2 DEF DeathsInv
        <5>. QED
          BY <5>1, <5>2
      <4>. QED
        BY <4>1
    <3>. QED
      BY <3>1, <3>2, <3>3, <3>4 DEF DeathsInv
  <2>c. HandlerInv'
    <3>1. \A p \in Ports : mirrors'[p] # None => refs'[mirrors'[p]] # None
      BY <1>m, <2>1, <2>7 DEF HandlerInv
    <3>2. ASSUME NEW k \in Handling, looper[k].op \in {"acquire", "insert"}
          PROVE  /\ refs[looper[k].handle] = looper[k].node
                 /\ \A p \in Ports : mirrors'[p] # looper[k].handle
                 /\ \A m \in Loopers : looper'[m].op = "release" => looper'[m].handle # looper[k].handle
      <4>1. k \in Loopers /\ looper[k].handle \in Handles
        BY <1>h, <3>2 DEF Handling
      <4>2. /\ refs[looper[k].handle] = looper[k].node
            /\ \A p \in Ports : mirrors[p] # looper[k].handle
            /\ \A m \in Loopers : looper[m].op = "release" => looper[m].handle # looper[k].handle
        BY <1>m, <3>2 DEF HandlerInv
      <4>3. mirrors' # mirrors => looper[k].handle # h
        BY <2>8, <4>2
      <4>. QED
        BY <1>n, <2>3, <2>7, <4>1, <4>2, <4>3
    <3>3. ASSUME NEW k \in Handling, looper[k].op = "acquire"
          PROVE  /\ looper[k].handle \notin dead
                 /\ \A m \in Loopers : Condemned(m)' => looper'[m].handle # looper[k].handle
      BY <1>m, <2>10, <3>3 DEF HandlerInv
    <3>4. ASSUME NEW k \in Handling, looper[k].op \in {"pop", "push", "reply"}, facade.at # "down"
          PROVE  /\ mirrors'[looper[k].node.port] = looper[k].handle
                 /\ refs[looper[k].handle] = looper[k].node
      <4>1. /\ mirrors[looper[k].node.port] = looper[k].handle
            /\ refs[looper[k].handle] = looper[k].node
        BY <1>m, <3>4 DEF HandlerInv
      <4>2. Alive(looper[k].node)
        BY <1>m, <3>4 DEF OneRegistration
      <4>3. looper[k].handle # h
        BY <2>4, <4>1, <4>2
      <4>4. looper[k].node \in Nodes
        BY <1>0, <4>2 DEF Handling, Alive
      <4>5. looper[k].node.port \in Ports
        BY <4>4 DEF Nodes
      <4>. QED
        BY <2>7, <4>1, <4>3, <4>5
    <3>. QED
      BY <2>1, <2>5, <2>6, <3>1, <3>2, <3>3, <3>4 DEF HandlerInv
  <2>d. RegisteredStaysMapped'
    <3>. SUFFICES ASSUME facade.at # "down", NEW p \in Ports, p < facade.next
                  PROVE  mirrors'[p] # None /\ refs[mirrors'[p]] = [port |-> p, gen |-> facade.gen]
      BY <2>1 DEF RegisteredStaysMapped
    <3>1. mirrors[p] # None /\ refs[mirrors[p]] = [port |-> p, gen |-> facade.gen]
      BY <1>m DEF RegisteredStaysMapped
    <3>2. refs[mirrors[p]] # None /\ refs[mirrors[p]].gen = facade.gen
      BY <1>m, <3>1 DEF HandlerInv
    <3>3. mirrors[p] # h
      BY <2>4, <3>2 DEF Alive
    <3>. QED
      BY <2>7, <3>1, <3>3
  <2>. QED
    BY <2>a, <2>b, <2>c, <2>d DEF MappingInv
<1>12. ASSUME NEW l \in Loopers, DropDead(l), looper[l].op = "release" PROVE MappingInv'
  <2>. DEFINE h == looper[l].handle
  <2>1. /\ refs' = [refs EXCEPT ![h] = None] /\ looper' = [looper EXCEPT ![l] = Idle]
        /\ UNCHANGED <<mirrors, facade, dead>>
    BY <1>12 DEF DropDead, runtimeVars
  <2>2. Moved(looper, looper', l, "idle", None, None, None)
    BY <1>0, <2>1, IdleMoved
  <2>3. (\A m \in Loopers : m # l => looper'[m] = looper[m]) /\ looper'[l].op = "idle"
    BY <2>2 DEF Moved
  <2>4. /\ h \in Handles /\ h \notin dead /\ refs[h] # None /\ ~ Alive(refs[h])
        /\ \A m \in Loopers : Condemned(m) /\ m # l => looper[m].handle # h
        /\ \A p \in Ports : mirrors[p] # h
    BY <1>12, <1>h, <1>m DEF DeathsInv, Condemned
  <2>5. Handling' = Handling /\ l \notin Handling
    BY <1>12, <2>3 DEF Handling
  <2>6. \A m \in Handling : m \in Loopers /\ m # l /\ looper'[m] = looper[m] /\ looper[m].handle \in Handles
    BY <1>h, <2>3, <2>5 DEF Handling
  <2>7. \A g \in Handles : g # h => refs'[g] = refs[g]
    BY <1>0, <2>1
  <2>8. \A x : Alive(x)' <=> Alive(x)
    BY <2>1 DEF Alive
  <2>9. \A m \in Loopers : Condemned(m)' =>
          m # l /\ Condemned(m) /\ looper'[m].handle = looper[m].handle /\ looper[m].handle \in Handles
    BY <1>h, <2>3 DEF Condemned
  <2>. HIDE DEF h
  <2>a. OneRegistration'
    BY <1>m, <2>1, <2>5, <2>6, <2>8 DEF OneRegistration
  <2>b. DeathsInv'
    <3>1. \A g \in dead' : refs'[g] # None /\ ~ Alive(refs[g])'
      BY <1>0, <1>m, <2>1, <2>4, <2>7, <2>8 DEF DeathsInv, Alive
    <3>2. \A m \in Loopers : Condemned(m)' =>
            /\ looper'[m].handle \notin dead'
            /\ refs'[looper'[m].handle] # None /\ ~ Alive(refs[looper[m].handle])'
      BY <1>m, <2>1, <2>4, <2>7, <2>8, <2>9 DEF DeathsInv, Alive
    <3>3. \A i, m \in Loopers :
             Condemned(i)' /\ Condemned(m)' /\ looper'[i].handle = looper'[m].handle => i = m
      BY <1>m, <2>9 DEF DeathsInv
    <3>4. \A m \in Loopers : looper'[m].op = "release" =>
             \A p \in Ports : mirrors'[p] # looper'[m].handle
      BY <1>m, <2>1, <2>3 DEF DeathsInv
    <3>. QED
      BY <3>1, <3>2, <3>3, <3>4 DEF DeathsInv
  <2>c. HandlerInv'
    <3>1. \A p \in Ports : mirrors'[p] # None => refs'[mirrors'[p]] # None
      BY <1>0, <1>m, <2>1, <2>4, <2>7 DEF HandlerInv
    <3>2. ASSUME NEW k \in Handling, looper[k].op \in {"acquire", "insert"}
          PROVE  /\ refs'[looper[k].handle] = looper[k].node
                 /\ \A p \in Ports : mirrors[p] # looper[k].handle
                 /\ \A m \in Loopers : looper'[m].op = "release" => looper'[m].handle # looper[k].handle
      <4>1. looper[k].handle # h
        BY <1>12, <1>m, <3>2 DEF HandlerInv, h
      <4>. QED
        BY <1>m, <2>3, <2>6, <2>7, <3>2, <4>1 DEF HandlerInv
    <3>3. ASSUME NEW k \in Handling, looper[k].op = "acquire"
          PROVE  /\ looper[k].handle \notin dead
                 /\ \A m \in Loopers : Condemned(m)' => looper'[m].handle # looper[k].handle
      BY <1>m, <2>9, <3>3 DEF HandlerInv
    <3>4. ASSUME NEW k \in Handling, looper[k].op \in {"pop", "push", "reply"}, facade.at # "down"
          PROVE  /\ mirrors[looper[k].node.port] = looper[k].handle
                 /\ refs'[looper[k].handle] = looper[k].node
      <4>1. /\ mirrors[looper[k].node.port] = looper[k].handle
            /\ refs[looper[k].handle] = looper[k].node
        BY <1>m, <3>4 DEF HandlerInv
      <4>2. Alive(looper[k].node)
        BY <1>m, <3>4 DEF OneRegistration
      <4>. QED
        BY <2>4, <2>6, <2>7, <4>1, <4>2
    <3>. QED
      BY <2>1, <2>5, <2>6, <3>1, <3>2, <3>3, <3>4 DEF HandlerInv
  <2>d. RegisteredStaysMapped'
    BY <1>0, <1>m, <2>1, <2>4, <2>7 DEF RegisteredStaysMapped
  <2>. QED
    BY <2>a, <2>b, <2>c, <2>d DEF MappingInv
<1>13. ASSUME NEW l \in Loopers, NEW h \in Handles, DeathNotice(l, h) PROVE MappingInv'
  <2>1. /\ looper[l].op = "idle" /\ h \in dead /\ dead' = dead \ {h}
        /\ looper' = [looper EXCEPT ![l] = [Idle EXCEPT !.op = "dead", !.handle = h]]
        /\ UNCHANGED <<mirrors, facade, refs>>
    BY <1>13 DEF DeathNotice, runtimeVars
  <2>2. Moved(looper, looper', l, "dead", None, h, None)
    BY <1>0, <2>1, DeadMoved
  <2>3. /\ \A m \in Loopers : m # l => looper'[m] = looper[m]
        /\ looper'[l].op = "dead" /\ looper'[l].handle = h
    BY <2>2 DEF Moved
  <2>4. /\ refs[h] # None /\ ~ Alive(refs[h]) /\ \A m \in Loopers : Condemned(m) => looper[m].handle # h
    BY <1>m, <2>1 DEF DeathsInv
  <2>5. Handling' = Handling /\ l \notin Handling
    BY <2>1, <2>3 DEF Handling
  <2>6. \A m \in Handling : m \in Loopers /\ m # l /\ looper'[m] = looper[m]
    BY <2>3, <2>5 DEF Handling
  <2>7. \A x : Alive(x)' <=> Alive(x)
    BY <2>1 DEF Alive
  <2>8. \A m \in Loopers : Condemned(m)' => m = l \/ (Condemned(m) /\ looper'[m] = looper[m])
    BY <2>3 DEF Condemned
  <2>9. \A m \in Loopers : looper'[m].op = "release" => m # l /\ looper'[m] = looper[m]
    BY <2>3
  <2>a. OneRegistration'
    BY <1>m, <2>1, <2>5, <2>6, <2>7 DEF OneRegistration
  <2>b. DeathsInv'
    <3>1. \A g \in dead' : refs'[g] # None /\ ~ Alive(refs[g])'
      BY <1>m, <2>1, <2>7 DEF DeathsInv, Alive
    <3>2. \A m \in Loopers : Condemned(m)' =>
            /\ looper'[m].handle \notin dead'
            /\ refs'[looper'[m].handle] # None /\ ~ Alive(refs[looper[m].handle])'
      BY <1>m, <2>1, <2>3, <2>4, <2>7, <2>8 DEF DeathsInv, Alive
    <3>3. \A i, m \in Loopers :
             Condemned(i)' /\ Condemned(m)' /\ looper'[i].handle = looper'[m].handle => i = m
      BY <1>m, <2>3, <2>4, <2>8 DEF DeathsInv
    <3>4. \A m \in Loopers : looper'[m].op = "release" =>
             \A p \in Ports : mirrors'[p] # looper'[m].handle
      BY <1>m, <2>1, <2>9 DEF DeathsInv
    <3>. QED
      BY <3>1, <3>2, <3>3, <3>4 DEF DeathsInv
  <2>c. HandlerInv'
    <3>1. \A p \in Ports : mirrors'[p] # None => refs'[mirrors'[p]] # None
      BY <1>m, <2>1 DEF HandlerInv
    <3>2. ASSUME NEW k \in Handling, looper[k].op \in {"acquire", "insert"}
          PROVE  /\ refs[looper[k].handle] = looper[k].node
                 /\ \A p \in Ports : mirrors[p] # looper[k].handle
                 /\ \A m \in Loopers : looper'[m].op = "release" => looper'[m].handle # looper[k].handle
      BY <1>m, <2>9, <3>2 DEF HandlerInv
    <3>3. ASSUME NEW k \in Handling, looper[k].op = "acquire"
          PROVE  /\ looper[k].handle \notin dead'
                 /\ \A m \in Loopers : Condemned(m)' => looper'[m].handle # looper[k].handle
      BY <1>m, <2>1, <2>3, <2>8, <3>3 DEF HandlerInv
    <3>4. ASSUME NEW k \in Handling, looper[k].op \in {"pop", "push", "reply"}, facade.at # "down"
          PROVE  /\ mirrors[looper[k].node.port] = looper[k].handle
                 /\ refs[looper[k].handle] = looper[k].node
      BY <1>m, <3>4 DEF HandlerInv
    <3>. QED
      BY <2>1, <2>5, <2>6, <3>1, <3>2, <3>3, <3>4 DEF HandlerInv
  <2>d. RegisteredStaysMapped'
    BY <1>m, <2>1 DEF RegisteredStaysMapped
  <2>. QED
    BY <2>a, <2>b, <2>c, <2>d DEF MappingInv
<1>14. CASE FacadeStarts
  <2>1. /\ facade.at = "down" /\ Handling = {} /\ facade' = [gen |-> facade.gen + 1, next |-> 1, at |-> "registering"]
        /\ UNCHANGED <<mirrors, refs, dead, looper>>
    BY <1>14 DEF FacadeStarts, runtimeVars
  <2>2. Handling' = {} /\ facade'.gen = facade.gen + 1 /\ facade'.next = 1
    BY <2>1 DEF Handling
  <2>3. ASSUME NEW h \in Handles, refs[h] # None PROVE refs[h].gen # facade'.gen
    <3>1. refs[h] \in Nodes
      BY <1>0, <2>3
    <3>2. refs[h].gen \in Nat /\ facade.gen \in Nat
      BY <1>0, <3>1 DEF Nodes, FacadeStates
    <3>3. refs[h].gen <= facade.gen
      BY <1>0, <2>3 DEF RefsInv
    <3>. QED
      BY <2>2, <3>2, <3>3
  <2>4. \A m \in Loopers : Condemned(m)' <=> Condemned(m)
    BY <2>1 DEF Condemned
  <2>a. OneRegistration'
    BY <2>2 DEF OneRegistration
  <2>b. DeathsInv'
    <3>1. \A g \in dead' : refs'[g] # None /\ ~ Alive(refs[g])'
      BY <1>0, <1>m, <2>1, <2>3 DEF DeathsInv, Alive
    <3>2. \A m \in Loopers : Condemned(m)' =>
            /\ looper'[m].handle \notin dead'
            /\ refs'[looper'[m].handle] # None /\ ~ Alive(refs[looper[m].handle])'
      BY <1>h, <1>m, <2>1, <2>3, <2>4 DEF DeathsInv, Condemned, Alive
    <3>3. \A i, m \in Loopers :
             Condemned(i)' /\ Condemned(m)' /\ looper'[i].handle = looper'[m].handle => i = m
      BY <1>m, <2>1, <2>4 DEF DeathsInv
    <3>4. \A m \in Loopers : looper'[m].op = "release" =>
             \A p \in Ports : mirrors'[p] # looper'[m].handle
      BY <1>m, <2>1 DEF DeathsInv
    <3>. QED
      BY <3>1, <3>2, <3>3, <3>4 DEF DeathsInv
  <2>c. HandlerInv'
    BY <1>m, <2>1, <2>2 DEF HandlerInv
  <2>d. RegisteredStaysMapped'
    BY <2>2 DEF RegisteredStaysMapped, Ports
  <2>. QED
    BY <2>a, <2>b, <2>c, <2>d DEF MappingInv
<1>15. CASE FacadeDies
  <2>1. /\ facade' = [facade EXCEPT !.at = "down"]
        /\ dead' = dead \cup {h \in Handles :
                       /\ Alive(refs[h])
                       /\ ~ \E l \in Loopers : looper[l].op = "acquire" /\ looper[l].handle = h}
        /\ UNCHANGED <<mirrors, refs, looper>>
    BY <1>15 DEF FacadeDies, runtimeVars
  <2>2. facade'.at = "down"
    BY <1>0, <2>1, FacadeAt
  <2>3. (\A x : ~ Alive(x)') /\ (\A x : Alive(x) => x # None)
    BY <2>2 DEF Alive
  <2>4. \A m \in Loopers : Condemned(m)' <=> Condemned(m)
    BY <2>1 DEF Condemned
  <2>5. Handling' = Handling
    BY <2>1 DEF Handling
  <2>a. OneRegistration'
    BY <1>m, <2>2, <2>5 DEF OneRegistration
  <2>b. DeathsInv'
    <3>1. \A g \in dead' : refs'[g] # None /\ ~ Alive(refs[g])'
      BY <1>m, <2>1, <2>3 DEF DeathsInv, Alive
    <3>2. \A m \in Loopers : Condemned(m)' =>
            /\ looper'[m].handle \notin dead'
            /\ refs'[looper'[m].handle] # None /\ ~ Alive(refs[looper[m].handle])'
      BY <1>m, <2>1, <2>3, <2>4 DEF DeathsInv, Alive
    <3>3. \A i, m \in Loopers :
             Condemned(i)' /\ Condemned(m)' /\ looper'[i].handle = looper'[m].handle => i = m
      BY <1>m, <2>1, <2>4 DEF DeathsInv
    <3>4. \A m \in Loopers : looper'[m].op = "release" =>
             \A p \in Ports : mirrors'[p] # looper'[m].handle
      BY <1>m, <2>1 DEF DeathsInv
    <3>. QED
      BY <3>1, <3>2, <3>3, <3>4 DEF DeathsInv
  <2>c. HandlerInv'
    <3>1. \A p \in Ports : mirrors'[p] # None => refs'[mirrors'[p]] # None
      BY <1>m, <2>1 DEF HandlerInv
    <3>2. ASSUME NEW k \in Handling, looper[k].op \in {"acquire", "insert"}
          PROVE  /\ refs[looper[k].handle] = looper[k].node
                 /\ \A p \in Ports : mirrors[p] # looper[k].handle
                 /\ \A m \in Loopers : looper[m].op = "release" => looper[m].handle # looper[k].handle
      BY <1>m, <3>2 DEF HandlerInv
    <3>3. ASSUME NEW k \in Handling, looper[k].op = "acquire"
          PROVE  /\ looper[k].handle \notin dead'
                 /\ \A m \in Loopers : Condemned(m)' => looper[m].handle # looper[k].handle
      BY <1>m, <2>1, <2>4, <3>3 DEF HandlerInv, Handling
    <3>. QED
      BY <2>1, <2>2, <2>5, <3>1, <3>2, <3>3 DEF HandlerInv
  <2>d. RegisteredStaysMapped'
    BY <2>2 DEF RegisteredStaysMapped
  <2>. QED
    BY <2>a, <2>b, <2>c, <2>d DEF MappingInv
<1>16. ASSUME NEW l \in Loopers, DropDead(l) PROVE MappingInv'
  BY <1>11, <1>12, <1>16 DEF DropDead
<1>. QED
  BY <1>1, <1>2, <1>3, <1>4, <1>5, <1>6, <1>7, <1>8, <1>9, <1>10, <1>13, <1>14, <1>15, <1>16
     DEF MirrorNext, Looper, FacadeClientStep

\* While no registration is still being handled when the facade is back, and
\* splice duplicates its sockets, a connection reaches the port it was accepted
\* on, no late death notice takes a living facade's mapping away, and
\* host-inetd's own count bounds kenneld's queue (inbound.rs, listen.rs).
THEOREM MirrorExactTheorem ==
    ASSUME ~ Overlap, ~ CloneFails
    PROVE  MirrorSpec => []MirrorExact
<1>1. MirrorInit => CarriedInv
  <2>. SUFFICES ASSUME MirrorInit PROVE CarriedInv
    OBVIOUS
  <2>1. (\A c \in Conduits : at[c] = "closed") /\ Cap \in Nat
    BY MirrorAssumption DEF MirrorInit
  <2>2. \A p \in Ports : Carried(p) = {}
    BY <2>1 DEF Carried
  <2>3. Cardinality({}) = 0
    BY FS_EmptySet
  <2>. QED
    BY <2>1, <2>2, <2>3 DEF CarriedInv
<1>2. PlaceInv /\ CarriedInv /\ MappingInv => MirrorExact
  BY QueuedIsCarried DEF MirrorExact, PlaceInv, MessageHolds, RightPort, MappingInv
<1>. QED
  BY <1>1, <1>2, PlaceInvariant, CarriedStep, MappingInit, MappingStep, PTL DEF MirrorSpec

----------------------------------------------------------------------------
(* The audit ring.  A record's position is the sum of the sizes before it, *)
(* which no variable holds: the invariant says that such positions exist.  *)

RingShape ==
    /\ prod \in Nat /\ cons \in Nat /\ log \in Seq(Kinds) /\ handed \in Seq(Nat)
    /\ ring \in [0 .. RingSize - 1 -> [busy : BOOLEAN, len : Nat, sample : Nat]]
    /\ cpu \in [CPUs -> {Nothing} \cup [pos : Nat, number : Nat]]

\* The records the reader is done with.
Gone == IF drain = "advance" THEN Len(handed) - 1 ELSE Len(handed)

\* The reader takes the records by their numbers; from the header's check to
\* the advance the record at its position is one that was committed.
ReaderInv ==
    /\ \A i \in 1 .. Len(handed) : handed[i] = i
    /\ Len(handed) <= Len(log) /\ (drain = "advance" => Len(handed) > 0)
    /\ drain \in {"emit", "advance"} => Gone < Len(log) /\ ~ ring[Offset(cons)].busy
    /\ prod <= cons + RingSize

\* f gives the position of each record, and of the next one.
Laid(f) ==
    /\ f \in [1 .. Len(log) + 1 -> Nat]
    /\ f[Len(log) + 1] = prod /\ f[Gone + 1] = cons
    /\ \A n \in 1 .. Len(log) : f[n + 1] = f[n] + log[n].size
    /\ \A m, n \in 1 .. Len(log) + 1 : m < n => f[m] < f[n]

\* Each record that is not yet taken lies whole in the ring, and is busy as
\* long as a CPU has it; no two CPUs have the same one.
Held(f) ==
    /\ \A n \in 1 .. Len(log) : n > Gone =>
         /\ ring[Offset(f[n])].len = log[n].size
         /\ ~ ring[Offset(f[n])].busy => ring[Offset(f[n])].sample = n
    /\ \A c \in CPUs : cpu[c] # Nothing =>
         /\ cpu[c].number \in 1 .. Len(log) /\ cpu[c].number > Gone
         /\ cpu[c].pos = f[cpu[c].number] /\ ring[Offset(cpu[c].pos)].busy
    /\ \A c, d \in CPUs :
         cpu[c] # Nothing /\ cpu[d] # Nothing /\ cpu[c].number = cpu[d].number => c = d

RingInv == RingShape /\ ReaderInv /\ \E f : Laid(f) /\ Held(f)

\* Positions less than a ring apart have offsets of their own.
LEMMA Apart ==
    ASSUME NEW a \in Nat, NEW b \in Nat, NEW r \in Nat \ {0}, a < b, b < a + r
    PROVE  a % r # b % r
<1>. DEFINE p == a \div r  q == b \div r
<1>1. p \in Nat /\ q \in Nat
  BY Quotient
<1>2. a = r * p + (a % r) /\ b = r * q + (b % r)
  OBVIOUS
<1>3. a % r \in Nat /\ b % r \in Nat
  OBVIOUS
<1>. SUFFICES ASSUME a % r = b % r PROVE FALSE
  OBVIOUS
<1>. HIDE DEF p, q
<1>4. r * p = p * r /\ r * q = q * r /\ p * r \in Nat /\ q * r \in Nat
  BY <1>1
<1>5. CASE q <= p
  <2>1. q * r <= p * r
    BY <1>1, <1>5, Grows
  <2>. QED
    BY <1>2, <1>3, <1>4, <2>1
<1>6. CASE p + 1 <= q
  <2>1. (p + 1) * r <= q * r
    BY <1>1, <1>6, Grows
  <2>2. (p + 1) * r = p * r + r
    BY <1>1
  <2>. QED
    BY <1>2, <1>3, <1>4, <2>1, <2>2
<1>. QED
  BY <1>1, <1>5, <1>6

\* A position masked is an offset of the ring.
LEMMA OffsetInRing ==
    ASSUME NEW a \in Nat PROVE Offset(a) \in 0 .. RingSize - 1
  BY AuditAssumption DEF Offset

\* What the reader is done with is a number of records reserved.
LEMMA GoneType ==
    ASSUME RingShape, ReaderInv
    PROVE  Gone \in Nat /\ Len(log) \in Nat /\ Len(handed) \in Nat /\ Gone <= Len(log)
  BY DEF RingShape, ReaderInv, Gone

\* The records not yet taken lie less than a ring apart.
LEMMA LiveApart ==
    ASSUME RingShape, ReaderInv, NEW f, Laid(f)
    PROVE  /\ \A n \in 1 .. Len(log) : n > Gone => cons <= f[n] /\ f[n] < prod /\ f[n] \in Nat
           /\ \A m, n \in 1 .. Len(log) : m > Gone /\ n > Gone /\ m # n => Offset(f[m]) # Offset(f[n])
<1>0. /\ Gone \in Nat /\ Len(log) \in Nat /\ Gone <= Len(log) /\ prod \in Nat /\ cons \in Nat
      /\ RingSize \in Nat \ {0} /\ prod <= cons + RingSize
  BY GoneType, AuditAssumption DEF RingShape, ReaderInv
<1>1. ASSUME NEW n \in 1 .. Len(log), n > Gone
      PROVE  cons <= f[n] /\ f[n] < prod /\ f[n] \in Nat
  <2>1. n \in 1 .. Len(log) + 1 /\ Len(log) + 1 \in 1 .. Len(log) + 1 /\ Gone + 1 \in 1 .. Len(log) + 1
    BY <1>0, <1>1
  <2>2. n < Len(log) + 1 /\ (n = Gone + 1 \/ Gone + 1 < n)
    BY <1>0, <1>1
  <2>3. f[n] \in Nat /\ f[n] < f[Len(log) + 1] /\ (n = Gone + 1 \/ f[Gone + 1] < f[n])
    BY <2>1, <2>2 DEF Laid
  <2>4. f[Len(log) + 1] = prod /\ f[Gone + 1] = cons
    BY DEF Laid
  <2>. QED
    BY <1>0, <2>3, <2>4
<1>2. ASSUME NEW m \in 1 .. Len(log), NEW n \in 1 .. Len(log), m > Gone, n > Gone, m < n
      PROVE  Offset(f[m]) # Offset(f[n])
  <2>1. m \in 1 .. Len(log) + 1 /\ n \in 1 .. Len(log) + 1
    BY <1>0
  <2>2. f[m] < f[n]
    BY <1>2, <2>1 DEF Laid
  <2>3. /\ cons <= f[m] /\ f[m] \in Nat
        /\ f[n] < prod /\ f[n] \in Nat
    BY <1>1, <1>2
  <2>4. f[n] < f[m] + RingSize
    BY <1>0, <2>3
  <2>. QED
    BY <1>0, <2>2, <2>3, <2>4, Apart DEF Offset
<1>3. \A m, n \in 1 .. Len(log) : m # n => m < n \/ n < m
  BY <1>0
<1>. QED
  BY <1>1, <1>2, <1>3

\* The sinks, the files and the end of run_kennel take no part in it.
LEMMA RingStill ==
    ASSUME RingInv, UNCHANGED <<ringVars, drainVars>>
    PROVE  RingInv'
<1>1. RingShape' /\ ReaderInv' /\ Gone' = Gone
  BY DEF RingInv, RingShape, ReaderInv, Gone, ringVars, drainVars
<1>2. PICK f : Laid(f) /\ Held(f)
  BY DEF RingInv
<1>3. Laid(f)'
  BY <1>1, <1>2 DEF Laid, ringVars
<1>4. Held(f)'
  BY <1>1, <1>2 DEF Held, ringVars
<1>. QED
  BY <1>1, <1>3, <1>4 DEF RingInv

\* Nothing is reserved at the start.
LEMMA RingInit == AuditInit => RingInv
<1>. SUFFICES ASSUME AuditInit PROVE RingInv
  OBVIOUS
<1>. DEFINE f == [n \in 1 .. 1 |-> 0]
<1>1. /\ prod = 0 /\ cons = 0 /\ log = <<>> /\ handed = <<>> /\ drain = "poll"
      /\ \A c \in CPUs : cpu[c] = Nothing
  BY DEF AuditInit
<1>2. RingShape
  BY DEF RingShape, AuditInit, Empty
<1>3. Len(log) = 0 /\ Len(handed) = 0 /\ Gone = 0
  BY <1>1 DEF Gone
<1>4. ReaderInv
  BY <1>1, <1>3, AuditAssumption DEF ReaderInv
<1>5. Laid(f)
  BY <1>1, <1>3 DEF Laid
<1>6. Held(f)
  BY <1>1, <1>3 DEF Held
<1>. QED
  BY <1>2, <1>4, <1>5, <1>6 DEF RingInv

\* Every step keeps the records not yet taken apart and whole.
LEMMA RingStep ==
    ASSUME RingInv, [AuditNext]_auditVars
    PROVE  RingInv'
<1>0. RingShape /\ ReaderInv
  BY DEF RingInv
<1>f. PICK f : Laid(f) /\ Held(f)
  BY DEF RingInv
<1>g. /\ Gone \in Nat /\ Len(log) \in Nat /\ Len(handed) \in Nat /\ Gone <= Len(log)
      /\ prod \in Nat /\ cons \in Nat /\ RingSize \in Nat \ {0} /\ prod <= cons + RingSize
  BY <1>0, GoneType, AuditAssumption DEF RingShape, ReaderInv
<1>l. /\ \A n \in 1 .. Len(log) : n > Gone => cons <= f[n] /\ f[n] < prod /\ f[n] \in Nat
      /\ \A m, n \in 1 .. Len(log) : m > Gone /\ n > Gone /\ m # n => Offset(f[m]) # Offset(f[n])
  BY <1>0, <1>f, LiveApart
<1>1. ASSUME NEW c \in CPUs, NEW e \in Kinds, Reserve(c, e) PROVE RingInv'
  <2>. DEFINE N == Len(log)  o == Offset(prod)
  <2>1. /\ cpu[c] = Nothing /\ prod + e.size - cons <= RingSize
        /\ ring' = [ring EXCEPT ![o] = [busy |-> TRUE, len |-> e.size, sample |-> 0]]
        /\ prod' = prod + e.size
        /\ cpu' = [cpu EXCEPT ![c] = [pos |-> prod, number |-> N + 1]]
        /\ log' = Append(log, e)
        /\ cons' = cons /\ drain' = drain /\ handed' = handed
    BY <1>1 DEF Reserve, drainVars
  <2>2. e.size \in Nat /\ e.size > 0
    BY AuditAssumption
  <2>3. o \in 0 .. RingSize - 1
    BY <1>g, OffsetInRing
  <2>4. /\ Len(log') = N + 1 /\ log'[N + 1] = e /\ \A n \in 1 .. N : log'[n] = log[n]
        /\ log' \in Seq(Kinds) /\ Gone' = Gone
    BY <1>0, <2>1 DEF RingShape, Gone
  <2>a. prod + e.size <= cons + RingSize
    BY <1>g, <2>1, <2>2
  <2>g. PICK g : g = [n \in 1 .. N + 2 |-> IF n <= N + 1 THEN f[n] ELSE prod + e.size]
    OBVIOUS
  <2>h. /\ \A n \in 1 .. N + 1 : g[n] = f[n] /\ f[n] \in Nat
        /\ g[N + 2] = prod + e.size /\ g \in [1 .. N + 2 -> Nat]
    <3>1. \A n \in 1 .. N + 1 : n \in 1 .. N + 2 /\ n <= N + 1 /\ f[n] \in Nat
      BY <1>f, <1>g, SMTT(40) DEF Laid
    <3>2. N + 2 \in 1 .. N + 2 /\ ~ (N + 2 <= N + 1) /\ prod + e.size \in Nat
      BY <1>g, <2>2
    <3>3. \A n \in 1 .. N + 2 : n <= N + 1 => n \in 1 .. N + 1
      BY <1>g
    <3>. QED
      BY <2>g, <3>1, <3>2, <3>3
  <2>5. \A n \in 1 .. N : n > Gone => Offset(f[n]) # o
    <3>. SUFFICES ASSUME NEW n \in 1 .. N, n > Gone PROVE f[n] % RingSize # prod % RingSize
      BY DEF Offset
    <3>1. f[n] \in Nat /\ f[n] < prod /\ cons <= f[n]
      BY <1>l
    <3>2. prod < f[n] + RingSize
      BY <1>g, <2>a, <2>2, <3>1
    <3>. QED
      BY <1>g, <3>1, <3>2, Apart
  <2>6. RingShape'
    <3>1. ring' \in [0 .. RingSize - 1 -> [busy : BOOLEAN, len : Nat, sample : Nat]]
      BY <1>0, <2>1, <2>2 DEF RingShape
    <3>2. cpu' \in [CPUs -> {Nothing} \cup [pos : Nat, number : Nat]]
      <4>1. N + 1 \in Nat
        BY <1>g
      <4>. QED
        BY <1>0, <2>1, <4>1 DEF RingShape
    <3>3. prod' \in Nat /\ cons' \in Nat
      BY <1>g, <2>1, <2>2
    <3>4. handed' \in Seq(Nat)
      BY <1>0, <2>1 DEF RingShape
    <3>. QED
      BY <2>4, <3>1, <3>2, <3>3, <3>4 DEF RingShape
  <2>7. ReaderInv'
    <3>1. drain \in {"emit", "advance"} => o # Offset(cons)
      <4>. SUFFICES ASSUME drain \in {"emit", "advance"} PROVE o # Offset(cons)
        OBVIOUS
      <4>1. Gone + 1 \in 1 .. N /\ Gone + 1 > Gone
        BY <1>0, <1>g DEF ReaderInv
      <4>2. f[Gone + 1] = cons
        BY <1>f DEF Laid
      <4>. QED
        BY <2>5, <4>1, <4>2
    <3>2. drain \in {"emit", "advance"} => ring'[Offset(cons)] = ring[Offset(cons)]
      BY <1>0, <1>g, <2>1, <3>1, OffsetInRing DEF RingShape
    <3>3. prod' <= cons' + RingSize
      BY <1>g, <2>1, <2>2
    <3>. QED
      BY <1>0, <1>g, <2>1, <2>4, <3>2, <3>3 DEF ReaderInv
  <2>8. Laid(g)'
    <3>1. g \in [1 .. N + 2 -> Nat]
      BY <2>h
    <3>2. (\A n \in 1 .. N + 1 : g[n] = f[n] /\ f[n] \in Nat) /\ g[N + 2] = prod + e.size
      BY <2>h
    <3>3. f[N + 1] = prod /\ f[Gone + 1] = cons
      BY <1>f DEF Laid
    <3>4. \A n \in 1 .. N : g[n + 1] = g[n] + log[n].size
      BY <1>f, <1>g, <3>2, SMTT(40) DEF Laid
    <3>5. g[N + 1 + 1] = g[N + 1] + e.size
      BY <1>g, <3>2, <3>3
    <3>6. ASSUME NEW m \in 1 .. N + 2, NEW n \in 1 .. N + 2, m < n PROVE g[m] < g[n]
      <4>1. CASE n \in 1 .. N + 1
        BY <1>f, <1>g, <3>2, <3>6, <4>1, SMTT(40) DEF Laid
      <4>2. CASE n = N + 2
        <5>1. m \in 1 .. N + 1 /\ N + 1 \in 1 .. N + 1 /\ (m = N + 1 \/ m < N + 1)
          BY <1>g, <3>6, <4>2
        <5>2. f[m] \in Nat /\ (f[m] = prod \/ f[m] < prod)
          BY <1>f, <3>2, <3>3, <5>1 DEF Laid
        <5>. QED
          BY <1>g, <2>2, <3>2, <4>2, <5>1, <5>2
      <4>. QED
        BY <1>g, <4>1, <4>2
    <3>7. g[Gone + 1] = cons
      BY <1>g, <3>2, <3>3
    <3>8. \A n \in 1 .. N + 1 : g[n + 1] = g[n] + log'[n].size
      BY <1>g, <2>4, <3>4, <3>5
    <3>9. Len(log') + 1 = N + 2
      BY <1>g, <2>4
    <3>. QED
      BY <2>1, <2>4, <3>1, <3>2, <3>6, <3>7, <3>8, <3>9 DEF Laid
  <2>9. Held(g)'
    <3>1. (\A n \in 1 .. N + 1 : g[n] = f[n]) /\ f[N + 1] = prod
      BY <1>f, <2>h DEF Laid
    <3>2. ring'[o] = [busy |-> TRUE, len |-> e.size, sample |-> 0]
      BY <1>0, <2>1, <2>3 DEF RingShape
    <3>3. \A n \in 1 .. N : n > Gone => ring'[Offset(f[n])] = ring[Offset(f[n])]
      BY <1>0, <1>l, <2>1, <2>5, OffsetInRing DEF RingShape
    <3>4. ASSUME NEW n \in 1 .. N + 1, n > Gone
          PROVE  /\ ring'[Offset(g[n])].len = log'[n].size
                 /\ ~ ring'[Offset(g[n])].busy => ring'[Offset(g[n])].sample = n
      <4>1. CASE n \in 1 .. N
        BY <1>f, <1>g, <2>4, <3>1, <3>3, <3>4, <4>1 DEF Held
      <4>2. CASE n = N + 1
        BY <1>g, <2>4, <3>1, <3>2, <4>2
      <4>. QED
        BY <1>g, <4>1, <4>2
    <3>5. \A d \in CPUs : d # c => cpu'[d] = cpu[d]
      BY <1>0, <2>1 DEF RingShape
    <3>6. cpu'[c].number = N + 1 /\ cpu'[c].pos = prod
      BY <1>0, <2>1 DEF RingShape
    <3>7. ASSUME NEW d \in CPUs, d # c, cpu[d] # Nothing
          PROVE  /\ cpu[d].number \in 1 .. N /\ cpu[d].number > Gone
                 /\ cpu[d].pos = f[cpu[d].number] /\ ring'[Offset(cpu[d].pos)].busy
      BY <1>f, <3>3, <3>7 DEF Held
    <3>8. ASSUME NEW d \in CPUs, cpu'[d] # Nothing
          PROVE  /\ cpu'[d].number \in 1 .. N + 1 /\ cpu'[d].number > Gone
                 /\ cpu'[d].pos = g[cpu'[d].number] /\ ring'[Offset(cpu'[d].pos)].busy
      <4>1. CASE d = c
        BY <1>g, <3>1, <3>2, <3>6, <4>1
      <4>2. CASE d # c
        BY <1>g, <3>1, <3>5, <3>7, <3>8, <4>2
      <4>. QED
        BY <4>1, <4>2
    <3>9. ASSUME NEW d \in CPUs, NEW b \in CPUs, cpu'[d] # Nothing, cpu'[b] # Nothing,
                 cpu'[d].number = cpu'[b].number
          PROVE  d = b
      <4>1. CASE d # c /\ b # c
        BY <1>f, <3>5, <3>9, <4>1 DEF Held
      <4>2. CASE (d = c /\ b # c) \/ (d # c /\ b = c)
        BY <1>g, <3>5, <3>6, <3>7, <3>9, <4>2
      <4>. QED
        BY <4>1, <4>2
    <3>. QED
      BY <2>4, <3>4, <3>8, <3>9 DEF Held
  <2>. QED
    BY <2>6, <2>7, <2>8, <2>9 DEF RingInv
<1>2. ASSUME NEW c \in CPUs, Commit(c) PROVE RingInv'
  <2>. DEFINE n == cpu[c].number  o == Offset(cpu[c].pos)
  <2>1. /\ cpu[c] # Nothing /\ cpu' = [cpu EXCEPT ![c] = Nothing]
        /\ ring' = [ring EXCEPT ![o].busy = FALSE, ![o].sample = n]
        /\ UNCHANGED <<prod, cons, log, drain, final, handed>>
    BY <1>2 DEF Commit, drainVars
  <2>2. n \in 1 .. Len(log) /\ n > Gone /\ cpu[c].pos = f[n] /\ ring[o].busy
    BY <1>f, <2>1 DEF Held
  <2>3. o = Offset(f[n]) /\ o \in 0 .. RingSize - 1
    BY <1>l, <2>2, OffsetInRing
  <2>4. /\ ring' \in [0 .. RingSize - 1 -> [busy : BOOLEAN, len : Nat, sample : Nat]]
        /\ ~ ring'[o].busy /\ ring'[o].sample = n /\ ring'[o].len = ring[o].len
        /\ \A i \in 0 .. RingSize - 1 : i # o => ring'[i] = ring[i]
    <3>1. n \in Nat
      BY <1>g, <2>2
    <3>2. ring \in [0 .. RingSize - 1 -> [busy : BOOLEAN, len : Nat, sample : Nat]]
      BY <1>0 DEF RingShape
    <3>. HIDE DEF n, o
    <3>. QED
      BY <2>1, <2>3, <3>1, <3>2
  <2>5. cpu' \in [CPUs -> {Nothing} \cup [pos : Nat, number : Nat]] /\ cpu'[c] = Nothing
        /\ \A d \in CPUs : d # c => cpu'[d] = cpu[d]
    BY <1>0, <2>1 DEF RingShape
  <2>. HIDE DEF n, o
  <2>6. RingShape'
    BY <1>0, <2>1, <2>4, <2>5 DEF RingShape
  <2>7. Gone' = Gone
    BY <2>1 DEF Gone
  <2>8. ReaderInv'
    BY <1>0, <1>g, <2>1, <2>4, <2>7, OffsetInRing DEF ReaderInv
  <2>9. Laid(f)'
    BY <1>f, <2>1, <2>7 DEF Laid
  <2>10. Held(f)'
    <3>1. ASSUME NEW m \in 1 .. Len(log), m > Gone
          PROVE  /\ ring'[Offset(f[m])].len = log[m].size
                 /\ ~ ring'[Offset(f[m])].busy => ring'[Offset(f[m])].sample = m
      <4>1. CASE m = n
        BY <1>f, <2>3, <2>4, <3>1, <4>1 DEF Held
      <4>2. CASE m # n
        <5>1. Offset(f[m]) # o /\ Offset(f[m]) \in 0 .. RingSize - 1
          BY <1>l, <2>2, <2>3, <3>1, <4>2, OffsetInRing
        <5>. QED
          BY <1>f, <2>4, <3>1, <5>1 DEF Held
      <4>. QED
        BY <4>1, <4>2
    <3>2. ASSUME NEW d \in CPUs, d # c, cpu[d] # Nothing
          PROVE  /\ cpu[d].number \in 1 .. Len(log) /\ cpu[d].number > Gone
                 /\ cpu[d].pos = f[cpu[d].number] /\ ring'[Offset(cpu[d].pos)].busy
      <4>1. /\ cpu[d].number \in 1 .. Len(log) /\ cpu[d].number > Gone
            /\ cpu[d].pos = f[cpu[d].number] /\ ring[Offset(cpu[d].pos)].busy
        BY <1>f, <3>2 DEF Held
      <4>2. cpu[d].number # n
        BY <1>f, <2>1, <3>2 DEF Held, n
      <4>3. Offset(cpu[d].pos) # o /\ Offset(cpu[d].pos) \in 0 .. RingSize - 1
        BY <1>l, <2>2, <2>3, <4>1, <4>2, OffsetInRing
      <4>. QED
        BY <2>4, <4>1, <4>3
    <3>3. \A d \in CPUs : cpu'[d] # Nothing => d # c /\ cpu'[d] = cpu[d]
      BY <2>5
    <3>4. \A d, b \in CPUs :
            cpu'[d] # Nothing /\ cpu'[b] # Nothing /\ cpu'[d].number = cpu'[b].number => d = b
      BY <1>f, <3>3 DEF Held
    <3>. QED
      BY <2>1, <2>7, <3>1, <3>2, <3>3, <3>4, ZenonT(40) DEF Held
  <2>. QED
    BY <2>6, <2>8, <2>9, <2>10 DEF RingInv
<1>3. CASE DrainWakes \/ ConsumeHeader
  <2>1. /\ UNCHANGED <<ring, prod, cons, cpu, log, handed>>
        /\ drain \in {"poll", "read"}
        /\ \/ drain' \in {"poll", "read", "ended"}
           \/ drain' = "emit" /\ cons < prod /\ ~ ring[Offset(cons)].busy
    BY <1>3 DEF DrainWakes, ConsumeHeader, ringVars, Busy, AfterStop
  <2>2. Gone' = Gone
    BY <2>1 DEF Gone
  <2>3. RingShape'
    BY <1>0, <2>1 DEF RingShape
  <2>4. cons < prod => Gone < Len(log)
    <3>1. f[Len(log) + 1] = prod /\ f[Gone + 1] = cons
      BY <1>f DEF Laid
    <3>2. cons < prod => Gone # Len(log)
      BY <1>g, <3>1
    <3>. QED
      BY <1>g, <3>2
  <2>5. ReaderInv'
    BY <1>0, <2>1, <2>2, <2>4 DEF ReaderInv
  <2>6. Laid(f)'
    BY <1>f, <2>1, <2>2 DEF Laid
  <2>7. Held(f)'
    BY <1>f, <2>1, <2>2 DEF Held
  <2>. QED
    BY <2>3, <2>5, <2>6, <2>7 DEF RingInv
<1>4. CASE EmitSample
  <2>. DEFINE n == ring[Offset(cons)].sample
  <2>1. /\ drain = "emit" /\ drain' = "advance" /\ handed' = Append(handed, n)
        /\ UNCHANGED <<ring, prod, cons, cpu, log>>
    BY <1>4 DEF EmitSample, ringVars
  <2>2. Gone = Len(handed) /\ Gone < Len(log) /\ ~ ring[Offset(cons)].busy
    BY <1>0, <2>1 DEF ReaderInv, Gone
  <2>3. n = Len(handed) + 1
    <3>1. Gone + 1 \in 1 .. Len(log) /\ Gone + 1 > Gone /\ f[Gone + 1] = cons
      BY <1>f, <1>g, <2>2 DEF Laid
    <3>. QED
      BY <1>f, <2>2, <3>1 DEF Held
  <2>. HIDE DEF n
  <2>4. /\ handed' \in Seq(Nat) /\ Len(handed') = Len(handed) + 1
        /\ handed'[Len(handed) + 1] = n /\ \A i \in 1 .. Len(handed) : handed'[i] = handed[i]
    BY <1>0, <1>g, <2>1, <2>3 DEF RingShape
  <2>5. Gone' = Gone
    BY <1>g, <2>1, <2>2, <2>4 DEF Gone
  <2>6. RingShape'
    BY <1>0, <2>1, <2>4 DEF RingShape
  <2>7. ReaderInv'
    <3>1. \A i \in 1 .. Len(handed') : handed'[i] = i
      BY <1>0, <1>g, <2>3, <2>4 DEF ReaderInv
    <3>2. Len(handed') <= Len(log) /\ Len(handed') > 0
      BY <1>g, <2>2, <2>4
    <3>. QED
      BY <1>g, <2>1, <2>2, <2>5, <3>1, <3>2 DEF ReaderInv
  <2>8. Laid(f)'
    BY <1>f, <2>1, <2>5 DEF Laid
  <2>9. Held(f)'
    BY <1>f, <2>1, <2>5 DEF Held
  <2>. QED
    BY <2>6, <2>7, <2>8, <2>9 DEF RingInv
<1>5. CASE ConsumeAdvance
  <2>1. /\ drain = "advance" /\ drain' = "read" /\ cons' = cons + ring[Offset(cons)].len
        /\ UNCHANGED <<ring, prod, cpu, log, handed>>
    BY <1>5 DEF ConsumeAdvance
  <2>2. /\ Gone' = Gone + 1 /\ Gone < Len(log) /\ ~ ring[Offset(cons)].busy
        /\ Gone + 1 \in 1 .. Len(log) /\ Gone + 2 \in 1 .. Len(log) + 1 /\ Gone + 1 > Gone
    BY <1>0, <1>g, <2>1 DEF ReaderInv, Gone
  <2>3. f[Gone + 1] = cons /\ f[Gone + 1 + 1] = cons + log[Gone + 1].size
    BY <1>f, <2>2 DEF Laid
  <2>4. cons' = f[Gone + 1 + 1]
    BY <1>f, <2>1, <2>2, <2>3 DEF Held
  <2>5. cons' \in Nat /\ cons <= cons'
    <3>1. f[Gone + 1 + 1] \in Nat /\ f[Gone + 1] < f[Gone + 1 + 1]
      BY <1>f, <1>g, <2>2, SMTT(40) DEF Laid
    <3>. QED
      BY <1>g, <2>3, <2>4, <3>1
  <2>6. RingShape'
    BY <1>0, <2>1, <2>5 DEF RingShape
  <2>7. ReaderInv'
    BY <1>0, <1>g, <2>1, <2>5 DEF ReaderInv
  <2>8. Laid(f)'
    BY <1>f, <2>1, <2>2, <2>4 DEF Laid
  <2>9. Held(f)'
    <3>1. ASSUME NEW c \in CPUs, cpu[c] # Nothing PROVE cpu[c].number > Gone + 1
      <4>1. /\ cpu[c].number \in 1 .. Len(log) /\ cpu[c].number > Gone
            /\ cpu[c].pos = f[cpu[c].number] /\ ring[Offset(cpu[c].pos)].busy
        BY <1>f, <3>1 DEF Held
      <4>2. cpu[c].number # Gone + 1
        BY <2>2, <2>3, <4>1
      <4>. QED
        BY <1>g, <4>1, <4>2
    <3>2. \A n \in 1 .. Len(log) : n > Gone + 1 => n > Gone
      BY <1>g
    <3>. QED
      BY <1>f, <2>1, <2>2, <3>1, <3>2 DEF Held
  <2>. QED
    BY <2>6, <2>7, <2>8, <2>9 DEF RingInv
<1>6. ASSUME NEW k \in Sinks, NEW ok \in BOOLEAN,
             \/ WorkerWrites(k, ok) \/ FileAppends(ok) \/ \E secs \in Seconds : FileRotates(ok, secs)
      PROVE  RingInv'
  <2>1. UNCHANGED <<ringVars, drainVars>>
    BY <1>6 DEF WorkerWrites, FileAppends, FileRotates, Taken
  <2>. QED
    BY <2>1, RingStill
<1>7. CASE WorkloadGone \/ LogExit \/ StopDrain \/ DropWriter \/ UNCHANGED auditVars
  <2>1. UNCHANGED <<ringVars, drainVars>>
    BY <1>7 DEF WorkloadGone, LogExit, StopDrain, DropWriter, auditVars
  <2>. QED
    BY <2>1, RingStill
<1>. QED
  BY <1>1, <1>2, <1>3, <1>4, <1>5, <1>6, <1>7 DEF AuditNext

\* The reader of the audit ring takes every record once, whole and in the
\* order of reservation, for any number of CPUs, ring size and record sizes,
\* however the commits interleave and however often the ring wraps
\* (kennel-lib-bpf ringbuf.rs, consume).
THEOREM RingExactTheorem == AuditSpec => []RingExact
<1>1. RingInv => RingExact
  BY DEF RingInv, RingShape, ReaderInv, RingExact
<1>. QED
  BY <1>1, RingInit, RingStep, PTL DEF AuditSpec
-----------------------------------------------------------------------------
(* The audit trail from the ring to the sinks.  The fan-out is a recursion *)
(* over the sinks in their order: what it leaves is shown by taking the    *)
(* least sink at which it would fail (Least).                              *)

\* The channels, as a fan-out passes them from sink to sink.
Channels == [queue : [Sinks -> Seq(Nat)], lost : [Sinks -> SUBSET Nat], diag : SUBSET Sinks]

\* A refusal of k is on record in st: it was before, or it is reported.
Reported(st0, st, k) ==
    st.lost[k] # {} =>
        \/ st0.lost[k] # {} \/ k \in st.diag
        \/ \E j \in Sinks \ {k} : Drop(k) \in Range(st.queue[j])

\* st comes from st0 by sends and refusals only.
Grown(st0, st) ==
    /\ \A k \in Sinks : Range(st0.queue[k]) \subseteq Range(st.queue[k]) /\ st0.lost[k] \subseteq st.lost[k]
    /\ st0.diag \subseteq st.diag
    /\ \A k \in Sinks : Reported(st0, st, k)

\* The sinks have positions in their order, so a drop has a number.
LEMMA DropNumber == ASSUME NEW k \in Sinks PROVE Drop(k) \in Nat /\ Drop(k) > MaxEvents
<1>1. \E i \in DOMAIN SinkOrder : SinkOrder[i] = k
  BY DEF Sinks, Range
<1>2. PICK i : i = CHOOSE j \in DOMAIN SinkOrder : SinkOrder[j] = k
  OBVIOUS
<1>3. i \in DOMAIN SinkOrder
  BY <1>1, <1>2
<1>4. i \in Nat /\ i > 0
  BY <1>3, AuditAssumption
<1>. QED
  BY <1>2, <1>4, AuditAssumption DEF Drop

\* Appending adds one record and keeps the others.
LEMMA RangeAppend ==
    ASSUME NEW q \in Seq(Nat), NEW r \in Nat
    PROVE  /\ Append(q, r) \in Seq(Nat)
           /\ Range(q) \subseteq Range(Append(q, r)) /\ r \in Range(Append(q, r))
<1>1. /\ Append(q, r) \in Seq(Nat) /\ Len(Append(q, r)) = Len(q) + 1 /\ Len(q) \in Nat
      /\ \A i \in 1 .. Len(q) : Append(q, r)[i] = q[i]
      /\ Append(q, r)[Len(q) + 1] = r
  BY AppendProperties
<1>2. DOMAIN q = 1 .. Len(q) /\ DOMAIN Append(q, r) = 1 .. Len(q) + 1
  BY <1>1
<1>. QED
  BY <1>1, <1>2 DEF Range

\* Writer::send loses nothing already queued, and queues unless it is full.
LEMMA SendKeeps ==
    ASSUME NEW q \in Seq(Nat), NEW r \in Nat
    PROVE  /\ Send(q, r) \in Seq(Nat) /\ Range(q) \subseteq Range(Send(q, r))
           /\ ~ Full(q) => r \in Range(Send(q, r))
  BY RangeAppend DEF Send

\* One sink of a fan-out.
LEMMA OfferGrows ==
    ASSUME NEW r \in Nat, NEW st \in Channels, NEW k \in Sinks
    PROVE  /\ Offer(r, st, k) \in Channels /\ Grown(st, Offer(r, st, k))
           /\ r \in Range(Offer(r, st, k).queue[k]) \cup Offer(r, st, k).lost[k]
<1>. DEFINE new == Offer(r, st, k)
<1>0. /\ st.queue \in [Sinks -> Seq(Nat)] /\ st.lost \in [Sinks -> SUBSET Nat] /\ st.diag \subseteq Sinks
  BY DEF Channels
<1>1. CASE ~ Full(st.queue[k])
  <2>0. new = [st EXCEPT !.queue[k] = Append(@, r)]
    BY <1>1, Zenon DEF Offer
  <2>. HIDE DEF new
  <2>1. PICK q : q = [st.queue EXCEPT ![k] = Append(st.queue[k], r)]
    OBVIOUS
  <2>1b. new = [st EXCEPT !.queue = q]
    BY <2>0, <2>1
  <2>2. /\ new.queue = [st.queue EXCEPT ![k] = Append(@, r)] /\ new.lost = st.lost /\ new.diag = st.diag
        /\ new = [queue |-> new.queue, lost |-> new.lost, diag |-> new.diag]
    BY <2>1, <2>1b DEF Channels
  <2>3. \A j \in Sinks : new.queue[j] = IF j = k THEN Append(st.queue[k], r) ELSE st.queue[j]
    BY <1>0, <2>2
  <2>4. new.queue \in [Sinks -> Seq(Nat)]
    BY <1>0, <2>2
  <2>5. new \in Channels
    BY <1>0, <2>2, <2>4 DEF Channels
  <2>6. \A j \in Sinks : Range(st.queue[j]) \subseteq Range(new.queue[j])
    BY <1>0, <2>3, RangeAppend
  <2>7. r \in Range(new.queue[k])
    BY <1>0, <2>3, RangeAppend
  <2>. QED
    BY <2>2, <2>5, <2>6, <2>7 DEF Grown, Reported, new
<1>2. CASE Full(st.queue[k])
  <2>1. /\ new.queue = [j \in Sinks |-> IF j = k THEN st.queue[k] ELSE Send(st.queue[j], Drop(k))]
        /\ new.lost = [st.lost EXCEPT ![k] = @ \cup {r}]
        /\ new.diag = IF \A j \in Sinks \ {k} : Full(st.queue[j]) THEN st.diag \cup {k} ELSE st.diag
        /\ new = [queue |-> new.queue, lost |-> new.lost, diag |-> new.diag]
    BY <1>2 DEF Offer
  <2>2. \A j \in Sinks : /\ new.queue[j] \in Seq(Nat) /\ Range(st.queue[j]) \subseteq Range(new.queue[j])
                         /\ j # k /\ ~ Full(st.queue[j]) => Drop(k) \in Range(new.queue[j])
    <3>. SUFFICES ASSUME NEW j \in Sinks
                  PROVE  /\ new.queue[j] \in Seq(Nat) /\ Range(st.queue[j]) \subseteq Range(new.queue[j])
                         /\ j # k /\ ~ Full(st.queue[j]) => Drop(k) \in Range(new.queue[j])
      OBVIOUS
    <3>1. PICK q : q = st.queue[j]
      OBVIOUS
    <3>2. q \in Seq(Nat) /\ new.queue[j] = IF j = k THEN q ELSE Send(q, Drop(k))
      BY <1>0, <2>1, <3>1
    <3>3. Send(q, Drop(k)) \in Seq(Nat) /\ Range(q) \subseteq Range(Send(q, Drop(k)))
          /\ (~ Full(q) => Drop(k) \in Range(Send(q, Drop(k))))
      BY <3>2, DropNumber, SendKeeps
    <3>. QED
      BY <3>1, <3>2, <3>3, Zenon
  <2>3. \A j \in Sinks : new.lost[j] = IF j = k THEN st.lost[k] \cup {r} ELSE st.lost[j]
    BY <1>0, <2>1
  <2>4. new.queue \in [Sinks -> Seq(Nat)] /\ new.lost \in [Sinks -> SUBSET Nat] /\ new.diag \subseteq Sinks
    BY <1>0, <2>1, <2>2
  <2>5. new \in Channels
    BY <2>1, <2>4 DEF Channels
  <2>6. \A j \in Sinks : Reported(st, new, j)
    BY <2>1, <2>2, <2>3 DEF Reported
  <2>. QED
    BY <2>1, <2>2, <2>3, <2>5, <2>6 DEF Grown
<1>. QED
  BY <1>1, <1>2

\* What has grown twice has grown.
LEMMA GrownTwice ==
    ASSUME NEW a \in Channels, NEW b \in Channels, NEW c \in Channels, Grown(a, b), Grown(b, c)
    PROVE  Grown(a, c)
  BY DEF Grown, Reported

\* The states a fan-out goes through, sink by sink.
Passed(st0, r, n, f) ==
    f = [i \in 0 .. n |-> IF i = 0 THEN st0 ELSE Offer(r, f[i - 1], SinkOrder[i])]

\* A fan-out has such states, however many sinks there are.
LEMMA PassedExists ==
    ASSUME NEW st0, NEW r, NEW n \in Nat
    PROVE  \E f : Passed(st0, r, n, f)
<1>. DEFINE Bad == {m \in Nat : ~ \E f : Passed(st0, r, m, f)}
<1>. SUFFICES ASSUME Bad # {} PROVE FALSE
  OBVIOUS
<1>1. PICK m \in Bad : \A x \in Bad : m <= x
  BY Least
<1>2. m # 0
  <2>. DEFINE f == [i \in 0 .. 0 |-> st0]
  <2>1. Passed(st0, r, 0, f)
    BY DEF Passed
  <2>. QED
    BY <2>1
<1>3. m - 1 \in Nat /\ m - 1 \notin Bad /\ m \in Nat
  BY <1>1, <1>2
<1>4. PICK f : Passed(st0, r, m - 1, f)
  BY <1>3
<1>. DEFINE g == [i \in 0 .. m |-> IF i = m THEN Offer(r, f[m - 1], SinkOrder[m]) ELSE f[i]]
<1>5. \A i \in 0 .. m - 1 : f[i] = IF i = 0 THEN st0 ELSE Offer(r, f[i - 1], SinkOrder[i])
  BY <1>4 DEF Passed
<1>6. \A i \in 0 .. m - 1 : i \in 0 .. m /\ i # m
  BY <1>3
<1>7. \A i \in 0 .. m : g[i] = IF i = 0 THEN st0 ELSE Offer(r, g[i - 1], SinkOrder[i])
  <2>. SUFFICES ASSUME NEW i \in 0 .. m PROVE g[i] = IF i = 0 THEN st0 ELSE Offer(r, g[i - 1], SinkOrder[i])
    OBVIOUS
  <2>1. CASE i = m
    <3>1. i # 0 /\ i - 1 \in 0 .. m /\ i - 1 # m /\ g[i - 1] = f[m - 1] /\ m \in 0 .. m
      BY <1>2, <1>3, <2>1
    <3>. QED
      BY <2>1, <3>1
  <2>2. CASE i # m
    <3>1. i \in 0 .. m - 1
      BY <1>3, <2>2
    <3>2. i # 0 => i - 1 \in 0 .. m /\ i - 1 # m
      BY <1>3
    <3>. QED
      BY <1>5, <2>2, <3>1, <3>2
  <2>. QED
    BY <2>1, <2>2
<1>8. Passed(st0, r, m, g)
  BY <1>7, Zenon DEF Passed
<1>. QED
  BY <1>1, <1>8

\* A fan-out loses no record on the way: each sink has it or has refused it,
\* and every refusal is on record.
LEMMA OfferedGrows ==
    ASSUME NEW r \in Nat, NEW st0 \in Channels
    PROVE  LET st == Offered(r, st0)
           IN  /\ st \in Channels /\ Grown(st0, st)
               /\ \A k \in Sinks : r \in Range(st.queue[k]) \cup st.lost[k]
<1>. DEFINE N == Len(SinkOrder)
<1>0. N \in Nat /\ DOMAIN SinkOrder = 1 .. N
  BY AuditAssumption
<1>1. PICK f : Passed(st0, r, N, f) /\ Offered(r, st0) = f[N]
  <2>. DEFINE st == CHOOSE f : Passed(st0, r, N, f)
  <2>1. Passed(st0, r, N, st)
    BY <1>0, PassedExists
  <2>2. Offered(r, st0) = st[N]
    BY DEF Offered, Passed
  <2>. QED
    BY <2>1, <2>2
<1>. HIDE DEF N
<1>2. \A i \in 0 .. N : f[i] = IF i = 0 THEN st0 ELSE Offer(r, f[i - 1], SinkOrder[i])
  BY <1>1 DEF Passed
<1>. DEFINE Good(i) == /\ f[i] \in Channels /\ Grown(st0, f[i])
                       /\ \A j \in 1 .. i : r \in Range(f[i].queue[SinkOrder[j]]) \cup f[i].lost[SinkOrder[j]]
            Bad == {i \in 0 .. N : ~ Good(i)}
<1>3. Bad = {}
  <2>. SUFFICES ASSUME Bad # {} PROVE FALSE
    OBVIOUS
  <2>1. PICK m \in Bad : \A x \in Bad : m <= x
    <3>1. Bad \in SUBSET Nat
      BY <1>0
    <3>. QED
      BY <3>1, Least
  <2>2. m \in Nat /\ m <= N
    BY <1>0
  <2>3. m # 0
    <3>1. f[0] = st0
      BY <1>0, <1>2
    <3>2. Grown(st0, st0)
      BY DEF Grown, Reported
    <3>3. Good(0)
      BY <3>1, <3>2
    <3>. QED
      BY <3>3
  <2>4. m - 1 \in 0 .. N /\ m - 1 \notin Bad
    BY <1>0, <2>1, <2>2, <2>3
  <2>5. Good(m - 1)
    BY <2>4
  <2>5a. m \in 0 .. N /\ m \in 1 .. N
    BY <1>0, <2>2, <2>3
  <2>5b. f[m] = Offer(r, f[m - 1], SinkOrder[m])
    BY <1>2, <2>3, <2>5a
  <2>6. SinkOrder[m] \in Sinks
    BY <1>0, <2>5a DEF Sinks, Range
  <2>7. /\ f[m] \in Channels /\ Grown(f[m - 1], f[m])
        /\ r \in Range(f[m].queue[SinkOrder[m]]) \cup f[m].lost[SinkOrder[m]]
    <3>1. PICK g, k : g = f[m - 1] /\ k = SinkOrder[m]
      OBVIOUS
    <3>2. g \in Channels /\ k \in Sinks /\ f[m] = Offer(r, g, k)
      BY <2>5, <2>5b, <2>6, <3>1
    <3>3. PICK h : h = Offer(r, g, k)
      OBVIOUS
    <3>4. h \in Channels /\ Grown(g, h) /\ r \in Range(h.queue[k]) \cup h.lost[k]
      BY <3>2, <3>3, OfferGrows
    <3>. QED
      BY <3>1, <3>2, <3>3, <3>4, Zenon
  <2>8. Grown(st0, f[m])
    BY <2>5, <2>7, GrownTwice
  <2>9. ASSUME NEW j \in 1 .. m PROVE r \in Range(f[m].queue[SinkOrder[j]]) \cup f[m].lost[SinkOrder[j]]
    <3>1. CASE j = m
      BY <2>7, <3>1
    <3>2. CASE j # m
      <4>1. j \in 1 .. m - 1 /\ j \in 1 .. N
        BY <1>0, <2>2, <3>2
      <4>2. SinkOrder[j] \in Sinks
        BY <1>0, <4>1 DEF Sinks, Range
      <4>. QED
        BY <2>5, <2>7, <4>1, <4>2 DEF Grown
    <3>. QED
      BY <3>1, <3>2
  <2>. QED
    BY <2>7, <2>8, <2>9
<1>4. Good(N)
  BY <1>0, <1>3
<1>5. \A k \in Sinks : \E j \in 1 .. N : SinkOrder[j] = k
  BY <1>0 DEF Sinks, Range
<1>. QED
  BY <1>1, <1>4, <1>5

----------------------------------------------------------------------------
(* The end of the kennel.  Once run_kennel is past the workload no CPU has *)
(* a record half written, so the sweep that follows the stop ends only     *)
(* with the ring empty.                                                    *)

\* A cell that is busy is some CPU's.
BusyOwned ==
    \A o \in 0 .. RingSize - 1 :
        ring[o].busy => \E c \in CPUs : cpu[c] # Nothing /\ Offset(cpu[c].pos) = o

\* What the sweep at the end rests on: who is still writing, and how far the end is.
TeardownInv ==
    /\ BusyOwned
    /\ run \in {"up", "exited", "logged", "stopped", "closing", "done"}
    /\ run # "up" => \A c \in CPUs : cpu[c] = Nothing
    /\ final => Stopping
    /\ drain = "ended" => final /\ Len(handed) = Len(log)
    /\ run \in {"closing", "done"} => drain = "ended"
    /\ run = "done" => \A k \in Sinks : queue[k] = <<>>
    /\ level \in Levels

\* Every step of the CPUs, the drainer and run_kennel's end keeps it.
LEMMA TeardownStep ==
    ASSUME RingInv, TeardownInv, [AuditNext]_auditVars
    PROVE  TeardownInv'
<1>0. RingShape
  BY DEF RingInv
<1>. USE DEF TeardownInv
<1>1. ASSUME UNCHANGED <<ring, cpu>> PROVE BusyOwned'
  BY <1>1 DEF BusyOwned
<1>2. ASSUME NEW c \in CPUs, NEW e \in Kinds, Reserve(c, e) PROVE TeardownInv'
  <2>1. /\ run = "up" /\ cpu[c] = Nothing /\ run' = run /\ drain' = drain /\ final' = final /\ level' = level
        /\ ring' = [ring EXCEPT ![Offset(prod)] = [busy |-> TRUE, len |-> e.size, sample |-> 0]]
        /\ cpu' = [cpu EXCEPT ![c] = [pos |-> prod, number |-> Len(log) + 1]]
    BY <1>2 DEF Reserve, drainVars
  <2>2. ~ final /\ drain # "ended"
    BY <2>1 DEF Stopping
  <2>3. cpu'[c].pos = prod /\ cpu'[c] = [pos |-> prod, number |-> Len(log) + 1]
        /\ \A d \in CPUs : d # c => cpu'[d] = cpu[d]
    BY <1>0, <2>1 DEF RingShape
  <2>4. cpu'[c] # Nothing
    <3>1. cpu'[c] \in [pos : Nat, number : Nat]
      BY <1>0, <2>3 DEF RingShape
    <3>. QED
      BY <3>1, AuditAssumption
  <2>5. \A o \in 0 .. RingSize - 1 : o # Offset(prod) => ring'[o] = ring[o]
    BY <1>0, <2>1 DEF RingShape
  <2>6. BusyOwned'
    BY <2>1, <2>3, <2>4, <2>5 DEF BusyOwned, Offset
  <2>. QED
    BY <2>1, <2>2, <2>6
<1>3. ASSUME NEW c \in CPUs, Commit(c) PROVE TeardownInv'
  <2>1. /\ cpu[c] # Nothing /\ UNCHANGED <<run, drain, final, handed, log, queue, level>>
        /\ ring' = [ring EXCEPT ![Offset(cpu[c].pos)].busy = FALSE,
                                ![Offset(cpu[c].pos)].sample = cpu[c].number]
        /\ cpu' = [cpu EXCEPT ![c] = Nothing]
    BY <1>3 DEF Commit, drainVars, sinkVars
  <2>2. cpu'[c] = Nothing /\ \A d \in CPUs : d # c => cpu'[d] = cpu[d]
    BY <1>0, <2>1 DEF RingShape
  <2>3. PICK p : p = Offset(cpu[c].pos)
    OBVIOUS
  <2>4. \A o \in 0 .. RingSize - 1 : /\ o # p => ring'[o] = ring[o]
                                     /\ o = p => ~ ring'[o].busy
    BY <1>0, <2>1, <2>3, SMTT(40) DEF RingShape
  <2>5. BusyOwned'
    BY <2>1, <2>2, <2>3, <2>4 DEF BusyOwned, Offset
  <2>. QED
    BY <2>1, <2>2, <2>5 DEF Stopping
<1>4. ASSUME NEW k \in Sinks, Taken(k) PROVE TeardownInv'
  <2>1. queue[k] # <<>> /\ UNCHANGED <<ring, cpu, run, drain, final, handed, log, level>>
    BY <1>4 DEF Taken, ringVars, drainVars
  <2>. QED
    BY <1>1, <2>1 DEF Stopping
<1>5. CASE DrainWakes
  <2>1. /\ drain = "poll" /\ drain' = "read" /\ (final' = final \/ (final' = TRUE /\ Stopping))
        /\ UNCHANGED <<ring, cpu, run, handed, log, queue, level>>
    BY <1>5 DEF DrainWakes, AfterStop, ringVars, sinkVars
  <2>. QED
    BY <1>1, <2>1 DEF Stopping
<1>6. CASE ConsumeHeader
  <2>1. /\ drain = "read" /\ UNCHANGED <<ring, cpu, prod, cons, run, final, handed, log, queue, level>>
        /\ drain' \in {"emit", "poll", "ended"}
        /\ drain' = "ended" => final /\ (cons >= prod \/ ring[Offset(cons)].busy)
    BY <1>6 DEF ConsumeHeader, ringVars, sinkVars, Busy
  <2>2. ASSUME drain' = "ended" PROVE Len(handed) = Len(log)
    <3>1. final /\ run # "up" /\ \A c \in CPUs : cpu[c] = Nothing
      BY <2>1, <2>2 DEF Stopping
    <3>2. cons \in Nat /\ Offset(cons) \in 0 .. RingSize - 1
      BY <1>0, OffsetInRing DEF RingShape
    <3>3. cons >= prod
      BY <2>1, <2>2, <3>1, <3>2 DEF BusyOwned
    <3>4. Gone = Len(handed) /\ Gone \in Nat /\ Len(log) \in Nat /\ Gone <= Len(log)
      BY <2>1, GoneType DEF Gone, RingInv
    <3>5. PICK f : Laid(f)
      BY DEF RingInv
    <3>6. ASSUME Gone < Len(log) PROVE FALSE
      <4>1. Gone + 1 \in 1 .. Len(log) + 1 /\ Len(log) + 1 \in 1 .. Len(log) + 1 /\ Gone + 1 < Len(log) + 1
        BY <3>4, <3>6
      <4>2. f[Gone + 1] < f[Len(log) + 1]
        BY <3>5, <4>1 DEF Laid
      <4>3. cons < prod /\ prod \in Nat
        BY <1>0, <3>5, <4>2 DEF Laid, RingShape
      <4>. QED
        BY <3>2, <3>3, <4>3
    <3>. QED
      BY <3>4, <3>6
  <2>. QED
    BY <1>1, <2>1, <2>2 DEF Stopping
<1>7. CASE EmitSample
  <2>1. drain = "emit" /\ drain' = "advance" /\ UNCHANGED <<ring, cpu, run, final, log, level>>
    BY <1>7 DEF EmitSample, ringVars
  <2>. QED
    BY <1>1, <2>1 DEF Stopping
<1>8. CASE ConsumeAdvance
  <2>1. drain = "advance" /\ drain' = "read" /\ UNCHANGED <<ring, cpu, run, final, log, handed, queue, level>>
    BY <1>8 DEF ConsumeAdvance, sinkVars
  <2>. QED
    BY <1>1, <2>1 DEF Stopping
<1>9. CASE WorkloadGone \/ StopDrain \/ DropWriter
  <2>1. UNCHANGED <<ring, cpu, drain, final, log, handed, queue, level>>
    BY <1>9 DEF WorkloadGone, StopDrain, DropWriter, ringVars, drainVars, sinkVars
  <2>. QED
    BY <1>1, <1>9, <2>1 DEF WorkloadGone, StopDrain, DropWriter, Stopping
<1>10. CASE LogExit
  <2>1. run = "exited" /\ run' = "logged" /\ UNCHANGED <<ring, cpu, drain, final, log, handed, level>>
    BY <1>10 DEF LogExit, ringVars, drainVars
  <2>. QED
    BY <1>1, <2>1 DEF Stopping
<1>11. CASE UNCHANGED auditVars
  <2>1. UNCHANGED <<ring, cpu, run, drain, final, log, handed, queue, level>>
    BY <1>11 DEF auditVars, ringVars, drainVars, sinkVars
  <2>. QED
    BY <1>1, <2>1 DEF Stopping
<1>. QED
  BY <1>2, <1>3, <1>4, <1>5, <1>6, <1>7, <1>8, <1>9, <1>10, <1>11
     DEF AuditNext, WorkerWrites, FileAppends, FileRotates

----------------------------------------------------------------------------
(* The records.  What has been sent is in a sink's channel, in what it has *)
(* kept, or among what its channel refused.                                *)

TrailShape ==
    /\ queue \in [Sinks -> Seq(Nat)] /\ lost \in [Sinks -> SUBSET Nat] /\ diag \subseteq Sinks
    /\ written \in [Sinks \ {"file"} -> SUBSET Nat] /\ live \in [Stems -> SUBSET Nat]
    /\ clock \in Nat /\ rotated \in [DOMAIN rotated -> SUBSET Nat]
    /\ \A f \in DOMAIN rotated : f.secs \in Nat /\ f.secs <= clock

Present(k) == Range(queue[k]) \cup Kept(k)

Sent ==
    {n \in 1 .. Len(handed) : Due(n)} \cup (IF run \in {"up", "exited"} THEN {} ELSE {Exit})

RecordsInv ==
    /\ \A k \in Sinks : \A r \in Sent : r \in Present(k) \cup lost[k]
    /\ \A k \in Sinks : lost[k] # {} => k \in diag \/ \E j \in Sinks \ {k} : Drop(k) \in Present(j)

\* A record taken from a channel is the head; the others stay.
LEMMA RangeTail ==
    ASSUME NEW q \in Seq(Nat), q # <<>>
    PROVE  /\ Tail(q) \in Seq(Nat) /\ Head(q) \in Nat
           /\ \A r \in Range(q) : r = Head(q) \/ r \in Range(Tail(q))
<1>1. /\ Len(q) \in Nat /\ Len(q) > 0 /\ DOMAIN q = 1 .. Len(q) /\ Head(q) = q[1]
      /\ Tail(q) \in Seq(Nat) /\ DOMAIN Tail(q) = 1 .. Len(q) - 1
      /\ \A i \in 1 .. Len(q) - 1 : Tail(q)[i] = q[i + 1]
  OBVIOUS
<1>2. ASSUME NEW i \in 1 .. Len(q), i # 1 PROVE q[i] \in Range(Tail(q))
  <2>1. i - 1 \in 1 .. Len(q) - 1 /\ (i - 1) + 1 = i
    BY <1>1, <1>2
  <2>2. Tail(q)[i - 1] = q[i]
    BY <1>1, <2>1
  <2>. QED
    BY <1>1, <2>1, <2>2 DEF Range
<1>3. Head(q) \in Nat
  BY <1>1
<1>. QED
  BY <1>1, <1>2, <1>3 DEF Range

\* A rotation moves the live file's lines and loses none, the names of two
\* rotations being of different seconds.
LEMMA RotationKeeps ==
    ASSUME TrailShape, NEW stem \in Stems, NEW secs \in Nat, secs > clock,
           Rotate(stem, secs), NEW lines \in SUBSET Nat, live' = [live EXCEPT ![stem] = lines]
    PROVE  /\ live' \in [Stems -> SUBSET Nat] /\ clock' \in Nat
           /\ rotated' \in [DOMAIN rotated' -> SUBSET Nat]
           /\ \A f \in DOMAIN rotated' : f.secs \in Nat /\ f.secs <= clock'
           /\ Kept("file") \cup lines \subseteq Kept("file")'
<1>. DEFINE new == [stem |-> stem, secs |-> secs]
            all == [f \in DOMAIN rotated \cup {new} |-> IF f = new THEN live[stem] ELSE rotated[f]]
<1>1. PICK old : /\ old \subseteq DOMAIN all
                 /\ rotated' = [f \in DOMAIN all \ old |-> all[f]]
                 /\ retired' = retired \cup UNION {all[f] : f \in old}
                 /\ clock' = secs
  BY Zenon DEF Rotate
<1>2. new.secs = secs /\ new \notin DOMAIN rotated
  BY DEF TrailShape
<1>3. /\ DOMAIN all = DOMAIN rotated \cup {new} /\ all[new] = live[stem]
      /\ \A f \in DOMAIN rotated : all[f] = rotated[f]
  BY <1>2
<1>4. /\ live[stem] \in SUBSET Nat /\ clock \in Nat
      /\ \A f \in DOMAIN rotated : rotated[f] \in SUBSET Nat /\ f.secs \in Nat /\ f.secs <= clock
  BY DEF TrailShape
<1>. HIDE DEF new, all
<1>5. live' \in [Stems -> SUBSET Nat] /\ live'[stem] = lines /\ \A t \in Stems : t # stem => live'[t] = live[t]
  BY DEF TrailShape
<1>6. \A f \in DOMAIN all : f \in DOMAIN rotated \/ f = new
  BY <1>3
<1>7. /\ DOMAIN rotated' = DOMAIN all \ old
      /\ \A f \in DOMAIN all \ old : rotated'[f] = all[f] /\ all[f] \in SUBSET Nat
  BY <1>1, <1>3, <1>4, <1>6
<1>8. /\ rotated' \in [DOMAIN rotated' -> SUBSET Nat]
  BY <1>1, <1>7
<1>9. ASSUME NEW f \in DOMAIN rotated' PROVE f.secs \in Nat /\ f.secs <= clock'
  <2>1. f \in DOMAIN rotated \/ f = new
    BY <1>6, <1>7
  <2>. QED
    BY <1>1, <1>2, <1>4, <2>1
<1>10. \A f \in DOMAIN all : all[f] \subseteq (UNION Range(rotated')) \cup retired'
  <2>. SUFFICES ASSUME NEW f \in DOMAIN all PROVE all[f] \subseteq (UNION Range(rotated')) \cup retired'
    OBVIOUS
  <2>1. CASE f \in old
    BY <1>1, <2>1
  <2>2. CASE f \notin old
    BY <1>7, <2>2 DEF Range
  <2>. QED
    BY <2>1, <2>2
<1>11. DOMAIN live = Stems /\ DOMAIN live' = Stems
  BY <1>5 DEF TrailShape
<1>12. (UNION Range(live)) \cup lines \subseteq (UNION Range(live')) \cup (UNION Range(rotated')) \cup retired'
  <2>1. lines \subseteq (UNION Range(live'))
    BY <1>5, <1>11 DEF Range
  <2>2. ASSUME NEW t \in Stems PROVE live[t] \subseteq (UNION Range(live')) \cup (UNION Range(rotated')) \cup retired'
    <3>1. CASE t = stem
      BY <1>3, <1>10, <3>1
    <3>2. CASE t # stem
      BY <1>5, <1>11, <3>2 DEF Range
    <3>. QED
      BY <3>1, <3>2
  <2>. QED
    BY <1>11, <2>1, <2>2 DEF Range
<1>13. (UNION Range(rotated)) \subseteq (UNION Range(rotated')) \cup retired'
  BY <1>3, <1>10 DEF Range
<1>. QED
  BY <1>1, <1>5, <1>8, <1>9, <1>12, <1>13 DEF Kept

\* The worker of a sink moves a record from the channel to what is kept.
LEMMA WorkerKeeps ==
    ASSUME TrailShape, Failing = {}, ~ SameSecond, NEW k \in Sinks, NEW ok \in Outcomes(k),
           \/ WorkerWrites(k, ok)
           \/ k = "file" /\ (FileAppends(ok) \/ \E secs \in Seconds : FileRotates(ok, secs))
    PROVE  TrailShape' /\ \A j \in Sinks : Present(j) \subseteq Present(j)'
<1>. DEFINE r == Head(queue[k])
<1>1. ok = TRUE
  BY DEF Outcomes
<1>2. /\ queue[k] # <<>> /\ queue' = [queue EXCEPT ![k] = Tail(@)] /\ UNCHANGED <<lost, diag>>
  BY DEF WorkerWrites, FileAppends, FileRotates, Taken
<1>3. /\ queue[k] \in Seq(Nat) /\ Tail(queue[k]) \in Seq(Nat) /\ r \in Nat
      /\ \A x \in Range(queue[k]) : x = r \/ x \in Range(Tail(queue[k]))
  BY <1>2, RangeTail DEF TrailShape
<1>4. /\ queue' \in [Sinks -> Seq(Nat)] /\ queue'[k] = Tail(queue[k])
      /\ \A j \in Sinks : j # k => queue'[j] = queue[j]
  BY <1>2, <1>3 DEF TrailShape
<1>5. Line(k, ok) = {r} /\ Stem(r) \in Stems
  BY <1>1 DEF Line, Stem, Stems
<1>6. CASE WorkerWrites(k, ok)
  <2>1. /\ k # "file" /\ written' = [written EXCEPT ![k] = @ \cup {r}]
        /\ UNCHANGED <<live, rotated, retired, clock>>
    BY <1>5, <1>6 DEF WorkerWrites
  <2>2. /\ written' \in [Sinks \ {"file"} -> SUBSET Nat] /\ written'[k] = written[k] \cup {r}
        /\ \A j \in Sinks \ {"file"} : j # k => written'[j] = written[j]
    BY <1>3, <2>1 DEF TrailShape
  <2>3. TrailShape'
    BY <1>2, <1>4, <2>1, <2>2 DEF TrailShape
  <2>4. \A j \in Sinks : Kept(j) \subseteq Kept(j)' /\ (j = k => r \in Kept(j)')
    BY <2>1, <2>2 DEF Kept
  <2>. QED
    BY <1>3, <1>4, <2>3, <2>4 DEF Present
<1>7. CASE k = "file" /\ FileAppends(ok)
  <2>1. /\ live' = [live EXCEPT ![Stem(r)] = @ \cup {r}] /\ UNCHANGED <<written, rotated, retired, clock>>
    BY <1>5, <1>7 DEF FileAppends
  <2>2. /\ live' \in [Stems -> SUBSET Nat] /\ live'[Stem(r)] = live[Stem(r)] \cup {r}
        /\ \A t \in Stems : t # Stem(r) => live'[t] = live[t]
    BY <1>3, <1>5, <2>1 DEF TrailShape
  <2>3. TrailShape'
    BY <1>2, <1>4, <2>1, <2>2 DEF TrailShape
  <2>4. DOMAIN live = Stems /\ DOMAIN live' = Stems
    BY <2>2 DEF TrailShape
  <2>5. \A t \in Stems : live[t] \subseteq live'[t]
    BY <2>2
  <2>6. (UNION Range(live)) \cup {r} \subseteq UNION Range(live')
    BY <1>5, <2>2, <2>4, <2>5 DEF Range
  <2>7. \A j \in Sinks : Kept(j) \subseteq Kept(j)' /\ (j = k => r \in Kept(j)')
    BY <1>7, <2>1, <2>6 DEF Kept
  <2>. QED
    BY <1>3, <1>4, <2>3, <2>7 DEF Present
<1>8. CASE k = "file" /\ \E secs \in Seconds : FileRotates(ok, secs)
  <2>1. PICK secs \in Seconds : FileRotates(ok, secs)
    BY <1>8
  <2>2. secs \in Nat /\ secs > clock
    BY DEF Seconds, TrailShape
  <2>3. Rotate(Stem(r), secs) /\ live' = [live EXCEPT ![Stem(r)] = {r}] /\ written' = written
    BY <1>5, <1>8, <2>1 DEF FileRotates
  <2>4. {r} \in SUBSET Nat
    BY <1>3
  <2>. HIDE DEF r
  <2>5. /\ live' \in [Stems -> SUBSET Nat] /\ clock' \in Nat
        /\ rotated' \in [DOMAIN rotated' -> SUBSET Nat]
        /\ \A f \in DOMAIN rotated' : f.secs \in Nat /\ f.secs <= clock'
        /\ Kept("file") \cup {r} \subseteq Kept("file")'
    BY <1>5, <2>2, <2>3, <2>4, RotationKeeps
  <2>6. TrailShape'
    BY <1>2, <1>4, <2>3, <2>5 DEF TrailShape
  <2>7. \A j \in Sinks : Kept(j) \subseteq Kept(j)' /\ (j = k => r \in Kept(j)')
    BY <1>8, <2>3, <2>5 DEF Kept
  <2>. QED
    BY <1>3, <1>4, <2>6, <2>7 DEF Present
<1>. QED
  BY <1>6, <1>7, <1>8

\* Nothing sent is lost where what is present only grows.
LEMMA RecordsKept ==
    ASSUME RecordsInv, \A j \in Sinks : Present(j) \subseteq Present(j)',
           UNCHANGED <<lost, diag>>, Sent' \subseteq Sent
    PROVE  RecordsInv'
  BY DEF RecordsInv

\* A fan-out adds its record to what has been sent.
LEMMA RecordsSent ==
    ASSUME TrailShape, RecordsInv, NEW r \in Nat, FanOut(r), UNCHANGED fileVars, Sent' \subseteq Sent \cup {r}
    PROVE  TrailShape' /\ RecordsInv'
<1>. DEFINE st0 == [queue |-> queue, lost |-> lost, diag |-> diag]
            st == Offered(r, st0)
<1>1. st0 \in Channels /\ st0.queue = queue /\ st0.lost = lost /\ st0.diag = diag
  BY DEF Channels, TrailShape
<1>2. queue' = st.queue /\ lost' = st.lost /\ diag' = st.diag
  BY DEF FanOut
<1>. HIDE DEF st0
<1>3. st \in Channels /\ Grown(st0, st) /\ \A k \in Sinks : r \in Range(st.queue[k]) \cup st.lost[k]
  BY <1>1, OfferedGrows
<1>. HIDE DEF st
<1>4. \A k \in Sinks : Kept(k)' = Kept(k)
  BY DEF Kept, fileVars
<1>5. TrailShape'
  BY <1>2, <1>3 DEF TrailShape, Channels, fileVars
<1>6. /\ \A k \in Sinks : Range(queue[k]) \subseteq Range(queue'[k]) /\ lost[k] \subseteq lost'[k]
      /\ diag \subseteq diag'
      /\ \A k \in Sinks : r \in Range(queue'[k]) \cup lost'[k]
      /\ \A k \in Sinks : lost'[k] # {} =>
            lost[k] # {} \/ k \in diag' \/ \E j \in Sinks \ {k} : Drop(k) \in Range(queue'[j])
  BY <1>1, <1>2, <1>3 DEF Grown, Reported
<1>7. \A k \in Sinks : Present(k) \subseteq Present(k)' /\ Range(queue'[k]) \subseteq Present(k)'
  BY <1>4, <1>6 DEF Present
<1>8. \A k \in Sinks : \A x \in Sent' : x \in Present(k)' \cup lost'[k]
  BY <1>6, <1>7 DEF RecordsInv
<1>9. \A k \in Sinks : lost'[k] # {} => k \in diag' \/ \E j \in Sinks \ {k} : Drop(k)' \in Present(j)'
  BY <1>6, <1>7 DEF RecordsInv, Drop
<1>. QED
  BY <1>5, <1>8, <1>9 DEF RecordsInv

\* Records are well formed, and none is missing without a report.
TrailInv == TrailShape /\ RecordsInv

\* Every step keeps each record that was sent present, or lost and reported.
LEMMA TrailStep ==
    ASSUME Failing = {}, ~ SameSecond, RingInv, TeardownInv, TrailInv, [AuditNext]_auditVars
    PROVE  TrailInv'
<1>0. TrailShape /\ RecordsInv /\ RingShape /\ ReaderInv
  BY DEF TrailInv, RingInv
<1>1. ASSUME UNCHANGED <<sinkVars, fileVars>>, Sent' \subseteq Sent PROVE TrailInv'
  <2>1. TrailShape'
    BY <1>0, <1>1 DEF TrailShape, sinkVars, fileVars
  <2>2. \A j \in Sinks : Present(j)' = Present(j)
    BY <1>1 DEF Present, Kept, sinkVars, fileVars
  <2>. QED
    BY <1>0, <1>1, <2>1, <2>2, RecordsKept DEF TrailInv, sinkVars
<1>2. ASSUME UNCHANGED <<handed, log, level, run>> PROVE Sent' = Sent
  BY <1>2 DEF Sent, Due, Exit
<1>3. Len(handed) \in Nat /\ Len(log) \in Nat /\ Len(handed) <= Len(log)
  BY <1>0, GoneType DEF ReaderInv
<1>4. ASSUME NEW c \in CPUs, NEW e \in Kinds, Reserve(c, e) PROVE TrailInv'
  <2>1. log' = Append(log, e) /\ UNCHANGED <<handed, level, run, sinkVars, fileVars>>
    BY <1>4 DEF Reserve, drainVars
  <2>2. \A n \in 1 .. Len(handed) : log'[n] = log[n]
    BY <1>0, <1>3, <2>1 DEF RingShape
  <2>3. Sent' = Sent
    BY <2>1, <2>2 DEF Sent, Due, Exit
  <2>. QED
    BY <1>1, <2>1, <2>3
<1>5. ASSUME NEW c \in CPUs, Commit(c) PROVE TrailInv'
  BY <1>1, <1>2, <1>5 DEF Commit, drainVars
<1>6. ASSUME NEW k \in Sinks, NEW ok \in Outcomes(k),
             \/ WorkerWrites(k, ok)
             \/ k = "file" /\ (FileAppends(ok) \/ \E secs \in Seconds : FileRotates(ok, secs))
      PROVE  TrailInv'
  <2>1. TrailShape' /\ \A j \in Sinks : Present(j) \subseteq Present(j)'
    BY <1>0, <1>6, WorkerKeeps
  <2>2. UNCHANGED <<handed, log, level, run, lost, diag>>
    BY <1>6 DEF WorkerWrites, FileAppends, FileRotates, Taken, ringVars, drainVars
  <2>. QED
    BY <1>0, <1>2, <2>1, <2>2, RecordsKept DEF TrailInv
<1>7. CASE DrainWakes \/ ConsumeHeader \/ ConsumeAdvance
  <2>1. UNCHANGED <<handed, log, level, run, sinkVars, fileVars>>
    BY <1>7 DEF DrainWakes, ConsumeHeader, ConsumeAdvance, ringVars
  <2>. QED
    BY <1>1, <1>2, <2>1
<1>8. CASE EmitSample
  <2>. DEFINE n == ring[Offset(cons)].sample
  <2>1. n = Len(handed) + 1 /\ n \in 1 .. Len(log) /\ n \in Nat
    <3>1. drain = "emit" /\ Gone = Len(handed) /\ Gone < Len(log) /\ ~ ring[Offset(cons)].busy
      BY <1>0, <1>8 DEF EmitSample, Gone, ReaderInv
    <3>2. PICK f : Laid(f) /\ Held(f)
      BY DEF RingInv
    <3>3. Gone + 1 \in 1 .. Len(log) /\ Gone + 1 > Gone /\ f[Gone + 1] = cons
      BY <1>3, <3>1, <3>2 DEF Laid
    <3>. QED
      BY <3>1, <3>2, <3>3 DEF Held
  <2>. HIDE DEF n
  <2>2. /\ handed' = Append(handed, n) /\ UNCHANGED <<log, level, run, fileVars>>
        /\ IF log[n].outcome # "foreign" /\ Passes(log[n]) THEN FanOut(n) ELSE UNCHANGED sinkVars
    <3>1. n \in DOMAIN log
      BY <1>0, <2>1 DEF RingShape
    <3>. QED
      BY <1>8, <3>1, Zenon DEF EmitSample, n, ringVars
  <2>3. /\ Len(handed') = n
        /\ \A m \in 1 .. n : m \in 1 .. Len(handed) \/ m = n
    BY <1>0, <1>3, <2>1, <2>2 DEF RingShape
  <2>4. Sent' \subseteq Sent \cup {n} /\ (~ Due(n) => Sent' \subseteq Sent)
    BY <2>2, <2>3 DEF Sent, Due, Exit
  <2>5. Due(n) => log[n].outcome # "foreign" /\ Passes(log[n])
    BY AuditAssumption DEF Due, Passes, TeardownInv
  <2>6. CASE log[n].outcome # "foreign" /\ Passes(log[n])
    BY <1>0, <2>1, <2>2, <2>4, <2>6, RecordsSent DEF TrailInv
  <2>7. CASE ~ (log[n].outcome # "foreign" /\ Passes(log[n]))
    BY <1>1, <2>2, <2>4, <2>5, <2>7
  <2>. QED
    BY <2>6, <2>7
<1>9. CASE WorkloadGone \/ StopDrain \/ DropWriter
  <2>1. UNCHANGED <<handed, log, level, sinkVars, fileVars>>
    BY <1>9 DEF WorkloadGone, StopDrain, DropWriter, ringVars, drainVars
  <2>2. run' \in {"up", "exited"} <=> run \in {"up", "exited"}
    BY <1>9 DEF WorkloadGone, StopDrain, DropWriter
  <2>3. Sent' = Sent
    BY <2>1, <2>2 DEF Sent, Due, Exit
  <2>. QED
    BY <1>1, <2>1, <2>3
<1>10. CASE LogExit
  <2>1. FanOut(Exit) /\ UNCHANGED <<handed, log, level, fileVars>>
    BY <1>10 DEF LogExit, ringVars, drainVars
  <2>2. Sent' \subseteq Sent \cup {Exit} /\ Exit \in Nat
    BY <2>1 DEF Sent, Due, Exit
  <2>. QED
    BY <1>0, <2>1, <2>2, RecordsSent DEF TrailInv
<1>11. CASE UNCHANGED auditVars
  BY <1>1, <1>2, <1>11 DEF auditVars, ringVars, drainVars
<1>. QED
  <2>1. ASSUME NEW k \in Sinks, NEW ok \in BOOLEAN, ok \in Outcomes(k),
               \/ WorkerWrites(k, ok)
               \/ k = "file" /\ (FileAppends(ok) \/ \E secs \in Seconds : FileRotates(ok, secs))
        PROVE  TrailInv'
    BY <1>6, <2>1
  <2>. QED
    BY <1>4, <1>5, <1>7, <1>8, <1>9, <1>10, <1>11, <2>1 DEF AuditNext

\* The start of the writer and the ring establishes both.
LEMMA TrailStart == AuditInit => TeardownInv /\ TrailInv
<1>. SUFFICES ASSUME AuditInit PROVE TeardownInv /\ TrailInv
  OBVIOUS
<1>1. /\ \A k \in Sinks : queue[k] = <<>> /\ lost[k] = {}
      /\ \A o \in 0 .. RingSize - 1 : ~ ring[o].busy
      /\ run = "up" /\ final = FALSE /\ drain = "poll" /\ handed = <<>> /\ level \in Levels
  BY DEF AuditInit, Empty
<1>2. TeardownInv
  BY <1>1 DEF TeardownInv, BusyOwned
<1>3. TrailShape
  BY DEF AuditInit, TrailShape
<1>4. Sent = {}
  BY <1>1 DEF Sent
<1>5. RecordsInv
  BY <1>1, <1>4 DEF RecordsInv
<1>. QED
  BY <1>2, <1>3, <1>5 DEF TrailInv

\* Where the sinks' own writes succeed and no two rotations fall in one
\* second, the trail of a kennel that has been torn down is complete: the
\* final sweep empties the ring whatever the CPUs were doing, the workers
\* write all that was queued, rotation and retention move lines and lose
\* none, and a channel that refused a record was reported, for every number
\* of sinks, events and CPUs (bpf_audit.rs, timeout.rs, writer.rs, sinks.rs).
THEOREM TrailCompleteTheorem ==
    ASSUME Failing = {}, ~ SameSecond
    PROVE  AuditSpec => []TrailComplete
<1>1. RingInv /\ TeardownInv /\ TrailInv => TrailComplete
  <2>. SUFFICES ASSUME RingInv, TeardownInv, TrailInv, run = "done" PROVE
          \A k \in Sinks :
            /\ \A r \in {n \in DOMAIN log : Due(n)} \cup {Exit} : r \in Kept(k) \cup lost[k]
            /\ lost[k] # {} => k \in diag \/ \E j \in Sinks \ {k} : Drop(k) \in Kept(j)
    BY DEF TrailComplete
  <2>1. Len(handed) = Len(log) /\ \A k \in Sinks : queue[k] = <<>>
    BY DEF TeardownInv
  <2>2. DOMAIN log = 1 .. Len(log)
    BY DEF RingInv, RingShape
  <2>3. \A k \in Sinks : Present(k) = Kept(k)
    BY <2>1 DEF Present, Range
  <2>4. Sent = {n \in DOMAIN log : Due(n)} \cup {Exit}
    BY <2>1, <2>2 DEF Sent
  <2>. QED
    BY <2>3, <2>4 DEF TrailInv, RecordsInv
<1>2. AuditInit => RingInv /\ TeardownInv /\ TrailInv
  BY RingInit, TrailStart
<1>3. RingInv /\ TeardownInv /\ TrailInv /\ [AuditNext]_auditVars => RingInv' /\ TeardownInv' /\ TrailInv'
  BY RingStep, TeardownStep, TrailStep
<1>. QED
  BY <1>1, <1>2, <1>3, PTL DEF AuditSpec

-----------------------------------------------------------------------------
(* The egress decision.  A prefix is compared octet by octet; what is      *)
(* permitted is stated over the number an address writes.                  *)

\* A step for each position, on values in S; and the values it leads to from v.
Steps(S, n) == [1 .. n -> [S -> S]]

Values(S, n, v, step) ==
    {f \in [0 .. n -> S] : f[0] = v /\ \A i \in 1 .. n : f[i] = step[i][f[i - 1]]}

\* Steps can be taken.
LEMMA Recursion ==
    ASSUME NEW S, NEW n \in Nat, NEW v \in S, NEW step \in Steps(S, n)
    PROVE  \E f : f \in Values(S, n, v, step)
<1>. USE DEF Steps
<1>. DEFINE Upto(m, f) == f[0] = v /\ \A i \in 1 .. m : f[i] = step[i][f[i - 1]]
            Bad == {m \in 0 .. n : ~ \E f : f \in [0 .. m -> S] /\ Upto(m, f)}
<1>0. Bad = {} => \E f : f \in Values(S, n, v, step)
  <2>1. n \in 0 .. n
    OBVIOUS
  <2>2. Bad = {} => \E f : f \in [0 .. n -> S] /\ Upto(n, f)
    BY <2>1, Zenon
  <2>. QED
    BY <2>2, Zenon DEF Values
<1>. SUFFICES ASSUME Bad # {} PROVE FALSE
  BY <1>0, Zenon
<1>1. PICK m \in Bad : \A x \in Bad : m <= x
  <2>1. Bad \in SUBSET Nat
    OBVIOUS
  <2>. QED
    BY <2>1, Least
<1>2. m # 0
  <2>. DEFINE f == [i \in 0 .. 0 |-> v]
  <2>1. f \in [0 .. 0 -> S] /\ Upto(0, f)
    OBVIOUS
  <2>. QED
    BY <2>1
<1>3. m - 1 \in 0 .. n /\ m - 1 \notin Bad /\ m \in 1 .. n
  <2>1. m \in 0 .. n
    OBVIOUS
  <2>. HIDE DEF Bad
  <2>. QED
    BY <1>1, <1>2, <2>1
<1>4. PICK f : f \in [0 .. m - 1 -> S] /\ Upto(m - 1, f)
  BY <1>3, Zenon
<1>. DEFINE g == [i \in 0 .. m |-> IF i = m THEN step[m][f[m - 1]] ELSE f[i]]
<1>5. f[m - 1] \in S /\ \A i \in 0 .. m : i # m => i \in 0 .. m - 1
  BY <1>3, <1>4
<1>6. step[m][f[m - 1]] \in S
  BY <1>3, <1>5
<1>7. g \in [0 .. m -> S]
  BY <1>4, <1>5, <1>6
<1>8. Upto(m, g)
  <2>1. g[0] = v
    BY <1>3, <1>4
  <2>2. ASSUME NEW i \in 1 .. m PROVE g[i] = step[i][g[i - 1]]
    <3>1. i \in 0 .. m /\ i - 1 \in 0 .. m /\ i - 1 # m /\ i - 1 \in 0 .. m - 1 /\ (i # m => i \in 1 .. m - 1)
      BY <1>3
    <3>2. g[i - 1] = f[i - 1]
      BY <3>1
    <3>3. g[i] = IF i = m THEN step[m][f[m - 1]] ELSE f[i]
      BY <3>1
    <3>. QED
      BY <1>4, <3>1, <3>2, <3>3
  <2>. QED
    BY <2>1, <2>2
<1>. QED
  BY <1>1, <1>7, <1>8

\* Pow2 is what its equation says.
LEMMA PowDef ==
    ASSUME EgressAssumption
    PROVE  LET D == 0 .. Width * NOctets
           IN  Pow2 \in [D -> Nat] /\ \A n \in D : Pow2[n] = IF n = 0 THEN 1 ELSE 2 * Pow2[n - 1]
<1>. DEFINE N == Width * NOctets
            step == [i \in 1 .. N |-> [x \in Nat |-> 2 * x]]
            Is(h) == h = [n \in 0 .. N |-> IF n = 0 THEN 1 ELSE 2 * h[n - 1]]
<1>1. N \in Nat
  BY DEF EgressAssumption
<1>2. step \in Steps(Nat, N)
  BY DEF Steps
<1>. HIDE DEF N, step
<1>3. PICK f \in [0 .. N -> Nat] : f[0] = 1 /\ \A i \in 1 .. N : f[i] = step[i][f[i - 1]]
  <2>1. 1 \in Nat
    OBVIOUS
  <2>2. \E f : f \in Values(Nat, N, 1, step)
    BY <1>1, <1>2, <2>1, Recursion, Zenon
  <2>. QED
    BY <2>2 DEF Values
<1>4. \A i \in 1 .. N : f[i] = 2 * f[i - 1]
  <2>. SUFFICES ASSUME NEW i \in 1 .. N PROVE f[i] = 2 * f[i - 1]
    OBVIOUS
  <2>1. i - 1 \in 0 .. N /\ f[i - 1] \in Nat
    BY <1>1, <1>3
  <2>. QED
    BY <1>3, <2>1 DEF step
<1>5. \A i \in 0 .. N : f[i] = IF i = 0 THEN 1 ELSE 2 * f[i - 1]
  <2>1. \A i \in 0 .. N : i # 0 => i \in 1 .. N
    BY <1>1
  <2>. QED
    BY <1>3, <1>4, <2>1
<1>6. Is(f)
  BY <1>3, <1>5
<1>7. Pow2 = CHOOSE h : Is(h)
  BY DEF Pow2, N
<1>8. Is(Pow2)
  BY <1>6, <1>7
<1>9. \A n \in 0 .. N : Pow2[n] = IF n = 0 THEN 1 ELSE 2 * Pow2[n - 1]
  BY <1>8
<1>10. Pow2 \in [0 .. N -> Nat]
  <2>. DEFINE Bad == {n \in 0 .. N : Pow2[n] \notin Nat}
  <2>1. Bad = {}
    <3>. SUFFICES ASSUME Bad # {} PROVE FALSE
      OBVIOUS
    <3>1. PICK m \in Bad : \A x \in Bad : m <= x
      <4>1. Bad \in SUBSET Nat
        OBVIOUS
      <4>. QED
        BY <4>1, Least
    <3>2. m # 0 /\ m - 1 \in 0 .. N /\ m - 1 \notin Bad
      BY <1>1, <1>9, <3>1
    <3>. QED
      BY <1>9, <3>1, <3>2
  <2>. QED
    BY <1>8, <2>1
<1>. QED
  BY <1>9, <1>10 DEF N

\* Powers are positive and multiply.
LEMMA PowAdds ==
    ASSUME EgressAssumption, NEW a \in Nat, NEW b \in Nat, a + b <= Width * NOctets
    PROVE  /\ Pow2[a] \in Nat /\ Pow2[b] \in Nat /\ Pow2[a + b] \in Nat /\ Pow2[a] > 0 /\ Pow2[b] > 0
           /\ Pow2[a + b] = Pow2[a] * Pow2[b]
<1>. DEFINE N == Width * NOctets
<1>1. N \in Nat
  BY DEF EgressAssumption
<1>2. Pow2 \in [0 .. N -> Nat] /\ \A n \in 0 .. N : Pow2[n] = IF n = 0 THEN 1 ELSE 2 * Pow2[n - 1]
  BY PowDef
<1>. HIDE DEF N
<1>3. ASSUME NEW x \in 0 .. N PROVE Pow2[x] > 0
  <2>. DEFINE Bad == {n \in 0 .. N : ~ (Pow2[n] > 0)}
  <2>. SUFFICES ASSUME Bad # {} PROVE FALSE
    OBVIOUS
  <2>1. PICK m \in Bad : \A y \in Bad : m <= y
    <3>1. Bad \in SUBSET Nat
      OBVIOUS
    <3>. QED
      BY <3>1, Least
  <2>2. m # 0 /\ m - 1 \in 0 .. N /\ m - 1 \notin Bad
    BY <1>1, <1>2, <2>1
  <2>. QED
    BY <1>2, <2>1, <2>2, SMTT(40)
<1>. DEFINE Bad == {n \in 0 .. b : Pow2[a + n] # Pow2[a] * Pow2[n]}
<1>4. Bad = {}
  <2>. SUFFICES ASSUME Bad # {} PROVE FALSE
    OBVIOUS
  <2>1. PICK m \in Bad : \A y \in Bad : m <= y
    <3>1. Bad \in SUBSET Nat
      OBVIOUS
    <3>. QED
      BY <3>1, Least
  <2>0. a + b <= N /\ a \in 0 .. N /\ 0 \in 0 .. N
    BY <1>1 DEF N
  <2>2. m # 0
    BY <1>2, <2>0, SMTT(40)
  <2>3. m - 1 \in 0 .. b /\ m - 1 \notin Bad
    BY <2>1, <2>2
  <2>4. Pow2[a + (m - 1)] = Pow2[a] * Pow2[m - 1]
    BY <2>3
  <2>5. m \in 0 .. N /\ a + m \in 0 .. N /\ a + m # 0 /\ (a + m) - 1 = a + (m - 1) /\ m - 1 \in 0 .. N
    BY <1>1, <2>0, <2>1, <2>2
  <2>6. Pow2[m] = 2 * Pow2[m - 1] /\ Pow2[a + m] = 2 * Pow2[a + (m - 1)]
    BY <1>2, <2>2, <2>5
  <2>7. Pow2[a] \in Nat /\ Pow2[m - 1] \in Nat
    BY <1>2, <2>0, <2>5
  <2>8. Pow2[a + m] = Pow2[a] * Pow2[m]
    BY <2>4, <2>6, <2>7, SMTT(40)
  <2>. QED
    BY <2>1, <2>8
<1>5. a \in 0 .. N /\ b \in 0 .. N /\ a + b \in 0 .. N
  BY <1>1 DEF N
<1>6. Pow2[a + b] = Pow2[a] * Pow2[b]
  <2>1. b \in 0 .. b
    OBVIOUS
  <2>. QED
    BY <1>4, <2>1, Zenon
<1>. QED
  BY <1>2, <1>3, <1>5, <1>6

\* Quotients and remainders.
LEMMA Division ==
    ASSUME NEW x \in Nat, NEW s \in Nat, s > 0
    PROVE  x \div s \in Nat /\ x % s \in 0 .. s - 1 /\ x = s * (x \div s) + (x % s)
  OBVIOUS

\* The quotient of a number written in digits.
LEMMA QuotientOf ==
    ASSUME NEW s \in Nat, NEW q \in Nat, NEW r \in Nat, r < s
    PROVE  (q * s + r) \div s = q
  OBVIOUS

(* The next four facts are named, so that a prover can instantiate the      *)
(* lemmas that establish them without doing their arithmetic.              *)
SameDigits(s, q, r, q2, r2) == q * s + r = q2 * s + r2 <=> q = q2 /\ r = r2

Shifts(v, o, b, s) == (v * b + o) \div (s * b) = v \div s

Splits(v, o, s, t) ==
    (v * (s * t) + o) \div s = v * t + (o \div s) /\ o \div s < t /\ o \div s \in Nat

Extends(v, u, x, y, left, c, d) ==
    (v * Pow2[Width] + x) \div Pow2[d] = (u * Pow2[Width] + y) \div Pow2[d]
        <=> v \div Pow2[c] = u \div Pow2[c] /\ OctetMatches(x, y, left)

\* Digits are unique.
LEMMA Digits ==
    ASSUME NEW s \in Nat, NEW q \in Nat, NEW r \in Nat, r < s, NEW q2 \in Nat, NEW r2 \in Nat, r2 < s
    PROVE  SameDigits(s, q, r, q2, r2)
  BY DEF SameDigits

\* A block of whole octets is not cut by one octet more.
LEMMA QuotientShift ==
    ASSUME NEW v \in Nat, NEW o \in Nat, NEW b \in Nat, NEW s \in Nat, s > 0, o < b
    PROVE  Shifts(v, o, b, s)
<1>1. PICK q, r : q = v \div s /\ r = v % s
  OBVIOUS
<1>2. q \in Nat /\ r \in Nat /\ r < s /\ v = s * q + r
  BY <1>1, Division
<1>3. v * b + o = q * (s * b) + (r * b + o)
  BY <1>2
<1>4. r * b + o < s * b /\ r * b + o \in Nat /\ s * b \in Nat
  <2>1. (s - r - 1) \in Nat /\ s * b = r * b + b + (s - r - 1) * b
    BY <1>2
  <2>2. (s - r - 1) * b \in Nat
    BY <2>1
  <2>. QED
    BY <1>2, <2>1, <2>2
<1>5. PICK t, u : t = s * b /\ u = r * b + o
  OBVIOUS
<1>6. (q * t + u) \div t = q
  BY <1>2, <1>4, <1>5, QuotientOf
<1>. QED
  BY <1>1, <1>3, <1>5, <1>6 DEF Shifts

\* A block inside an octet is cut by the top bits of that octet.
LEMMA QuotientSplit ==
    ASSUME NEW v \in Nat, NEW o \in Nat, NEW s \in Nat, NEW t \in Nat, s > 0, t > 0, o < s * t
    PROVE  Splits(v, o, s, t)
<1>1. PICK q, r : q = o \div s /\ r = o % s
  OBVIOUS
<1>2. q \in Nat /\ r \in Nat /\ r < s /\ o = s * q + r
  BY <1>1, Division
<1>3. v * (s * t) + o = (v * t + q) * s + r
  BY <1>2
<1>4. v * t + q \in Nat
  BY <1>2
<1>5. PICK w : w = v * t + q
  OBVIOUS
<1>6. (w * s + r) \div s = w
  BY <1>2, <1>4, <1>5, QuotientOf
<1>7. q < t
  <2>. SUFFICES ASSUME q >= t PROVE FALSE
    BY <1>2
  <2>1. q - t \in Nat /\ s * q = s * t + s * (q - t)
    BY <1>2
  <2>2. s * (q - t) \in Nat
    BY <2>1
  <2>. QED
    BY <1>2, <2>1, <2>2
<1>. QED
  BY <1>1, <1>2, <1>3, <1>5, <1>6, <1>7 DEF Splits

\* Value is what its equation says.
LEMMA ValueDef ==
    ASSUME EgressAssumption, NEW a \in Addrs
    PROVE  \E V \in [0 .. NOctets -> Nat] :
             /\ V[0] = 0 /\ Value(a) = V[NOctets]
             /\ \A i \in 1 .. NOctets : V[i] = V[i - 1] * Pow2[Width] + a.oct[i]
<1>. DEFINE B == Pow2[Width]
            N == NOctets
            step == [i \in 1 .. N |-> [x \in Nat |-> x * B + a.oct[i]]]
            Is(h) == h = [i \in 0 .. N |-> IF i = 0 THEN 0 ELSE h[i - 1] * B + a.oct[i]]
<1>1. N \in Nat /\ Width \in Nat /\ Width + 0 <= Width * NOctets
  BY DEF EgressAssumption
<1>2. B \in Nat
  BY <1>1, PowAdds
<1>3. \A i \in 1 .. N : a.oct[i] \in Nat
  BY <1>2 DEF Addrs, Octets
<1>. HIDE DEF N, B
<1>4. step \in Steps(Nat, N)
  BY <1>2, <1>3 DEF Steps
<1>. HIDE DEF step
<1>5. PICK f : f \in Values(Nat, N, 0, step)
  <2>1. 0 \in Nat
    OBVIOUS
  <2>. QED
    BY <1>1, <1>4, <2>1, Recursion, Zenon
<1>6. f \in [0 .. N -> Nat] /\ f[0] = 0 /\ \A i \in 1 .. N : f[i] = step[i][f[i - 1]]
  BY <1>5 DEF Values
<1>7. \A i \in 1 .. N : f[i] = f[i - 1] * B + a.oct[i]
  <2>. SUFFICES ASSUME NEW i \in 1 .. N PROVE f[i] = f[i - 1] * B + a.oct[i]
    OBVIOUS
  <2>1. i - 1 \in 0 .. N /\ f[i - 1] \in Nat
    BY <1>1, <1>6
  <2>2. step[i] = [x \in Nat |-> x * B + a.oct[i]]
    BY DEF step
  <2>. QED
    BY <1>6, <2>1, <2>2
<1>8. \A i \in 0 .. N : f[i] = IF i = 0 THEN 0 ELSE f[i - 1] * B + a.oct[i]
  <2>1. \A i \in 0 .. N : i # 0 => i \in 1 .. N
    BY <1>1
  <2>. QED
    BY <1>6, <1>7, <2>1
<1>9. Is(f)
  BY <1>6, <1>8
<1>10. PICK V : Is(V) /\ Value(a) = V[N]
  <2>. DEFINE W == CHOOSE h : Is(h)
  <2>1. Is(W)
    BY <1>9
  <2>2. Value(a) = W[N]
    BY DEF Value, N, B
  <2>. QED
    BY <2>1, <2>2
<1>11. \A i \in 0 .. N : V[i] = IF i = 0 THEN 0 ELSE V[i - 1] * B + a.oct[i]
  BY <1>10
<1>12. V \in [0 .. N -> Nat]
  <2>. DEFINE Bad == {i \in 0 .. N : V[i] \notin Nat}
  <2>1. Bad = {}
    <3>. SUFFICES ASSUME Bad # {} PROVE FALSE
      OBVIOUS
    <3>1. PICK m \in Bad : \A x \in Bad : m <= x
      <4>1. Bad \in SUBSET Nat
        OBVIOUS
      <4>. QED
        BY <4>1, Least
    <3>2. m # 0 /\ m - 1 \in 0 .. N /\ m - 1 \notin Bad /\ m \in 1 .. N
      BY <1>1, <1>11, <3>1
    <3>3. V[m - 1] \in Nat /\ a.oct[m] \in Nat /\ V[m] = V[m - 1] * B + a.oct[m]
      BY <1>3, <1>11, <3>2
    <3>4. V[m - 1] * B \in Nat
      BY <1>2, <3>3
    <3>5. V[m] \in Nat
      BY <3>3, <3>4
    <3>. QED
      BY <3>5
  <2>. QED
    BY <1>10, <2>1
<1>13. V[0] = 0 /\ \A i \in 1 .. N : V[i] = V[i - 1] * B + a.oct[i]
  BY <1>1, <1>11
<1>. QED
  BY <1>10, <1>12, <1>13 DEF N, B

\* The bits before an octet.
LEMMA Multiples ==
    ASSUME NEW a \in Nat, NEW i \in Nat, NEW j \in Nat, NEW n \in Nat, j = i + 1, j <= n
    PROVE  a * j = a * i + a /\ a * i \in Nat /\ a * i + a <= a * n
<1>1. a * n = a * i + a + a * (n - j) /\ n - j \in Nat /\ a * j = a * i + a
  OBVIOUS
<1>2. a * (n - j) \in Nat /\ a * i \in Nat
  BY <1>1
<1>. QED
  BY <1>1, <1>2

\* One octet more: the blocks of the longer numbers agree when those of the
\* shorter ones do and the octet matches.
LEMMA OctetStep ==
    ASSUME EgressAssumption, NEW p \in Nat, NEW w \in Nat, w + Width <= Width * NOctets,
           NEW v \in Nat, NEW u \in Nat, NEW x \in Octets, NEW y \in Octets,
           NEW left, left = (IF p > w THEN p - w ELSE 0),
           NEW c, c = (IF p < w THEN w - p ELSE 0),
           NEW d, d = (IF p < w + Width THEN w + Width - p ELSE 0)
    PROVE  Extends(v, u, x, y, left, c, d)
<1>0. Width \in Nat /\ Width > 0 /\ NOctets \in Nat /\ NOctets > 0 /\ Width * NOctets \in Nat
  BY DEF EgressAssumption
<1>1. Pow2[0] = 1
  <2>1. 0 \in 0 .. Width * NOctets
    BY <1>0
  <2>. QED
    BY <2>1, PowDef
<1>2. PICK B : B = Pow2[Width]
  OBVIOUS
<1>3. PICK n : n = Width * NOctets
  OBVIOUS
<1>4. /\ B \in Nat /\ x \in Nat /\ y \in Nat /\ x < B /\ y < B
  <2>1. Width + 0 <= Width * NOctets
    BY <1>0
  <2>2. B \in Nat
    BY <1>0, <1>2, <2>1, PowAdds
  <2>3. x \in 0 .. B - 1 /\ y \in 0 .. B - 1
    BY <1>2, Zenon DEF Octets
  <2>4. \A z \in 0 .. B - 1 : z \in Nat /\ z < B
    BY <2>2
  <2>. QED
    BY <2>2, <2>3, <2>4, Zenon
<1>5. CASE p <= w
  <2>1. c \in Nat /\ d = c + Width /\ c + Width <= n
    BY <1>0, <1>3, <1>5
  <2>2. PICK s : s = Pow2[c]
    OBVIOUS
  <2>3. s \in Nat /\ s > 0 /\ Pow2[d] = s * B
    BY <1>0, <1>2, <1>3, <2>1, <2>2, PowAdds
  <2>4. (v * B + x) \div (s * B) = v \div s /\ (u * B + y) \div (s * B) = u \div s
    <3>1. Shifts(v, x, B, s) /\ Shifts(u, y, B, s)
      BY <1>4, <2>3, QuotientShift, Zenon
    <3>. QED
      BY <3>1, Zenon DEF Shifts
  <2>5. OctetMatches(x, y, left)
    BY <1>5 DEF OctetMatches
  <2>. QED
    BY <1>2, <2>2, <2>3, <2>4, <2>5, Zenon DEF Extends
<1>6. CASE p >= w + Width
  <2>1. c = 0 /\ d = 0
    BY <1>0, <1>6
  <2>2. OctetMatches(x, y, left) <=> x = y
    BY <1>0, <1>6 DEF OctetMatches
  <2>3. v * B + x \in Nat /\ u * B + y \in Nat
    BY <1>4, SMTT(40)
  <2>4. v * B + x = u * B + y <=> v = u /\ x = y
    <3>1. SameDigits(B, v, x, u, y)
      BY <1>4, Digits, Zenon
    <3>. QED
      BY <3>1, Zenon DEF SameDigits
  <2>5. \A z \in Nat : z \div 1 = z
    OBVIOUS
  <2>6. /\ (v * B + x) \div 1 = v * B + x /\ (u * B + y) \div 1 = u * B + y
        /\ v \div 1 = v /\ u \div 1 = u
    BY <2>3, <2>5
  <2>. QED
    BY <1>1, <1>2, <2>1, <2>2, <2>4, <2>6, Zenon DEF Extends
<1>7. CASE w < p /\ p < w + Width
  <2>1. /\ left \in 1 .. Width - 1 /\ c = 0 /\ d = Width - left
        /\ d \in Nat /\ left \in Nat /\ d + left = Width /\ d + left <= n
    BY <1>0, <1>3, <1>7
  <2>2. PICK e, t : e = Pow2[d] /\ t = Pow2[left]
    OBVIOUS
  <2>3. e \in Nat /\ e > 0 /\ t \in Nat /\ t > 0 /\ B = e * t
    BY <1>2, <1>3, <2>1, <2>2, PowAdds
  <2>4. PICK xq, yq : xq = x \div e /\ yq = y \div e
    OBVIOUS
  <2>5. /\ (v * B + x) \div e = v * t + xq /\ xq < t /\ xq \in Nat
        /\ (u * B + y) \div e = u * t + yq /\ yq < t /\ yq \in Nat
    <3>1. x < e * t /\ y < e * t
      BY <1>4, <2>3, Zenon
    <3>2. Splits(v, x, e, t) /\ Splits(u, y, e, t)
      BY <1>4, <2>3, <3>1, QuotientSplit, Zenon
    <3>. QED
      BY <2>3, <2>4, <3>2, Zenon DEF Splits
  <2>6. v * t + xq = u * t + yq <=> v = u /\ xq = yq
    <3>1. SameDigits(t, v, xq, u, yq)
      BY <2>3, <2>5, Digits, Zenon
    <3>. QED
      BY <3>1, Zenon DEF SameDigits
  <2>7. OctetMatches(x, y, left) <=> x - (x % e) = y - (y % e)
    <3>1. ~ (left = 0) /\ ~ (left >= Width)
      BY <1>0, <2>1
    <3>2. Masked(x, left) = x - (x % e) /\ Masked(y, left) = y - (y % e)
      BY <2>1, <2>2 DEF Masked
    <3>. QED
      BY <3>1, <3>2 DEF OctetMatches
  <2>8. x - (x % e) = e * xq /\ y - (y % e) = e * yq
    <3>1. x = e * xq + (x % e) /\ x % e \in Nat /\ y = e * yq + (y % e) /\ y % e \in Nat
      BY <1>4, <2>3, <2>4, Division
    <3>2. e * xq \in Nat /\ e * yq \in Nat
      BY <2>3, <2>5
    <3>. QED
      BY <3>1, <3>2
  <2>9. e * xq = e * yq <=> xq = yq
    <3>1. 0 < e /\ 0 \in Nat
      BY <2>3
    <3>2. SameDigits(e, xq, 0, yq, 0)
      BY <2>3, <2>5, <3>1, Digits, Zenon
    <3>3. xq * e + 0 = e * xq /\ yq * e + 0 = e * yq
      BY <2>3, <2>5
    <3>. QED
      BY <3>2, <3>3, Zenon DEF SameDigits
  <2>10. v \div 1 = v /\ u \div 1 = u
    OBVIOUS
  <2>. QED
    <3>1. (v * B + x) \div e = (u * B + y) \div e <=> v = u /\ xq = yq
      BY <2>5, <2>6, Zenon
    <3>2. OctetMatches(x, y, left) <=> xq = yq
      BY <2>7, <2>8, <2>9, Zenon
    <3>3. v \div Pow2[c] = v /\ u \div Pow2[c] = u
      BY <1>1, <2>1, <2>10, Zenon
    <3>. QED
      BY <1>2, <2>2, <3>1, <3>2, <3>3, Zenon DEF Extends
<1>. QED
  BY <1>0, <1>5, <1>6, <1>7

\* octets_match compares the blocks the two addresses lie in.
LEMMA OctetsExact ==
    ASSUME EgressAssumption, NEW b \in Addrs, NEW a \in Addrs, NEW p \in Nat, p <= Width * NOctets
    PROVE  LET size == Pow2[Width * NOctets - p]
           IN  octets_match(b.oct, a.oct, p) <=> Value(b) \div size = Value(a) \div size
<1>. DEFINE Cut(i) == IF p < Width * i THEN Width * i - p ELSE 0
            Same(i) == \A j \in 1 .. i : OctetMatches(b.oct[j], a.oct[j], BitsLeft(p, j))
<1>0. Width \in Nat /\ Width > 0 /\ NOctets \in Nat /\ NOctets > 0
  BY DEF EgressAssumption
<1>1. PICK V \in [0 .. NOctets -> Nat] :
          /\ V[0] = 0 /\ Value(b) = V[NOctets]
          /\ \A i \in 1 .. NOctets : V[i] = V[i - 1] * Pow2[Width] + b.oct[i]
  BY ValueDef
<1>2. PICK U \in [0 .. NOctets -> Nat] :
          /\ U[0] = 0 /\ Value(a) = U[NOctets]
          /\ \A i \in 1 .. NOctets : U[i] = U[i - 1] * Pow2[Width] + a.oct[i]
  BY ValueDef
<1>3. \A i \in 1 .. NOctets : a.oct[i] \in Octets /\ b.oct[i] \in Octets
  BY DEF Addrs
<1>. DEFINE Exact(i) == Same(i) <=> V[i] \div Pow2[Cut(i)] = U[i] \div Pow2[Cut(i)]
<1>4. ASSUME NEW m \in 1 .. NOctets, Exact(m - 1) PROVE Exact(m)
  <2>1. PICK k, w : k = m - 1 /\ w = Width * k
    OBVIOUS
  <2>2. /\ V[m] = V[k] * Pow2[Width] + b.oct[m] /\ U[m] = U[k] * Pow2[Width] + a.oct[m]
        /\ V[k] \in Nat /\ U[k] \in Nat /\ b.oct[m] \in Octets /\ a.oct[m] \in Octets
        /\ k \in Nat
    <3>1. k \in Nat /\ k \in 0 .. NOctets
      BY <1>0, <2>1
    <3>2. V[k] \in Nat /\ U[k] \in Nat
      BY <3>1, Zenon
    <3>. QED
      BY <1>1, <1>2, <1>3, <2>1, <3>1, <3>2, Zenon
  <2>3. Width * m = w + Width /\ w \in Nat /\ w + Width <= Width * NOctets
    <3>1. m = k + 1 /\ m \in Nat /\ m <= NOctets
      BY <1>0, <2>1
    <3>. QED
      BY <1>0, <2>1, <2>2, <3>1, Multiples, Zenon
  <2>4. Same(m) <=> Same(k) /\ OctetMatches(b.oct[m], a.oct[m], BitsLeft(p, m))
    <3>1. /\ \A j \in 1 .. m : j \in 1 .. k \/ j = m
          /\ \A j \in 1 .. k : j \in 1 .. m
          /\ m \in 1 .. m
      BY <1>0, <2>1
    <3>. QED
      BY <3>1, Zenon
  <2>. HIDE DEF Same
  <2>5. PICK left, c, d : left = BitsLeft(p, m) /\ c = Cut(k) /\ d = Cut(m)
    OBVIOUS
  <2>6. /\ left = (IF p > w THEN p - w ELSE 0) /\ c = (IF p < w THEN w - p ELSE 0)
        /\ d = (IF p < w + Width THEN w + Width - p ELSE 0)
    BY <2>1, <2>3, <2>5 DEF BitsLeft
  <2>. HIDE DEF Cut
  <2>7. PICK vk, uk, x, y : vk = V[k] /\ uk = U[k] /\ x = b.oct[m] /\ y = a.oct[m]
    OBVIOUS
  <2>8. Extends(vk, uk, x, y, left, c, d)
    BY <2>2, <2>3, <2>6, <2>7, OctetStep, Zenon
  <2>9. Same(k) <=> vk \div Pow2[c] = uk \div Pow2[c]
    BY <1>4, <2>1, <2>5, <2>7
  <2>10. V[m] = vk * Pow2[Width] + x /\ U[m] = uk * Pow2[Width] + y
    BY <2>2, <2>7
  <2>. QED
    BY <2>4, <2>5, <2>7, <2>8, <2>9, <2>10, Zenon DEF Extends
<1>5. Exact(0)
  <2>1. Same(0) /\ V[0] = U[0]
    BY <1>1, <1>2
  <2>. QED
    BY <2>1
<1>6. Exact(NOctets)
  <2>. DEFINE Bad == {i \in 0 .. NOctets : ~ Exact(i)}
  <2>. HIDE DEF Exact
  <2>0. NOctets \in 0 .. NOctets
    BY <1>0
  <2>. SUFFICES ASSUME Bad # {} PROVE FALSE
    BY <2>0, Zenon
  <2>1. PICK m \in Bad : \A j \in Bad : m <= j
    <3>1. Bad \in SUBSET Nat
      OBVIOUS
    <3>. QED
      BY <3>1, Least
  <2>2. m \in 1 .. NOctets /\ m - 1 \in 0 .. NOctets /\ m - 1 \notin Bad
    BY <1>0, <1>5, <2>1
  <2>. QED
    BY <1>4, <2>2
<1>. HIDE DEF Same
<1>7. Cut(NOctets) = Width * NOctets - p
  <2>1. Width * NOctets \in Nat
    BY <1>0
  <2>. QED
    BY <2>1
<1>8. Same(NOctets) <=> octets_match(b.oct, a.oct, p)
  BY DEF octets_match, Same
<1>. QED
  BY <1>1, <1>2, <1>6, <1>7, <1>8

\* The octet comparison finds the block the text names.
LEMMA ContainsExact ==
    ASSUME EgressAssumption, NEW e, e.cidr \in Addrs, e.prefix_len \in Nat, NEW a \in Addrs
    PROVE  InBlock(e, a) <=> e.prefix_len <= Width * NOctets /\ contains(e, a)
<1>1. CASE e.prefix_len <= Width * NOctets
  <2>1. LET size == Pow2[Width * NOctets - e.prefix_len]
        IN  octets_match(e.cidr.oct, a.oct, e.prefix_len) <=> Value(e.cidr) \div size = Value(a) \div size
    BY <1>1, OctetsExact
  <2>. QED
    BY <1>1, <2>1, Zenon DEF InBlock, contains
<1>2. CASE ~ (e.prefix_len <= Width * NOctets)
  BY <1>2, Zenon DEF InBlock
<1>. QED
  BY <1>1, <1>2

\* The runtime's deny rules are the blocks the text denies.
LEMMA DenyExact ==
    ASSUME EgressAssumption, NEW net \in Policies, NEW a \in Addrs, NEW dst
    PROVE  denied_addr(Ruleset(net), a, dst)
             <=> \E e \in net.deny_invariant \cup net.deny_policy : InBlock(e, a)
<1>. DEFINE D == net.deny_invariant \cup net.deny_policy
            R(e) == RuntimeRule(DenyRuleOf(e))
<1>1. \A e \in D : e.cidr \in Addrs /\ e.prefix_len \in Nat
  BY DEF EgressAssumption
<1>2. \A e \in D : R(e).cidr = e.cidr /\ R(e).prefix_len = e.prefix_len /\ R(e).ports = {}
  BY DEF RuntimeRule, DenyRuleOf, ports_for
<1>3. \A e \in D : ValidCidr(DenyRuleOf(e)) <=> e.prefix_len <= Width * NOctets
  BY DEF ValidCidr, DenyRuleOf
<1>4. Ruleset(net).deny = {RuntimeRule(r) : r \in {x \in {DenyRuleOf(e) : e \in D} : ValidCidr(x)}}
  BY DEF Ruleset, Settled
<1>5. \A e \in D : contains(R(e), a) <=> contains(e, a)
  BY <1>2, Zenon DEF contains
<1>6. \A e \in D : port_matches(R(e).ports, dst)
  BY <1>2 DEF port_matches
<1>. HIDE DEF D
<1>7. denied_addr(Ruleset(net), a, dst)
        <=> \E e \in D : ValidCidr(DenyRuleOf(e)) /\ contains(R(e), a) /\ port_matches(R(e).ports, dst)
  BY <1>4, Zenon DEF denied_addr
<1>8. \A e \in D : InBlock(e, a) <=> e.prefix_len <= Width * NOctets /\ contains(e, a)
  BY <1>1, ContainsExact, Zenon
<1>. QED
  BY <1>3, <1>5, <1>6, <1>7, <1>8, Zenon DEF D

\* The runtime's allow rules are the blocks and ports the text allows.
LEMMA AllowExact ==
    ASSUME EgressAssumption, NEW net \in Policies, NEW a \in Addrs, NEW dst, NEW transport
    PROVE  allow_addr_match(Ruleset(net), a, dst, transport)
             <=> \E e \in net.allow : /\ InBlock(e, a) /\ e.protocol \in {"any", transport}
                                      /\ e.ports = {} \/ dst \in e.ports
<1>1. \A e \in net.allow : e.cidr \in Addrs /\ e.prefix_len \in Nat /\ e.ports \subseteq 0 .. MaxPort
  BY DEF EgressAssumption
<1>2. MaxPort \in Nat /\ MaxPort > 0
  BY DEF EgressAssumption
<1>. DEFINE Hit(r) == contains(r, a) /\ admits(r.protocol, transport) /\ port_matches(r.ports, dst)
<1>3. Ruleset(net).allow = {RuntimeRule(r) : r \in {x \in UNION {AllowRules(e) : e \in net.allow} : ValidCidr(x)}}
  BY DEF Ruleset, Settled
<1>4. allow_addr_match(Ruleset(net), a, dst, transport)
        <=> \E e \in net.allow : \E x \in AllowRules(e) : ValidCidr(x) /\ Hit(RuntimeRule(x))
  BY <1>3, Zenon DEF allow_addr_match
<1>5. ASSUME NEW e \in net.allow
      PROVE  (\E x \in AllowRules(e) : ValidCidr(x) /\ Hit(RuntimeRule(x)))
               <=> /\ InBlock(e, a) /\ e.protocol \in {"any", transport}
                   /\ e.ports = {} \/ dst \in e.ports
  <2>. DEFINE X(lo, hi) == [cidr |-> e.cidr, prefix_len |-> e.prefix_len, port_min |-> lo,
                            port_max |-> hi, protocol |-> e.protocol]
  <2>1. InBlock(e, a) <=> e.prefix_len <= Width * NOctets /\ contains(e, a)
    BY <1>1, <1>5, ContainsExact, Zenon
  <2>2. \A lo, hi : /\ ValidCidr(X(lo, hi)) <=> e.prefix_len <= Width * NOctets
                    /\ RuntimeRule(X(lo, hi)).cidr = e.cidr
                    /\ RuntimeRule(X(lo, hi)).prefix_len = e.prefix_len
                    /\ RuntimeRule(X(lo, hi)).protocol = e.protocol
                    /\ RuntimeRule(X(lo, hi)).ports = ports_for(lo, hi)
    BY DEF ValidCidr, RuntimeRule
  <2>3. \A lo, hi : Hit(RuntimeRule(X(lo, hi))) <=>
                      /\ contains(e, a) /\ e.protocol \in {"any", transport}
                      /\ port_matches(ports_for(lo, hi), dst)
    BY <2>2, Zenon DEF contains, admits
  <2>. HIDE DEF X, Hit
  <2>4. CASE e.ports = {}
    <3>1. AllowRules(e) = {X(0, MaxPort)}
      BY <2>4, Zenon DEF AllowRules, X
    <3>2. port_matches(ports_for(0, MaxPort), dst)
      BY DEF port_matches, ports_for
    <3>3. (\E x \in AllowRules(e) : ValidCidr(x) /\ Hit(RuntimeRule(x)))
            <=> ValidCidr(X(0, MaxPort)) /\ Hit(RuntimeRule(X(0, MaxPort)))
      BY <3>1, Zenon
    <3>4. /\ ValidCidr(X(0, MaxPort)) <=> e.prefix_len <= Width * NOctets
          /\ Hit(RuntimeRule(X(0, MaxPort))) <=> contains(e, a) /\ e.protocol \in {"any", transport}
      BY <2>2, <2>3, <3>2, Zenon
    <3>. QED
      BY <2>1, <2>4, <3>3, <3>4, Zenon
  <2>5. CASE e.ports # {}
    <3>1. AllowRules(e) = {X(p, p) : p \in e.ports}
      BY <2>5, Zenon DEF AllowRules, X
    <3>2. \A p \in e.ports : port_matches(ports_for(p, p), dst) <=> dst = p
      <4>. SUFFICES ASSUME NEW p \in e.ports PROVE port_matches(ports_for(p, p), dst) <=> dst = p
        OBVIOUS
      <4>1. p \in Nat
        BY <1>1, <1>2, <1>5
      <4>2. ports_for(p, p) = p .. p
        BY <1>2, <4>1 DEF ports_for
      <4>. QED
        BY <4>1, <4>2 DEF port_matches
    <3>3. (\E x \in AllowRules(e) : ValidCidr(x) /\ Hit(RuntimeRule(x)))
            <=> \E p \in e.ports : ValidCidr(X(p, p)) /\ Hit(RuntimeRule(X(p, p)))
      BY <3>1, Zenon
    <3>4. \A p \in e.ports :
            /\ ValidCidr(X(p, p)) <=> e.prefix_len <= Width * NOctets
            /\ Hit(RuntimeRule(X(p, p)))
                 <=> contains(e, a) /\ e.protocol \in {"any", transport} /\ dst = p
      BY <2>2, <2>3, <3>2, Zenon
    <3>5. (\E p \in e.ports : ValidCidr(X(p, p)) /\ Hit(RuntimeRule(X(p, p))))
            <=> /\ e.prefix_len <= Width * NOctets /\ contains(e, a)
                /\ e.protocol \in {"any", transport} /\ dst \in e.ports
      BY <3>4, Zenon
    <3>. QED
      BY <2>1, <2>5, <3>3, <3>5, Zenon
  <2>. QED
    BY <2>4, <2>5
<1>. QED
  BY <1>4, <1>5, Zenon

\* The addresses an answer is cut down to pass the re-check.
LEMMA VettedPasses ==
    ASSUME NEW rs, NEW dst, NEW answer \in Seq(Addrs)
    PROVE  Vetted(rs, answer, dst) \in Seq({a \in Addrs : ~ denied_addr(rs, a, dst) /\ a \notin SpecialUse})
<1>. DEFINE Good == {a \in Addrs : ~ denied_addr(rs, a, dst) /\ a \notin SpecialUse}
            n == Len(answer)
            step == [i \in 1 .. n |-> [q \in Seq(Good) |->
                       IF ~ denied_addr(rs, answer[i], dst) /\ answer[i] \notin SpecialUse
                       THEN Append(q, answer[i]) ELSE q]]
            Is(h) == h = [i \in 0 .. n |->
                            IF i = 0 THEN <<>>
                            ELSE IF ~ denied_addr(rs, answer[i], dst) /\ answer[i] \notin SpecialUse
                                 THEN Append(h[i - 1], answer[i]) ELSE h[i - 1]]
<1>1. n \in Nat /\ \A i \in 1 .. n : answer[i] \in Addrs
  OBVIOUS
<1>. HIDE DEF n
<1>2. \A i \in 1 .. n : ~ denied_addr(rs, answer[i], dst) /\ answer[i] \notin SpecialUse => answer[i] \in Good
  BY <1>1
<1>. HIDE DEF Good
<1>3. step \in Steps(Seq(Good), n)
  BY <1>2 DEF Steps
<1>4. <<>> \in Seq(Good)
  OBVIOUS
<1>. HIDE DEF step
<1>5. PICK f : f \in Values(Seq(Good), n, <<>>, step)
  BY <1>1, <1>3, <1>4, Recursion, Zenon
<1>6. f \in [0 .. n -> Seq(Good)] /\ f[0] = <<>> /\ \A i \in 1 .. n : f[i] = step[i][f[i - 1]]
  BY <1>5 DEF Values
<1>7. \A i \in 0 .. n : f[i] = IF i = 0 THEN <<>>
                               ELSE IF ~ denied_addr(rs, answer[i], dst) /\ answer[i] \notin SpecialUse
                                    THEN Append(f[i - 1], answer[i]) ELSE f[i - 1]
  <2>. SUFFICES ASSUME NEW i \in 0 .. n, i # 0
                PROVE  f[i] = IF ~ denied_addr(rs, answer[i], dst) /\ answer[i] \notin SpecialUse
                              THEN Append(f[i - 1], answer[i]) ELSE f[i - 1]
    BY <1>6
  <2>1. i \in 1 .. n /\ i - 1 \in 0 .. n
    BY <1>1
  <2>2. f[i - 1] \in Seq(Good)
    BY <1>6, <2>1
  <2>3. step[i] = [q \in Seq(Good) |->
                     IF ~ denied_addr(rs, answer[i], dst) /\ answer[i] \notin SpecialUse
                     THEN Append(q, answer[i]) ELSE q]
    BY <2>1, Zenon DEF step
  <2>4. f[i] = step[i][f[i - 1]]
    BY <1>6, <2>1
  <2>. QED
    BY <2>2, <2>3, <2>4, Zenon
<1>8. Is(f)
  BY <1>6, <1>7, Zenon
<1>9. PICK K : Is(K) /\ Vetted(rs, answer, dst) = K[n]
  <2>. DEFINE W == CHOOSE h : Is(h)
  <2>1. Is(W)
    BY <1>8, Zenon
  <2>2. Vetted(rs, answer, dst) = W[n]
    BY DEF Vetted, n
  <2>. QED
    BY <2>1, <2>2, Zenon
<1>10. \A i \in 0 .. n : K[i] = IF i = 0 THEN <<>>
                                ELSE IF ~ denied_addr(rs, answer[i], dst) /\ answer[i] \notin SpecialUse
                                     THEN Append(K[i - 1], answer[i]) ELSE K[i - 1]
  BY <1>9, Zenon
<1>. DEFINE Bad == {i \in 0 .. n : K[i] \notin Seq(Good)}
<1>11. Bad = {}
  <2>. SUFFICES ASSUME Bad # {} PROVE FALSE
    OBVIOUS
  <2>1. PICK m \in Bad : \A x \in Bad : m <= x
    <3>1. Bad \in SUBSET Nat
      OBVIOUS
    <3>. QED
      BY <3>1, Least
  <2>2. m \in 0 .. n
    OBVIOUS
  <2>3. m # 0
    BY <1>4, <1>10, <2>1, Zenon
  <2>4. m - 1 \in 0 .. n /\ m - 1 < m /\ m \in 1 .. n
    BY <1>1, <2>2, <2>3
  <2>5. m - 1 \notin Bad
    <3>. HIDE DEF Bad
    <3>. QED
      BY <2>1, <2>2, <2>4
  <2>6. K[m - 1] \in Seq(Good)
    BY <2>4, <2>5
  <2>7. K[m] = IF ~ denied_addr(rs, answer[m], dst) /\ answer[m] \notin SpecialUse
               THEN Append(K[m - 1], answer[m]) ELSE K[m - 1]
    BY <1>10, <2>2, <2>3, Zenon
  <2>8. K[m] \in Seq(Good)
    BY <1>2, <2>4, <2>6, <2>7
  <2>. QED
    BY <2>8
<1>12. n \in 0 .. n
  BY <1>1
<1>. QED
  BY <1>9, <1>11, <1>12 DEF Good

-----------------------------------------------------------------------------
(* What a request is carried through with.                                 *)

\* The verdict on a request, as decide reaches it.
Verdict(net, r) ==
    CASE r.kind = "addr" /\ <<r.addr, r.port>> \in net.services -> "allow"
      [] /\ r.kind = "addr"
         /\ <<r.addr, r.port>> \notin net.services
         /\ r.addr \in SpecialUse -> "deny"
      [] OTHER -> decide_request(Ruleset(net), r)

\* The verdict is the text's: what is refused has no address, a literal that
\* is allowed is permitted, and a name may reach what the re-check passes.
LEMMA VerdictExact ==
    ASSUME EgressAssumption, NEW net \in Policies, NEW r \in Requests
    PROVE  /\ Verdict(net, r) = "deny" => \A a \in Addrs : ~ Permitted(net, r, a)
           /\ Verdict(net, r) = "allow" => r.addr \in Addrs /\ Permitted(net, r, r.addr)
           /\ Verdict(net, r) = "resolve" =>
                \A a \in Addrs : ~ denied_addr(Ruleset(net), a, r.port) /\ a \notin SpecialUse
                                    => Permitted(net, r, a)
<1>1. r.kind \in {"addr", "name"} /\ r.addr \in Addrs
  BY DEF EgressAssumption
<1>2. /\ Ruleset(net).mode = IF net.mode \in {"constrained", "unconstrained"} THEN net.mode ELSE "none"
      /\ Ruleset(net).allow_names = net.allow_names
  BY DEF Ruleset, Settled
<1>3. PICK rs : rs = Ruleset(net)
  OBVIOUS
<1>. DEFINE Denied(a) == \E e \in net.deny_invariant \cup net.deny_policy : InBlock(e, a)
            ByAddr(a) == \E e \in net.allow : /\ InBlock(e, a) /\ e.protocol \in {"any", r.transport}
                                              /\ e.ports = {} \/ r.port \in e.ports
            ByName == \E e \in net.allow_names : /\ name_matches(e.name, r.name)
                                                 /\ e.protocol \in {"any", r.transport}
                                                 /\ e.ports = {} \/ r.port \in e.ports
<1>4. \A a \in Addrs : denied_addr(rs, a, r.port) <=> Denied(a)
  BY <1>3, DenyExact, Zenon
<1>5. \A a \in Addrs : allow_addr_match(rs, a, r.port, r.transport) <=> ByAddr(a)
  BY <1>3, AllowExact, Zenon
<1>6. allow_name_match(rs, r.name, r.port, r.transport) <=> ByName
  BY <1>2, <1>3, Zenon DEF allow_name_match, admits, port_matches
<1>7. \A a \in Addrs :
        Permitted(net, r, a) <=>
          \/ r.kind = "addr" /\ r.addr = a /\ <<a, r.port>> \in net.services
          \/ /\ r.kind = "addr" => r.addr = a
             /\ net.mode \in {"constrained", "unconstrained"}
             /\ a \notin SpecialUse /\ ~ Denied(a)
             /\ net.mode = "unconstrained" \/ (IF r.kind = "addr" THEN ByAddr(a) ELSE ByName)
  <2>1. CASE r.kind = "addr"
    BY <2>1, Zenon DEF Permitted
  <2>2. CASE r.kind # "addr"
    BY <2>2, Zenon DEF Permitted
  <2>. QED
    BY <2>1, <2>2
<1>. HIDE DEF Denied, ByAddr, ByName
<1>8. CASE r.kind = "addr"
  <2>1. decide_request(rs, r) =
          IF /\ rs.mode # "none" /\ ~ Denied(r.addr)
             /\ rs.mode = "unconstrained" \/ ByAddr(r.addr)
          THEN "allow" ELSE "deny"
    BY <1>1, <1>4, <1>5, <1>8 DEF decide_request
  <2>2. CASE <<r.addr, r.port>> \in net.services
    BY <1>1, <1>7, <1>8, <2>2 DEF Verdict
  <2>3. CASE <<r.addr, r.port>> \notin net.services
    <3>1. CASE r.addr \in SpecialUse
      BY <1>7, <1>8, <2>3, <3>1 DEF Verdict
    <3>2. CASE r.addr \notin SpecialUse
      <4>1. Verdict(net, r) = decide_request(rs, r)
        BY <1>3, <2>3, <3>2 DEF Verdict
      <4>2. Permitted(net, r, r.addr) <=>
              /\ net.mode \in {"constrained", "unconstrained"} /\ ~ Denied(r.addr)
              /\ net.mode = "unconstrained" \/ ByAddr(r.addr)
        BY <1>1, <1>7, <1>8, <2>3, <3>2, Zenon
      <4>3. \A a \in Addrs : Permitted(net, r, a) => a = r.addr
        BY <1>7, <1>8, Zenon
      <4>. QED
        BY <1>1, <1>2, <1>3, <2>1, <4>1, <4>2, <4>3
    <3>. QED
      BY <3>1, <3>2
  <2>. QED
    BY <2>2, <2>3
<1>9. CASE r.kind = "name"
  <2>1. decide_request(rs, r) =
          IF rs.mode # "none" /\ (rs.mode = "unconstrained" \/ ByName) THEN "resolve" ELSE "deny"
    BY <1>6, <1>9 DEF decide_request
  <2>2. Verdict(net, r) = decide_request(rs, r)
    BY <1>3, <1>9 DEF Verdict
  <2>3. \A a \in Addrs : Permitted(net, r, a) <=>
              /\ net.mode \in {"constrained", "unconstrained"}
              /\ a \notin SpecialUse /\ ~ Denied(a)
              /\ net.mode = "unconstrained" \/ ByName
    BY <1>7, <1>9
  <2>. QED
    BY <1>2, <1>3, <1>4, <2>1, <2>2, <2>3
<1>. QED
  BY <1>1, <1>8, <1>9

\* Each phase of a request with what it may rely on.
PhaseInv ==
    /\ phase # "idle" => req \in Requests
    /\ phase = "resolve" =>
         \A a \in Addrs : ~ denied_addr(Ruleset(policy), a, req.port) /\ a \notin SpecialUse
                             => Permitted(policy, req, a)
    /\ phase \in {"dial", "command"} => \A i \in DOMAIN pinned : Permitted(policy, req, pinned[i])
    /\ phase # "spliced" => upstream = Nil
    /\ upstream # Nil => Permitted(policy, req, upstream)
    /\ phase # "done" => reply # "denied"
    /\ reply = "denied" => \A a \in Addrs : ~ Permitted(policy, req, a)

EgressInv == EgressTypeOK /\ PhaseInv

\* Every step of a request keeps it.
LEMMA EgressStep ==
    ASSUME EgressAssumption, EgressInv, [EgressNext]_egressVars
    PROVE  EgressInv'
<1>0. EgressTypeOK /\ PhaseInv /\ Nil \notin Addrs /\ Nil \notin Requests /\ Nil # "denied"
  BY DEF EgressInv, EgressAssumption
<1>1. ASSUME NEW r \in Requests, Request(r) PROVE EgressInv'
  BY <1>0, <1>1 DEF Request, EgressInv, EgressTypeOK, PhaseInv
<1>2. CASE Decide
  <2>1. /\ phase = "decide" /\ UNCHANGED <<policy, req, upstream>>
        /\ \/ Verdict(policy, req) = "deny" /\ Answered("denied") /\ UNCHANGED pinned
           \/ Verdict(policy, req) = "allow" /\ pinned' = <<req.addr>> /\ phase' = "dial" /\ UNCHANGED reply
           \/ Verdict(policy, req) = "resolve" /\ phase' = "resolve" /\ UNCHANGED <<pinned, reply>>
    BY <1>2, Zenon DEF Decide, Verdict
  <2>2. policy \in Policies /\ req \in Requests /\ reply # "denied" /\ upstream = Nil
    BY <1>0, <2>1 DEF EgressTypeOK, PhaseInv
  <2>3. /\ Verdict(policy, req) = "deny" => \A a \in Addrs : ~ Permitted(policy, req, a)
        /\ Verdict(policy, req) = "allow" => req.addr \in Addrs /\ Permitted(policy, req, req.addr)
        /\ Verdict(policy, req) = "resolve" =>
             \A a \in Addrs : ~ denied_addr(Ruleset(policy), a, req.port) /\ a \notin SpecialUse
                                 => Permitted(policy, req, a)
    BY <2>2, VerdictExact
  <2>4. CASE Verdict(policy, req) = "deny" /\ Answered("denied") /\ UNCHANGED pinned
    <3>1. \A a \in Addrs : ~ Permitted(policy, req, a)
      BY <2>3, <2>4
    <3>2. (\A a \in Addrs : ~ Permitted(policy, req, a))'
      BY <2>1, <3>1 DEF Permitted
    <3>. QED
      BY <1>0, <2>1, <2>2, <2>4, <3>2 DEF EgressInv, EgressTypeOK, PhaseInv, Answered
  <2>5. CASE Verdict(policy, req) = "allow" /\ pinned' = <<req.addr>> /\ phase' = "dial" /\ UNCHANGED reply
    <3>1. pinned' \in Seq(Addrs) /\ \A i \in DOMAIN pinned' : pinned'[i] = req.addr
      BY <2>3, <2>5
    <3>2. (\A i \in DOMAIN pinned : Permitted(policy, req, pinned[i]))'
      BY <2>1, <2>3, <2>5, <3>1 DEF Permitted
    <3>. QED
      BY <1>0, <2>1, <2>2, <2>5, <3>1, <3>2 DEF EgressInv, EgressTypeOK, PhaseInv
  <2>6. CASE Verdict(policy, req) = "resolve" /\ phase' = "resolve" /\ UNCHANGED <<pinned, reply>>
    <3>1. (\A a \in Addrs : ~ denied_addr(Ruleset(policy), a, req.port) /\ a \notin SpecialUse
                                => Permitted(policy, req, a))'
      BY <2>1, <2>3, <2>6
    <3>. QED
      BY <1>0, <2>1, <2>2, <2>6, <3>1 DEF EgressInv, EgressTypeOK, PhaseInv
  <2>. QED
    BY <2>1, <2>4, <2>5, <2>6
<1>3. CASE Resolve
  <2>1. PICK answer \in Answers : pinned' = Vetted(Ruleset(policy), answer, req.port)
    BY <1>3 DEF Resolve
  <2>2. /\ phase = "resolve" /\ UNCHANGED <<policy, req, upstream>>
        /\ phase' \in {"dial", "done"} /\ reply' \in {reply, "notfound"}
    BY <1>3 DEF Resolve, Answered
  <2>3. answer \in Seq(Addrs)
    BY DEF EgressAssumption
  <2>4. pinned' \in Seq({a \in Addrs : ~ denied_addr(Ruleset(policy), a, req.port) /\ a \notin SpecialUse})
    BY <2>1, <2>3, VettedPasses, Zenon
  <2>5. /\ pinned' \in Seq(Addrs)
        /\ \A i \in DOMAIN pinned' : /\ pinned'[i] \in Addrs /\ pinned'[i] \notin SpecialUse
                                       /\ ~ denied_addr(Ruleset(policy), pinned'[i], req.port)
    BY <2>4
  <2>6. \A i \in DOMAIN pinned' : Permitted(policy, req, pinned'[i])
    BY <1>0, <2>2, <2>5, Zenon DEF PhaseInv
  <2>7. (\A i \in DOMAIN pinned : Permitted(policy, req, pinned[i]))'
    BY <2>2, <2>6
  <2>. QED
    BY <1>0, <2>2, <2>5, <2>7 DEF EgressInv, EgressTypeOK, PhaseInv
<1>4. CASE ResolveFails \/ DialFails
  BY <1>0, <1>4 DEF ResolveFails, DialFails, Answered, EgressInv, EgressTypeOK, PhaseInv
<1>5. CASE DialViaDelegate
  <2>1. /\ phase = "dial" /\ phase' = "command" /\ reply' = "fd" /\ UNCHANGED <<policy, req, upstream>>
        /\ pinned' = SubSeq(pinned, 1, IF Len(pinned) < MaxAddrs THEN Len(pinned) ELSE MaxAddrs)
    BY <1>5 DEF DialViaDelegate
  <2>2. MaxAddrs \in Nat /\ pinned \in Seq(Addrs)
    BY <1>0 DEF EgressAssumption, EgressTypeOK
  <2>3. /\ pinned' \in Seq(Addrs)
        /\ \A i \in DOMAIN pinned' : i \in DOMAIN pinned /\ pinned'[i] = pinned[i]
    BY <2>1, <2>2
  <2>4. \A i \in DOMAIN pinned' : Permitted(policy, req, pinned'[i])
    BY <1>0, <2>1, <2>3 DEF PhaseInv
  <2>5. (\A i \in DOMAIN pinned : Permitted(policy, req, pinned[i]))'
    BY <2>1, <2>4
  <2>. QED
    BY <1>0, <2>1, <2>3, <2>5 DEF EgressInv, EgressTypeOK, PhaseInv
<1>6. CASE DelegateConnects
  <2>1. /\ phase = "command" /\ phase' = "spliced" /\ UNCHANGED <<policy, req, pinned, reply>>
        /\ upstream' = pinned[1] /\ 1 \in DOMAIN pinned /\ pinned[1] \in Addrs
    BY <1>0, <1>6 DEF DelegateConnects, EgressTypeOK
  <2>2. Permitted(policy, req, upstream)'
    BY <1>0, <2>1 DEF PhaseInv, Permitted
  <2>. QED
    BY <1>0, <2>1, <2>2 DEF EgressInv, EgressTypeOK, PhaseInv
<1>7. CASE DelegateSkips
  <2>1. phase = "command" /\ pinned # <<>> /\ pinned' = Tail(pinned) /\ UNCHANGED <<policy, req, phase, reply, upstream>>
    BY <1>7 DEF DelegateSkips
  <2>2. pinned \in Seq(Addrs)
    BY <1>0 DEF EgressTypeOK
  <2>3. /\ pinned' \in Seq(Addrs)
        /\ \A i \in DOMAIN pinned' : i + 1 \in DOMAIN pinned /\ pinned'[i] = pinned[i + 1]
    BY <2>1, <2>2
  <2>4. \A i \in DOMAIN pinned' : Permitted(policy, req, pinned'[i])
    BY <1>0, <2>1, <2>3 DEF PhaseInv
  <2>5. (\A i \in DOMAIN pinned : Permitted(policy, req, pinned[i]))'
    BY <2>1, <2>4
  <2>. QED
    BY <1>0, <2>1, <2>3, <2>5 DEF EgressInv, EgressTypeOK, PhaseInv
<1>8. CASE DelegateGivesUp
  BY <1>0, <1>8 DEF DelegateGivesUp, EgressInv, EgressTypeOK, PhaseInv
<1>9. CASE NextRequest
  BY <1>0, <1>9 DEF NextRequest, EgressInv, EgressTypeOK, PhaseInv
<1>10. CASE UNCHANGED egressVars
  BY <1>0, <1>10 DEF egressVars, EgressInv, EgressTypeOK, PhaseInv
<1>. QED
  BY <1>1, <1>2, <1>3, <1>4, <1>5, <1>6, <1>7, <1>8, <1>9, <1>10 DEF EgressNext

\* Whatever the policy, the request and the resolver's answers, the delegate
\* dials only what the text of the policy permits and a request is denied only
\* when the text permits it nothing, for every width of an octet, length of an
\* address, prefix and port (translate.rs, inet.rs, inet/allow.rs).
THEOREM DecisionExactTheorem == EgressSpec => []DecisionExact
<1>1. EgressInit => EgressInv
  BY EgressAssumption DEF EgressInit, EgressInv, EgressTypeOK, PhaseInv
<1>2. EgressInv /\ [EgressNext]_egressVars => EgressInv'
  BY EgressAssumption, EgressStep
<1>3. EgressInv => DecisionExact
  BY DEF EgressInv, PhaseInv, DecisionExact
<1>. QED
  BY <1>1, <1>2, <1>3, PTL DEF EgressSpec
=============================================================================
