------------------------- MODULE Connections_proofs -------------------------
(***************************************************************************)
(* Theorems about Connections, for any number of calls and nodes.          *)
(***************************************************************************)
EXTENDS Connections, TLAPS

(* The cached connection is one that its own call has returned.            *)
CachedIsReady == api # NoApi => pc[api] = "returned" /\ got[api] = api

IInv == TypeOK /\ UnitsFollowTheCache /\ OnlyReadyConnections /\ CachedIsReady

LEMMA InitIInv == Init => IInv
BY DEF Init, IInv, TypeOK, UnitsFollowTheCache, OnlyReadyConnections, CachedIsReady, Returned

LEMMA StepKeepsIInv == IInv /\ [Next]_vars => IInv'
<1> SUFFICES ASSUME IInv, [Next]_vars PROVE IInv'
  OBVIOUS
<1> USE DEF IInv, UnitsFollowTheCache, CachedIsReady, Returned
<1>1. ASSUME NEW c \in Calls, Cached(c) PROVE IInv'
  <2>1. TypeOK'
    BY <1>1 DEF Cached, TypeOK
  <2>2. OnlyReadyConnections'
    BY <1>1 DEF Cached, TypeOK, OnlyReadyConnections
  <2> QED BY <1>1, <2>1, <2>2 DEF Cached, TypeOK
<1>2. ASSUME NEW c \in Calls, Rejects(c) \/ Connect(c) PROVE IInv'
  <2>1. TypeOK'
    BY <1>2 DEF Rejects, Connect, TypeOK
  <2>2. OnlyReadyConnections'
    BY <1>2 DEF Rejects, Connect, TypeOK, OnlyReadyConnections
  <2> QED BY <1>2, <2>1, <2>2 DEF Rejects, Connect, TypeOK
<1>3. ASSUME NEW c \in Calls, Ready(c) PROVE IInv'
  <2>1. TypeOK'
    BY <1>3 DEF Ready, TypeOK
  <2>2. OnlyReadyConnections'
    BY <1>3 DEF Ready, TypeOK, OnlyReadyConnections
  <2> QED BY <1>3, <2>1, <2>2, ConnectionsAssumption DEF Ready, TypeOK
<1>4. CASE UNCHANGED vars
  BY <1>4 DEF vars, TypeOK, OnlyReadyConnections
<1> QED BY <1>1, <1>2, <1>3, <1>4 DEF Next

THEOREM Invariant == Spec => []IInv
BY InitIInv, StepKeepsIInv, PTL DEF Spec

(* TypeOK: every variable keeps its shape.                                 *)
THEOREM TypeCorrect == Spec => []TypeOK
<1>1. IInv => TypeOK
  BY DEF IInv
<1> QED BY <1>1, Invariant, PTL

(* Balances are formatted with the units of the connection in the cache.   *)
THEOREM Units == Spec => []UnitsFollowTheCache
<1>1. IInv => UnitsFollowTheCache
  BY DEF IInv
<1> QED BY <1>1, Invariant, PTL

(* However many calls race, each gets a connection that is ready.          *)
THEOREM ReadyOnly == Spec => []OnlyReadyConnections
<1>1. IInv => OnlyReadyConnections
  BY DEF IInv
<1> QED BY <1>1, Invariant, PTL

(* The cache settles: only a call that was connecting to a node that is    *)
(* there when it was filled can replace what it holds.                     *)
THEOREM Settles == Spec => CacheSettles
<1>1. TypeOK /\ [Next]_vars => [Settled => Settled' /\ api' = api]_vars
  <2> SUFFICES ASSUME TypeOK, NEW c \in Calls, Settled,
                      Cached(c) \/ Rejects(c) \/ Connect(c) \/ Ready(c)
               PROVE  Settled' /\ api' = api
    BY DEF Next
  <2> USE DEF Settled, Connecting
  <2>1. CASE Cached(c)
    BY <2>1 DEF Cached, TypeOK
  <2>2. ~ Rejects(c) /\ ~ Connect(c) /\ ~ Ready(c)
    BY DEF Rejects, Connect, Ready
  <2> QED BY <2>1, <2>2
<1> QED BY <1>1, TypeCorrect, PTL DEF Spec, CacheSettles
=============================================================================
