------------------------- MODULE ServerServiceProofs -------------------------
(***************************************************************************)
(* Proofs about SshPool and about ServerService, its user, for any sets of *)
(* calls, ids and versions.                                                 *)
(*                                                                         *)
(* First the pool: IInv is inductive.  There is one lemma per action that   *)
(* changes more than the place of a call, and one for all the others; each  *)
(* takes IInv conjunct by conjunct.  Then the service: it implements the    *)
(* pool's specification, so what is proved of the pool holds under every    *)
(* mix of requests; and rows and credentials stay together.                 *)
(***************************************************************************)
EXTENDS ServerService, TLAPS

LEMMA InitInv == Init => IInv
BY NoneAssumption DEF Init, IInv, TypeOK, DialTracked, PoolKeyed, CallKeyed, Born,
   HeldDialed, OnlineIffClient, NoLeak, NoClosedClient,
   Status, ConnState, Step, Early, InManager, HasClient

LEMMA LookupInv ==
    ASSUME IInv, NEW k \in Calls, NEW s \in Ids, Lookup(k, s)
    PROVE  IInv'
<1> USE NoneAssumption DEF Lookup, IInv, TypeOK, poolVars, managerVars, netVars
<1>1. TypeOK'
  BY DEF Step, Status, ConnState
<1>2. DialTracked'
  BY DEF DialTracked
<1>3. PoolKeyed'
  BY DEF PoolKeyed, Born, Early
<1>4. CallKeyed'
  BY DEF CallKeyed, PoolKeyed, InManager, Born, Early
<1>5. Born'
  BY DEF Born, Early, HasClient, DialTracked
<1>6. HeldDialed'
  BY DEF HeldDialed, HasClient, Born, Early, NoClosedClient
<1>7. OnlineIffClient'
  BY DEF OnlineIffClient, DialTracked
<1>8. NoLeak'
  BY DEF NoLeak, Born, Early, DialTracked, NoClosedClient
<1>9. NoClosedClient'
  BY DEF NoClosedClient, Born, Early, DialTracked, NoLeak
<1> QED
  BY <1>1, <1>2, <1>3, <1>4, <1>5, <1>6, <1>7, <1>8, <1>9

LEMMA LoadOkInv ==
    ASSUME IInv, NEW k \in Calls, NEW c \in Config, LoadOk(k, c)
    PROVE  IInv'
<1> USE NoneAssumption DEF LoadOk, Answer, IInv, TypeOK, poolVars, managerVars, netVars
<1>1. TypeOK'
  BY DEF Step, Status, ConnState
<1>2. DialTracked'
  BY DEF DialTracked
<1>3. PoolKeyed'
  BY DEF PoolKeyed, Born, Early
<1>4. CallKeyed'
  BY DEF CallKeyed, PoolKeyed, InManager, Born, Early
<1>5. Born'
  BY DEF Born, Early, HasClient, DialTracked
<1>6. HeldDialed'
  BY DEF HeldDialed, HasClient, Born, Early, NoClosedClient
<1>7. OnlineIffClient'
  BY DEF OnlineIffClient, DialTracked
<1>8. NoLeak'
  BY DEF NoLeak, Born, Early, DialTracked, NoClosedClient
<1>9. NoClosedClient'
  BY DEF NoClosedClient, Born, Early, DialTracked, NoLeak
<1> QED
  BY <1>1, <1>2, <1>3, <1>4, <1>5, <1>6, <1>7, <1>8, <1>9

LEMMA InsertInv ==
    ASSUME IInv, NEW k \in Calls, Insert(k)
    PROVE  IInv'
<1> USE NoneAssumption DEF Insert, Beaten, IInv, TypeOK, poolVars, managerVars, netVars
<1>m. srv[k] \in Ids /\ loaded[k] \in Config /\ loaded[k].id = srv[k]
  BY DEF CallKeyed
<1>1. TypeOK'
  BY <1>m DEF Step, Status, ConnState
<1>2. DialTracked'
  BY <1>m DEF DialTracked
<1>3. PoolKeyed'
  BY <1>m DEF PoolKeyed, Born, Early
<1>4. CallKeyed'
  BY <1>m DEF CallKeyed, PoolKeyed, InManager, Born, Early
<1>5. Born'
  BY <1>m DEF Born, Early, HasClient, DialTracked
<1>6. HeldDialed'
  BY <1>m DEF HeldDialed, HasClient, Born, Early, NoClosedClient
<1>7. OnlineIffClient'
  BY <1>m DEF OnlineIffClient, DialTracked
<1>8. NoLeak'
  BY <1>m DEF NoLeak, Born, Early, DialTracked, NoClosedClient
<1>9. NoClosedClient'
  BY <1>m DEF NoClosedClient, Born, Early, DialTracked, NoLeak
<1> QED
  BY <1>1, <1>2, <1>3, <1>4, <1>5, <1>6, <1>7, <1>8, <1>9

LEMMA EnsureCheckInv ==
    ASSUME IInv, NEW k \in Calls, EnsureCheck(k)
    PROVE  IInv'
<1> USE NoneAssumption DEF EnsureCheck, MayDial, IInv, TypeOK, poolVars, managerVars, netVars
<1>m. use[k] \in Calls
  BY DEF CallKeyed, InManager
<1>1. TypeOK'
  BY <1>m DEF Step, Status, ConnState
<1>2. DialTracked'
  BY <1>m DEF DialTracked, CallKeyed, InManager
<1>3. PoolKeyed'
  BY <1>m DEF PoolKeyed, Born, Early
<1>4. CallKeyed'
  BY <1>m DEF CallKeyed, PoolKeyed, InManager, Born, Early
<1>5. Born'
  BY <1>m DEF Born, Early, HasClient, DialTracked
<1>6. HeldDialed'
  BY <1>m DEF HeldDialed, HasClient, Born, Early, NoClosedClient
<1>7. OnlineIffClient'
  BY <1>m DEF OnlineIffClient, DialTracked
<1>8. NoLeak'
  BY <1>m DEF NoLeak, Born, Early, DialTracked, NoClosedClient
<1>9. NoClosedClient'
  BY <1>m DEF NoClosedClient, Born, Early, DialTracked, NoLeak
<1> QED
  BY <1>1, <1>2, <1>3, <1>4, <1>5, <1>6, <1>7, <1>8, <1>9

LEMMA DialOkInv ==
    ASSUME IInv, NEW k \in Calls, DialOk(k)
    PROVE  IInv'
<1> USE NoneAssumption DEF DialOk, EndDial, SpawnWatch, IInv, TypeOK, poolVars, managerVars, netVars
<1>m. use[k] \in Calls
  BY DEF CallKeyed, InManager
<1>1. TypeOK'
  BY <1>m DEF Step, Status, ConnState
<1>2. DialTracked'
  BY <1>m DEF DialTracked, CallKeyed, InManager
<1>3. PoolKeyed'
  BY <1>m DEF PoolKeyed, Born, Early
<1>4. CallKeyed'
  BY <1>m DEF CallKeyed, PoolKeyed, InManager, Born, Early
<1>5. Born'
  BY <1>m DEF Born, Early, HasClient, DialTracked
<1>6. HeldDialed'
  BY <1>m DEF HeldDialed, HasClient, Born, Early, NoClosedClient
<1>7. OnlineIffClient'
  BY <1>m DEF OnlineIffClient, DialTracked
<1>8. NoLeak'
  BY <1>m DEF NoLeak, Born, Early, DialTracked, NoClosedClient
<1>9. NoClosedClient'
  BY <1>m DEF NoClosedClient, Born, Early, DialTracked, NoLeak
<1> QED
  BY <1>1, <1>2, <1>3, <1>4, <1>5, <1>6, <1>7, <1>8, <1>9

LEMMA DialFailInv ==
    ASSUME IInv, NEW k \in Calls, DialFail(k)
    PROVE  IInv'
<1> USE NoneAssumption DEF DialFail, EndDial, IInv, TypeOK, poolVars, managerVars, netVars
<1>m. use[k] \in Calls
  BY DEF CallKeyed, InManager
<1>1. TypeOK'
  BY <1>m DEF Step, Status, ConnState
<1>2. DialTracked'
  BY <1>m DEF DialTracked, CallKeyed, InManager
<1>3. PoolKeyed'
  BY <1>m DEF PoolKeyed, Born, Early
<1>4. CallKeyed'
  BY <1>m DEF CallKeyed, PoolKeyed, InManager, Born, Early
<1>5. Born'
  BY <1>m DEF Born, Early, HasClient, DialTracked
<1>6. HeldDialed'
  BY <1>m DEF HeldDialed, HasClient, Born, Early, NoClosedClient
<1>7. OnlineIffClient'
  BY <1>m DEF OnlineIffClient, DialTracked
<1>8. NoLeak'
  BY <1>m DEF NoLeak, Born, Early, DialTracked, NoClosedClient
<1>9. NoClosedClient'
  BY <1>m DEF NoClosedClient, Born, Early, DialTracked, NoLeak
<1> QED
  BY <1>1, <1>2, <1>3, <1>4, <1>5, <1>6, <1>7, <1>8, <1>9

LEMMA InvalidateInv ==
    ASSUME IInv, NEW k \in Calls, Invalidate(k)
    PROVE  IInv'
<1> USE NoneAssumption DEF Invalidate, HasStill, DropClient, Fallen, IInv, TypeOK, poolVars, managerVars, netVars
<1>m. use[k] \in Calls
  BY DEF CallKeyed, InManager
<1>1. TypeOK'
  BY <1>m DEF Step, Status, ConnState
<1>2. DialTracked'
  BY <1>m DEF DialTracked
<1>3. PoolKeyed'
  BY <1>m DEF PoolKeyed, Born, Early
<1>4. CallKeyed'
  BY <1>m DEF CallKeyed, PoolKeyed, InManager, Born, Early
<1>5. Born'
  BY <1>m DEF Born, Early, NoClosedClient
<1>6. HeldDialed'
  BY <1>m DEF HeldDialed, HasClient, Born, Early, NoClosedClient
<1>7. OnlineIffClient'
  BY <1>m DEF OnlineIffClient, DialTracked
<1>8. NoLeak'
  BY <1>m DEF NoLeak, Born, Early, DialTracked, NoClosedClient
<1>9. NoClosedClient'
  BY <1>m DEF NoClosedClient, Born, Early, DialTracked, NoLeak
<1> QED
  BY <1>1, <1>2, <1>3, <1>4, <1>5, <1>6, <1>7, <1>8, <1>9

LEMMA TransportDiesInv ==
    ASSUME IInv, NEW d \in Calls, TransportDies(d)
    PROVE  IInv'
<1> USE NoneAssumption DEF TransportDies, callVars, IInv, TypeOK, poolVars, managerVars, netVars
<1>1. TypeOK'
  BY DEF Step, Status, ConnState
<1>2. DialTracked'
  BY DEF DialTracked
<1>3. PoolKeyed'
  BY DEF PoolKeyed, Born, Early
<1>4. CallKeyed'
  BY DEF CallKeyed, PoolKeyed, InManager, Born, Early
<1>5. Born'
  BY DEF Born, Early, HasClient, DialTracked
<1>6. HeldDialed'
  BY DEF HeldDialed, HasClient, Born, Early, NoClosedClient
<1>7. OnlineIffClient'
  BY DEF OnlineIffClient, DialTracked
<1>8. NoLeak'
  BY DEF NoLeak, Born, Early, DialTracked, NoClosedClient
<1>9. NoClosedClient'
  BY DEF NoClosedClient, Born, Early, DialTracked, NoLeak
<1> QED
  BY <1>1, <1>2, <1>3, <1>4, <1>5, <1>6, <1>7, <1>8, <1>9

LEMMA WatchInv ==
    ASSUME IInv, NEW d \in Calls, Watch(d)
    PROVE  IInv'
<1> USE NoneAssumption DEF Watch, HasStill, Fallen, callVars, IInv, TypeOK, poolVars, managerVars, netVars
<1>1. TypeOK'
  BY DEF Step, Status, ConnState
<1>2. DialTracked'
  BY DEF DialTracked
<1>3. PoolKeyed'
  BY DEF PoolKeyed, Born, Early
<1>4. CallKeyed'
  BY DEF CallKeyed, PoolKeyed, InManager, Born, Early
<1>5. Born'
  BY DEF Born, Early, HasClient, DialTracked
<1>6. HeldDialed'
  BY DEF HeldDialed, HasClient, Born, Early, NoClosedClient
<1>7. OnlineIffClient'
  BY DEF OnlineIffClient, DialTracked
<1>8. NoLeak'
  BY DEF NoLeak, Born, Early, DialTracked, NoClosedClient
<1>9. NoClosedClient'
  BY DEF NoClosedClient, Born, Early, DialTracked, NoLeak
<1> QED
  BY <1>1, <1>2, <1>3, <1>4, <1>5, <1>6, <1>7, <1>8, <1>9

LEMMA RemoveInv ==
    ASSUME IInv, NEW k \in Calls, NEW s \in Ids, Remove(k, s)
    PROVE  IInv'
<1> USE NoneAssumption DEF Remove, IInv, TypeOK, poolVars, managerVars, netVars
<1>1. TypeOK'
  BY DEF Step, Status, ConnState
<1>2. DialTracked'
  BY DEF DialTracked
<1>3. PoolKeyed'
  BY DEF PoolKeyed, Born, Early
<1>4. CallKeyed'
  BY DEF CallKeyed, PoolKeyed, InManager, Born, Early
<1>5. Born'
  BY DEF Born, Early, HasClient, DialTracked
<1>6. HeldDialed'
  BY DEF HeldDialed, HasClient, Born, Early, NoClosedClient
<1>7. OnlineIffClient'
  BY DEF OnlineIffClient, DialTracked
<1>8. NoLeak'
  BY DEF NoLeak, Born, Early, DialTracked, NoClosedClient
<1>9. NoClosedClient'
  BY DEF NoClosedClient, Born, Early, DialTracked, NoLeak
<1> QED
  BY <1>1, <1>2, <1>3, <1>4, <1>5, <1>6, <1>7, <1>8, <1>9

LEMMA RemoveAllInv ==
    ASSUME IInv, NEW k \in Calls, RemoveAll(k)
    PROVE  IInv'
<1> USE NoneAssumption DEF RemoveAll, IInv, TypeOK, poolVars, managerVars, netVars
<1>1. TypeOK'
  BY DEF Step, Status, ConnState
<1>2. DialTracked'
  BY DEF DialTracked
<1>3. PoolKeyed'
  BY DEF PoolKeyed, Born, Early
<1>4. CallKeyed'
  BY DEF CallKeyed, PoolKeyed, InManager, Born, Early
<1>5. Born'
  BY DEF Born, Early, HasClient, DialTracked
<1>6. HeldDialed'
  BY DEF HeldDialed, HasClient, Born, Early, NoClosedClient
<1>7. OnlineIffClient'
  BY DEF OnlineIffClient, DialTracked
<1>8. NoLeak'
  BY DEF NoLeak, Born, Early, DialTracked, NoClosedClient
<1>9. NoClosedClient'
  BY DEF NoClosedClient, Born, Early, DialTracked, NoLeak
<1> QED
  BY <1>1, <1>2, <1>3, <1>4, <1>5, <1>6, <1>7, <1>8, <1>9

LEMMA CloseManagerInv ==
    ASSUME IInv, NEW k \in Calls, NEW m \in Calls, CloseManager(k, m)
    PROVE  IInv'
<1> USE NoneAssumption DEF CloseManager, DropClient, IInv, TypeOK, poolVars, managerVars, netVars
<1>1. TypeOK'
  BY DEF Step, Status, ConnState
<1>2. DialTracked'
  BY DEF DialTracked
<1>3. PoolKeyed'
  BY DEF PoolKeyed, Born, Early
<1>4. CallKeyed'
  BY DEF CallKeyed, PoolKeyed, InManager, Born, Early
<1>5. Born'
  BY DEF Born, Early, NoClosedClient
<1>6. HeldDialed'
  BY DEF HeldDialed, HasClient, Born, Early, NoClosedClient
<1>7. OnlineIffClient'
  BY DEF OnlineIffClient, DialTracked
<1>8. NoLeak'
  BY DEF NoLeak, Born, Early, DialTracked, NoClosedClient
<1>9. NoClosedClient'
  BY DEF NoClosedClient, Born, Early, DialTracked, NoLeak
<1> QED
  BY <1>1, <1>2, <1>3, <1>4, <1>5, <1>6, <1>7, <1>8, <1>9

\* The actions that only move a call from one place to another.
LEMMA MoveInv ==
    ASSUME IInv, NEW k \in Calls,
           \/ LoadFail(k) \/ Wake(k) \/ Return(k) \/ SessionOk(k)
           \/ SessionFail(k) \/ SessionEnd(k) \/ CloseDone(k)
    PROVE  IInv'
<1> USE NoneAssumption DEF LoadFail, Wake, Return, SessionOk, SessionFail, SessionEnd,
        CloseDone, IInv, TypeOK, poolVars, managerVars, netVars
<1>1. TypeOK'
  BY DEF Step, Status, ConnState
<1>2. DialTracked'
  BY DEF DialTracked
<1>3. PoolKeyed'
  BY DEF PoolKeyed, Born, Early
<1>4. CallKeyed'
  BY DEF CallKeyed, PoolKeyed, InManager, Born, Early
<1>5. Born'
  BY DEF Born, Early, HasClient, DialTracked
<1>6. HeldDialed'
  BY DEF HeldDialed, HasClient, Born, Early, NoClosedClient
<1>7. OnlineIffClient'
  BY DEF OnlineIffClient, DialTracked
<1>8. NoLeak'
  BY DEF NoLeak, Born, Early, DialTracked, NoClosedClient
<1>9. NoClosedClient'
  BY DEF NoClosedClient, Born, Early, DialTracked, NoLeak
<1> QED
  BY <1>1, <1>2, <1>3, <1>4, <1>5, <1>6, <1>7, <1>8, <1>9

LEMMA StutterInv == IInv /\ UNCHANGED vars => IInv'
BY DEF vars, IInv, TypeOK, DialTracked, PoolKeyed, CallKeyed, Born, HeldDialed,
   OnlineIffClient, NoLeak, NoClosedClient

LEMMA NextInv == IInv /\ [Next]_vars => IInv'
<1> SUFFICES ASSUME IInv, [Next]_vars
             PROVE  IInv'
  OBVIOUS
<1>1. ASSUME NEW k \in Calls, NEW s \in Ids, Lookup(k, s) \/ Remove(k, s)
      PROVE  IInv'
  BY <1>1, LookupInv, RemoveInv
<1>2. ASSUME NEW k \in Calls, Work(k)
      PROVE  IInv'
  <2>1. ASSUME NEW c \in Config, LoadOk(k, c) PROVE IInv'
    BY <2>1, LoadOkInv
  <2>2. ASSUME NEW m \in Calls, CloseManager(k, m) PROVE IInv'
    BY <2>2, CloseManagerInv
  <2>3. CASE Insert(k)
    BY <2>3, InsertInv
  <2>4. CASE EnsureCheck(k)
    BY <2>4, EnsureCheckInv
  <2>5. CASE DialOk(k) \/ DialFail(k)
    BY <2>5, DialOkInv, DialFailInv
  <2>6. CASE Invalidate(k)
    BY <2>6, InvalidateInv
  <2>7. CASE \/ LoadFail(k) \/ Wake(k) \/ Return(k) \/ SessionOk(k)
             \/ SessionFail(k) \/ CloseDone(k)
    BY <2>7, MoveInv
  <2> QED
    BY <1>2, <2>1, <2>2, <2>3, <2>4, <2>5, <2>6, <2>7 DEF Work
<1>3. ASSUME NEW k \in Calls, RemoveAll(k) \/ SessionEnd(k)
      PROVE  IInv'
  BY <1>3, RemoveAllInv, MoveInv
<1>4. ASSUME NEW d \in Calls, TransportDies(d) \/ Watch(d)
      PROVE  IInv'
  BY <1>4, TransportDiesInv, WatchInv
<1>5. CASE UNCHANGED vars
  BY <1>5, StutterInv
<1> QED
  BY <1>1, <1>2, <1>3, <1>4, <1>5 DEF Next

\* IInv holds in every reachable state, whatever the number of calls.
THEOREM Invariance == Spec => []IInv
<1>1. Init => IInv
  BY InitInv
<1>2. IInv /\ [Next]_vars => IInv'
  BY NextInv
<1> QED
  BY <1>1, <1>2, PTL DEF Spec

-----------------------------------------------------------------------------
(* What IInv says of the code                                               *)

\* The variables keep their types.
THEOREM TypeCorrect == Spec => []TypeOK
<1>1. IInv => TypeOK
  BY DEF IInv
<1> QED
  BY <1>1, Invariance, PTL

\* At most one dial per manager, and none while it has a client.
THEOREM OneDialAtATime == Spec => []SingleFlight
<1>1. IInv => SingleFlight
  <2> SUFFICES ASSUME IInv, NEW k \in Calls, pc[k] = "dial"
               PROVE  /\ client[use[k]] = None
                      /\ \A j \in Calls : pc[j] = "dial" /\ use[j] = use[k] => j = k
    BY DEF SingleFlight
  <2>1. use[k] \in Calls /\ dialWait[use[k]] = k
    BY DEF IInv, TypeOK, DialTracked, CallKeyed, InManager
  <2>2. client[use[k]] = None
    BY <2>1, NoneAssumption DEF IInv, DialTracked
  <2>3. \A j \in Calls : pc[j] = "dial" /\ use[j] = use[k] => j = k
    BY <2>1 DEF IInv, DialTracked
  <2> QED
    BY <2>2, <2>3
<1> QED
  BY <1>1, Invariance, PTL

\* A manager is online exactly while it has a client.
THEOREM OnlineMeansClient == Spec => []OnlineIffClient
<1>1. IInv => OnlineIffClient
  BY DEF IInv
<1> QED
  BY <1>1, Invariance, PTL

\* Every live connection is some manager's client, and no manager offers a
\* client that was closed.
THEOREM ConnectionsAccountedFor == Spec => [](NoLeak /\ NoClosedClient)
<1>1. IInv => NoLeak /\ NoClosedClient
  BY DEF IInv
<1> QED
  BY <1>1, Invariance, PTL

\* No call ever gets a connection that was dialed for another server.
THEOREM ServersIsolated == Spec => []Isolation
<1>1. IInv => Isolation
  BY DEF IInv, HeldDialed, CallKeyed, Isolation, HasClient, InManager
<1> QED
  BY <1>1, Invariance, PTL

\* A pooled manager is removed, never replaced.
THEOREM Unreplaced == Spec => NeverReplaced
<1>1. IInv /\ [Next]_vars =>
        [\A s \in Ids : sessions[s] # None => sessions'[s] \in {sessions[s], None}]_vars
  <2> SUFFICES ASSUME IInv, [Next]_vars, NEW s \in Ids, sessions[s] # None
               PROVE  sessions'[s] \in {sessions[s], None}
    OBVIOUS
  <2> USE DEF IInv, TypeOK, poolVars
  <2>1. ASSUME NEW k \in Calls, Insert(k)
        PROVE  sessions'[s] \in {sessions[s], None}
    BY <2>1 DEF Insert, Beaten, CallKeyed
  <2>2. ASSUME NEW k \in Calls, NEW t \in Ids, Remove(k, t)
        PROVE  sessions'[s] \in {sessions[s], None}
    BY <2>2 DEF Remove
  <2>3. ASSUME NEW k \in Calls, RemoveAll(k)
        PROVE  sessions'[s] \in {sessions[s], None}
    BY <2>3 DEF RemoveAll
  <2>4. ASSUME NEW k \in Calls, Work(k), ~Insert(k)
        PROVE  sessions' = sessions
    BY <2>4 DEF Work, LoadOk, LoadFail, EnsureCheck, Wake, DialOk, DialFail, Return,
         SessionOk, SessionFail, Invalidate, CloseManager, CloseDone
  <2>5. ASSUME NEW k \in Calls, SessionEnd(k) \/ TransportDies(k) \/ Watch(k)
                                \/ \E t \in Ids : Lookup(k, t)
        PROVE  sessions' = sessions
    BY <2>5 DEF SessionEnd, TransportDies, Watch, Lookup
  <2>6. CASE UNCHANGED vars
    BY <2>6 DEF vars
  <2> QED
    BY <2>1, <2>2, <2>3, <2>4, <2>5, <2>6 DEF Next
<1> QED
  BY <1>1, Invariance, PTL DEF Spec, NeverReplaced

\* A live connection is closed only by a call that failed on it, or by one
\* that removed its manager.
THEOREM HealthySurvive == Spec => HealthyNotKilled
<1>1. IInv /\ [Next]_vars =>
        [\A d \in Calls : conn[d] = "up" /\ conn'[d] = "closed" =>
           \E k \in Calls : \/ pc[k] = "invalidate" /\ held[k] = d
                            \/ use[d] \in closing[k]]_vars
  <2> SUFFICES ASSUME IInv, [Next]_vars, NEW d \in Calls,
                      conn[d] = "up", conn'[d] = "closed"
               PROVE  \E k \in Calls : \/ pc[k] = "invalidate" /\ held[k] = d
                                       \/ use[d] \in closing[k]
    OBVIOUS
  <2> USE DEF IInv, TypeOK, netVars
  <2>1. ASSUME NEW k \in Calls, Invalidate(k)
        PROVE  pc[k] = "invalidate" /\ held[k] = d
    BY <2>1 DEF Invalidate, HasStill, DropClient
  <2>2. ASSUME NEW k \in Calls, NEW m \in Calls, CloseManager(k, m)
        PROVE  use[d] \in closing[k]
    BY <2>2 DEF CloseManager, DropClient, NoClosedClient
  <2>3. ASSUME NEW k \in Calls, DialOk(k) \/ TransportDies(k)
        PROVE  FALSE
    BY <2>3 DEF DialOk, EndDial, SpawnWatch, TransportDies
  <2>4. ASSUME NEW k \in Calls, Work(k), ~Invalidate(k), ~DialOk(k),
               ~\E m \in Calls : CloseManager(k, m)
        PROVE  conn' = conn
    BY <2>4 DEF Work, LoadOk, LoadFail, Insert, EnsureCheck, Wake, DialFail, Return,
         SessionOk, SessionFail, CloseDone
  <2>5. ASSUME NEW k \in Calls,
               \/ SessionEnd(k) \/ Watch(k) \/ RemoveAll(k)
               \/ \E s \in Ids : Lookup(k, s) \/ Remove(k, s)
        PROVE  conn' = conn
    BY <2>5 DEF SessionEnd, Watch, RemoveAll, Lookup, Remove
  <2>6. CASE UNCHANGED vars
    BY <2>6 DEF vars
  <2> QED
    BY <2>1, <2>2, <2>3, <2>4, <2>5, <2>6 DEF Next
<1> QED
  BY <1>1, Invariance, PTL DEF Spec, HealthyNotKilled

-----------------------------------------------------------------------------
LEMMA ServiceInitInv == ServiceInit => ServiceInv
<1> SUFFICES ASSUME ServiceInit PROVE ServiceInv
  OBVIOUS
<1>1. IInv
  BY InitInv DEF ServiceInit
<1>2. ServiceTypeOK
  BY <1>1, ServiceAssumption, NoneAssumption
  DEF ServiceInit, ServiceTypeOK, IInv, Place, Row, RowOf, RowStatus, Input, HasSecret
<1>3. HandlerReady
  BY DEF ServiceInit, HandlerReady, Init
<1>4. CredentialKept
  BY DEF ServiceInit, CredentialKept, HasSecret
<1> QED
  BY <1>1, <1>2, <1>3, <1>4 DEF ServiceInv

\* Every step of the service is a step of the pool or leaves the pool alone.
LEMMA ServiceStep ==
    ASSUME ServiceInv, [ServiceNext]_allVars
    PROVE  [Next]_vars
<1> USE DEF ServiceInv
<1>1. ASSUME NEW k \in Calls, NEW s \in Ids, Request(k, s)
      PROVE  UNCHANGED vars
  BY <1>1 DEF Request, Begin, BeginUse, Create, BeginUpdate
<1>2. ASSUME NEW k \in Calls, PoolEnter(k)
      PROVE  Next
  <2>1. target[k] \in Ids
    BY <1>2 DEF PoolEnter, Forget, HandlerReady, ServiceTypeOK
  <2> QED
    BY <1>2, <2>1 DEF PoolEnter, Forget, Next
<1>3. ASSUME NEW k \in Calls, PoolLoadRow(k)
      PROVE  [Next]_vars
  BY <1>3 DEF PoolLoadRow, Next, Work
<1>4. ASSUME NEW k \in Calls, PoolLoadCred(k)
      PROVE  Next
  <2> DEFINE c == [id |-> target[k],
                   ver |-> [addr |-> seen[k].addr, auth |-> seen[k].auth,
                            secret |-> cred[target[k]]]]
  <2>1. CASE CanLoad(k)
    <3>1. target[k] \in Ids /\ seen[k] \in Row
      BY <1>4 DEF PoolLoadCred, HandlerReady, ServiceTypeOK
    <3>2. cred[target[k]] \in Secrets
      BY <2>1, <3>1 DEF CanLoad, ServiceTypeOK
    <3>3. c \in Config
      BY <3>1, <3>2, ServiceAssumption DEF Config, Row
    <3>4. LoadOk(k, c)
      BY <1>4, <2>1 DEF PoolLoadCred
    <3> QED
      BY <3>3, <3>4 DEF Next, Work
  <2>2. CASE ~CanLoad(k)
    BY <1>4, <2>2 DEF PoolLoadCred, Next, Work
  <2> QED
    BY <2>1, <2>2
<1>5. ASSUME NEW k \in Calls, PoolWork(k) \/ PoolEvent(k)
      PROVE  Next
  BY <1>5 DEF PoolWork, PoolEvent, Next, Work
<1>6. ASSUME NEW k \in Calls,
             \/ WriteConnecting(k) \/ ConnectDone(k) \/ UseDone(k)
             \/ UpsertCredential(k) \/ IconFails(k) \/ Forgotten(k) \/ Save(k) \/ Erase(k)
             \/ LoadRow(k) \/ LoadCred(k) \/ TestDial(k) \/ HangUp(k)
      PROVE  UNCHANGED vars
  BY <1>6 DEF WriteConnecting, ConnectDone, UseDone, UpsertCredential, IconFails, Forgotten,
     Save, Erase, Cascade, LoadRow, LoadCred, TestDial, HangUp, Settle, LoadRefused
<1>7. CASE UNCHANGED allVars
  BY <1>7 DEF allVars
<1> QED
  BY <1>1, <1>2, <1>3, <1>4, <1>5, <1>6, <1>7 DEF ServiceNext, Handle

-----------------------------------------------------------------------------
(* ServiceInv is inductive.  Own is what is left to show of it once the     *)
(* pool's part is known to survive.                                         *)

Own == ServiceTypeOK /\ HandlerReady /\ CredentialKept

LEMMA BeginOwn ==
    ASSUME ServiceInv, IInv', NEW k \in Calls, NEW s \in Ids, NEW what, NEW first \in Place \ {"idle", "credential", "loadcred"},
           what # "use", Begin(k, s, what, first)
    PROVE  Own'
<1> USE NoneAssumption, ServiceAssumption DEF Begin, Go, vars, storeVars, ServiceInv
<1>1. ServiceTypeOK'
  BY DEF ServiceTypeOK, IInv, Place
<1>2. HandlerReady'
  BY DEF HandlerReady, ServiceTypeOK
<1>3. CredentialKept'
  BY DEF CredentialKept, HandlerReady, ServiceTypeOK
<1> QED
  BY <1>1, <1>2, <1>3 DEF Own

LEMMA BeginUseOwn ==
    ASSUME ServiceInv, IInv', NEW k \in Calls, NEW s \in Ids, BeginUse(k, s)
    PROVE  Own'
<1> USE NoneAssumption, ServiceAssumption DEF BeginUse, Go, vars, storeVars, ServiceInv
<1>1. ServiceTypeOK'
  BY DEF ServiceTypeOK, IInv, Place
<1>2. HandlerReady'
  BY DEF HandlerReady, ServiceTypeOK
<1>3. CredentialKept'
  BY DEF CredentialKept, HandlerReady, ServiceTypeOK
<1> QED
  BY <1>1, <1>2, <1>3 DEF Own

LEMMA CreateOwn ==
    ASSUME ServiceInv, IInv', NEW k \in Calls, NEW s \in Ids, NEW i \in Inputs, Create(k, s, i)
    PROVE  Own'
<1> USE NoneAssumption, ServiceAssumption DEF Create, Go, HasSecret, vars, storeVars, ServiceInv
<1>a. i \in Input /\ \A st \in RowStatus : RowOf(i, st) \in Row
  BY DEF Input, Row, RowOf
<1>b. s \in Ids /\ row[s].status \in RowStatus /\ "unknown" \in RowStatus
  BY DEF ServiceTypeOK, Row, RowStatus
<1>1. ServiceTypeOK'
  BY <1>a, <1>b DEF ServiceTypeOK, IInv, Place, Input
<1>2. HandlerReady'
  BY <1>a, <1>b DEF HandlerReady, ServiceTypeOK
<1>3. CredentialKept'
  BY DEF CredentialKept, HandlerReady, ServiceTypeOK
<1> QED
  BY <1>1, <1>2, <1>3 DEF Own

LEMMA BeginUpdateOwn ==
    ASSUME ServiceInv, IInv', NEW k \in Calls, NEW s \in Ids, NEW i \in Inputs, BeginUpdate(k, s, i)
    PROVE  Own'
<1> USE NoneAssumption, ServiceAssumption DEF BeginUpdate, Go, NeedsSecret, HasSecret, vars, storeVars, ServiceInv
<1>a. i \in Input /\ \A st \in RowStatus : RowOf(i, st) \in Row
  BY DEF Input, Row, RowOf
<1>b. s \in Ids /\ row[s].status \in RowStatus /\ "unknown" \in RowStatus
  BY DEF ServiceTypeOK, Row, RowStatus
<1>1. ServiceTypeOK'
  BY <1>a, <1>b DEF ServiceTypeOK, IInv, Place, Input
<1>2. HandlerReady'
  BY <1>a, <1>b DEF HandlerReady, ServiceTypeOK
<1>3. CredentialKept'
  BY DEF CredentialKept, HandlerReady, ServiceTypeOK
<1> QED
  BY <1>1, <1>2, <1>3 DEF Own

LEMMA WriteConnectingOwn ==
    ASSUME ServiceInv, IInv', NEW k \in Calls, WriteConnecting(k)
    PROVE  Own'
<1> USE NoneAssumption, ServiceAssumption DEF WriteConnecting, Go, StoreUpdate, Writable, vars, storeVars, ServiceInv
<1>a. [copy[k] EXCEPT !.status = "connecting"] \in Row
  <2>1. copy[k] \in Row /\ "connecting" \in RowStatus
    BY DEF HandlerReady, ServiceTypeOK, RowStatus, Fails
  <2> QED
    BY <2>1 DEF Row
<1>b. copy' \in [Calls -> Row \cup {None}] /\ copy'[k] \in Row
  BY <1>a DEF HandlerReady, ServiceTypeOK
<1>1. ServiceTypeOK'
  BY <1>a, <1>b DEF ServiceTypeOK, HandlerReady, IInv, Place
<1>2. HandlerReady'
  BY <1>b DEF HandlerReady, ServiceTypeOK
<1>3. CredentialKept'
  BY DEF CredentialKept, HandlerReady, ServiceTypeOK
<1> QED
  BY <1>1, <1>2, <1>3 DEF Own

LEMMA SettleOwn ==
    ASSUME ServiceInv, IInv', NEW k \in Calls, NEW st \in RowStatus, at[k] \notin {"idle", "done"}, kind[k] # "use",
           Settle(k, st)
    PROVE  Own'
<1> USE NoneAssumption, ServiceAssumption DEF Settle, Go, StoreUpdate, Writable, vars, storeVars, ServiceInv
<1>a. [copy[k] EXCEPT !.status = st] \in Row
  <2>1. copy[k] \in Row /\ st \in RowStatus
    BY DEF HandlerReady, ServiceTypeOK, RowStatus, Fails
  <2> QED
    BY <2>1 DEF Row
<1>b. copy' \in [Calls -> Row \cup {None}] /\ copy'[k] \in Row
  BY <1>a DEF HandlerReady, ServiceTypeOK
<1>1. ServiceTypeOK'
  BY <1>a, <1>b DEF ServiceTypeOK, HandlerReady, IInv, Place
<1>2. HandlerReady'
  BY <1>b DEF HandlerReady, ServiceTypeOK
<1>3. CredentialKept'
  BY DEF CredentialKept, HandlerReady, ServiceTypeOK
<1> QED
  BY <1>1, <1>2, <1>3 DEF Own

LEMMA UseDoneOwn ==
    ASSUME ServiceInv, IInv', NEW k \in Calls, UseDone(k) \/ IconFails(k)
    PROVE  Own'
<1> USE NoneAssumption, ServiceAssumption DEF UseDone, IconFails, Go, vars, storeVars, ServiceInv
<1>1. ServiceTypeOK'
  BY DEF ServiceTypeOK, HandlerReady, IInv, Place, Row, RowStatus
<1>2. HandlerReady'
  BY DEF HandlerReady, ServiceTypeOK
<1>3. CredentialKept'
  BY DEF CredentialKept, HandlerReady, ServiceTypeOK
<1> QED
  BY <1>1, <1>2, <1>3 DEF Own

LEMMA UpsertCredentialOwn ==
    ASSUME ServiceInv, IInv', NEW k \in Calls, UpsertCredential(k)
    PROVE  Own'
<1> USE NoneAssumption, ServiceAssumption DEF UpsertCredential, Go, Writable, HasSecret, Input, vars, storeVars, ServiceInv
<1>a. target[k] \in Ids /\ form[k] \in Input /\ HasSecret(form[k])
  BY DEF HandlerReady, ServiceTypeOK
<1>1. ServiceTypeOK'
  BY <1>a DEF ServiceTypeOK, IInv, Place
<1>2. HandlerReady'
  BY DEF HandlerReady, ServiceTypeOK
<1>3. CredentialKept'
  BY DEF CredentialKept, HandlerReady, ServiceTypeOK
<1> QED
  BY <1>1, <1>2, <1>3 DEF Own

LEMMA ForgottenOwn ==
    ASSUME ServiceInv, IInv', NEW k \in Calls, Forgotten(k)
    PROVE  Own'
<1> USE NoneAssumption, ServiceAssumption DEF Forgotten, Go, Fails, vars, storeVars, ServiceInv
<1>a. [copy[k] EXCEPT !.status = "offline"] \in Row
  <2>1. copy[k] \in Row /\ "offline" \in RowStatus
    BY DEF HandlerReady, ServiceTypeOK, RowStatus, Fails
  <2> QED
    BY <2>1 DEF Row
<1>b. copy' \in [Calls -> Row \cup {None}] /\ copy'[k] \in Row
  BY <1>a DEF HandlerReady, ServiceTypeOK
<1>1. ServiceTypeOK'
  BY <1>a, <1>b DEF ServiceTypeOK, HandlerReady, IInv, Place
<1>2. HandlerReady'
  BY <1>b DEF HandlerReady, ServiceTypeOK
<1>3. CredentialKept'
  BY DEF CredentialKept, HandlerReady, ServiceTypeOK
<1> QED
  BY <1>1, <1>2, <1>3 DEF Own

LEMMA SaveOwn ==
    ASSUME ServiceInv, IInv', NEW k \in Calls, Save(k)
    PROVE  Own'
<1> USE NoneAssumption, ServiceAssumption DEF Save, Go, StoreUpdate, Writable, vars, storeVars, ServiceInv
<1>1. ServiceTypeOK'
  BY DEF ServiceTypeOK, HandlerReady, IInv, Place, Row, RowStatus
<1>2. HandlerReady'
  BY DEF HandlerReady, ServiceTypeOK
<1>3. CredentialKept'
  BY DEF CredentialKept, HandlerReady, ServiceTypeOK
<1> QED
  BY <1>1, <1>2, <1>3 DEF Own

LEMMA EraseOwn ==
    ASSUME ServiceInv, IInv', NEW k \in Calls, Erase(k)
    PROVE  Own'
<1> USE NoneAssumption, ServiceAssumption DEF Erase, Cascade, Go, Writable, vars, storeVars, ServiceInv
<1>1. ServiceTypeOK'
  <2>1. exists' \in [Ids -> {"never", "live", "deleted"}]
    BY DEF ServiceTypeOK
  <2>2. cred' \in [Ids -> Secrets \cup {None}]
    BY DEF ServiceTypeOK
  <2>3. at' \in [Calls -> Place]
    BY DEF ServiceTypeOK, Place
  <2> QED
    BY <2>1, <2>2, <2>3 DEF ServiceTypeOK, IInv
<1>2. HandlerReady'
  BY DEF HandlerReady, ServiceTypeOK
<1>3. CredentialKept'
  BY DEF CredentialKept, HandlerReady, ServiceTypeOK
<1> QED
  BY <1>1, <1>2, <1>3 DEF Own

\* Answering with some status covers Connect's and Test's ends and a refused load.
LEMMA EndOwn ==
    ASSUME ServiceInv, IInv', NEW k \in Calls, ConnectDone(k) \/ TestDial(k)
    PROVE  Own'
<1>1. CASE ConnectDone(k)
  BY <1>1, SettleOwn DEF ConnectDone, RowStatus, Fails
<1>2. CASE TestDial(k)
  <2>1. kind[k] # "use" /\ at[k] \notin {"idle", "done"}
    BY <1>2 DEF TestDial, ServiceInv, HandlerReady
  <2> QED
    BY <1>2, <2>1, SettleOwn DEF TestDial, RowStatus, Fails
<1> QED
  BY <1>1, <1>2

LEMMA LoadOwn ==
    ASSUME ServiceInv, IInv', NEW k \in Calls, LoadRow(k) \/ LoadCred(k)
    PROVE  Own'
<1> USE NoneAssumption, ServiceAssumption DEF vars, storeVars, ServiceInv
<1>1. ASSUME LoadRefused(k) PROVE Own'
  <2>1. CASE kind[k] = "test" /\ Go(k, "done") /\ UNCHANGED <<vars, storeVars, kind, target, copy, form, seen, hung>>
    <3>1. ServiceTypeOK'
      BY <2>1 DEF ServiceTypeOK, IInv, Place, Go
    <3>2. HandlerReady'
      BY <2>1 DEF HandlerReady, ServiceTypeOK, Go, LoadRow, LoadCred
    <3>3. CredentialKept'
      BY <2>1 DEF CredentialKept
    <3> QED
      BY <3>1, <3>2, <3>3 DEF Own
  <2>2. CASE kind[k] = "update" /\ \E st \in Fails : Settle(k, st)
    BY <2>2, SettleOwn DEF RowStatus, Fails, LoadRow, LoadCred
  <2> QED
    BY <1>1, <2>1, <2>2 DEF LoadRefused
<1>2. ASSUME LoadRow(k), ~LoadRefused(k) PROVE Own'
  <2> USE <1>2 DEF LoadRow, Go
  <2>1. target[k] \in Ids
    BY DEF HandlerReady, ServiceTypeOK
  <2>2. ServiceTypeOK'
    BY <2>1 DEF ServiceTypeOK, IInv, Place
  <2>3. HandlerReady'
    BY <2>1 DEF HandlerReady, ServiceTypeOK
  <2>4. CredentialKept'
    BY DEF CredentialKept
  <2> QED
    BY <2>2, <2>3, <2>4 DEF Own
<1>3. ASSUME LoadCred(k), ~LoadRefused(k) PROVE Own'
  <2> USE <1>3 DEF LoadCred, Go
  <2>1. ServiceTypeOK'
    BY DEF ServiceTypeOK, IInv, Place
  <2>2. HandlerReady'
    BY DEF HandlerReady, ServiceTypeOK
  <2>3. CredentialKept'
    BY DEF CredentialKept
  <2> QED
    BY <2>1, <2>2, <2>3 DEF Own
<1> QED
  BY <1>1, <1>2, <1>3

\* A step of the pool on its own leaves the rows and the handlers alone, and
\* keeps the call's server.
LEMMA PoolOwn ==
    ASSUME ServiceInv, IInv', NEW k \in Calls,
           PoolEnter(k) \/ PoolWork(k) \/ PoolEvent(k) \/ PoolLoadRow(k) \/ PoolLoadCred(k)
    PROVE  Own'
<1> USE NoneAssumption, ServiceAssumption DEF serviceVars, ServiceInv
<1>1. UNCHANGED <<exists, row, cred, kind, target, at, copy, form, hung>>
  BY DEF PoolEnter, Forget, PoolWork, PoolEvent, PoolLoadRow, PoolLoadCred, storeVars
<1>2. /\ seen' \in [Calls -> Row \cup {None}]
      /\ \A j \in Calls : seen[j] # None => seen'[j] # None
  <2>1. CASE PoolLoadRow(k)
    BY <2>1 DEF PoolLoadRow, ServiceTypeOK, HandlerReady
  <2>2. CASE ~PoolLoadRow(k)
    BY <2>2 DEF PoolEnter, Forget, PoolWork, PoolEvent, PoolLoadCred, ServiceTypeOK
  <2> QED
    BY <2>1, <2>2
<1>3. ServiceTypeOK'
  BY <1>1, <1>2 DEF ServiceTypeOK, IInv
<1>4. \A j \in Calls : pc'[j] # "idle" =>
        at[j] # "idle" /\ target[j] # None /\ srv'[j] = target[j]
  <2> USE DEF HandlerReady, ServiceTypeOK, IInv, TypeOK
  <2>1. CASE PoolEnter(k)
    BY <2>1 DEF PoolEnter, Forget, Lookup, Remove
  <2>2. CASE PoolLoadRow(k) \/ PoolLoadCred(k)
    BY <2>2 DEF PoolLoadRow, PoolLoadCred, LoadOk, LoadFail, vars
  <2>3. CASE PoolWork(k)
    BY <2>3 DEF PoolWork, Insert, EnsureCheck, Wake, DialOk, DialFail, Return, Invalidate,
       CloseDone, CloseManager, SessionOk, SessionFail
  <2>4. CASE PoolEvent(k)
    BY <2>4 DEF PoolEvent, SessionEnd, TransportDies, Watch, callVars
  <2> QED
    BY <2>1, <2>2, <2>3, <2>4
<1>5. HandlerReady'
  BY <1>1, <1>2, <1>4 DEF HandlerReady
<1>6. CredentialKept'
  BY <1>1 DEF CredentialKept
<1> QED
  BY <1>3, <1>5, <1>6 DEF Own

LEMMA HangUpOwn ==
    ASSUME ServiceInv, IInv', NEW k \in Calls, HangUp(k)
    PROVE  Own'
BY DEF HangUp, Own, ServiceInv, ServiceTypeOK, IInv, HandlerReady, CredentialKept,
   vars, storeVars

LEMMA ServiceNextInv ==
    ASSUME ServiceInv, [ServiceNext]_allVars
    PROVE  ServiceInv'
<1>1. IInv'
  BY ServiceStep, NextInv DEF ServiceInv
<1>2. ASSUME NEW k \in Calls, NEW s \in Ids, Request(k, s)
      PROVE  Own'
  <2>1. CASE Begin(k, s, "connect", "connecting")
    BY <1>1, <2>1, BeginOwn DEF Place
  <2>2. CASE Begin(k, s, "disconnect", "forget")
    BY <1>1, <2>2, BeginOwn DEF Place
  <2>3. CASE Begin(k, s, "delete", "forget")
    BY <1>1, <2>3, BeginOwn DEF Place
  <2>4. CASE Begin(k, s, "test", "loadrow")
    BY <1>1, <2>4, BeginOwn DEF Place
  <2>5. CASE BeginUse(k, s)
    BY <1>1, <2>5, BeginUseOwn
  <2>6. ASSUME NEW i \in Inputs, Create(k, s, i) \/ BeginUpdate(k, s, i)
        PROVE  Own'
    BY <1>1, <2>6, CreateOwn, BeginUpdateOwn
  <2> QED
    BY <1>2, <2>1, <2>2, <2>3, <2>4, <2>5, <2>6 DEF Request
<1>3. ASSUME NEW k \in Calls, Handle(k) \/ PoolEvent(k) \/ HangUp(k)
      PROVE  Own'
  BY <1>1, <1>3, WriteConnectingOwn, EndOwn, UseDoneOwn, UpsertCredentialOwn, ForgottenOwn,
     SaveOwn, EraseOwn, LoadOwn, PoolOwn, HangUpOwn DEF Handle
<1>4. CASE UNCHANGED allVars
  BY <1>1, <1>4 DEF Own, ServiceInv, ServiceTypeOK, IInv, HandlerReady, CredentialKept,
     allVars, vars, serviceVars
<1> QED
  BY <1>1, <1>2, <1>3, <1>4 DEF ServiceNext, Own, ServiceInv

\* ServiceInv holds in every reachable state of the service.
THEOREM ServiceInvariance == ServiceSpec => []ServiceInv
<1>1. ServiceInit => ServiceInv
  BY ServiceInitInv
<1>2. ServiceInv /\ [ServiceNext]_allVars => ServiceInv'
  BY ServiceNextInv
<1> QED
  BY <1>1, <1>2, PTL DEF ServiceSpec

-----------------------------------------------------------------------------
\* A server has a credential exactly as long as it has a row.
THEOREM RowsKeepCredentials == ServiceSpec => []CredentialKept
<1>1. ServiceInv => CredentialKept
  BY DEF ServiceInv
<1> QED
  BY <1>1, ServiceInvariance, PTL

\* Every action of the service is one of the pool or leaves the pool alone, so
\* what is proved of the pool holds here.
LEMMA ServiceImplementsPool == ServiceSpec => Spec
<1>1. ServiceInit => Init
  BY DEF ServiceInit
<1>2. ServiceInv /\ [ServiceNext]_allVars => [Next]_vars
  BY ServiceStep
<1> QED
  BY <1>1, <1>2, ServiceInvariance, PTL DEF ServiceSpec, Spec

\* No request for one server ever works on another's connection.
THEOREM RequestsIsolated == ServiceSpec => []Isolation
BY ServiceImplementsPool, ServersIsolated, PTL

=============================================================================
