--------------------------- MODULE WebServersProofs ---------------------------
(***************************************************************************)
(* Theorems about the servers on the page, for any number of servers and    *)
(* requests: the session, which lists them and pulls their numbers whatever *)
(* is lost (WebSession), and the Servers window, with its forms, tests and  *)
(* dialogs (ServerManager).                                                 *)
(***************************************************************************)
EXTENDS WebSession, ServerManager, FiniteSetTheorems, TLAPS

-----------------------------------------------------------------------------
(* The session: the invariant, in four parts, one for each group of variables, *)
(* and the action property about the numbers of a row.                       *)

Row == [status : Status, conn : BOOLEAN, numbers : BOOLEAN]
ListRequest == {Free} \cup [at : {"sent", "error"}] \cup [at : {"ok"}, snap : [Ids -> Known]]
Unanswered == [op : Ops, id : Ids, at : {"sent", "error"}]
Answered == [op : Ops, id : Ids, at : {"ok"}, live : BOOLEAN]
Call == {Free} \cup Unanswered \cup Answered

RowsInv == rows \in [Ids -> {NoRow} \cup Row] /\ failed \in BOOLEAN /\ loading \in BOOLEAN
ListsInv == backend \in [Ids -> Known] /\ lists \in [Lists -> ListRequest]
CallsInv == calls \in [Calls -> Call]

(* A pull q of the servers ids.                                              *)
PullOf(q, ids) ==
    /\ q \in [queue : SUBSET Ids, busy : SUBSET Ids]
    /\ q.queue \cup q.busy \subseteq ids /\ q.queue \cap q.busy = {}
    /\ Cardinality(q.busy) <= Workers
    /\ q.queue # {} => Cardinality(q.busy) = Workers

PullsInv ==
    /\ key \subseteq Ids
    /\ pulls \in [Pulls -> [queue : SUBSET Ids, busy : SUBSET Ids]]
    /\ \A p \in Pulls : PullOf(pulls[p], key)

BoundsInv == ops \in Nat /\ faults \in Nat

IInv == RowsInv /\ ListsInv /\ CallsInv /\ PullsInv /\ BoundsInv

LEMMA UnlistedRow == ~NoRow.conn /\ ~NoRow.numbers
  BY DEF NoRow

LEMMA IInvImplies == IInv => SessionInv
<1> SUFFICES ASSUME IInv PROVE SessionInv
  OBVIOUS
<1>1. TypeOK
  BY DEF IInv, RowsInv, ListsInv, CallsInv, PullsInv, BoundsInv, TypeOK, Row, ListRequest, Call,
         Unanswered, Answered
<1>2. \A p \in Pulls : PullOf(pulls[p], key)
  BY DEF IInv, PullsInv
<1>3. \A s \in Ids : ~Listed(s) => ~rows[s].conn /\ ~rows[s].numbers
  BY UnlistedRow DEF Listed
<1> QED
  BY <1>1, <1>2, <1>3 DEF SessionInv, PullOf

-----------------------------------------------------------------------------
(* Pulls: how many servers are being fetched.                                *)

LEMMA IdsFinite ==
    ASSUME NEW S \in SUBSET Ids
    PROVE  IsFiniteSet(S) /\ Cardinality(S) \in Nat
  BY SessionAssumption, FS_Subset, FS_CardinalityType

LEMMA EmptyPull == ASSUME NEW ids \in SUBSET Ids PROVE PullOf(NoPull, ids)
  BY SessionAssumption, FS_EmptySet DEF PullOf, NoPull

LEMMA FirstPull ==
    ASSUME NEW ids \in SUBSET Ids, NEW first \in SUBSET ids,
           \/ Cardinality(first) = Workers
           \/ first = ids /\ Cardinality(ids) < Workers
    PROVE  PullOf([queue |-> ids \ first, busy |-> first], ids)
<1> DEFINE q == [queue |-> ids \ first, busy |-> first]
<1>1. q \in [queue : SUBSET Ids, busy : SUBSET Ids] /\ q.queue = ids \ first /\ q.busy = first
  OBVIOUS
<1>2. Cardinality(first) <= Workers /\ (q.queue # {} => Cardinality(first) = Workers)
  BY SessionAssumption, IdsFinite
<1> HIDE DEF q
<1> QED
  BY <1>1, <1>2 DEF PullOf, q

(* A worker that is done takes the next server, or leaves.                   *)
LEMMA WorkerDone ==
    ASSUME PullsInv, NEW p \in Pulls, NEW s \in pulls[p].busy, NextPull(p, s)
    PROVE  /\ pulls' \in [Pulls -> [queue : SUBSET Ids, busy : SUBSET Ids]]
           /\ \A q \in Pulls : PullOf(pulls'[q], key)
<1> DEFINE Q == pulls[p].queue
           B == pulls[p].busy
<1>1. Q \subseteq Ids /\ B \subseteq Ids /\ Q \cup B \subseteq key /\ Q \cap B = {}
      /\ Cardinality(B) <= Workers /\ (Q # {} => Cardinality(B) = Workers)
  BY DEF PullsInv, PullOf
<1>2. IsFiniteSet(B \ {s}) /\ Cardinality(B \ {s}) = Cardinality(B) - 1 /\ Cardinality(B) \in Nat
  BY <1>1, IdsFinite, FS_RemoveElement
<1>3. CASE Q = {} /\ pulls' = [pulls EXCEPT ![p].busy = B \ {s}]
  <2> DEFINE r == [queue |-> Q, busy |-> B \ {s}]
  <2>1. r \in [queue : SUBSET Ids, busy : SUBSET Ids] /\ r.queue = {} /\ r.busy = B \ {s}
    BY <1>1, <1>3
  <2> HIDE DEF r
  <2>5. pulls' = [pulls EXCEPT ![p] = [@ EXCEPT !.busy = B \ {s}]]
    BY <1>3
  <2>6. [pulls[p] EXCEPT !.busy = B \ {s}] = r
    BY DEF PullsInv, r
  <2>2. pulls' = [pulls EXCEPT ![p] = r]
    BY <2>5, <2>6
  <2>3. Cardinality(B \ {s}) <= Workers
    BY <1>1, <1>2, SessionAssumption
  <2>4. PullOf(r, key)
    BY <1>1, <2>1, <2>3 DEF PullOf
  <2> QED
    BY <2>1, <2>2, <2>4 DEF PullsInv
<1>4. ASSUME NEW t \in Q,
             pulls' = [pulls EXCEPT ![p] = [queue |-> @.queue \ {t}, busy |-> (B \ {s}) \cup {t}]]
      PROVE  /\ pulls' \in [Pulls -> [queue : SUBSET Ids, busy : SUBSET Ids]]
             /\ \A q \in Pulls : PullOf(pulls'[q], key)
  <2> DEFINE r == [queue |-> Q \ {t}, busy |-> (B \ {s}) \cup {t}]
  <2>1. r \in [queue : SUBSET Ids, busy : SUBSET Ids] /\ r.queue = Q \ {t} /\ r.busy = (B \ {s}) \cup {t}
    BY <1>1, <1>4
  <2>2. pulls' = [pulls EXCEPT ![p] = r]
    BY <1>4
  <2>3. t \notin B \ {s}
    BY <1>1, <1>4
  <2>4. Cardinality((B \ {s}) \cup {t}) = Workers
    <3>1. Cardinality((B \ {s}) \cup {t}) = Cardinality(B \ {s}) + 1
      BY <1>2, <2>3, FS_AddElement
    <3>2. Cardinality(B) = Workers
      BY <1>1, <1>4
    <3> QED
      BY <1>2, <3>1, <3>2
  <2> HIDE DEF r
  <2>5. PullOf(r, key)
    BY <1>1, <2>1, <2>3, <2>4, SessionAssumption DEF PullOf
  <2> QED
    BY <2>1, <2>2, <2>5 DEF PullsInv
<1> QED
  BY <1>3, <1>4 DEF NextPull

-----------------------------------------------------------------------------
(* Rows: what an action may make of one, for the invariant and for the        *)
(* numbers alike.                                                            *)

(* A row gains numbers only while it is connected, and stays connected.       *)
NoGain(old, new) == new.numbers /\ ~old.numbers => old.conn /\ new.conn
RowStep == rows' \in [Ids -> {NoRow} \cup Row] /\ \A s \in Ids : NoGain(rows[s], rows'[s])

LEMMA Kept == ASSUME RowsInv, rows' = rows PROVE RowStep
  BY DEF RowStep, RowsInv, NoGain

LEMMA Patched ==
    ASSUME RowsInv, NEW s \in Ids, NEW r \in {NoRow} \cup Row, NoGain(rows[s], r),
           rows' = rows \/ rows' = [rows EXCEPT ![s] = r]
    PROVE  RowStep
  BY DEF RowStep, RowsInv, NoGain

LEMMA AnsweredRow ==
    ASSUME NEW live \in BOOLEAN
    PROVE  LET r == toSessionServer(live) IN r \in Row /\ r.conn = live /\ ~r.numbers
  BY DEF toSessionServer, Row, Status

LEMMA KeptNumbers ==
    ASSUME NEW old \in {NoRow} \cup Row, NEW new \in Row, ~new.numbers
    PROVE  LET r == keepMetrics(old, new) IN r \in Row /\ r.numbers = old.numbers
<1>1. old.numbers \in BOOLEAN
  <2>1. CASE old = NoRow
    BY <2>1 DEF NoRow
  <2>2. CASE old \in Row
    BY <2>2 DEF Row
  <2> QED
    BY <2>1, <2>2
<1>2. keepMetrics(old, new) = [status |-> new.status, conn |-> new.conn,
                               numbers |-> new.numbers \/ old.numbers]
  BY DEF keepMetrics, Row
<1>3. (new.numbers \/ old.numbers) = old.numbers
  BY <1>1
<1> QED
  BY <1>1, <1>2, <1>3 DEF Row

-----------------------------------------------------------------------------
(* The list requests.                                                        *)

LEMMA ListShapes ==
    ASSUME NEW r \in ListRequest
    PROVE  /\ r.at = "ok" => r \in [at : {"ok"}, snap : [Ids -> Known]]
           /\ r.at = "error" => r \in [at : {"sent", "error"}]
  BY DEF ListRequest, Free

LEMMA SentList == ASSUME ListsInv, NEW l \in Lists, StartList(l), backend' = backend PROVE ListsInv'
<1>1. [at |-> "sent"] \in ListRequest
  BY DEF ListRequest
<1> QED
  BY <1>1 DEF ListsInv, StartList

LEMMA ListSteps ==
    ASSUME ListsInv, BoundsInv, NEW l \in Lists, ListServed(l) \/ ListLost(l)
    PROVE  ListsInv' /\ BoundsInv'
<1>1. CASE ListServed(l)
  <2>1. [at |-> "ok", snap |-> backend] \in ListRequest
    BY DEF ListsInv, ListRequest
  <2> QED
    BY <1>1, <2>1 DEF ListServed, ListsInv, BoundsInv
<1>2. CASE ListLost(l)
  <2>1. Free \in ListRequest /\ [at |-> "error"] \in ListRequest
    BY DEF ListRequest
  <2>2. lists' \in [Lists -> ListRequest]
    BY <1>2, <2>1 DEF ListLost, ListsInv
  <2>3. faults' \in Nat
    BY <1>2 DEF ListLost, BoundsInv
  <2> QED
    BY <1>2, <2>2, <2>3 DEF ListLost, ListsInv, BoundsInv
<1> QED
  BY <1>1, <1>2

LEMMA Refreshes ==
    ASSUME IInv, NEW l \in Lists, refreshServers(l)
    PROVE  RowStep /\ failed' \in BOOLEAN /\ loading' \in BOOLEAN /\ ListsInv'
<1>1. \A s \in Ids : rows'[s] \in {NoRow} \cup Row /\ NoGain(rows[s], rows'[s])
  <2>1. CASE lists[l].at = "ok"
    <3> SUFFICES ASSUME NEW s \in Ids
                 PROVE  rows'[s] \in {NoRow} \cup Row /\ NoGain(rows[s], rows'[s])
      OBVIOUS
    <3> DEFINE new == toSessionServer(lists[l].snap[s] = "live")
    <3>1. rows[s] \in {NoRow} \cup Row
      BY DEF IInv, RowsInv
    <3>2. new \in Row /\ ~new.numbers
      BY AnsweredRow
    <3>3. rows'[s] = IF lists[l].snap[s] \in Saved THEN keepMetrics(rows[s], new) ELSE NoRow
      BY <2>1 DEF refreshServers
    <3> HIDE DEF new
    <3>4. keepMetrics(rows[s], new) \in Row /\ keepMetrics(rows[s], new).numbers = rows[s].numbers
      BY <3>1, <3>2, KeptNumbers
    <3> QED
      BY <3>3, <3>4, UnlistedRow DEF NoGain
  <2>2. CASE lists[l].at # "ok"
    BY <2>2, UnlistedRow DEF refreshServers, NoGain
  <2> QED
    BY <2>1, <2>2
<1>2. rows' \in [Ids -> {NoRow} \cup Row]
  BY <1>1 DEF refreshServers
<1>3. failed' \in BOOLEAN /\ loading' \in BOOLEAN
  BY DEF refreshServers
<1>4. ListsInv'
  BY DEF IInv, ListsInv, ListRequest, refreshServers
<1> QED
  BY <1>1, <1>2, <1>3, <1>4 DEF RowStep

-----------------------------------------------------------------------------
(* The other requests.                                                       *)

LEMMA CallShapes ==
    ASSUME CallsInv, NEW k \in Calls, calls[k] # Free
    PROVE  /\ calls[k].op \in Ops /\ calls[k].id \in Ids
           /\ calls[k].at = "ok" => calls[k].live \in BOOLEAN
  BY DEF CallsInv, Call, Unanswered, Answered

LEMMA Ends == ASSUME CallsInv, NEW k \in Calls, Ended(k) PROVE CallsInv'
  BY DEF CallsInv, Call, Ended

LEMMA Sends ==
    ASSUME IInv, NEW k \in Calls, NEW op \in Ops, NEW s \in Ids, Send(k, op, s), RowStep
    PROVE  RowStep /\ IInv'
<1>1. [op |-> op, id |-> s, at |-> "sent"] \in Call
  BY DEF Call, Unanswered
<1>2. CallsInv'
  BY <1>1 DEF IInv, CallsInv, Send
<1>3. ops' \in Nat
  BY DEF IInv, BoundsInv, Send
<1> QED
  BY <1>2, <1>3 DEF IInv, RowsInv, RowStep, ListsInv, PullsInv, BoundsInv, Send

LEMMA Asked == ASSUME IInv, UserAsks PROVE RowStep /\ IInv'
<1> PICK k \in Calls, s \in Ids :
        \/ connectServer(k, s) \/ disconnectServer(k, s) \/ reconnectServer(k, s)
        \/ addServer(k, s) \/ \E op \in Ops : changeServer(k, s, op)
  BY DEF UserAsks
<1> {"connect", "disconnect", "reconnect", "create"} \subseteq Ops
  BY DEF Ops
<1>1. RowsInv
  BY DEF IInv
<1>2. CASE connectServer(k, s)
  <2> DEFINE r == [rows[s] EXCEPT !.status = "connecting"]
  <2>1. rows[s] \in Row
    BY <1>1, <1>2 DEF connectServer, Listed, RowsInv
  <2>2. r \in Row /\ NoGain(rows[s], r)
    BY <2>1 DEF Row, Status, NoGain
  <2>3. RowStep
    BY <1>1, <1>2, <2>2, Patched DEF connectServer, Patch
  <2> QED
    BY <1>2, <2>3, Sends DEF connectServer
<1>3. CASE disconnectServer(k, s)
  BY <1>1, <1>3, Kept, Sends DEF disconnectServer
<1>4. CASE reconnectServer(k, s)
  <2> DEFINE r == [rows[s] EXCEPT !.status = "reconnecting", !.conn = FALSE]
  <2>1. rows[s] \in Row
    BY <1>1, <1>4 DEF reconnectServer, Listed, RowsInv
  <2>2. r \in Row /\ NoGain(rows[s], r)
    BY <2>1 DEF Row, Status, NoGain
  <2>3. RowStep
    BY <1>1, <1>4, <2>2, Patched DEF reconnectServer, Patch
  <2> QED
    BY <1>4, <2>3, Sends DEF reconnectServer
<1>5. CASE addServer(k, s)
  BY <1>1, <1>5, Kept, Sends DEF addServer
<1>6. ASSUME NEW op \in Ops, changeServer(k, s, op) PROVE RowStep /\ IInv'
  BY <1>1, <1>6, Kept, Sends DEF changeServer
<1> QED
  BY <1>2, <1>3, <1>4, <1>5, <1>6

(* The Go server's side of a request, and requests cut off.                   *)
LEMMA OutcomesKnown ==
    ASSUME ListsInv, NEW op \in Ops, NEW s \in Ids
    PROVE  Outcomes(op, s) \subseteq Known
  BY DEF Outcomes, ListsInv, Known, Saved, Ops

LEMMA Served ==
    ASSUME IInv, NEW k \in Calls, CallServed(k)
    PROVE  CallsInv' /\ ListsInv'
<1> DEFINE s == calls[k].id
           op == calls[k].op
<1>1. calls[k] \in Unanswered
  BY DEF IInv, CallsInv, CallServed, Call, Answered, Free
<1>2. s \in Ids /\ op \in Ops
  BY <1>1 DEF Unanswered
<1>3. CASE \E b \in Outcomes(op, s) :
              /\ backend' = [backend EXCEPT ![s] = b]
              /\ calls' = [calls EXCEPT ![k] = [op |-> @.op, id |-> s, at |-> "ok", live |-> b = "live"]]
  <2> PICK b \in Outcomes(op, s) :
         /\ backend' = [backend EXCEPT ![s] = b]
         /\ calls' = [calls EXCEPT ![k] = [op |-> @.op, id |-> s, at |-> "ok", live |-> b = "live"]]
    BY <1>3
  <2> DEFINE r == [op |-> op, id |-> s, at |-> "ok", live |-> b = "live"]
  <2>1. b \in Known
    BY <1>2, OutcomesKnown DEF IInv
  <2>2. r \in Call
    BY <1>2 DEF Call, Answered
  <2>3. calls' = [calls EXCEPT ![k] = r]
    OBVIOUS
  <2> HIDE DEF r
  <2> QED
    BY <2>1, <2>2, <2>3 DEF IInv, CallsInv, ListsInv, CallServed
<1>4. CASE backend' = backend /\ calls' = [calls EXCEPT ![k].at = "error"]
  <2>1. [calls[k] EXCEPT !.at = "error"] \in Call
    BY <1>1 DEF Call, Unanswered
  <2> QED
    BY <1>4, <2>1 DEF IInv, CallsInv, ListsInv, CallServed
<1> QED
  BY <1>3, <1>4 DEF CallServed

LEMMA Lost ==
    ASSUME IInv, NEW k \in Calls, CallLost(k)
    PROVE  CallsInv' /\ BoundsInv'
<1>1. calls[k].op \in Ops /\ calls[k].id \in Ids
  BY CallShapes DEF IInv, CallLost, Free
<1>2. Free \in Call /\ [op |-> calls[k].op, id |-> calls[k].id, at |-> "error"] \in Call
  BY <1>1 DEF Call, Unanswered
<1>3. CallsInv'
  BY <1>2 DEF IInv, CallsInv, CallLost
<1>4. faults' \in Nat
  BY DEF IInv, BoundsInv, CallLost
<1> QED
  BY <1>3, <1>4 DEF IInv, BoundsInv, CallLost

(* What the browser makes of an answer.                                      *)
LEMMA Settles ==
    ASSUME IInv, NEW k \in Calls, Settle(k)
    PROVE  RowStep /\ CallsInv' /\ ListsInv' /\ UNCHANGED <<failed, loading, key, pulls, ops, faults>>
<1> DEFINE s == calls[k].id
<1> USE DEF Rest
<1>1. RowsInv /\ CallsInv /\ ListsInv
  BY DEF IInv
<1>2. calls[k] # Free /\ s \in Ids /\ (calls[k].at = "ok" => calls[k].live \in BOOLEAN)
  BY <1>1, CallShapes DEF Settle, connected, notConnected, reconnecting, disconnected, added, deleted,
                          replaced, refused, Has
<1>3. rows[s] \in {NoRow} \cup Row
  BY <1>1, <1>2 DEF RowsInv
<1>4. CASE connected(k)
  <2>1. toSessionServer(TRUE) \in Row /\ ~toSessionServer(TRUE).numbers
    BY AnsweredRow
  <2> DEFINE r == keepMetrics(rows[s], toSessionServer(TRUE))
  <2>2. r \in Row /\ r.numbers = rows[s].numbers
    BY <1>3, <2>1, KeptNumbers
  <2>3. rows' = rows \/ rows' = [rows EXCEPT ![s] = r]
    BY <1>4 DEF connected, Patch
  <2> HIDE DEF r
  <2>4. RowStep
    BY <1>1, <1>2, <2>2, <2>3, Patched DEF NoGain
  <2> QED
    BY <1>1, <1>4, <2>4, Ends DEF connected, ListsInv
<1>5. CASE notConnected(k)
  BY <1>1, <1>5, Kept, Ends, SentList DEF notConnected
<1>6. CASE reconnecting(k)
  <2> DEFINE r == [rows[s] EXCEPT !.status = "connecting"]
             c == [op |-> "connect", id |-> s, at |-> "sent"]
  <2>1. ASSUME Listed(s) PROVE RowStep
    <3>1. rows[s] \in Row
      BY <1>3, <2>1 DEF Listed
    <3>2. r \in Row /\ NoGain(rows[s], r)
      BY <3>1 DEF Row, Status, NoGain
    <3> QED
      BY <1>1, <1>2, <1>6, <3>2, Patched DEF reconnecting, Patch
  <2>2. ASSUME ~Listed(s) PROVE RowStep
    BY <1>1, <1>6, <2>2, Kept DEF reconnecting, Patch
  <2>3. c \in Call
    BY <1>2 DEF Call, Unanswered, Ops
  <2>4. CallsInv'
    BY <1>1, <1>6, <2>3 DEF reconnecting, CallsInv
  <2> QED
    BY <1>1, <1>6, <2>1, <2>2, <2>4 DEF reconnecting, ListsInv
<1>7. CASE disconnected(k)
  <2>1. toSessionServer(FALSE) \in Row /\ ~toSessionServer(FALSE).numbers
    BY AnsweredRow
  <2>2. RowStep
    BY <1>1, <1>2, <1>7, <2>1, Patched DEF disconnected, Patch, NoGain
  <2> QED
    BY <1>1, <1>7, <2>2, Ends DEF disconnected, ListsInv
<1>8. CASE added(k)
  <2> DEFINE r == toSessionServer(calls[k].live)
  <2>1. r \in Row /\ ~r.numbers
    BY <1>2, <1>8, AnsweredRow DEF added, Has
  <2>2. rows' = rows \/ rows' = [rows EXCEPT ![s] = r]
    BY <1>8 DEF added
  <2> HIDE DEF r
  <2>3. RowStep
    BY <1>1, <1>2, <2>1, <2>2, Patched DEF NoGain
  <2> QED
    BY <1>1, <1>8, <2>3, Ends DEF added, ListsInv
<1>9. CASE deleted(k)
  <2>1. RowStep
    BY <1>1, <1>2, <1>9, UnlistedRow, Patched DEF deleted, NoGain
  <2> QED
    BY <1>1, <1>9, <2>1, Ends DEF deleted, ListsInv
<1>10. CASE replaced(k)
  <2> DEFINE r == toSessionServer(calls[k].live)
  <2>1. r \in Row /\ ~r.numbers
    BY <1>2, <1>10, AnsweredRow DEF replaced, Has
  <2>2. rows' = rows \/ rows' = [rows EXCEPT ![s] = r]
    BY <1>10 DEF replaced, Patch
  <2> HIDE DEF r
  <2>3. RowStep
    BY <1>1, <1>2, <2>1, <2>2, Patched DEF NoGain
  <2> QED
    BY <1>1, <1>10, <2>3, Ends DEF replaced, ListsInv
<1>11. CASE refused(k)
  BY <1>1, <1>11, Kept, Ends DEF refused, ListsInv
<1> QED
  BY <1>4, <1>5, <1>6, <1>7, <1>8, <1>9, <1>10, <1>11 DEF Settle

-----------------------------------------------------------------------------
(* The effect that fetches the numbers, and its interval.                    *)

LEMMA EffectRuns == ASSUME PullsInv, RunEffect PROVE PullsInv'
<1>1. Connected \in SUBSET Ids
  BY DEF Connected
<1> PICK p \in Pulls, first \in SUBSET Connected :
       /\ \/ Cardinality(first) = Workers
          \/ first = Connected /\ Cardinality(Connected) < Workers
       /\ pulls' = [q \in Pulls |-> IF q = p
                       THEN [queue |-> Connected \ first, busy |-> first] ELSE NoPull]
  BY DEF RunEffect
<1>2. PullOf([queue |-> Connected \ first, busy |-> first], Connected) /\ PullOf(NoPull, Connected)
  BY <1>1, FirstPull, EmptyPull
<1>3. \A q \in Pulls : PullOf(pulls'[q], Connected)
  BY <1>2
<1>4. pulls' \in [Pulls -> [queue : SUBSET Ids, busy : SUBSET Ids]]
  BY <1>3 DEF PullOf
<1> QED
  BY <1>1, <1>3, <1>4 DEF RunEffect, PullsInv

LEMMA Ticks == ASSUME PullsInv, Tick PROVE PullsInv'
<1>1. CASE TickIds = {}
  BY <1>1 DEF Tick, PullsInv
<1>2. ASSUME NEW p \in Pulls, StartPull(p, key) PROVE PullsInv'
  <2> PICK first \in SUBSET key :
         /\ \/ Cardinality(first) = Workers
            \/ first = key /\ Cardinality(key) < Workers
         /\ pulls' = [pulls EXCEPT ![p] = [queue |-> key \ first, busy |-> first]]
    BY <1>2 DEF StartPull
  <2> DEFINE r == [queue |-> key \ first, busy |-> first]
  <2>1. PullOf(r, key)
    BY FirstPull DEF PullsInv
  <2>2. pulls' = [pulls EXCEPT ![p] = r]
    OBVIOUS
  <2> HIDE DEF r
  <2>3. r \in [queue : SUBSET Ids, busy : SUBSET Ids]
    BY <2>1 DEF PullOf
  <2> QED
    BY <2>1, <2>2, <2>3 DEF PullsInv, Tick
<1> QED
  BY <1>1, <1>2 DEF Tick, TickIds

LEMMA NumbersArrive ==
    ASSUME IInv, NEW p \in Pulls, NEW s \in Ids, Pulled(p, s)
    PROVE  RowStep /\ PullsInv'
<1>1. PullsInv'
  BY WorkerDone DEF IInv, Pulled, PullsInv
<1>2. CASE rows' = rows
  BY <1>1, <1>2, Kept DEF IInv
<1>3. CASE Listed(s) /\ rows' = [rows EXCEPT ![s] = NumbersOn(s)]
  <2>1. rows[s] \in Row
    BY <1>3 DEF IInv, RowsInv, Listed
  <2>2. NumbersOn(s) \in Row /\ NoGain(rows[s], NumbersOn(s))
    BY <2>1 DEF NumbersOn, Row, NoGain
  <2> QED
    BY <1>1, <1>3, <2>2, Patched DEF IInv
<1> QED
  BY <1>1, <1>2, <1>3 DEF Pulled, Patch

-----------------------------------------------------------------------------

LEMMA InitInv == Init => IInv
<1> SUFFICES ASSUME Init PROVE IInv
  OBVIOUS
<1>1. RowsInv /\ BoundsInv
  BY SessionAssumption DEF Init, RowsInv, BoundsInv
<1>2. Free \in ListRequest /\ [at |-> "sent"] \in ListRequest /\ Free \in Call
  BY DEF ListRequest, Call
<1>3. ListsInv /\ CallsInv
  BY <1>2 DEF Init, ListsInv, CallsInv, Known, Saved
<1>4. PullOf(NoPull, {})
  BY EmptyPull
<1>5. PullsInv
  BY <1>4 DEF Init, PullsInv, PullOf
<1> QED
  BY <1>1, <1>3, <1>5 DEF IInv

LEMMA StepInv == IInv /\ [Next]_vars => IInv' /\ RowStep
<1> SUFFICES ASSUME IInv, [Next]_vars PROVE IInv' /\ RowStep
  OBVIOUS
<1> USE DEF IInv
<1>1. CASE Tick
  BY <1>1, Kept, Ticks, SentList DEF Tick, TickList, RowsInv, CallsInv, BoundsInv
<1>2. CASE RunEffect
  BY <1>2, Kept, EffectRuns DEF RunEffect, RowsInv, ListsInv, CallsInv, BoundsInv
<1>3. CASE UserAsks
  BY <1>3, Asked
<1>4. CASE Elsewhere
  <2>1. ListsInv' /\ BoundsInv'
    BY <1>4 DEF Elsewhere, ListsInv, BoundsInv, Known, Saved
  <2> QED
    BY <1>4, <2>1, Kept DEF Elsewhere, RowsInv, CallsInv, PullsInv
<1>5. ASSUME NEW l \in Lists, ListServed(l) \/ ListLost(l) PROVE IInv' /\ RowStep
  BY <1>5, Kept, ListSteps DEF ListServed, ListLost, RowsInv, CallsInv, PullsInv
<1>6. ASSUME NEW l \in Lists, refreshServers(l) PROVE IInv' /\ RowStep
  BY <1>6, Refreshes DEF refreshServers, RowStep, RowsInv, CallsInv, PullsInv, BoundsInv
<1>7. ASSUME NEW k \in Calls, CallServed(k) PROVE IInv' /\ RowStep
  BY <1>7, Kept, Served DEF CallServed, RowsInv, PullsInv, BoundsInv
<1>8. ASSUME NEW k \in Calls, CallLost(k) PROVE IInv' /\ RowStep
  BY <1>8, Kept, Lost DEF CallLost, RowsInv, PullsInv, ListsInv
<1>9. ASSUME NEW k \in Calls, Settle(k) PROVE IInv' /\ RowStep
  BY <1>9, Settles DEF RowStep, RowsInv, PullsInv, BoundsInv
<1>10. ASSUME NEW p \in Pulls, NEW s \in Ids, Pulled(p, s) PROVE IInv' /\ RowStep
  BY <1>10, NumbersArrive DEF Pulled, RowStep, RowsInv, ListsInv, CallsInv, BoundsInv
<1>11. CASE UNCHANGED vars
  BY <1>11, Kept DEF vars, RowsInv, ListsInv, CallsInv, PullsInv, BoundsInv
<1> QED
  BY <1>1, <1>2, <1>3, <1>4, <1>5, <1>6, <1>7, <1>8, <1>9, <1>10, <1>11 DEF Next

-----------------------------------------------------------------------------

(* In whatever order answers arrive: a pull fetches only servers of the       *)
(* running effect, none twice at once, with at most Workers workers of which  *)
(* none is idle while a server waits (session.tsx pullMetrics).              *)
THEOREM SessionInvariance == Spec => []SessionInv
  BY InitInv, StepInv, IInvImplies, PTL DEF Spec

(* No answer to a pull, and no list, gives numbers to a server that is not    *)
(* connected, although pulls outlive the connection they were started for     *)
(* (session.tsx: "item.id === id && item.connected").                        *)
THEOREM NumbersOnlyOnLive == Spec => NumbersOnlyLive
<1>1. IInv /\ [Next]_vars =>
         [\A s \in Ids : rows'[s].numbers /\ ~rows[s].numbers => rows[s].conn /\ rows'[s].conn]_vars
  BY StepInv DEF RowStep, NoGain
<1>2. IInv /\ [Next]_vars => IInv'
  BY StepInv
<1> QED
  BY <1>1, <1>2, InitInv, PTL DEF Spec, NumbersOnlyLive

-----------------------------------------------------------------------------
(* The Servers window.  Its invariant falls into five parts, one for each      *)
(* group of variables; most actions leave all groups but one alone.            *)

ListInv ==
    /\ listed \subseteq ServerIds /\ matching \subseteq ServerIds
    /\ selectedId \in ServerIds \cup {None}

(* What is under way in a form is of the form on the screen: with it, no      *)
(* answer to a test finds another form; a result is known by what was tested. *)
FormInv ==
    /\ draft \in Drafts \cup {None} /\ savedAuth \in AuthMethod \cup {None}
    /\ values \in Forms /\ iconError \in BOOLEAN /\ reads \in 0..1
    /\ test \in {None} \cup [key : Key, of : Key, status : {"testing", "ok", "fail"}]
    /\ formTests \in [Slots -> {None} \cup FormTest]
    /\ draft = None => test = None /\ formTests = NoTests
    /\ test # None => test.of = test.key
    /\ test # None /\ test.status = "testing" =>
          \E n \in Slots : formTests[n] # None /\ formTests[n].key = test.key

Saving == {n \in Slots : saves[n] # None}

SaveInv ==
    /\ formBusy \in BOOLEAN /\ saves \in [Slots -> {None} \cup Drafts]
    /\ Cardinality(Saving) = (IF formBusy THEN 1 ELSE 0)

DeleteInv ==
    /\ deleting \in ServerIds \cup {None} /\ deleteBusy \in BOOLEAN
    /\ deletes \subseteq [id : ServerIds, sel : BOOLEAN]
    /\ IsFiniteSet(deletes) /\ Cardinality(deletes) = (IF deleteBusy THEN 1 ELSE 0)

TestsInv ==
    /\ testingId \in ServerIds \cup {None}
    /\ testMessage \in [ServerIds -> {"none", "Connecting", "result"}]
    /\ tests \in [ServerIds -> 0..MaxTests]
    /\ \A s \in ServerIds : testMessage[s] = "Connecting" => tests[s] > 0

ManagerIInv == ListInv /\ FormInv /\ SaveInv /\ DeleteInv /\ TestsInv

LEMMA ManagerImplies == ManagerIInv => ManagerInv /\ ShownTestMatches
  BY DEF ManagerIInv, ListInv, FormInv, SaveInv, Saving, DeleteInv, TestsInv, ManagerInv, ManagerTypeOK,
         OneAtATime, Spinners, ShownTestMatches, shownTest, visibleTest

-----------------------------------------------------------------------------
(* Cardinalities, as far as they are needed: none and one.                   *)
LEMMA SavingFinite == IsFiniteSet(Saving) /\ IsFiniteSet(Saving')
  BY ManagerAssumption, FS_Subset DEF Saving

LEMMA NoneOrOne ==
    ASSUME NEW S, IsFiniteSet(S)
    PROVE  /\ Cardinality(S) = 0 <=> S = {}
           /\ Cardinality(S) = 1 <=> \E x : S = {x}
  BY FS_EmptySet, FS_Singleton

LEMMA OneAdded ==
    ASSUME NEW S, IsFiniteSet(S), Cardinality(S) = 0, NEW x
    PROVE  Cardinality(S \cup {x}) = 1 /\ IsFiniteSet(S \cup {x})
<1>1. S \cup {x} = {x}
  BY NoneOrOne
<1>2. IsFiniteSet({x}) /\ Cardinality({x}) = 1
  BY FS_Singleton
<1> QED
  BY <1>1, <1>2

LEMMA OneRemoved ==
    ASSUME NEW S, IsFiniteSet(S), Cardinality(S) \in {0, 1}, NEW x \in S
    PROVE  Cardinality(S \ {x}) = 0 /\ IsFiniteSet(S \ {x})
<1>1. S \ {x} = {}
  BY NoneOrOne
<1> QED
  BY <1>1, FS_EmptySet

-----------------------------------------------------------------------------
(* The parts of the actions.                                                *)

LEMMA KeyType == ASSUME NEW f \in Forms PROVE fieldsKey(f) \in Key
  BY DEF Key

LEMMA BlankForm == Blank \in Forms
  BY ManagerAssumption DEF Blank

LEMMA NoTestsType == NoTests \in [Slots -> {None} \cup FormTest]
  BY DEF NoTests

LEMMA MountedForm == ASSUME NEW d \in Drafts, Mounted(d) PROVE FormInv'
<1>1. d # None
  BY ManagerAssumption
<1>2. savedAuth' \in AuthMethod \cup {None} /\ values' \in Forms
  BY DEF Mounted
<1>3. iconError' = FALSE /\ reads' = 0
  BY DEF Mounted
<1>5. iconError' \in BOOLEAN
  BY <1>3
<1>6. reads' \in 0..1
  BY <1>3
<1>4. test' = None /\ formTests' = NoTests /\ formTests' \in [Slots -> {None} \cup FormTest]
  BY NoTestsType DEF Mounted
<1> QED
  BY <1>1, <1>2, <1>4, <1>5, <1>6 DEF Mounted, FormInv

LEMMA UnmountedForm == ASSUME Unmounted PROVE FormInv'
<1>1. iconError' \in BOOLEAN
  BY DEF Unmounted
<1>3. reads' \in 0..1
  BY DEF Unmounted
<1>2. test' = None /\ formTests' = NoTests /\ formTests' \in [Slots -> {None} \cup FormTest]
  BY NoTestsType DEF Unmounted
<1> QED
  BY <1>1, <1>2, <1>3, BlankForm DEF Unmounted, FormInv

LEMMA KeptForm == ASSUME FormInv, UNCHANGED <<draft, formVars>> PROVE FormInv'
  BY DEF FormInv, formVars

LEMMA KeptSave == ASSUME SaveInv, UNCHANGED saveVars PROVE SaveInv'
  BY DEF SaveInv, saveVars, Saving

LEMMA KeptDelete == ASSUME DeleteInv, UNCHANGED deleteVars PROVE DeleteInv'
  BY DEF DeleteInv, deleteVars

LEMMA KeptTests == ASSUME TestsInv, UNCHANGED testVars PROVE TestsInv'
  BY DEF TestsInv, testVars

LEMMA KeptList == ASSUME ListInv, UNCHANGED <<listVars, selectedId>> PROVE ListInv'
  BY DEF ListInv, listVars

(* A save ends: there was only this one.                                     *)
LEMMA SaveEnds ==
    ASSUME SaveInv, NEW n \in Slots, saves[n] # None,
           saves' = [saves EXCEPT ![n] = None], formBusy' = FALSE
    PROVE  SaveInv'
<1>1. Saving' = Saving \ {n} /\ n \in Saving
  BY DEF Saving, SaveInv
<1>2. Cardinality(Saving') = 0
  BY <1>1, SavingFinite, OneRemoved DEF SaveInv
<1> QED
  BY <1>2 DEF SaveInv

-----------------------------------------------------------------------------
(* The actions, by the group of variables they are about.                    *)

LEMMA Opens ==
    ASSUME ManagerIInv, startAdd \/ cancelDraft \/ \E s \in ServerIds : startEdit(s) \/ selectServer(s)
    PROVE  ManagerIInv'
<1> USE DEF ManagerIInv
<1>1. CASE startAdd
  BY <1>1, MountedForm, KeptSave, KeptDelete, KeptTests, KeptList DEF startAdd, saveVars, Drafts
<1>2. CASE cancelDraft
  BY <1>2, UnmountedForm, KeptSave, KeptDelete, KeptTests, KeptList
     DEF cancelDraft, saveVars, BusyAfterCancel
<1>3. ASSUME NEW s \in ServerIds, startEdit(s) PROVE ManagerIInv'
  BY <1>3, MountedForm, KeptSave, KeptDelete, KeptTests, KeptList DEF startEdit, saveVars, Drafts
<1>4. ASSUME NEW s \in ServerIds, selectServer(s) PROVE ManagerIInv'
  <2>1. ListInv'
    BY <1>4 DEF selectServer, ListInv, listVars
  <2>2. FormInv'
    BY <1>4, UnmountedForm, KeptForm DEF selectServer
  <2> QED
    BY <1>4, <2>1, <2>2, KeptSave, KeptDelete, KeptTests DEF selectServer, saveVars
<1> QED
  BY <1>1, <1>2, <1>3, <1>4

LEMMA Fields ==
    ASSUME ManagerIInv, Typed \/ selectIcon \/ chooseIconFile \/ iconRead
    PROVE  ManagerIInv'
<1>1. FormInv'
  <2>1. UNCHANGED <<draft, savedAuth, test, formTests>>
    BY DEF Typed, selectIcon, chooseIconFile, iconRead, iconUnchanged
  <2>2. values' \in Forms
    BY DEF ManagerIInv, FormInv, Typed, selectIcon, chooseIconFile, iconRead, iconUnchanged
  <2>3. iconError' \in BOOLEAN
    BY DEF ManagerIInv, FormInv, Typed, selectIcon, chooseIconFile, iconRead, iconUnchanged
  <2>4. reads' \in 0..1
    BY DEF ManagerIInv, FormInv, Typed, selectIcon, chooseIconFile, iconRead, iconUnchanged
  <2> QED
    BY <2>1, <2>2, <2>3, <2>4 DEF ManagerIInv, FormInv
<1>2. UNCHANGED <<listVars, selectedId, saveVars, deleteVars, testVars>>
  BY DEF Typed, selectIcon, chooseIconFile, iconRead, iconUnchanged
<1> QED
  BY <1>1, <1>2, KeptSave, KeptDelete, KeptTests, KeptList DEF ManagerIInv

LEMMA FormTested ==
    ASSUME ManagerIInv, runTest \/ \E n \in Slots : testHeaders(n) \/ testAnswered(n)
    PROVE  ManagerIInv'
<1>1. UNCHANGED testUnchanged
  BY DEF runTest, testHeaders, testAnswered
<1>2. ASSUME runTest PROVE FormInv'
  <2> DEFINE k == fieldsKey(values)
  <2>1. CASE validateServerForm(values, editing, savedAuth, "connection")
    <3>1. PICK n \in Slots :
             /\ formTests' = [Aborted EXCEPT ![n] = [key |-> k, at |-> "sent"]]
             /\ test' = [key |-> k, of |-> k, status |-> "testing"]
      BY <1>2, <2>1 DEF runTest
    <3>2. k \in Key
      BY KeyType DEF ManagerIInv, FormInv
    <3>3. Aborted \in [Slots -> {None} \cup FormTest]
      BY DEF ManagerIInv, FormInv, Aborted
    <3>4. [key |-> k, at |-> "sent"] \in FormTest
      BY <3>2 DEF FormTest
    <3>5. formTests' \in [Slots -> {None} \cup FormTest] /\ formTests'[n] # None /\ formTests'[n].key = k
      BY <3>1, <3>3, <3>4, NoneAssumption
    <3>6. test' \in [key : Key, of : Key, status : {"testing", "ok", "fail"}]
      BY <3>1, <3>2
    <3> QED
      BY <1>1, <1>2, <3>1, <3>5, <3>6 DEF runTest, testUnchanged, ManagerIInv, FormInv
  <2>2. CASE ~validateServerForm(values, editing, savedAuth, "connection")
    BY <1>1, <1>2, <2>2, KeptForm DEF runTest, testUnchanged, ManagerIInv, formVars
  <2> QED
    BY <2>1, <2>2
<1>3. ASSUME NEW n \in Slots, testHeaders(n) PROVE FormInv'
  <2> USE DEF ManagerIInv, FormInv, testHeaders
  <2>1. formTests[n] \in FormTest /\ formTests' = [formTests EXCEPT ![n] = [formTests[n] EXCEPT !.at = "body"]]
    BY <1>3
  <2>2. [formTests[n] EXCEPT !.at = "body"] \in FormTest
        /\ [formTests[n] EXCEPT !.at = "body"].key = formTests[n].key
    BY <2>1 DEF FormTest
  <2>3. formTests' \in [Slots -> {None} \cup FormTest]
    BY <2>1, <2>2
  <2>4. \A m \in Slots : formTests[m] # None =>
           formTests'[m] # None /\ formTests'[m].key = formTests[m].key
    BY <2>1, <2>2, NoneAssumption
  <2>5. draft # None
    BY <1>3 DEF NoTests
  <2> QED
    BY <1>1, <1>3, <2>3, <2>4, <2>5 DEF testUnchanged
<1>4. ASSUME NEW n \in Slots, testAnswered(n) PROVE FormInv'
  <2> USE DEF ManagerIInv, FormInv, testAnswered
  <2>1. PICK r \in {"ok", "fail"} :
           test' = [key |-> formTests[n].key, of |-> formTests[n].key, status |-> r]
    BY <1>4
  <2>2. formTests[n].key \in Key
    BY <1>4 DEF FormTest
  <2>3. test' \in [key : Key, of : Key, status : {"testing", "ok", "fail"}]
    BY <2>1, <2>2
  <2>4. test'.of = test'.key /\ test'.status # "testing"
    BY <2>1
  <2>5. draft # None
    BY <1>4 DEF NoTests
  <2> QED
    BY <1>1, <1>4, <2>3, <2>4, <2>5 DEF testUnchanged
<1>5. FormInv'
  BY <1>2, <1>3, <1>4
<1> QED
  BY <1>1, <1>5, KeptSave, KeptDelete, KeptTests, KeptList DEF testUnchanged, ManagerIInv

LEMMA Saves ==
    ASSUME ManagerIInv, \/ \E connect \in BOOLEAN : submit(connect)
                 \/ \E n \in Slots : saved(n) \/ saveFailed(n)
    PROVE  ManagerIInv'
<1> USE DEF ManagerIInv
<1>1. ASSUME NEW c \in BOOLEAN, submit(c) PROVE ManagerIInv'
  <2>1. SaveInv'
    <3>1. CASE validateServerForm(values, editing, savedAuth, "save")
      <4>1. PICK n \in Slots : saves[n] = None /\ saves' = [saves EXCEPT ![n] = draft] /\ formBusy' = TRUE
        BY <1>1, <3>1 DEF submit
      <4>2. draft \in Drafts
        BY <1>1 DEF submit, FormInv
      <4>3. Saving' = Saving \cup {n} /\ saves' \in [Slots -> {None} \cup Drafts]
        BY <4>1, <4>2, ManagerAssumption DEF Saving, SaveInv
      <4>4. Cardinality(Saving) = 0
        BY <1>1 DEF submit, SaveInv
      <4> QED
        BY <4>1, <4>3, <4>4, SavingFinite, OneAdded DEF SaveInv
    <3>2. CASE ~validateServerForm(values, editing, savedAuth, "save")
      BY <1>1, <3>2, KeptSave DEF submit
    <3> QED
      BY <3>1, <3>2
  <2> QED
    BY <1>1, <2>1, KeptForm, KeptDelete, KeptTests, KeptList DEF submit, formVars
<1>2. ASSUME NEW n \in Slots, saved(n) PROVE ManagerIInv'
  <2>1. SaveInv'
    BY <1>2, SaveEnds DEF saved
  <2>2. FormInv'
    BY <1>2, UnmountedForm, KeptForm DEF saved
  <2>3. ListInv'
    BY <1>2 DEF saved, ListInv
  <2> QED
    BY <1>2, <2>1, <2>2, <2>3, KeptDelete, KeptTests DEF saved
<1>3. ASSUME NEW n \in Slots, saveFailed(n) PROVE ManagerIInv'
  BY <1>3, SaveEnds, KeptForm, KeptDelete, KeptTests, KeptList DEF saveFailed
<1> QED
  BY <1>1, <1>2, <1>3

LEMMA Deletes ==
    ASSUME ManagerIInv, cancelDelete \/ onDelete \/ \E s \in ServerIds : menuDelete(s)
    PROVE  ManagerIInv'
<1> USE DEF ManagerIInv
<1>1. CASE cancelDelete
  BY <1>1, KeptForm, KeptSave, KeptTests, KeptList DEF cancelDelete, DeleteInv
<1>2. ASSUME NEW s \in ServerIds, menuDelete(s) PROVE ManagerIInv'
  BY <1>2, KeptForm, KeptSave, KeptTests, KeptList DEF menuDelete, DeleteInv
<1>3. CASE onDelete
  <2>1. Cardinality(deletes) = 0
    BY <1>3 DEF onDelete, DeleteInv
  <2> DEFINE d == [id |-> deleting, sel |-> selectedId = deleting]
  <2>2. d \in [id : ServerIds, sel : BOOLEAN] /\ deletes' = deletes \cup {d}
    BY <1>3 DEF onDelete, DeleteInv
  <2>3. IsFiniteSet(deletes') /\ Cardinality(deletes') = 1
    BY <2>1, <2>2, OneAdded DEF DeleteInv
  <2>4. DeleteInv'
    BY <1>3, <2>2, <2>3 DEF onDelete, DeleteInv
  <2> QED
    BY <1>3, <2>4, KeptForm, KeptSave, KeptTests, KeptList DEF onDelete
<1> QED
  BY <1>1, <1>2, <1>3

LEMMA DeleteEnds == ASSUME ManagerIInv, NEW d \in deletes, deleteAnswered(d) PROVE ManagerIInv'
<1> USE DEF ManagerIInv
<1>1. DeleteInv'
  BY OneRemoved DEF deleteAnswered, DeleteInv
<1>2. ListInv'
  BY DEF deleteAnswered, ListInv
<1> QED
  BY <1>1, <1>2, KeptForm, KeptSave, KeptTests DEF deleteAnswered

LEMMA Tests ==
    ASSUME ManagerIInv, \E s \in ServerIds : onTest(s) \/ tested(s)
    PROVE  ManagerIInv'
<1>1. TestsInv'
  BY ManagerAssumption DEF ManagerIInv, TestsInv, onTest, tested
<1>2. UNCHANGED <<listVars, selectedId, draft, formVars, saveVars, deleteVars>>
  BY DEF onTest, tested
<1> QED
  BY <1>1, <1>2, KeptForm, KeptSave, KeptDelete, KeptList DEF ManagerIInv

LEMMA ManagerLists == ASSUME ManagerIInv, Refreshed \/ Search PROVE ManagerIInv'
<1>1. ListInv'
  BY DEF ManagerIInv, ListInv, Refreshed, Search
<1>2. UNCHANGED <<draft, formVars, saveVars, deleteVars, testVars>>
  BY DEF Refreshed, Search
<1> QED
  BY <1>1, <1>2, KeptForm, KeptSave, KeptDelete, KeptTests DEF ManagerIInv

LEMMA ManagerInitInv == ManagerInit => ManagerIInv
<1> SUFFICES ASSUME ManagerInit PROVE ManagerIInv
  OBVIOUS
<1>1. FormInv
  <2>1. iconError \in BOOLEAN
    BY DEF ManagerInit
  <2>3. reads \in 0..1
    BY DEF ManagerInit
  <2>2. test = None /\ formTests = NoTests /\ formTests \in [Slots -> {None} \cup FormTest]
    BY NoTestsType DEF ManagerInit
  <2> QED
    BY <2>1, <2>2, <2>3, BlankForm DEF ManagerInit, FormInv
<1>3. ListInv /\ TestsInv
  BY ManagerAssumption DEF ManagerInit, ListInv, TestsInv
<1>2. Saving = {}
  BY DEF ManagerInit, Saving, NoTests
<1> QED
  BY <1>1, <1>2, <1>3, FS_EmptySet DEF ManagerInit, ManagerIInv, SaveInv, DeleteInv, NoTests

LEMMA ManagerStepInv == ManagerIInv /\ [ManagerNext]_managerVars => ManagerIInv'
<1> SUFFICES ASSUME ManagerIInv, [ManagerNext]_managerVars PROVE ManagerIInv'
  OBVIOUS
<1>1. CASE UNCHANGED managerVars
  BY <1>1, KeptForm, KeptSave, KeptDelete, KeptTests, KeptList DEF managerVars, ManagerIInv
<1>2. CASE startAdd \/ cancelDraft \/ Typed \/ selectIcon \/ chooseIconFile \/ iconRead
  BY <1>2, Opens, Fields
<1>3. CASE runTest \/ cancelDelete \/ onDelete \/ Refreshed \/ Search
  BY <1>3, FormTested, Deletes, ManagerLists
<1>4. CASE \E n \in Slots : testHeaders(n) \/ testAnswered(n) \/ saved(n) \/ saveFailed(n)
  BY <1>4, FormTested, Saves
<1>5. CASE \E s \in ServerIds : startEdit(s) \/ selectServer(s) \/ menuDelete(s) \/ onTest(s) \/ tested(s)
  BY <1>5, Opens, Deletes, Tests
<1>6. CASE \E connect \in BOOLEAN : submit(connect)
  BY <1>6, Saves
<1>7. CASE \E d \in deletes : deleteAnswered(d)
  BY <1>7, DeleteEnds
<1> QED
  BY <1>1, <1>2, <1>3, <1>4, <1>5, <1>6, <1>7 DEF ManagerNext

-----------------------------------------------------------------------------

(* However forms and dialogs are opened and closed while answers are late:    *)
(* one save and one delete at a time, the buttons disabled exactly meanwhile, *)
(* and no spinner without a call that will end it (ServerManager.tsx).        *)
THEOREM ManagerInvariance == ManagerSpec => []ManagerInv
  BY ManagerInitInv, ManagerStepInv, ManagerImplies, PTL DEF ManagerSpec

(* A test result is only ever shown beside the details that were tested       *)
(* (AddServerModal.tsx).                                                     *)
THEOREM TestBesideItsFields == ManagerSpec => []ShownTestMatches
  BY ManagerInitInv, ManagerStepInv, ManagerImplies, PTL DEF ManagerSpec

===============================================================================
