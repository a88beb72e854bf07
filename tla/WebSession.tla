------------------------------ MODULE WebSession ------------------------------
(***************************************************************************)
(* The browser's copy of the server list (apps/web/src/lib/session.tsx):   *)
(* the rows every window reads, the requests that change them, the poll    *)
(* that replaces them every eight seconds and the workers that fetch the   *)
(* numbers of the connected ones.  Answers are applied in whatever order   *)
(* they arrive.                                                            *)
(*                                                                         *)
(*  - A row's words are left out.  Its status says only whether a request  *)
(*    of this browser painted it; cpu, memory and disk usage are one flag. *)
(*  - The Go backend is external: which servers are saved and which have a *)
(*    live connection.  Other clients and the network change it too.       *)
(*  - selectedServer is left out: every window names its server itself.    *)
(*  - Sample servers exist in development builds only.                     *)
(***************************************************************************)
EXTENDS Naturals, FiniteSets

CONSTANTS
    Ids,            \* servers
    Calls, Lists, Pulls,  \* bounds: requests, list requests and pulls under way at once
    Workers,        \* how many numbers one pull fetches at once; 3 in the code
    MaxOps,         \* bound: requests the user makes
    MaxFaults       \* bound: lost answers and changes made elsewhere

ASSUME SessionAssumption ==
    /\ Workers \in Nat \ {0} /\ MaxOps \in Nat /\ MaxFaults \in Nat
    /\ IsFiniteSet(Ids)

VARIABLES
    backend,    \* what the Go server knows of each server
    rows,       \* the row of a server, or NoRow
    failed,     \* serversError is set
    loading,    \* loadingServers
    lists,      \* the list requests under way
    calls,      \* the other requests under way
    key,        \* connectedKey of the effect that is running
    pulls,      \* the pullMetrics calls of that effect
    ops, faults \* what is left of the bounds

vars == <<backend, rows, failed, loading, lists, calls, key, pulls, ops, faults>>

Free == [at |-> "free"]
Saved == {"idle", "live"}
Known == {"new", "gone"} \cup Saved
NoRow == [status |-> "none", conn |-> FALSE, numbers |-> FALSE]
Status == {"answered", "connecting", "reconnecting"}
Ops == {"create", "update", "delete", "test", "connect", "disconnect", "reconnect"}

TypeOK ==
    /\ backend \in [Ids -> Known]
    /\ rows \in [Ids -> {NoRow} \cup [status : Status, conn : BOOLEAN, numbers : BOOLEAN]]
    /\ failed \in BOOLEAN /\ loading \in BOOLEAN
    /\ lists \in [Lists -> {Free} \cup [at : {"sent", "error"}]
                              \cup [at : {"ok"}, snap : [Ids -> Known]]]
    /\ calls \in [Calls -> {Free} \cup [op : Ops, id : Ids, at : {"sent", "error"}]
                              \cup [op : Ops, id : Ids, at : {"ok"}, live : BOOLEAN]]
    /\ key \in SUBSET Ids
    /\ pulls \in [Pulls -> [queue : SUBSET Ids, busy : SUBSET Ids]]
    /\ ops \in Nat /\ faults \in Nat

Listed(s) == rows[s] # NoRow
Connected == {s \in Ids : rows[s].conn}
NoPull == [queue |-> {}, busy |-> {}]

-----------------------------------------------------------------------------
(* Rows                                                                     *)

\* toSessionServer: a row as an answer describes it; no list carries numbers.
toSessionServer(live) == [status |-> "answered", conn |-> live, numbers |-> FALSE]

\* keepMetrics: numbers an answer does not bring stay.
keepMetrics(old, new) == [new EXCEPT !.numbers = @ \/ old.numbers]

\* setServers(current => current.map(...)): a row that is not listed stays so.
Patch(s, r) == rows' = IF Listed(s) THEN [rows EXCEPT ![s] = r] ELSE rows

\* A row as a user of the list sees it; a window about a server that is not
\* listed shows it as removed.
useSelectedServer(s) == IF Listed(s) THEN rows[s] ELSE NoRow

-----------------------------------------------------------------------------
(* The list                                                                 *)

StartList(l) == lists[l] = Free /\ lists' = [lists EXCEPT ![l] = [at |-> "sent"]]

ListServed(l) ==
    /\ lists[l].at = "sent"
    /\ lists' = [lists EXCEPT ![l] = [at |-> "ok", snap |-> backend]]
    /\ UNCHANGED <<backend, rows, failed, loading, calls, key, pulls, ops, faults>>

\* refreshServers, and the first list of the mount: the answer replaces every
\* row, and a failure empties the list.
refreshServers(l) ==
    /\ lists[l].at \in {"ok", "error"}
    /\ rows' = IF lists[l].at = "ok"
               THEN [s \in Ids |-> IF lists[l].snap[s] \in Saved
                                   THEN keepMetrics(rows[s],
                                            toSessionServer(lists[l].snap[s] = "live"))
                                   ELSE NoRow]
               ELSE [s \in Ids |-> NoRow]
    /\ failed' = (lists[l].at = "error")
    /\ loading' = FALSE
    /\ lists' = [lists EXCEPT ![l] = Free]
    /\ UNCHANGED <<backend, calls, key, pulls, ops, faults>>

\* apiRequest: the deadline and the network cut a request off before its
\* answer; a body that never ends is waited for in vain.
ListLost(l) ==
    /\ lists[l].at \in {"sent", "ok"} /\ faults > 0
    /\ \E end \in {Free, [at |-> "error"]} : lists' = [lists EXCEPT ![l] = end]
    /\ faults' = faults - 1
    /\ UNCHANGED <<backend, rows, failed, loading, calls, key, pulls, ops>>

-----------------------------------------------------------------------------
(* The numbers                                                              *)

\* pullMetrics: up to three workers share one queue; no server twice.
StartPull(p, ids) ==
    /\ pulls[p] = NoPull
    /\ \E first \in SUBSET ids :
          /\ \/ Cardinality(first) = Workers
             \/ first = ids /\ Cardinality(ids) < Workers
          /\ pulls' = [pulls EXCEPT ![p] = [queue |-> ids \ first, busy |-> first]]

\* A worker that has its answer takes the next server of the queue.
NextPull(p, s) ==
    LET rest == pulls[p].busy \ {s} IN
    \/ /\ pulls[p].queue = {}
       /\ pulls' = [pulls EXCEPT ![p].busy = rest]
    \/ \E t \in pulls[p].queue :
          pulls' = [pulls EXCEPT ![p] = [queue |-> @.queue \ {t}, busy |-> rest \cup {t}]]

\* The numbers are put on a row only if it is connected now: the effect that
\* asked for them is cancelled some time after the rows have changed.
NumbersOnAny(s) == [rows[s] EXCEPT !.numbers = Listed(s)]               \* mutant
NumbersOn(s) == [rows[s] EXCEPT !.numbers = @ \/ rows[s].conn]

Pulled(p, s) ==
    /\ s \in pulls[p].busy
    /\ NextPull(p, s)
    /\ \/ Patch(s, NumbersOn(s))
       \/ rows' = rows                      \* metricsError is set
    /\ UNCHANGED <<backend, failed, loading, lists, calls, key, ops, faults>>

\* The effect on connectedKey runs again: its pulls are cancelled, their
\* answers ignored, and a new pull starts.
RunEffect ==
    /\ key # Connected
    /\ key' = Connected
    /\ \E p \in Pulls :
          \E first \in SUBSET Connected :
             /\ \/ Cardinality(first) = Workers
                \/ first = Connected /\ Cardinality(Connected) < Workers
             /\ pulls' = [q \in Pulls |-> IF q = p
                             THEN [queue |-> Connected \ first, busy |-> first] ELSE NoPull]
    /\ UNCHANGED <<backend, rows, failed, loading, lists, calls, ops, faults>>

\* The interval of the effect: a list and a pull of its own.
TickPullsOnly(l) == lists' = lists /\ lists[l] = Free                   \* mutant
TickList(l) == StartList(l)

AllShown == Connected                                                   \* mutant
TickIds == key

Tick ==
    /\ \E l \in Lists : TickList(l)
    /\ IF TickIds = {} THEN pulls' = pulls ELSE \E p \in Pulls : StartPull(p, TickIds)
    /\ UNCHANGED <<backend, rows, failed, loading, calls, key, ops, faults>>

-----------------------------------------------------------------------------
(* What the user asks for                                                   *)

Send(k, op, s) ==
    /\ calls[k] = Free /\ ops > 0
    /\ calls' = [calls EXCEPT ![k] = [op |-> op, id |-> s, at |-> "sent"]]
    /\ ops' = ops - 1
    /\ UNCHANGED <<backend, failed, loading, lists, key, pulls, faults>>

Painted(s) == rows[s].status \in {"connecting", "reconnecting"}

\* connectServer: the menu asks while the row is idle, "Metrics", the terminal
\* and the monitor whenever it is not connected.
connectServer(k, s) ==
    /\ Listed(s) /\ ~rows[s].conn
    /\ Patch(s, [rows[s] EXCEPT !.status = "connecting"])
    /\ Send(k, "connect", s)

disconnectServer(k, s) ==
    /\ rows[s].conn /\ UNCHANGED rows
    /\ Send(k, "disconnect", s)

\* reconnectServer: disconnect first, whatever comes of it, and then connect.
reconnectServer(k, s) ==
    /\ Listed(s) /\ ~Painted(s)
    /\ Patch(s, [rows[s] EXCEPT !.status = "reconnecting", !.conn = FALSE])
    /\ Send(k, "reconnect", s)

addServer(k, s) ==
    /\ backend[s] = "new"
    /\ \A j \in Calls : calls[j] # Free => calls[j].id # s
    /\ UNCHANGED rows
    /\ Send(k, "create", s)

\* updateServer, deleteServer and testConnection change no row before they
\* have their answer.
changeServer(k, s, op) ==
    /\ op \in {"update", "delete", "test"} /\ Listed(s) /\ UNCHANGED rows
    /\ Send(k, op, s)

\* What the Go server does with a request: a connection may be refused, an
\* update that changes the address or the credential closes the connection.
Outcomes(op, s) ==
    IF op = "create" THEN {"idle"}
    ELSE IF backend[s] \notin Saved THEN {}
    ELSE CASE op = "connect" -> {"live"}
           [] op \in {"disconnect", "reconnect"} -> {"idle"}
           [] op = "delete" -> {"gone"}
           [] op = "update" -> {"idle", backend[s]}
           [] op = "test" -> {backend[s]}

CallServed(k) ==
    /\ calls[k].at = "sent"
    /\ LET s == calls[k].id IN
       \/ \E b \in Outcomes(calls[k].op, s) :
             /\ backend' = [backend EXCEPT ![s] = b]
             /\ calls' = [calls EXCEPT ![k] = [op |-> @.op, id |-> s, at |-> "ok",
                                               live |-> b = "live"]]
       \/ /\ calls[k].op = "connect" \/ Outcomes(calls[k].op, s) = {}
          /\ backend' = backend
          /\ calls' = [calls EXCEPT ![k].at = "error"]
    /\ UNCHANGED <<rows, failed, loading, lists, key, pulls, ops, faults>>

\* apiRequest gives a request up, before or after the server has acted on it.
CallLost(k) ==
    /\ calls[k].at \in {"sent", "ok"} /\ faults > 0
    /\ \E end \in {Free, [op |-> calls[k].op, id |-> calls[k].id, at |-> "error"]} :
          calls' = [calls EXCEPT ![k] = end]
    /\ faults' = faults - 1
    /\ UNCHANGED <<backend, rows, failed, loading, lists, key, pulls, ops>>

Rest == <<backend, failed, loading, key, pulls, ops, faults>>
Ended(k) == calls' = [calls EXCEPT ![k] = Free]
Has(k, op, at) == calls[k] # Free /\ calls[k].op = op /\ calls[k].at = at

connected(k) ==
    /\ Has(k, "connect", "ok")
    /\ LET s == calls[k].id IN Patch(s, keepMetrics(rows[s], toSessionServer(TRUE)))
    /\ Ended(k) /\ UNCHANGED <<lists, Rest>>

notConnected(k) ==
    /\ Has(k, "connect", "error")
    /\ \E l \in Lists : StartList(l)
    /\ Ended(k) /\ UNCHANGED <<rows, Rest>>

\* Whether the disconnect worked or not, a connect follows.
reconnecting(k) ==
    /\ Has(k, "reconnect", "ok") \/ Has(k, "reconnect", "error")
    /\ LET s == calls[k].id IN
          /\ Patch(s, [rows[s] EXCEPT !.status = "connecting"])
          /\ calls' = [calls EXCEPT ![k] = [op |-> "connect", id |-> s, at |-> "sent"]]
    /\ UNCHANGED <<lists, Rest>>

disconnected(k) ==
    /\ Has(k, "disconnect", "ok")
    /\ Patch(calls[k].id, toSessionServer(FALSE))
    /\ Ended(k) /\ UNCHANGED <<lists, Rest>>

\* A created server is appended unless a list has brought it already.
added(k) ==
    /\ Has(k, "create", "ok")
    /\ LET s == calls[k].id IN
          rows' = IF Listed(s) THEN rows
                  ELSE [rows EXCEPT ![s] = toSessionServer(calls[k].live)]
    /\ Ended(k) /\ UNCHANGED <<lists, Rest>>

deleted(k) ==
    /\ Has(k, "delete", "ok")
    /\ rows' = [rows EXCEPT ![calls[k].id] = NoRow]
    /\ Ended(k) /\ UNCHANGED <<lists, Rest>>

\* The answers of an update and of a test replace the row, numbers included.
replaced(k) ==
    /\ Has(k, "update", "ok") \/ Has(k, "test", "ok")
    /\ Patch(calls[k].id, toSessionServer(calls[k].live))
    /\ Ended(k) /\ UNCHANGED <<lists, Rest>>

\* Every other failure is shown to the user and changes no row.
refused(k) ==
    /\ \E op \in Ops \ {"connect", "reconnect"} : Has(k, op, "error")
    /\ Ended(k) /\ UNCHANGED <<rows, lists, Rest>>

\* A connection dies, or another client connects, disconnects or deletes.
Elsewhere ==
    /\ faults > 0 /\ faults' = faults - 1
    /\ \E s \in Ids : /\ backend[s] \in Saved
                      /\ \E b \in {"idle", "live", "gone"} : backend' = [backend EXCEPT ![s] = b]
    /\ UNCHANGED <<rows, failed, loading, lists, calls, key, pulls, ops>>

-----------------------------------------------------------------------------

\* The page has just mounted and asked for its first list.
Init ==
    /\ backend \in [Ids -> {"new", "idle", "live"}]
    /\ rows = [s \in Ids |-> NoRow]
    /\ failed = FALSE /\ loading = TRUE
    /\ \E l \in Lists : lists = [m \in Lists |-> IF m = l THEN [at |-> "sent"] ELSE Free]
    /\ calls = [k \in Calls |-> Free]
    /\ key = {} /\ pulls = [p \in Pulls |-> NoPull]
    /\ ops = MaxOps /\ faults = MaxFaults

UserAsks ==
    \E k \in Calls, s \in Ids :
        \/ connectServer(k, s) \/ disconnectServer(k, s) \/ reconnectServer(k, s)
        \/ addServer(k, s) \/ \E op \in Ops : changeServer(k, s, op)

Settle(k) ==
    \/ connected(k) \/ notConnected(k) \/ reconnecting(k) \/ disconnected(k)
    \/ added(k) \/ deleted(k) \/ replaced(k) \/ refused(k)

Next ==
    \/ Tick \/ RunEffect \/ UserAsks \/ Elsewhere
    \/ \E l \in Lists : ListServed(l) \/ refreshServers(l) \/ ListLost(l)
    \/ \E k \in Calls : CallServed(k) \/ Settle(k) \/ CallLost(k)
    \/ \E p \in Pulls, s \in Ids : Pulled(p, s)

Spec == Init /\ [][Next]_vars

\* The interval fires, effects run, and what is not lost is answered: a lost
\* answer is a fault of its own.
FairSpec ==
    /\ Spec
    /\ WF_vars(Tick) /\ WF_vars(RunEffect)
    /\ \A l \in Lists : WF_vars(ListServed(l)) /\ WF_vars(refreshServers(l))
    /\ \A k \in Calls : WF_vars(CallServed(k)) /\ WF_vars(Settle(k))
    /\ \A p \in Pulls : WF_vars(\E s \in Ids : Pulled(p, s))

-----------------------------------------------------------------------------
(* What is checked                                                          *)

\* Every pull fetches only servers of the running effect's key, none twice at
\* once, by at most Workers workers, and leaves none waiting while a worker
\* has nothing to do (session.tsx pullMetrics and its effect); every row,
\* request and answer has its shape.
SessionInv ==
    /\ TypeOK
    /\ \A p \in Pulls :
          /\ pulls[p].queue \cup pulls[p].busy \subseteq key
          /\ pulls[p].queue \cap pulls[p].busy = {}
          /\ Cardinality(pulls[p].busy) <= Workers
          /\ pulls[p].queue # {} => Cardinality(pulls[p].busy) = Workers
    /\ \A s \in Ids : ~Listed(s) => ~rows[s].conn /\ ~rows[s].numbers

\* A server that is not connected never gains numbers, although the pulls that
\* ask for them are cancelled only after the row has changed (session.tsx:
\* "item.id === id && item.connected").
NumbersOnlyLive ==
    [][\A s \in Ids : rows'[s].numbers /\ ~rows[s].numbers => rows[s].conn /\ rows'[s].conn]_vars

\* Once the user and the faults are done, every window shows every server as
\* the Go server knows it, whatever order the answers came in, no row stays
\* "connecting", and no error stays on the screen (session.tsx: the interval).
Agrees(s) ==
    LET r == useSelectedServer(s) IN
    IF backend[s] \in Saved THEN r.status = "answered" /\ r.conn = (backend[s] = "live")
    ELSE r = NoRow
Converges == <>[](~loading /\ ~failed /\ \A s \in Ids : Agrees(s))
=============================================================================
