------------------------------- MODULE SshPool -------------------------------
(***************************************************************************)
(* The pool of SSH connections of the Go server: Pool and Manager of       *)
(* apps/server/internal/ssh.  One call is one request goroutine that asks  *)
(* the pool for a connection, or one that takes a connection away.         *)
(*                                                                         *)
(* Every action is one critical section of Pool.mu or Manager.mu, or one   *)
(* blocking operation outside them, so all the interleavings the two locks *)
(* allow are behaviours of the model.                                      *)
(*                                                                         *)
(*  - A call runs once, and Calls is any set: nothing else is bounded.     *)
(*  - The manager a call inserts and the client a call dials are named by  *)
(*    that call: a call creates at most one of each.                       *)
(*  - The channel dialWait is named by the call that dials: it is closed   *)
(*    exactly when that call is no longer the manager's dialWait.          *)
(*  - Dial's result is up to the network; so is a client's death.          *)
(*  - Manager.err, the text that goes with a status, is left out.          *)
(***************************************************************************)
CONSTANTS
    Calls,      \* request goroutines
    Ids,        \* server ids
    Vers,       \* versions of a server's stored address and credential
    None        \* nil

Config == [id : Ids, ver : Vers]

ASSUME NoneAssumption == None \notin Calls /\ None \notin Ids /\ None \notin Config

VARIABLES
    sessions,   \* Pool.sessions: the manager of each id, or None
    cfg,        \* Manager.cfg and auth: what the loader returned
    client,     \* Manager.client
    status,     \* Manager.status
    dialWait,   \* Manager.dialWait (and dialing: both are set and reset together)
    conn,       \* the network's side of the client a call dialed
    watching,   \* clients whose watch goroutine has not returned
    pc,         \* where each call is
    srv,        \* the id a call is about
    loaded,     \* what Pool.Manager's call of the loader returned
    use,        \* the manager a call works with
    held,       \* the client a call got, or the dial it waits for
    closing     \* the managers a call has taken out and still has to Close

poolVars == <<sessions>>
managerVars == <<cfg, client, status, dialWait>>
netVars == <<conn, watching>>
callVars == <<pc, srv, loaded, use, held, closing>>
vars == <<sessions, cfg, client, status, dialWait, conn, watching,
          pc, srv, loaded, use, held, closing>>

Status == {"connecting", "online", "offline", "error"}
ConnState == {"none", "up", "dead", "closed"}
\* "load", "insert": in Pool.Manager; "ensure", "wait", "dial": in
\* Manager.Ensure; "open": has a client; "session", "invalidate": in Run/Stream.
Step == {"idle", "load", "insert", "ensure", "wait", "dial", "open",
         "session", "invalidate", "closing", "done", "failed"}
Finished == {"done", "failed"}

TypeOK ==
    /\ sessions \in [Ids -> Calls \cup {None}]
    /\ cfg \in [Calls -> Config \cup {None}]
    /\ client \in [Calls -> Calls \cup {None}]
    /\ status \in [Calls -> Status]
    /\ dialWait \in [Calls -> Calls \cup {None}]
    /\ conn \in [Calls -> ConnState]
    /\ watching \in SUBSET Calls
    /\ pc \in [Calls -> Step]
    /\ srv \in [Calls -> Ids \cup {None}]
    /\ loaded \in [Calls -> Config \cup {None}]
    /\ use \in [Calls -> Calls \cup {None}]
    /\ held \in [Calls -> Calls \cup {None}]
    /\ closing \in [Calls -> SUBSET Calls]

Init ==
    /\ sessions = [s \in Ids |-> None]
    /\ cfg = [m \in Calls |-> None]
    /\ client = [m \in Calls |-> None]
    /\ status = [m \in Calls |-> "offline"]
    /\ dialWait = [m \in Calls |-> None]
    /\ conn = [d \in Calls |-> "none"]
    /\ watching = {}
    /\ pc = [k \in Calls |-> "idle"]
    /\ srv = [k \in Calls |-> None]
    /\ loaded = [k \in Calls |-> None]
    /\ use = [k \in Calls |-> None]
    /\ held = [k \in Calls |-> None]
    /\ closing = [k \in Calls |-> {}]

-----------------------------------------------------------------------------
(* Pool.Manager: look up, load outside the lock, look again and insert.     *)

\* The configurations the loader may answer a call with: those of its id.
AnyAnswer(k) == Config                                              \* mutant
Answer(k) == {c \in Config : c.id = srv[k]}

\* Another call has inserted a manager since the first look-up.
Unbeaten(k) == FALSE                                                \* mutant
Beaten(k) == sessions[srv[k]] # None

Lookup(k, s) ==
    /\ pc[k] = "idle"
    /\ srv' = [srv EXCEPT ![k] = s]
    /\ IF sessions[s] # None
       THEN /\ use' = [use EXCEPT ![k] = sessions[s]]
            /\ pc' = [pc EXCEPT ![k] = "ensure"]
       ELSE /\ pc' = [pc EXCEPT ![k] = "load"]
            /\ use' = use
    /\ UNCHANGED <<poolVars, managerVars, netVars, loaded, held, closing>>

LoadOk(k, c) ==
    /\ pc[k] = "load"
    /\ c \in Answer(k)
    /\ loaded' = [loaded EXCEPT ![k] = c]
    /\ pc' = [pc EXCEPT ![k] = "insert"]
    /\ UNCHANGED <<poolVars, managerVars, netVars, srv, use, held, closing>>

\* The loader fails: no such server, or its secret cannot be decrypted.
LoadFail(k) ==
    /\ pc[k] = "load"
    /\ pc' = [pc EXCEPT ![k] = "failed"]
    /\ UNCHANGED <<poolVars, managerVars, netVars, srv, loaded, use, held, closing>>

Insert(k) ==
    /\ pc[k] = "insert"
    /\ IF Beaten(k)
       THEN /\ use' = [use EXCEPT ![k] = sessions[srv[k]]]
            /\ UNCHANGED <<sessions, cfg>>
       ELSE /\ sessions' = [sessions EXCEPT ![srv[k]] = k]
            /\ cfg' = [cfg EXCEPT ![k] = loaded[k]]
            /\ use' = [use EXCEPT ![k] = k]
    /\ pc' = [pc EXCEPT ![k] = "ensure"]
    /\ UNCHANGED <<client, status, dialWait, netVars, srv, loaded, held, closing>>

-----------------------------------------------------------------------------
(* Manager.Ensure                                                           *)

\* No client, and no other call dialing.
MayDialAnyway(m) == client[m] = None                                \* mutant
MayDial(m) == client[m] = None /\ dialWait[m] = None

\* The dial is over: its channel is closed and dialing reset.
LeaveDialing(m) == dialWait' = dialWait                             \* mutant
EndDial(m) == dialWait' = [dialWait EXCEPT ![m] = None]

\* go m.watch(client)
Unwatched(d) == watching' = watching                                \* mutant
SpawnWatch(d) == watching' = watching \cup {d}

\* One turn of the loop up to the unlock: take the client, wait for the dial
\* in flight, or become the call that dials.
EnsureCheck(k) ==
    LET m == use[k] IN
    /\ pc[k] = "ensure"
    /\ \/ /\ client[m] # None
          /\ held' = [held EXCEPT ![k] = client[m]]
          /\ pc' = [pc EXCEPT ![k] = "open"]
          /\ UNCHANGED <<status, dialWait>>
       \/ /\ client[m] = None
          /\ dialWait[m] # None
          /\ held' = [held EXCEPT ![k] = dialWait[m]]
          /\ pc' = [pc EXCEPT ![k] = "wait"]
          /\ UNCHANGED <<status, dialWait>>
       \/ /\ MayDial(m)
          /\ dialWait' = [dialWait EXCEPT ![m] = k]
          /\ status' = [status EXCEPT ![m] = "connecting"]
          /\ pc' = [pc EXCEPT ![k] = "dial"]
          /\ held' = held
    /\ UNCHANGED <<poolVars, cfg, client, netVars, srv, loaded, use, closing>>

\* The awaited channel is closed: once round the loop again.
Wake(k) ==
    /\ pc[k] = "wait"
    /\ dialWait[use[k]] # held[k]
    /\ pc' = [pc EXCEPT ![k] = "ensure"]
    /\ UNCHANGED <<poolVars, managerVars, netVars, srv, loaded, use, held, closing>>

\* Dial returned a client: publish it and spawn watch.
DialOk(k) ==
    LET m == use[k] IN
    /\ pc[k] = "dial"
    /\ EndDial(m)
    /\ client' = [client EXCEPT ![m] = k]
    /\ status' = [status EXCEPT ![m] = "online"]
    /\ conn' = [conn EXCEPT ![k] = "up"]
    /\ SpawnWatch(k)
    /\ held' = [held EXCEPT ![k] = k]
    /\ pc' = [pc EXCEPT ![k] = "open"]
    /\ UNCHANGED <<poolVars, cfg, srv, loaded, use, closing>>

DialFail(k) ==
    LET m == use[k] IN
    /\ pc[k] = "dial"
    /\ EndDial(m)
    /\ status' = [status EXCEPT ![m] = "error"]
    /\ pc' = [pc EXCEPT ![k] = "failed"]
    /\ UNCHANGED <<poolVars, cfg, client, netVars, srv, loaded, use, held, closing>>

-----------------------------------------------------------------------------
(* What a call does with its client                                         *)

\* Pool.Ensure hands the client to its caller (Connect, Terminal, Files).
Return(k) ==
    /\ pc[k] = "open"
    /\ pc' = [pc EXCEPT ![k] = "done"]
    /\ UNCHANGED <<poolVars, managerVars, netVars, srv, loaded, use, held, closing>>

\* Run and Stream open a session.  Only a live client can grant one, and a
\* live client may refuse.
SessionOk(k) ==
    /\ pc[k] = "open"
    /\ conn[held[k]] = "up"
    /\ pc' = [pc EXCEPT ![k] = "session"]
    /\ UNCHANGED <<poolVars, managerVars, netVars, srv, loaded, use, held, closing>>

SessionFail(k) ==
    /\ pc[k] = "open"
    /\ pc' = [pc EXCEPT ![k] = "invalidate"]
    /\ UNCHANGED <<poolVars, managerVars, netVars, srv, loaded, use, held, closing>>

\* Manager m lets go of its client and closes it; its status becomes st.
LeakClient(m, st) ==                                                \* mutant
    /\ client' = [client EXCEPT ![m] = None]
    /\ status' = [status EXCEPT ![m] = st]
    /\ conn' = conn
KeepClient(m, st) ==                                                \* mutant
    /\ conn' = [conn EXCEPT ![client[m]] = "closed"]
    /\ UNCHANGED <<client, status>>
DropClient(m, st) ==
    /\ conn' = [conn EXCEPT ![client[m]] = "closed"]
    /\ client' = [client EXCEPT ![m] = None]
    /\ status' = [status EXCEPT ![m] = st]

\* The manager still has the client in question: it may have redialed since.
HasAny(m, d) == client[m] # None                                    \* mutant
HasStill(m, d) == client[m] = d

\* What a manager that was online is after losing its client.
Unfallen(m) == status[m]                                            \* mutant
FallenClosed(m) == IF status[m] = "online" THEN "closed" ELSE status[m] \* mutant
Fallen(m) == IF status[m] = "online" THEN "offline" ELSE status[m]

Invalidate(k) ==
    LET m == use[k] IN
    /\ pc[k] = "invalidate"
    /\ IF HasStill(m, held[k])
       THEN DropClient(m, Fallen(m))
       ELSE UNCHANGED <<conn, client, status>>
    /\ pc' = [pc EXCEPT ![k] = "failed"]
    /\ UNCHANGED <<poolVars, cfg, dialWait, watching, srv, loaded, use, held, closing>>

\* The command ends, Run's timer fires, or Stream's context is cancelled.
SessionEnd(k) ==
    /\ pc[k] = "session"
    /\ pc' = [pc EXCEPT ![k] = "done"]
    /\ UNCHANGED <<poolVars, managerVars, netVars, srv, loaded, use, held, closing>>

-----------------------------------------------------------------------------
(* Losing a connection                                                      *)

\* The remote end or the network drops the connection.
TransportDies(d) ==
    /\ conn[d] = "up"
    /\ conn' = [conn EXCEPT ![d] = "dead"]
    /\ UNCHANGED <<poolVars, managerVars, watching, callVars>>

\* Manager.watch: client.Wait has returned.
Watch(d) ==
    LET m == use[d] IN
    /\ d \in watching
    /\ conn[d] \in {"dead", "closed"}
    /\ watching' = watching \ {d}
    /\ IF HasStill(m, d)
       THEN /\ client' = [client EXCEPT ![m] = None]
            /\ status' = [status EXCEPT ![m] = Fallen(m)]
       ELSE UNCHANGED <<client, status>>
    /\ UNCHANGED <<poolVars, cfg, dialWait, conn, callVars>>

\* Pool.Disconnect and Pool.Forget up to the unlock.
Remove(k, s) ==
    /\ pc[k] = "idle"
    /\ srv' = [srv EXCEPT ![k] = s]
    /\ IF sessions[s] # None
       THEN /\ sessions' = [sessions EXCEPT ![s] = None]
            /\ closing' = [closing EXCEPT ![k] = {sessions[s]}]
            /\ pc' = [pc EXCEPT ![k] = "closing"]
       ELSE /\ pc' = [pc EXCEPT ![k] = "done"]
            /\ UNCHANGED <<sessions, closing>>
    /\ UNCHANGED <<managerVars, netVars, loaded, use, held>>

\* Pool.DisconnectAll up to the unlock.  main runs it once the HTTP server has
\* stopped; background work and hijacked sockets may outlive that.
RemoveAll(k) ==
    /\ pc[k] = "idle"
    /\ sessions' = [s \in Ids |-> None]
    /\ closing' = [closing EXCEPT ![k] = {sessions[s] : s \in Ids} \ {None}]
    /\ pc' = [pc EXCEPT ![k] = "closing"]
    /\ UNCHANGED <<managerVars, netVars, srv, loaded, use, held>>

\* Manager.Close of one of the managers taken out.
CloseManager(k, m) ==
    /\ pc[k] = "closing"
    /\ m \in closing[k]
    /\ closing' = [closing EXCEPT ![k] = @ \ {m}]
    /\ IF client[m] = None
       THEN /\ status' = [status EXCEPT ![m] = "offline"]
            /\ UNCHANGED <<conn, client>>
       ELSE DropClient(m, "offline")
    /\ UNCHANGED <<poolVars, cfg, dialWait, watching, pc, srv, loaded, use, held>>

CloseDone(k) ==
    /\ pc[k] = "closing"
    /\ closing[k] = {}
    /\ pc' = [pc EXCEPT ![k] = "done"]
    /\ UNCHANGED <<poolVars, managerVars, netVars, srv, loaded, use, held, closing>>

-----------------------------------------------------------------------------
\* Steps a call takes by itself once it has started.
Work(k) ==
    \/ \E c \in Config : LoadOk(k, c)
    \/ LoadFail(k)
    \/ Insert(k)
    \/ EnsureCheck(k)
    \/ Wake(k)
    \/ DialOk(k)
    \/ DialFail(k)
    \/ Return(k)
    \/ SessionOk(k)
    \/ SessionFail(k)
    \/ Invalidate(k)
    \/ \E m \in Calls : CloseManager(k, m)
    \/ CloseDone(k)

Next ==
    \/ \E k \in Calls, s \in Ids : Lookup(k, s) \/ Remove(k, s)
    \/ \E k \in Calls : RemoveAll(k) \/ Work(k) \/ SessionEnd(k)
    \/ \E d \in Calls : TransportDies(d) \/ Watch(d)

Spec == Init /\ [][Next]_vars

-----------------------------------------------------------------------------
(* Invariants.  IInv is the inductive one; the parts above IInv that are    *)
(* not promises of the code are what its steps rely on of one another.      *)

Early == {"idle", "load", "insert"}
InManager == {"ensure", "wait", "dial", "open", "session", "invalidate"}
HasClient == {"open", "session", "invalidate"}

\* A dial in flight and the manager's dialWait name each other.
DialTracked ==
    /\ \A k \in Calls : pc[k] = "dial" => dialWait[use[k]] = k
    /\ \A m \in Calls : dialWait[m] # None =>
          pc[dialWait[m]] = "dial" /\ use[dialWait[m]] = m /\ client[m] = None

\* A pooled manager was made for the id it is filed under.
PoolKeyed ==
    \A s \in Ids : sessions[s] # None =>
        cfg[sessions[s]] # None /\ cfg[sessions[s]].id = s

\* A call works on its own id: with what it loaded, then with a manager.
CallKeyed ==
    \A k \in Calls :
        /\ pc[k] \in {"load", "insert"} => srv[k] \in Ids
        /\ pc[k] = "insert" => loaded[k] # None /\ loaded[k].id = srv[k]
        /\ pc[k] \in InManager =>
              use[k] # None /\ cfg[use[k]] # None /\ cfg[use[k]].id = srv[k]

\* Managers in use and clients come from calls that are past Insert, so
\* neither the manager a call uses nor its configuration changes any more.
Born ==
    /\ \A s \in Ids : sessions[s] # None => pc[sessions[s]] \notin Early
    /\ \A k \in Calls : use[k] # None => pc[use[k]] \notin Early
    /\ \A d \in Calls : conn[d] # "none" => pc[d] \notin Early

\* The client a call holds was dialed by a user of the same manager.
HeldDialed ==
    \A k \in Calls : pc[k] \in HasClient =>
        held[k] # None /\ conn[held[k]] # "none" /\ use[held[k]] = use[k]

\* No manager ever has two dials in flight, nor dials while it has a client
\* (manager.go:83-96, the dialing flag read and set under the lock).
SingleFlight ==
    \A j, k \in Calls :
        /\ pc[j] = "dial" /\ pc[k] = "dial" /\ use[j] = use[k] => j = k
        /\ pc[k] = "dial" => client[use[k]] = None

\* A manager is online exactly while it has a client: what Pool.IsConnected
\* reports is the presence of a session, through every close, dial,
\* invalidation and death (manager.go:101-112, 123-128, 231-255).
OnlineIffClient ==
    \A m \in Calls : status[m] = "online" <=> client[m] # None

\* Every live connection is the current client of the manager that dialed it:
\* no step loses a connection without closing it.
NoLeak ==
    \A d \in Calls : conn[d] = "up" => use[d] # None /\ client[use[d]] = d

\* A manager never offers a client the server itself has closed, and only
\* ever offers a client dialed for it.
NoClosedClient ==
    \A m \in Calls : client[m] # None =>
        conn[client[m]] \in {"up", "dead"} /\ use[client[m]] = m

\* A call for one server never gets hold of another's connection, nor of its
\* address and credential (docs/architecture.md:194).
Isolation ==
    \A k \in Calls : pc[k] \in HasClient =>
        cfg[use[held[k]]] # None /\ cfg[use[held[k]]].id = srv[k]

IInv ==
    /\ TypeOK
    /\ DialTracked
    /\ PoolKeyed
    /\ CallKeyed
    /\ Born
    /\ HeldDialed
    /\ OnlineIffClient
    /\ NoLeak
    /\ NoClosedClient

\* A pooled manager is only ever removed, never replaced by another: the
\* second look-up before the insertion (pool.go:72-75).
NeverReplaced ==
    [][\A s \in Ids : sessions[s] # None => sessions'[s] \in {sessions[s], None}]_vars

\* A live connection is closed only by a call that could not open a session on
\* that very connection, or by one that removed the manager it belongs to: a
\* late failure on an old client never costs the new one (manager.go:247).
HealthyNotKilled ==
    [][\A d \in Calls : conn[d] = "up" /\ conn'[d] = "closed" =>
          \E k \in Calls :
             \/ pc[k] = "invalidate" /\ held[k] = d
             \/ use[d] \in closing[k]]_vars

\* A dead client is eventually forgotten, so that a later call redials.
DeadForgotten ==
    \A d \in Calls : conn[d] = "dead" ~> \A m \in Calls : client[m] # d

\* docs/architecture.md:169, "Disconnect / delete - close and remove the pool
\* entry": once nothing is under way any more, every live connection belongs
\* to a pooled manager.
NoOrphan ==
    (\A k \in Calls : pc[k] \in {"idle"} \cup Finished) =>
        \A d \in Calls : conn[d] = "up" => \E s \in Ids : sessions[s] = use[d]
=============================================================================
