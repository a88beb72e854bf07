------------------------------ MODULE Terminal ------------------------------
(***************************************************************************)
(* The Terminal window (TerminalApp.tsx): its tabs, the session each tab    *)
(* shows, and the runs of the effect that gives a session its shell - load  *)
(* xterm, open a socket, give it up after 12 s, close it on cleanup.        *)
(*                                                                         *)
(* A render and the effects it makes due are one step: React flushes them   *)
(* before anything else it does.  A run is a record; its cleanup closes a   *)
(* socket at once, but an import that is still loading has to come back     *)
(* and find itself disposed.  Preview servers, whose sessions are inert,    *)
(* the `cd` that a tab sends and what a shell prints are left out; the menu  *)
(* of the New tab button is the choice made in it.                          *)
(***************************************************************************)
EXTENDS Integers, Sequences, SequencesExt

CONSTANTS
  Order,     \* the servers, in the order of the list
  Payloads,  \* what opens the window: [serverId, cwd]
  TabIds,    \* ids for tabs; a closed tab's id may serve again
  None

VARIABLES
  listed,     \* the servers the session lists
  up,         \* those with server.connected
  payload,    \* of the window, or None while it is closed
  tabs,       \* the tabs, a sequence of [id, serverId, cwd]
  activeId,   \* the tab in front, or None
  openedKey,  \* the payload last turned into a tab, or None
  status,     \* of each session: "connecting", "connected", "disconnected"
  runs,       \* of the sessions' effect: [tab, at, disposed]
  asks        \* bound on what the user and the servers still do

vars == <<listed, up, payload, tabs, activeId, openedKey, status, runs, asks>>

Servers == ToSet(Order)
Statuses == {"connecting", "connected", "disconnected"}
Stages == {"import", "connecting", "open", "closed"}

(* Those a terminal can be opened on, and the first of them in the list.      *)
openableServers(on, in) == Servers \cap on \cap in
FirstOf(servers) ==
  {Order[i] : i \in {j \in DOMAIN Order :
     Order[j] \in servers /\ \A k \in 1..(j - 1) : Order[k] \notin servers}}
connected == openableServers(up, listed)

makeTab(id, s, cwd) == [id |-> id, serverId |-> s, cwd |-> cwd]
Ids(ts) == {ts[i].id : i \in DOMAIN ts}
TabOf(ts, id) == ts[CHOOSE i \in DOMAIN ts : ts[i].id = id]

(* The tabs with a mounted TerminalSession, and those whose effect runs.     *)
Mounted(ts, in) == {ts[i].id : i \in {j \in DOMAIN ts : ts[j].serverId \in in}}
Live(ts, on, in) == {id \in Mounted(ts, in) : TabOf(ts, id).serverId \in on}

----------------------------------------------------------------------------
(* The effect's cleanup: close the socket; an import stays until it returns. *)
disposed(rs) ==
  {[r EXCEPT !.disposed = TRUE] : r \in {q \in rs : q.at = "import"}}

(* A run begins: connect() loads xterm.                                      *)
connect(id) == [tab |-> id, at |-> "import", disposed |-> FALSE]

(* The effect with dependency server.connected, for the tabs after a render: *)
(* runs of sessions that are gone or disconnected are cleaned up, those that  *)
(* became live start.                                                        *)
Effects(ts, on, in) ==
  LET was == Live(tabs, up, listed)
      is == Live(ts, on, in)
  IN {r \in runs : r.tab \in is \cap was \/ r.disposed}
     \cup disposed({r \in runs : r.tab \notin is \cap was})
     \cup {connect(id) : id \in is \ was}

(* What a render with these tabs and servers leaves: a session keeps its     *)
(* status while it is mounted.                                               *)
Render(ts, on, in) ==
  /\ tabs' = ts
  /\ status' = [id \in Mounted(ts, in) |->
                  IF id \in DOMAIN status THEN status[id] ELSE "connecting"]
  /\ runs' = Effects(ts, on, in)
  /\ up' = on /\ listed' = in

----------------------------------------------------------------------------
(* The tab a render opens by itself: the first one on the payload's server   *)
(* if it is connected, else on any; a later one for each new payload.        *)
FirstTabs(id, p, on, in) ==
  LET c == openableServers(on, in)
  IN {makeTab(id, s, IF s = p.serverId THEN p.cwd ELSE None) :
        s \in IF p.serverId \in c THEN {p.serverId} ELSE FirstOf(c)}

OpensFirst(p, on, in) ==
  p # None /\ openedKey = None /\ openableServers(on, in) # {}
OpensNext(p) == openedKey # None /\ p # openedKey /\ p.serverId # None

First(p, on, in) ==
  \E id \in TabIds : \E tab \in FirstTabs(id, p, on, in) :
    Render(<<tab>>, on, in) /\ activeId' = id /\ openedKey' = p

Stay == Render(tabs, up, listed) /\ UNCHANGED activeId

(* The window opens, or "Open Terminal here" gives it another payload.       *)
Open(p) ==
  /\ asks > 0 /\ asks' = asks - 1
  /\ payload' = p
  /\ \/ OpensFirst(p, up, listed) /\ First(p, up, listed)
     \/ /\ OpensNext(p) /\ openedKey' = p
        /\ IF p.serverId \in connected
           THEN \E id \in TabIds \ Ids(tabs) :
                  /\ Render(Append(tabs, makeTab(id, p.serverId, p.cwd)), up, listed)
                  /\ activeId' = id
           ELSE Stay
     \/ ~OpensFirst(p, up, listed) /\ ~OpensNext(p) /\ Stay /\ UNCHANGED openedKey

(* The session's list changes: a server connects or disconnects, the list    *)
(* fails and is empty, or is back.                                           *)
SessionChanges(on, in) ==
  /\ asks > 0 /\ asks' = asks - 1
  /\ IF OpensFirst(payload, on, in) THEN First(payload, on, in)
     ELSE Render(tabs, on, in) /\ UNCHANGED <<activeId, openedKey>>
  /\ UNCHANGED payload

(* The New tab button's menu: addTab on a connected server.                  *)
addTab(s) ==
  \E id \in TabIds \ Ids(tabs) :
    /\ Render(Append(tabs, makeTab(id, s, None)), up, listed)
    /\ activeId' = id

NewTab ==
  /\ asks > 0 /\ asks' = asks - 1
  /\ payload # None
  /\ \E s \in connected : addTab(s)
  /\ UNCHANGED <<payload, openedKey>>

(* The tab is taken out - no other has its id - and the one that moves into    *)
(* its place comes to the front.                                             *)
closeTab(id) ==
  LET index == CHOOSE i \in DOMAIN tabs : tabs[i].id = id
      next == RemoveAt(tabs, index)
  IN /\ Render(next, up, listed)
     /\ activeId' = CASE activeId # id -> activeId
                      [] next = <<>> -> None
                      [] OTHER -> next[IF index <= Len(next) THEN index ELSE Len(next)].id

TabBar ==
  /\ asks > 0 /\ asks' = asks - 1
  /\ \E id \in Ids(tabs) :
       \/ closeTab(id)
       \/ activeId' = id /\ activeId # id
          /\ UNCHANGED <<tabs, status, runs, up, listed>>
  /\ UNCHANGED <<payload, openedKey>>

(* Reconnect, shown unless the status is "connected": the effect runs anew.  *)
Reconnect ==
  /\ asks > 0 /\ asks' = asks - 1
  /\ activeId \in Live(tabs, up, listed)
  /\ status[activeId] # "connected"
  /\ status' = [status EXCEPT ![activeId] = "connecting"]
  /\ runs' = {r \in runs : r.tab # activeId \/ r.disposed}
             \cup disposed({r \in runs : r.tab = activeId}) \cup {connect(activeId)}
  /\ UNCHANGED <<listed, up, payload, tabs, activeId, openedKey>>

(* The window goes away, closed by the user or with the whole desktop.       *)
Unmounted ==
  /\ payload' = None /\ openedKey' = None /\ activeId' = None
  /\ tabs' = <<>> /\ status' = [id \in {} |-> "connecting"]
  /\ runs' = {r \in runs : r.disposed} \cup disposed(runs)
  /\ UNCHANGED <<listed, up>>

Close == asks > 0 /\ asks' = asks - 1 /\ payload # None /\ Unmounted

(* The other appearance mounts the windows anew: what was typed or open in    *)
(* the old ones is gone, their payload is not.                               *)
Remount ==
  IF payload = None
  THEN UNCHANGED <<listed, up, payload, tabs, activeId, openedKey, status, runs>>
  ELSE /\ tabs' \in
            IF connected = {} THEN {<<>>}
            ELSE {<<tab>> : tab \in FirstTabs(CHOOSE id \in TabIds : TRUE, payload, up, listed)}
       /\ activeId' = IF tabs' = <<>> THEN None ELSE tabs'[1].id
       /\ openedKey' = IF tabs' = <<>> THEN None ELSE payload
       /\ status' = [id \in Ids(tabs') |-> "connecting"]
       /\ runs' = {r \in runs : r.disposed} \cup disposed(runs)
                  \cup {connect(id) : id \in Ids(tabs')}
       /\ UNCHANGED <<listed, up, payload>>

----------------------------------------------------------------------------
(* What happens to a run.                                                    *)
To(r, at, s) ==
  /\ runs' = (runs \ {r}) \cup IF at = "gone" THEN {} ELSE {[r EXCEPT !.at = at]}
  /\ status' = IF r.disposed THEN status ELSE [status EXCEPT ![r.tab] = s]
  /\ UNCHANGED <<listed, up, payload, tabs, activeId, openedKey, asks>>

Keep(r) == IF r.disposed THEN "connecting" ELSE status[r.tab]

(* xterm is loaded: a run disposed meanwhile returns, the others open a       *)
(* socket.                                                                   *)
\* mutant: the run does not look whether it was disposed
loadedAnyway(r) == r.at = "import" /\ To(r, "connecting", Keep(r))
loaded(r) == r.at = "import" /\ To(r, IF r.disposed THEN "gone" ELSE "connecting", Keep(r))
loadFailed(r) == r.at = "import" /\ To(r, "gone", "disconnected")

(* Twelve seconds without an open socket.                                    *)
\* mutant: the socket is closed, and the page goes on waiting for it
timeoutQuietly(r) == r.at = "connecting" /\ To(r, "closed", Keep(r))
timeout(r) == r.at = "connecting" /\ To(r, "closed", "disconnected")

onopen(r) == r.at = "connecting" /\ To(r, "open", "connected")
(* {"type":"error"}: the shell ended; the socket is still open.              *)
onmessage(r) == r.at = "open" /\ status[r.tab] # "disconnected" /\ To(r, "open", "disconnected")
onclose(r) == r.at \in {"connecting", "open"} /\ To(r, "closed", "disconnected")

Returns == \E r \in runs : loaded(r) \/ loadFailed(r)
Expires == \E r \in runs : timeout(r)

----------------------------------------------------------------------------
Init ==
  /\ listed = Servers /\ up \in SUBSET Servers
  /\ payload = None /\ tabs = <<>> /\ activeId = None /\ openedKey = None
  /\ status = [id \in {} |-> "connecting"] /\ runs = {}

UserAsks ==
  \/ \E p \in Payloads : Open(p)
  \/ NewTab \/ TabBar \/ Reconnect \/ Close

Next ==
  \/ UserAsks
  \/ \E s \in Servers : SessionChanges(IF s \in up THEN up \ {s} ELSE up \cup {s}, listed)
  \/ SessionChanges(up, IF listed = {} THEN Servers ELSE {})
  \/ Returns \/ Expires
  \/ \E r \in runs : onopen(r) \/ onmessage(r) \/ onclose(r)

----------------------------------------------------------------------------
TypeOK ==
  /\ listed \subseteq Servers /\ up \subseteq Servers
  /\ payload \in Payloads \cup {None}
  /\ openedKey \in Payloads \cup {None}
  /\ \A i \in DOMAIN tabs : tabs[i].id \in TabIds /\ tabs[i].serverId \in Servers
  /\ status \in [Mounted(tabs, listed) -> Statuses]
  /\ \A r \in runs : r.tab \in TabIds /\ r.at \in Stages /\ r.disposed \in BOOLEAN

(* A shell belongs to a session that is on the page: every socket, opening or *)
(* open, is of a run that was not disposed, of a tab that is mounted and      *)
(* whose server is connected, so closing the tab will close it.               *)
SocketsOwned ==
  \A r \in runs : r.at # "import" => ~r.disposed /\ r.tab \in Live(tabs, up, listed)

(* A live session has one run, and no tab's id is used twice.                *)
OneRun ==
  /\ \A id \in Live(tabs, up, listed) :
       \A q, r \in {p \in runs : p.tab = id /\ ~p.disposed} : q = r
  /\ \A i, j \in DOMAIN tabs : tabs[i].id = tabs[j].id => i = j

(* While there is a tab, one of them is in front.                            *)
OneInFront == IF tabs = <<>> THEN activeId = None ELSE activeId \in Ids(tabs)

(* A session never waits for nothing: one without a run, or whose socket has    *)
(* closed, says that it is disconnected and offers Reconnect; one with an open *)
(* socket does not say that it is connecting.  Not more than that: when the     *)
(* server is disconnected the cleanup leaves the status as it was, so after the *)
(* server is back "Connected" stands over a shell that has ended until the new  *)
(* run opens its socket or gives up.                                         *)
StatusOfRun ==
  \A id \in Live(tabs, up, listed) :
    LET own == {r \in runs : r.tab = id /\ ~r.disposed}
    IN /\ (\A r \in own : r.at = "closed") => status[id] = "disconnected"
       /\ (\E r \in own : r.at = "open") => status[id] # "connecting"

TerminalInv == TypeOK /\ SocketsOwned /\ OneRun /\ OneInFront /\ StatusOfRun

(* A session on a connected server ends up with an open shell, or says that   *)
(* it is disconnected (and offers Reconnect).                                 *)
Settled(id) ==
  \/ id \notin Live(tabs, up, listed)
  \/ status[id] = "disconnected"
  \/ \E r \in runs : r.tab = id /\ ~r.disposed /\ r.at = "open"
=============================================================================
