-------------------------------- MODULE Monitor --------------------------------
(***************************************************************************)
(* A System Monitor window (DashboardApp.tsx, monitor/ProcessesTab.tsx and  *)
(* ServicesTab.tsx): which servers it shows, the polling of their metrics,  *)
(* the history it keeps, and the actions it offers on a process or service. *)
(*                                                                         *)
(* Time is a counter; a sample is known by when the server took it.  The    *)
(* collector dates its points by the clock of ServerUI's server, the window *)
(* its own by the browser's, which is off by Skew; neither jumps.  A        *)
(* process is its pid.  The tabs of one metric are like the overview and    *)
(* the optional server context has no provider: both are left out, as are   *)
(* the inspection of a process, which only shows, the search fields, the    *)
(* numbers of the session, which stand in for a missing sample, and the     *)
(* charts (module Charts).                                                  *)
(***************************************************************************)
EXTENDS MonitorData, FiniteSets

CONSTANTS
  Order,       \* the servers, as the session lists them
  Bound,       \* the window's server, or None
  Info(_, _),  \* what a server measures at a time
  MaxWorkers,  \* calls of one tick at a time, 4
  PageSize,    \* rows on a page, 10
  MaxCollected,\* the 180 points the collector keeps
  Window,       \* the range of the charts
  Skew,         \* by how much the browser's clock is ahead of the server's
  MaxTime,     \* bound on time
  MaxEvents,   \* bound on changes of the servers and on clicks
  MaxLost      \* bound on polls that fail

VARIABLES
  listed, up,  \* the session's servers, and those connected
  since,       \* server -> when its collector started
  now,
  mode, picked, tab, page, focusId, \* the window's
  live,        \* server -> None or its last sample [at, up]
  history,     \* server -> points [t, at, own]
  effectKey,   \* ids the polling effect has run for
  queue, timer,\* of its tick: ids still to ask, or the pause between two
  calls,       \* polls under way: [id, sample, live]
  pulls,       \* refreshes under way: [id, sample]
  acting,      \* actions under way: [srv, shown, what, here]
  acted,       \* actions that reached a server
  refreshed,   \* whether Refresh has ever been asked for
  events, lost

servers == <<listed, up, since, now>>
selection == <<mode, picked>>
bounds == <<events, lost>>
samples == <<live, history>>
polling == <<effectKey, queue, timer, calls>>
monitorVars == <<servers, selection, tab, page, focusId, samples, polling, pulls,
                 acting, acted, refreshed, bounds>>

AllServers == {Order[i] : i \in DOMAIN Order}
ASSUME MonitorAssumption ==
  /\ Order \in Seq(AllServers) /\ \A i, j \in DOMAIN Order : Order[i] = Order[j] => i = j
  /\ Bound \in AllServers \cup {None} /\ None \notin AllServers /\ None \notin Int
  /\ MaxWorkers \in Nat \ {0} /\ PageSize \in Nat \ {0} /\ Window \in Nat
  /\ Skew \in Int /\ Near \in Nat \ {0}
  /\ MaxPoints \in Nat \ {0} /\ MaxCollected \in 1..MaxPoints
  /\ MaxTime \in Nat /\ MaxTime >= 2
  /\ \A s \in AllServers, t \in 0..MaxTime : Info(s, t) \in Infos

Has(s, x) == \E i \in DOMAIN s : s[i] = x

----------------------------------------------------------------------------
(* What the window shows.  A removed server it is bound to is shown first.   *)
catalog ==
  (IF Bound # None /\ Bound \notin listed THEN <<Bound>> ELSE <<>>)
    \o Keep(Order, listed)
catalogIds == {catalog[i] : i \in DOMAIN catalog}

visible == IF mode = "all" THEN catalog ELSE Keep(catalog, picked)

pollIds == Keep(visible, up)

single == Len(visible) = 1
multi == Len(visible) > 1

(* In the tabs of several servers one is chosen, among those online if any.  *)
switchServers == IF pollIds # <<>> THEN pollIds ELSE visible
focused == IF Has(switchServers, focusId) THEN focusId ELSE switchServers[1]

ShownServer == IF single THEN visible[1] ELSE focused

seedSnap(s) == [at |-> None, up |-> s \in up]
resolveSnap(s) == IF live[s] # None THEN live[s] ELSE seedSnap(s)

(* One server's tab is on only if the server is; of several, always.         *)
monitorOnline == multi \/ (ShownServer \in up /\ resolveSnap(ShownServer).up)

(* Where the tab is mounted: its state lasts as long as that is the same.    *)
MountedTab == IF tab = "overview" \/ visible = <<>> THEN None
           ELSE IF single THEN <<"single", tab>> ELSE <<"multi", tab>>
Table == multi /\ tab = "overview"

(* What is told of one server: its last sample's CPU while it is online.      *)
rowReading(s) == IF s \in up /\ live[s] # None THEN Info(s, live[s].at).cpu ELSE None

(* The table of servers, the highest first; the other columns sort alike.  A   *)
(* page past the last one shows the last one.                                 *)
compareRows ==
  LET Rank(s) == IF rowReading(s) = None THEN -1 ELSE rowReading(s)
  IN SortSeq(visible, LAMBDA a, b : Rank(a) > Rank(b))
pageCount == IF Len(visible) = 0 THEN 1 ELSE (Len(visible) + PageSize - 1) \div PageSize
safePage == IF page > pageCount - 1 THEN pageCount - 1 ELSE page
Rows == SubSeq(compareRows, safePage * PageSize + 1,
               IF (safePage + 1) * PageSize < Len(visible) THEN (safePage + 1) * PageSize
               ELSE Len(visible))

(* The cards: the last sample of every server shown that has one.            *)
reporting ==
  LET got == Keep(visible, {s \in AllServers : live[s] # None})
  IN [i \in DOMAIN got |-> sampleFromInfo(Info(got[i], live[got[i]].at))]

busiestServer ==
  LET read == Keep(visible, {s \in AllServers : rowReading(s) # None})
      Busier(i, j) == \/ rowReading(read[i]) > rowReading(read[j])
                      \/ rowReading(read[i]) = rowReading(read[j]) /\ i <= j
  IN IF read = <<>> THEN None
     ELSE read[CHOOSE i \in DOMAIN read : \A j \in DOMAIN read : Busier(i, j)]

MetricCards ==
  [cpu |-> aggregateCpu(reporting), memory |-> aggregateBytes(reporting),
   network |-> aggregateNetwork(reporting), busiest |-> busiestServer]

chartFor(s) ==
  LET Drawn(p) == IF p.own THEN liveSample(Info(s, p.at), p.t)
                  ELSE mapHistory([t |-> p.t, info |-> Info(s, p.at)])
  IN filterHistory([i \in DOMAIN history[s] |-> Drawn(history[s][i])], Window, now + Skew)

combined ==
  sparkHistory([i \in DOMAIN visible |->
    LET s == visible[i] IN
    [points |-> chartFor(s),
     cpus |-> IF live[s] = None THEN None ELSE Info(s, live[s].at).cpus,
     bytes |-> IF live[s] = None THEN None ELSE Info(s, live[s].at).bytes]])

----------------------------------------------------------------------------
MonitorInit ==
  /\ listed = AllServers /\ up = AllServers /\ now = 2
  /\ since = [s \in AllServers |-> 1]
  /\ mode = (IF Bound # None THEN "custom" ELSE "all")
  /\ picked = (IF Bound # None THEN {Bound} ELSE {})
  /\ tab = "overview" /\ page = 0
  /\ focusId = (IF Bound # None THEN Bound ELSE Order[1])
  /\ live = [s \in AllServers |-> None] /\ history = [s \in AllServers |-> <<>>]
  /\ effectKey = <<>> /\ queue = <<>> /\ timer = FALSE /\ calls = {} /\ pulls = {}
  /\ acting = {} /\ acted = {} /\ refreshed = FALSE
  /\ events = 0 /\ lost = 0

Event == events < MaxEvents /\ events' = events + 1 /\ UNCHANGED lost
Lost == lost < MaxLost /\ lost' = lost + 1 /\ UNCHANGED events

(* A component that is unmounted forgets: the tab what it is doing, the table*)
(* its page, the view of several servers the one chosen.                     *)
Remount(pg, id) ==
  /\ page' = IF Table' = Table THEN pg ELSE 0
  /\ focusId' = IF multi' /\ ~multi THEN visible'[1] ELSE id
  /\ acting' = IF MountedTab' = MountedTab THEN acting ELSE {[x EXCEPT !.here = FALSE] : x \in acting}

Same == Remount(page, focusId)

----------------------------------------------------------------------------
(* The servers: the session lists and connects them, time goes by, and the   *)
(* collector of the backend may start anew.                                  *)
SessionChanges ==
  /\ Event
  /\ \E s \in AllServers :
       \/ listed' = listed \ {s} /\ up' = up \ {s}
       \/ listed' = listed \cup {s} /\ up' = up \cup {s}
       \/ s \in listed /\ up' = up \ {s} /\ UNCHANGED listed
  /\ <<listed, up>>' # <<listed, up>>
  /\ UNCHANGED <<since, now, selection, tab, samples, polling, pulls, acted, refreshed>>
  /\ Same

Time ==
  /\ now < MaxTime /\ now' = now + 1
  /\ UNCHANGED <<listed, up, since, selection, tab, page, focusId, samples,
                 polling, pulls, acting, acted, refreshed, bounds>>

CollectorRestarts ==
  /\ Event
  /\ \E s \in AllServers : since[s] < now /\ since' = [since EXCEPT ![s] = now]
  /\ UNCHANGED <<listed, up, now, selection, tab, page, focusId, samples,
                 polling, pulls, acting, acted, refreshed>>

----------------------------------------------------------------------------
(* The menu of servers.                                                      *)
selectAll == mode' = "all" /\ UNCHANGED picked

selectOne(s) == mode' = "custom" /\ picked' = {s}

(* From "all", unticking one leaves the rest; servers no longer listed are   *)
(* forgotten on the occasion.                                                *)
toggle(s) ==
  LET base == IF mode = "all" THEN catalogIds ELSE picked \cap catalogIds
  IN /\ s \in catalogIds
     /\ mode' = "custom"
     /\ picked' = IF s \in base THEN base \ {s} ELSE base \cup {s}

ServerMenu ==
  /\ Event
  /\ (mode # "all" /\ selectAll) \/ \E s \in AllServers : toggle(s)
  /\ UNCHANGED <<servers, tab, samples, polling, pulls, acted, refreshed>>
  /\ Same

OpenRow ==
  /\ Event
  /\ Table /\ \E i \in DOMAIN Rows : selectOne(Rows[i])
  /\ UNCHANGED <<servers, tab, samples, polling, pulls, acted, refreshed>>
  /\ Same

Clicked == UNCHANGED <<servers, selection, samples, polling, pulls, acted, refreshed, bounds>>

MonitorSidebar ==
  /\ Event
  /\ UNCHANGED <<servers, selection, samples, polling, pulls, acted, refreshed>>
  /\ tab' \in {"overview", "processes", "services"} \ {tab}
  /\ Same

ServerSwitch ==
  /\ Clicked
  /\ multi /\ tab # "overview" /\ UNCHANGED tab
  /\ \E i \in DOMAIN switchServers :
       switchServers[i] # focusId /\ Remount(page, switchServers[i])

TurnPage ==
  /\ Clicked
  /\ Table /\ UNCHANGED tab
  /\ \/ safePage < pageCount - 1 /\ Remount(safePage + 1, focusId)
     \/ safePage > 0 /\ Remount(safePage - 1, focusId)

----------------------------------------------------------------------------
(* Polling.  The workers of a tick take the next id as they go.              *)
Call(s) == [id |-> s, sample |-> None, live |-> TRUE]
Mine == {c \in calls : c.live}

Tick(ids, others) ==
  LET n == IF Len(ids) < MaxWorkers THEN Len(ids) ELSE MaxWorkers
  IN /\ calls' = others \cup {Call(ids[i]) : i \in 1..n}
     /\ queue' = SubSeq(ids, n + 1, Len(ids))
     /\ timer' = FALSE

(* The effect runs again when the ids have changed; what was asked before    *)
(* does not count any more.                                                  *)
RunEffect ==
  /\ pollIds # effectKey
  /\ effectKey' = pollIds
  /\ Tick(pollIds, {[c EXCEPT !.live = FALSE] : c \in calls})
  /\ UNCHANGED <<servers, selection, tab, page, focusId, samples, pulls, acting,
                 acted, refreshed, bounds>>

NextTick ==
  /\ timer
  /\ Tick(effectKey, calls)
  /\ UNCHANGED <<servers, selection, tab, page, focusId, effectKey, samples, pulls,
                 acting, acted, refreshed, bounds>>

Sample(s) == [at |-> now, up |-> s \in up]

(* The server takes the sample that a poll or a refresh asks for.            *)
Serve(c) ==
  /\ c.sample = None
  /\ \/ c \in calls /\ calls' = (calls \ {c}) \cup {[c EXCEPT !.sample = Sample(c.id)]}
        /\ UNCHANGED pulls
     \/ c \in pulls /\ pulls' = (pulls \ {c}) \cup {[c EXCEPT !.sample = Sample(c.id)]}
        /\ UNCHANGED calls
  /\ UNCHANGED <<servers, selection, tab, page, focusId, samples, effectKey, queue, timer,
                 acting, acted, refreshed, bounds>>

(* The collector's history goes back to when it started, up to 180 points.   *)
Collected(s, at) ==
  LET most == at - MaxCollected + 1
      from == IF since[s] > at THEN at ELSE IF since[s] > most THEN since[s] ELSE most
  IN [i \in 1..(at - from + 1) |-> [t |-> from + i - 1, at |-> from + i - 1, own |-> FALSE]]

rememberSample(s, got) ==
  /\ live' = [live EXCEPT ![s] = got]
  /\ history' = [history EXCEPT ![s] =
       mergeHistory(@, Collected(s, got.at), [t |-> now + Skew, at |-> got.at, own |-> TRUE])]

(* The rest of the queue and of the workers, once a call is over.            *)
Worked(c) ==
  /\ calls' = (calls \ {c}) \cup
       (IF c.live /\ queue # <<>> THEN {Call(Head(queue))} ELSE {})
  /\ queue' = IF c.live /\ queue # <<>> THEN Tail(queue) ELSE queue
  /\ timer' = (timer \/ (c.live /\ queue = <<>> /\ Mine = {c}))

Waiting(c) ==
  /\ calls' = calls \ {c}
  /\ queue' = queue /\ timer' = timer

\* mutant
PolledAnyway(c) ==
  /\ c.sample # None /\ rememberSample(c.id, c.sample) /\ UNCHANGED bounds /\ Worked(c)
  /\ UNCHANGED <<servers, selection, tab, page, focusId, effectKey, pulls, acting,
                 acted, refreshed>>
\* mutant
PolledUncaught(c) ==
  /\ \/ /\ c.sample # None /\ UNCHANGED bounds /\ Worked(c)
        /\ IF c.live THEN rememberSample(c.id, c.sample) ELSE UNCHANGED samples
     \/ Lost /\ UNCHANGED samples /\ Waiting(c)
  /\ UNCHANGED <<servers, selection, tab, page, focusId, effectKey, pulls, acting,
                 acted, refreshed>>
(* An answer or an error: the last good sample stays, the tick goes on.      *)
Polled(c) ==
  /\ \/ /\ c.sample # None /\ UNCHANGED bounds
        /\ IF c.live THEN rememberSample(c.id, c.sample) ELSE UNCHANGED samples
     \/ Lost /\ UNCHANGED samples
  /\ Worked(c)
  /\ UNCHANGED <<servers, selection, tab, page, focusId, effectKey, pulls, acting,
                 acted, refreshed>>

(* A refresh counts whenever it is answered.                                 *)
refresh(s) == pulls' = pulls \cup {[id |-> s, sample |-> None]} /\ refreshed' = TRUE

Refreshed ==
  /\ \E p \in pulls :
       /\ pulls' = pulls \ {p}
       /\ \/ p.sample # None /\ rememberSample(p.id, p.sample)
          \/ UNCHANGED samples
  /\ UNCHANGED <<servers, selection, tab, page, focusId, polling, acting, acted,
                 refreshed, bounds>>

onRefresh ==
  /\ Event
  /\ tab = "services" /\ visible # <<>> /\ refresh(ShownServer)
  /\ UNCHANGED <<servers, selection, tab, page, focusId, samples, polling, acting,
                 acted>>

----------------------------------------------------------------------------
(* Kill Process, or Start and Stop of a service: asked of the user with the  *)
(* names shown, and sent to the window's server.                             *)
act ==
  /\ Event
  /\ Bound # None /\ MountedTab # None /\ monitorOnline
  /\ \A x \in acting : ~x.here
  /\ resolveSnap(ShownServer).at # None
  /\ acting' = acting \cup {[srv |-> Bound, shown |-> ShownServer, what |-> tab, here |-> TRUE]}
  /\ UNCHANGED <<servers, selection, tab, page, focusId, samples, polling, pulls, acted,
                 refreshed>>

(* Done or not, the tab takes the next one; the services are asked for again.*)
Acted(x) ==
  /\ acting' = acting \ {x}
  /\ \/ /\ acted' = acted \cup {[srv |-> x.srv, shown |-> x.shown]}
        /\ IF x.what = "services" THEN refresh(x.shown) ELSE UNCHANGED <<pulls, refreshed>>
     \/ UNCHANGED <<acted, pulls, refreshed>>
  /\ UNCHANGED <<servers, selection, tab, page, focusId, samples, polling, bounds>>

MonitorNext ==
  \/ SessionChanges \/ Time \/ CollectorRestarts
  \/ ServerMenu \/ OpenRow \/ MonitorSidebar \/ ServerSwitch \/ TurnPage \/ onRefresh \/ act
  \/ RunEffect \/ NextTick \/ Refreshed
  \/ (\E c \in calls \cup pulls : Serve(c)) \/ (\E c \in calls : Polled(c))
  \/ (\E x \in acting : Acted(x))

MonitorSpec == MonitorInit /\ [][MonitorNext]_monitorVars

(* React runs effects, timers fire, and every poll is answered in time or    *)
(* cut off.                                                                  *)
Ticking == NextTick \/ \E c \in Mine : Serve(c) \/ Polled(c)

MonitorFairSpec == MonitorSpec /\ WF_monitorVars(RunEffect) /\ WF_monitorVars(Ticking)

----------------------------------------------------------------------------
(* A history is what the collector took, in the order of its clock, and then *)
(* the window's own points, in the order of the browser's and 400 ms apart;  *)
(* where the two meet the times go back by no more than the clocks differ,   *)
(* and forward if they agree.  No more are kept than fit, though polls and   *)
(* refreshes are answered in any order and the collector's history may be    *)
(* longer or shorter than the kept one (format.ts mergeHistory).             *)
Follows(p, q) ==
  /\ Before(p, q)
  /\ p.own => p.t + Near <= q.t
  /\ ~p.own /\ q.own => p.t + Skew <= q.t /\ (Skew = 0 => p.t < q.t)

HistoryOrdered ==
  \A s \in AllServers :
    /\ \A i \in 2..Len(history[s]) : Follows(history[s][i - 1], history[s][i])
    /\ Len(history[s]) <= MaxPoints

(* A total over servers lies between the lowest and the highest of them, and *)
(* none comes out of nothing: cards and combined history alike.  The combined *)
(* CPU is not above the busiest server's, unless a server counts that has gone *)
(* offline since its last sample.                                            *)
TotalsTrue ==
  LET Between(a) == a.used <= 100 * a.total /\ a.used >= 0 /\ (a.reporting = 0 <=> a.total = 0)
      cards == MetricCards
      points == combined
      shown == visible
  IN /\ Between(cards.cpu) /\ cards.cpu.reporting <= Len(shown)
     /\ (cards.cpu.reporting > 0 /\ \A i \in DOMAIN shown : live[shown[i]] # None => shown[i] \in up)
          => cards.busiest # None /\ cards.cpu.used <= cards.cpu.total * rowReading(cards.busiest)
     /\ \A i \in DOMAIN points :
          /\ Between(points[i].cpu)
          /\ points[i].memory.used <= points[i].memory.total
          /\ points[i].net.reporting <= Len(shown)

MonitorInv == HistoryOrdered /\ TotalsTrue

(* What is shown of a server never gets older by polling, whatever the       *)
(* effect was restarted for; only a Refresh, which nothing cancels, may show *)
(* an answer that was overtaken.                                             *)
NeverOlder ==
  [][~refreshed' => \A s \in AllServers :
       live[s] # None => live'[s] # None /\ live'[s].at >= live[s].at]_monitorVars

(* A server that is shown and online is polled again and again: once time    *)
(* stops, its sample is of that time, though calls fail and other servers    *)
(* hold the workers.                                                         *)
Sampled ==
  \A s \in AllServers :
    now = MaxTime /\ Has(pollIds, s)
      ~> ~Has(pollIds, s) \/ (live[s] # None /\ live[s].at = MaxTime)

(* Kill Process and the buttons of a service act on the server shown.        *)
ActsOnShown == \A a \in acted : a.srv = a.shown
=============================================================================
