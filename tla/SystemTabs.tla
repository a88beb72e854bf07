----------------------------- MODULE SystemTabs -----------------------------
(***************************************************************************)
(* The Processes and Services tabs of the Monitor (ProcessesTab.tsx,         *)
(* ServicesTab.tsx): a filtered and sorted list of the last sample, the       *)
(* details asked for the process in front, Kill Process, and the buttons of    *)
(* a service.  Samples, servers and samples' order are in module Monitor:      *)
(* here a sample of the server shown arrives at any moment, and the server     *)
(* the tabs act on (useSelectedServer) is the window's own.                    *)
(*                                                                         *)
(* A confirm() box blocks the page, so asking and acting are one step; one     *)
(* that is refused does nothing.  Cards, charts, the tab of the details and    *)
(* the wording are left out, and so is the third sort key.                    *)
(***************************************************************************)
EXTENDS Integers, Sequences, SequencesExt

CONSTANTS
  Samples,     \* by server: the samples it may send, [processes, services]
  Searches,    \* what a search matches: sets of names
  None

VARIABLES
  appearance, asks,
  tab,         \* "processes", "services" or, in a window mounted anew, "overview"
  selected,    \* the server of the window: None, or its id
  shownOn,     \* the server whose sample is shown
  online, snap,
  search, filter, sort,
  activePid, inspect,   \* inspect: None, or the server and pid it tells of
  busy,        \* what the mounted tab waits for, a set of at most one thing
  requests     \* the calls under way

vars == <<appearance, asks, tab, selected, shownOn, online, snap, search, filter, sort, activePid,
          inspect, busy, requests>>
listVars == <<search, filter, sort>>
monitorVars == <<selected, shownOn, online, snap>>

Asked == asks > 0 /\ asks' = asks - 1

----------------------------------------------------------------------------
(* The lists.                                                                *)
isSystemProc(proc) == proc.user = "root" \/ proc.kernel

Passes(proc, kind, names) ==
  /\ kind = "user" => ~isSystemProc(proc)
  /\ kind = "system" => isSystemProc(proc)
  /\ kind = "running" => proc.running
  /\ names = None \/ proc.name \in names

Listed(procs, kind, names, by) ==
  LET Key(p) == IF by = "memory" THEN p.memory ELSE p.cpu
  IN SortSeq(SelectSeq(procs, LAMBDA p : Passes(p, kind, names)), LAMBDA p, q : Key(p) > Key(q))
processes == Listed(snap.processes, filter, search, sort)

(* The row picked, or the first one when it is not in the list.               *)
InFront(rows, pid) ==
  LET picked == SelectInSeq(rows, LAMBDA p : p.pid = pid)
  IN IF rows = <<>> THEN None ELSE rows[IF picked = 0 THEN 1 ELSE picked]
active == InFront(processes, activePid)

services ==
  {name \in DOMAIN snap.services :
     /\ filter = "all" \/ snap.services[name] = filter
     /\ search = None \/ name \in search}

----------------------------------------------------------------------------
(* The effect of ProcessesTab: what it is asked for, and what happens when    *)
(* that changes - the call under way is cancelled, another is made.           *)
Wanted ==
  LET front == active
  IN IF tab # "processes" \/ selected = None \/ ~online \/ front = None THEN None
     ELSE [srv |-> selected, pid |-> front.pid]
Inspect(w) == [kind |-> "inspect", of |-> w, mine |-> TRUE]

InspectEffect(now) ==
  LET next == Wanted'
  IN requests' = IF next = Wanted THEN now
                 ELSE {IF r.kind = "inspect" THEN [r EXCEPT !.mine = FALSE] ELSE r : r \in now}
                      \cup {Inspect(w) : w \in {next} \ {None}}

\* mutant: an answer is taken whether the effect was cleaned up or not
takenAnyway(r) == TRUE
taken(r) == r.mine

inspected ==
  \E r \in requests : \E answer \in {r.of, None} :
    /\ r.kind = "inspect"
    /\ inspect' = IF taken(r) THEN answer ELSE inspect
    /\ requests' = requests \ {r}
    /\ UNCHANGED <<appearance, asks, tab, monitorVars, listVars, activePid, busy>>

----------------------------------------------------------------------------
(* Kill Process: of the process in front, never pid 1, and not while another   *)
(* is being killed.                                                           *)
onKill ==
  /\ Asked /\ tab = "processes"
  /\ online /\ busy = {}
  /\ selected # None /\ active # None /\ active.pid > 1
  /\ LET what == [srv |-> selected, pid |-> active.pid]
     IN /\ busy' = {what}
        /\ requests' = requests \cup {[kind |-> "kill", of |-> what, mine |-> TRUE]}
  /\ UNCHANGED <<appearance, tab, monitorVars, listVars, activePid, inspect>>

\* mutant: busy is put back only after a call that went well
doneIfWell(well) == IF well THEN {} ELSE busy
done(well) == {}

killed ==
  \E r \in requests, well \in BOOLEAN :
    /\ r.kind = "kill"
    /\ IF r.mine THEN activePid' = (IF well THEN None ELSE activePid) /\ busy' = done(well)
       ELSE UNCHANGED <<activePid, busy>>
    /\ UNCHANGED <<appearance, asks, tab, monitorVars, listVars, inspect>>
    /\ InspectEffect(requests \ {r})

(* The buttons of a service: Start, which restarts one that is shown running,  *)
(* and Stop.                                                                 *)
act(name, action) ==
  /\ Asked /\ tab = "services"
  /\ online /\ busy = {} /\ selected # None
  /\ action = "stop" => snap.services[name] # "stopped"
  /\ action # "stop" => action = IF snap.services[name] = "running" THEN "restart" ELSE "start"
  /\ LET what == [srv |-> selected, name |-> name, action |-> action]
     IN /\ busy' = {what}
        /\ requests' = requests \cup {[kind |-> "service", of |-> what, mine |-> TRUE]}
  /\ UNCHANGED <<appearance, tab, monitorVars, listVars, activePid, inspect>>

acted ==
  \E r \in requests, well \in BOOLEAN :
    /\ r.kind = "service"
    /\ busy' = IF r.mine THEN done(well) ELSE busy
    /\ requests' = requests \ {r}
    /\ UNCHANGED <<appearance, asks, tab, monitorVars, listVars, activePid, inspect>>

Buttons == \E name \in services, action \in {"start", "stop", "restart"} : act(name, action)

----------------------------------------------------------------------------
(* What else changes what is shown.                                           *)
Filters == IF tab = "processes" THEN {"all", "user", "system", "running"}
           ELSE {"all", "running", "stopped", "failed"}

Narrow ==
  /\ Asked /\ tab # "overview"
  /\ \/ search' \in (Searches \cup {None}) \ {search} /\ UNCHANGED <<filter, sort>>
     \/ filter' \in Filters \ {filter} /\ UNCHANGED <<search, sort>>
     \/ tab = "processes" /\ sort' \in {"cpu", "memory"} \ {sort} /\ UNCHANGED <<search, filter>>
  /\ UNCHANGED <<appearance, tab, monitorVars, activePid, inspect, busy>>
  /\ InspectEffect(requests)

PickRow ==
  /\ Asked /\ tab = "processes"
  /\ \E i \in DOMAIN processes : activePid' = processes[i].pid
  /\ UNCHANGED <<appearance, tab, monitorVars, listVars, inspect, busy>>
  /\ InspectEffect(requests)

(* A sample arrives, another server is shown, the connection comes or goes,    *)
(* the window is bound to another server.                                     *)
MonitorChanges ==
  /\ Asked
  /\ \/ shownOn' \in DOMAIN Samples /\ snap' \in Samples[shownOn'] /\ snap' # snap
        /\ UNCHANGED <<selected, online>>
     \/ online' = ~online /\ UNCHANGED <<selected, shownOn, snap>>
     \/ selected' \in (DOMAIN Samples \cup {None}) \ {selected} /\ UNCHANGED <<shownOn, snap, online>>
  /\ UNCHANGED <<appearance, tab, listVars, activePid, inspect, busy>>
  /\ InspectEffect(requests)

(* A tab is mounted: its state is new, what the other one waits for is not its *)
(* own.                                                                      *)
Mount ==
  /\ search' = None /\ filter' = "all" /\ sort' = "cpu"
  /\ activePid' = None /\ inspect' = None /\ busy' = {}
  /\ requests' = {[r EXCEPT !.mine = FALSE] : r \in requests}
                 \cup {Inspect(w) : w \in {Wanted'} \ {None}}

SwitchTab ==
  /\ Asked
  /\ tab' \in {"processes", "services"} \ {tab}
  /\ UNCHANGED <<appearance, monitorVars>>
  /\ Mount

(* The other appearance mounts the Monitor anew: its overview, no sample yet.  *)
Remount ==
  /\ tab' = "overview" /\ snap' = [processes |-> <<>>, services |-> <<>>]
  /\ UNCHANGED <<selected, shownOn, online>>
  /\ Mount

----------------------------------------------------------------------------
Init ==
  /\ tab = "processes" /\ selected \in DOMAIN Samples
  /\ shownOn = selected /\ snap \in Samples[selected]
  /\ online = TRUE
  /\ search = None /\ filter = "all" /\ sort = "cpu"
  /\ activePid = None /\ inspect = None /\ busy = {}
  /\ requests = {Inspect(w) : w \in {Wanted} \ {None}}

Next ==
  \/ inspected \/ onKill \/ killed \/ Buttons \/ acted
  \/ Narrow \/ PickRow \/ MonitorChanges \/ SwitchTab

----------------------------------------------------------------------------
(* However rows, servers and connections change under the calls: the only       *)
(* answer the tab would still take is of what it wants now - the pid in front, *)
(* on the window's own server - and once it has taken it the details are of   *)
(* that or none.  This is not to say that they are of the process in front:     *)
(* when the window shows another server than its own the pid in front is asked *)
(* of the wrong one, until the answer comes the details of the one before stay, *)
(* and while the window is offline nothing is asked for and they stay for       *)
(* whatever row comes to the front.                                          *)
OnlyWantedDetails ==
  LET own == {r \in requests : r.kind = "inspect" /\ taken(r)}
  IN /\ \A r \in own : r.of = Wanted
     /\ Wanted # None /\ own = {} => inspect \in {None, Wanted}

(* The buttons are blocked exactly while a call of this tab is under way, and  *)
(* it makes one at a time: no failed call blocks them for good.                *)
BlockedWhileActing ==
  LET own == {r \in requests : r.mine /\ r.kind # "inspect"}
  IN {r.of : r \in own} = busy /\ \A q, r \in own : q = r

TabsInv == OnlyWantedDetails /\ BlockedWhileActing
=============================================================================
