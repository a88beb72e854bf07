--------------------------- MODULE WebDesktopProofs ---------------------------
(***************************************************************************)
(* Theorems about WebDesktop, for whatever texts, folders, samples, images   *)
(* and numbers of asks there are.  A part changes its own variables and, on   *)
(* a change of the appearance, is mounted anew; the proofs go part by part.   *)
(***************************************************************************)
EXTENDS WebDesktop, FiltersProofs, FiniteSetTheorems, SequenceTheorems, TLAPS

-----------------------------------------------------------------------------
(* The text editor.  While the text on disk is the page's it is what the       *)
(* editor loaded or saved last; a write that is waited for is of the text      *)
(* being saved.                                                              *)

EditorShape ==
    /\ Editor!TypeOK
    /\ page # None =>
          /\ ~(page.reading /\ page.refused) /\ ~(page.reading /\ page.loadError)
          /\ ~(page.refused /\ page.loadError)
    /\ page # None /\ page.loaded # None =>
          page.value \in Texts /\ ~page.reading /\ ~page.refused /\ ~page.loadError

EditorSaving ==
    \A w \in Editor!Heard :
        /\ page # None /\ page.loaded # None /\ page.loaded.writable /\ page.saving # None
        /\ w.content = Editor!toDisk(page.saving, page.loaded.crlf)

EditorKnows ==
    page # None /\ writer = "page" /\ page.loaded # None =>
        /\ disk \in Editor!Contents /\ disk.text = page.loaded.text
        /\ disk.eol = "mixed" \/ disk = Editor!toDisk(page.loaded.text, page.loaded.crlf)

EditorIInv == EditorShape /\ EditorSaving /\ EditorKnows

LEMMA EditorImplies == EditorIInv => EditorInv
<1> SUFFICES ASSUME EditorIInv PROVE Editor!EditorInv
  BY DEF EditorInv
<1> USE DEF EditorIInv, EditorShape, EditorSaving, EditorKnows
<1>1. Editor!CleanMeansSaved
  BY DEF Editor!CleanMeansSaved, Editor!Editing, Editor!dirty
<1>2. Editor!WritesWhatItLoaded
  BY DEF Editor!WritesWhatItLoaded, Editor!Editing, Editor!toDisk
<1> QED
  BY <1>1, <1>2 DEF Editor!EditorInv

LEMMA EditorInit == Editor!Init => EditorIInv
  BY DEF Editor!Init, EditorIInv, EditorShape, EditorSaving, EditorKnows, Editor!TypeOK, Editor!Heard

LEMMA EditorMountedPage ==
    /\ Editor!Mounted \in Editor!Page /\ Editor!Mounted.loaded = None
    /\ ~Editor!Mounted.refused /\ ~Editor!Mounted.loadError
  BY DEF Editor!Mounted, Editor!Page

LEMMA EditorUnheard ==
    /\ writes \subseteq Editor!Write => Editor!Unheard \subseteq Editor!Write
    /\ \A w \in Editor!Unheard : writes \subseteq Editor!Write => ~w.heard
    /\ writes = {} => Editor!Unheard = {}
  BY DEF Editor!Unheard, Editor!Write

(* Opened, closed or mounted anew: no one waits for what is being written.     *)
LEMMA EditorOpens ==
    ASSUME EditorIInv, Editor!Open \/ Editor!Remount \/ \E yes \in BOOLEAN : Editor!Close(yes)
    PROVE  EditorIInv'
<1> USE DEF EditorIInv, EditorShape, EditorSaving, EditorKnows, Editor!TypeOK
<1>1. CASE Editor!Open
  <2>1. Editor!Heard = {}
    BY <1>1 DEF Editor!Open
  <2>2. page' \in Editor!Page /\ page'.loaded = None /\ ~page'.refused /\ ~page'.loadError
        /\ writes' = writes
    BY <1>1, EditorMountedPage DEF Editor!Open
  <2> QED
    BY <1>1, <2>1, <2>2 DEF Editor!Open, Editor!Heard
<1>2. CASE Editor!Remount
  <2>1. page' \in {None} \cup Editor!Page /\ (page' # None =>
           page'.loaded = None /\ ~page'.refused /\ ~page'.loadError)
    BY <1>2, EditorMountedPage DEF Editor!Remount
  <2>2. writes' \subseteq Editor!Write /\ (\A w \in writes' : ~w.heard)
    BY <1>2, EditorUnheard DEF Editor!Remount
  <2> QED
    BY <1>2, <2>1, <2>2 DEF Editor!Remount, Editor!Heard
<1>3. ASSUME NEW yes \in BOOLEAN, Editor!Close(yes) PROVE EditorIInv'
  <2>1. CASE UNCHANGED <<page, writes>>
    BY <1>3, <2>1 DEF Editor!Close, Editor!Heard
  <2>2. CASE Editor!Unmounted
    <3>1. page' = None /\ writes' \subseteq Editor!Write /\ \A w \in writes' : ~w.heard
      BY <2>2, EditorUnheard DEF Editor!Unmounted
    <3> QED
      BY <1>3, <3>1 DEF Editor!Close, Editor!Heard
  <2> QED
    BY <1>3, <2>1, <2>2 DEF Editor!Close
<1> QED
  BY <1>1, <1>2, <1>3

LEMMA EditorLoads ==
    ASSUME EditorIInv, Editor!Load \/ Editor!LoadFails \/ Editor!Retry
    PROVE  EditorIInv'
<1> USE DEF EditorIInv, EditorShape, EditorSaving, EditorKnows, Editor!TypeOK
<1>1. page \in Editor!Page /\ page.loaded = None /\ Editor!Heard = {}
  BY DEF Editor!Load, Editor!LoadFails, Editor!Retry
<1>2. CASE Editor!Load
  <2>1. CASE disk.is # "text"
    <3>1. page' \in Editor!Page /\ page'.loaded = None /\ ~page'.reading
          /\ ~(page'.refused /\ page'.loadError)
      BY <1>1, <1>2, <2>1 DEF Editor!Load, Editor!Page, Editor!Contents, Editor!NotText
    <3> QED
      BY <1>1, <1>2, <3>1 DEF Editor!Load, Editor!Heard
  <2>2. CASE disk.is = "text"
    <3> DEFINE f == Editor!fromDisk(disk)
               l == [text |-> f.text, crlf |-> f.crlf, writable |-> mode]
    <3>1. disk \in Editor!Contents
      BY <2>2 DEF Editor!Contents, Editor!NotText
    <3>2. f.text \in Texts /\ f.crlf \in BOOLEAN /\ f.text = disk.text /\ f.crlf = (disk.eol # "lf")
      BY <3>1 DEF Editor!Contents, Editor!fromDisk
    <3>3. l \in Editor!Loaded /\ l.text = f.text /\ l.crlf = f.crlf
      BY <3>2 DEF Editor!Loaded
    <3>4. page' = [page EXCEPT !.reading = FALSE, !.value = f.text, !.loaded = l]
      BY <1>2, <2>2 DEF Editor!Load
    <3> HIDE DEF f, l
    <3>5. page' \in Editor!Page /\ page'.loaded = l /\ page'.value = f.text
          /\ ~page'.reading /\ page'.refused = page.refused /\ page'.loadError = page.loadError
      BY <1>1, <3>2, <3>3, <3>4 DEF Editor!Page
    <3>6. ~page.refused /\ ~page.loadError
      BY <1>2 DEF Editor!Load
    <3>7. disk.eol = "mixed" \/ disk = Editor!toDisk(disk.text, disk.eol # "lf")
      BY <3>1 DEF Editor!Contents, Editor!Eols, Editor!toDisk
    <3> QED
      BY <1>1, <1>2, <3>1, <3>2, <3>3, <3>5, <3>6, <3>7 DEF Editor!Load, Editor!Heard
  <2> QED
    BY <2>1, <2>2
<1>3. CASE Editor!LoadFails
  <2>1. page' \in Editor!Page /\ page'.loaded = None /\ ~page'.reading /\ ~page'.refused
    BY <1>1, <1>3 DEF Editor!LoadFails, Editor!Page
  <2> QED
    BY <1>1, <1>3, <2>1 DEF Editor!LoadFails, Editor!Heard
<1>4. CASE Editor!Retry
  <2>1. page' \in Editor!Page /\ page'.loaded = None /\ ~page'.refused /\ ~page'.loadError
        /\ writes' = writes
    BY <1>1, <1>4 DEF Editor!Retry, Editor!Page
  <2> QED
    BY <1>1, <1>4, <2>1 DEF Editor!Retry, Editor!Heard
<1> QED
  BY <1>2, <1>3, <1>4

LEMMA EditorTypes ==
    ASSUME EditorIInv, NEW text \in Texts, Editor!Type(text)
    PROVE  EditorIInv'
<1> USE DEF EditorIInv, EditorShape, EditorSaving, EditorKnows, Editor!TypeOK
<1>1. page \in Editor!Page /\ page' = [page EXCEPT !.value = text]
  BY DEF Editor!Type, Editor!Editing
<1>2. page' \in Editor!Page /\ page' = [page EXCEPT !.value = text] /\ page'.value = text
      /\ page'.loaded = page.loaded /\ page'.saving = page.saving /\ page'.reading = page.reading
      /\ page'.refused = page.refused /\ page'.loadError = page.loadError
  BY <1>1 DEF Editor!Page
<1> QED
  BY <1>1, <1>2, EditorAssumption DEF Editor!Type, Editor!Heard

LEMMA EditorSaves == ASSUME EditorIInv, Editor!save PROVE EditorIInv'
<1> USE DEF EditorIInv, EditorShape, EditorSaving, EditorKnows, Editor!TypeOK
<1> DEFINE w == [content |-> Editor!toDisk(page.value, page.loaded.crlf), heard |-> TRUE]
<1>1. page \in Editor!Page /\ page.loaded # None /\ page.loaded.writable /\ page.saving = None
      /\ Editor!Heard = {} /\ page.value \in Texts
  BY DEF Editor!save, Editor!savable, Editor!Editing
<1>2. page' \in Editor!Page /\ page'.saving = page.value /\ page'.value = page.value
      /\ page'.loaded = page.loaded /\ page'.reading = page.reading
      /\ page'.refused = page.refused /\ page'.loadError = page.loadError
  BY <1>1 DEF Editor!save, Editor!Page
<1>3. w \in Editor!Write /\ w.heard /\ w.content = Editor!toDisk(page.value, page.loaded.crlf)
  BY <1>1 DEF Editor!Write, Editor!Contents, Editor!toDisk, Editor!Eols
<1>4. writes' = writes \cup {w}
  BY DEF Editor!save
<1> HIDE DEF w
<1>5. Editor!Heard' = {w}
  BY <1>1, <1>3, <1>4 DEF Editor!Heard
<1> QED
  BY <1>1, <1>2, <1>3, <1>4, <1>5, EditorAssumption DEF Editor!save

(* A write the page does not know of leaves a text that is not the page's.     *)
LEMMA EditorOverwrites ==
    ASSUME NEW w, Editor!Overwrites(w) PROVE disk' \in Editor!Contents /\ writer' = "lost"
  BY DEF Editor!Overwrites, Editor!Leaves, Editor!toDisk, Editor!Contents, Editor!Eols

(* The one write that is waited for is answered, or given up.                  *)
LEMMA EditorAnswered == ASSUME EditorIInv, Editor!Saved \/ Editor!NotSaved PROVE EditorIInv'
<1> USE DEF EditorIInv, EditorShape, EditorSaving, EditorKnows, Editor!TypeOK
<1> PICK w \in Editor!Heard :
       \/ /\ disk' = w.content /\ writes' = writes \ {w} /\ page' = Editor!saved(page)
          /\ writer' = "page" /\ UNCHANGED mode
       \/ /\ page' = [page EXCEPT !.saving = None]
          /\ writes' \in {writes \ {w}, (writes \ {w}) \cup {[w EXCEPT !.heard = FALSE]}}
          /\ Editor!Overwrites(w) \/ UNCHANGED <<disk, writer>>
          /\ UNCHANGED mode
  BY DEF Editor!Saved, Editor!NotSaved
<1>1. w \in Editor!Write /\ page \in Editor!Page /\ page.loaded \in Editor!Loaded
      /\ page.loaded.writable /\ page.saving \in Texts
      /\ w.content = Editor!toDisk(page.saving, page.loaded.crlf) /\ w.content \in Editor!Contents
  BY DEF Editor!Heard, Editor!Write, Editor!Page
<1>2. \A v \in Editor!Heard : v = w
  BY <1>1 DEF Editor!Heard, Editor!Write
<1>3. CASE /\ disk' = w.content /\ writes' = writes \ {w} /\ page' = Editor!saved(page)
           /\ writer' = "page" /\ UNCHANGED mode
  <2> DEFINE l == [page.loaded EXCEPT !.text = page.saving]
  <2>1. l \in Editor!Loaded /\ l.text = page.saving /\ l.crlf = page.loaded.crlf
    BY <1>1 DEF Editor!Loaded
  <2>2. page' = [page EXCEPT !.saving = None, !.loaded = l]
    BY <1>1, <1>3 DEF Editor!saved, Editor!Page
  <2> HIDE DEF l
  <2>3. page' \in Editor!Page /\ page'.loaded = l /\ page'.value = page.value
        /\ page'.reading = page.reading /\ page'.refused = page.refused
        /\ page'.loadError = page.loadError
    BY <1>1, <2>1, <2>2 DEF Editor!Page
  <2>4. Editor!Heard' = {} /\ writes' \subseteq writes
    BY <1>2, <1>3 DEF Editor!Heard
  <2>5. page.value \in Texts /\ ~page.reading /\ ~page.refused /\ ~page.loadError
    OBVIOUS
  <2>6. disk'.text = l.text /\ disk' = Editor!toDisk(l.text, l.crlf)
    BY <1>1, <1>3, <2>1 DEF Editor!toDisk
  <2> QED
    BY <1>1, <1>3, <2>1, <2>3, <2>4, <2>5, <2>6
<1>4. CASE /\ page' = [page EXCEPT !.saving = None]
           /\ writes' \in {writes \ {w}, (writes \ {w}) \cup {[w EXCEPT !.heard = FALSE]}}
           /\ Editor!Overwrites(w) \/ UNCHANGED <<disk, writer>>
           /\ UNCHANGED mode
  <2>1. page' \in Editor!Page /\ page'.loaded = page.loaded /\ page'.value = page.value
        /\ page'.reading = page.reading /\ page'.refused = page.refused
        /\ page'.loadError = page.loadError
    BY <1>1, <1>4 DEF Editor!Page
  <2>2. [w EXCEPT !.heard = FALSE] \in Editor!Write /\ ~[w EXCEPT !.heard = FALSE].heard
    BY <1>1 DEF Editor!Write
  <2>3. Editor!Heard' = {}
    BY <1>2, <1>4, <2>2 DEF Editor!Heard
  <2>4. writes' \subseteq Editor!Write
    BY <1>4, <2>2
  <2>5. (disk' \in Editor!Contents /\ writer' = "lost") \/ UNCHANGED <<disk, writer>>
    BY <1>1, <1>4, EditorOverwrites
  <2> QED
    BY <1>1, <1>4, <2>1, <2>3, <2>4, <2>5, EditorAssumption
<1> QED
  BY <1>3, <1>4

LEMMA EditorElsewhere == ASSUME EditorIInv, Editor!Late \/ Editor!OtherWrites PROVE EditorIInv'
<1> USE DEF EditorIInv, EditorShape, EditorSaving, EditorKnows, Editor!TypeOK
<1>1. CASE Editor!Late
  <2>1. PICK w \in writes \ Editor!Heard :
           /\ writes' \in {writes, writes \ {w}}
           /\ Editor!Overwrites(w) \/ UNCHANGED <<disk, writer>>
    BY <1>1 DEF Editor!Late
  <2>2. Editor!Heard' = Editor!Heard /\ writes' \subseteq writes
    BY <2>1 DEF Editor!Heard
  <2>3. (disk' \in Editor!Contents /\ writer' = "lost") \/ UNCHANGED <<disk, writer>>
    BY <2>1, EditorOverwrites
  <2> QED
    BY <1>1, <2>2, <2>3 DEF Editor!Late
<1>2. CASE Editor!OtherWrites
  BY <1>2 DEF Editor!OtherWrites, Editor!Heard
<1> QED
  BY <1>1, <1>2

LEMMA EditorKept == ASSUME EditorIInv, UNCHANGED editorVars PROVE EditorIInv'
  BY DEF editorVars, EditorIInv, EditorShape, EditorSaving, EditorKnows, Editor!TypeOK, Editor!Heard

LEMMA EditorNext == ASSUME EditorIInv, Editor!Next PROVE EditorIInv'
  BY EditorOpens, EditorLoads, EditorTypes, EditorSaves, EditorAnswered, EditorElsewhere
     DEF Editor!Next, Editor!onKeyDown

LEMMA EditorStep == EditorIInv /\ [Next]_vars => EditorIInv'
<1> SUFFICES ASSUME EditorIInv, [Next]_vars PROVE EditorIInv'
  OBVIOUS
<1>1. Editor!Next \/ Editor!Remount \/ UNCHANGED editorVars
  BY DEF Next, DesktopSwitch, Other, vars
<1> QED
  BY <1>1, EditorNext, EditorOpens, EditorKept

(* A text without the mark of unsaved changes is what the file holds, unless    *)
(* another program or a save the page does not know of was the last to write   *)
(* it; and nothing is sent for a file that was not wholly loaded as text:       *)
(* through the editor being closed or mounted anew under its own requests      *)
(* (TextEditor.tsx).                                                         *)
THEOREM EditorInvariance == Spec => []EditorInv
<1>1. Init => EditorIInv
  BY EditorInit DEF Init
<1> QED
  BY <1>1, EditorStep, EditorImplies, PTL DEF Spec

-----------------------------------------------------------------------------
(* The tabs of processes and services.  The call for details that counts is of *)
(* what the tab wants; which process that is, of all the lists there may be,   *)
(* plays no part.                                                            *)

SystemAsks(rs) == {r \in rs : r.mine /\ r.kind = "inspect"}
SystemActs(rs) == {r \in rs : r.mine /\ r.kind # "inspect"}

SystemRequests ==
    \A r \in requests : r = [kind |-> r.kind, of |-> r.of, mine |-> r.mine]
SystemDetails ==
    /\ \A r \in SystemAsks(requests) : r.of = SystemTabs!Wanted
    /\ SystemTabs!Wanted # None /\ SystemAsks(requests) = {} => inspect \in {None, SystemTabs!Wanted}
SystemBusy ==
    /\ \A q, r \in SystemActs(requests) : q = r
    /\ {r.of : r \in SystemActs(requests)} = busy

SystemIInv == SystemRequests /\ SystemDetails /\ SystemBusy

LEMMA SystemImplies == SystemIInv => SystemTabs!TabsInv
<1> SUFFICES ASSUME SystemIInv PROVE SystemTabs!OnlyWantedDetails /\ SystemTabs!BlockedWhileActing
  BY DEF SystemTabs!TabsInv
<1>1. {r \in requests : r.kind = "inspect" /\ SystemTabs!taken(r)} = SystemAsks(requests)
  BY DEF SystemAsks, SystemTabs!taken
<1>2. SystemTabs!OnlyWantedDetails
  BY <1>1 DEF SystemIInv, SystemDetails, SystemTabs!OnlyWantedDetails
<1> QED
  BY <1>2 DEF SystemIInv, SystemBusy, SystemActs, SystemTabs!BlockedWhileActing

LEMMA WantedSame ==
    ASSUME UNCHANGED <<tab, selected, online, snap, search, filter, sort, activePid>>
    PROVE  SystemTabs!Wanted' = SystemTabs!Wanted
  BY DEF SystemTabs!Wanted, SystemTabs!active, SystemTabs!processes

LEMMA SystemInspected ==
    SystemTabs!Inspect(SystemTabs!Wanted) =
        [kind |-> "inspect", of |-> SystemTabs!Wanted, mine |-> TRUE]
  BY DEF SystemTabs!Inspect

LEMMA SystemInit == SystemTabs!Init => SystemIInv
<1> SUFFICES ASSUME SystemTabs!Init PROVE SystemIInv
  OBVIOUS
<1>1. \A r \in requests : r = [kind |-> "inspect", of |-> SystemTabs!Wanted, mine |-> TRUE]
  BY DEF SystemTabs!Init, SystemTabs!Inspect
<1>2. SystemActs(requests) = {} /\ busy = {}
  BY <1>1 DEF SystemActs, SystemTabs!Init
<1> QED
  BY <1>1, <1>2 DEF SystemIInv, SystemRequests, SystemDetails, SystemBusy, SystemAsks, SystemTabs!Init

(* The effect that asks for details: it cleans the old call up.                *)
LEMMA SystemEffect ==
    ASSUME SystemIInv, NEW now \in SUBSET requests, SystemTabs!InspectEffect(now),
           SystemAsks(now) = SystemAsks(requests), inspect' = inspect
    PROVE  SystemRequests' /\ SystemDetails' /\ SystemActs(requests') = SystemActs(now)
<1> DEFINE next == SystemTabs!Wanted'
           off == {IF r.kind = "inspect" THEN [r EXCEPT !.mine = FALSE] ELSE r : r \in now}
           new == {SystemTabs!Inspect(w) : w \in {next} \ {None}}
<1>1. CASE next = SystemTabs!Wanted
  <2>1. requests' = now
    BY <1>1 DEF SystemTabs!InspectEffect
  <2> QED
    BY <1>1, <2>1 DEF SystemIInv, SystemRequests, SystemDetails
<1>2. CASE next # SystemTabs!Wanted
  <2>1. requests' = off \cup new
    BY <1>2 DEF SystemTabs!InspectEffect
  <2>2. \A r \in off : r = [kind |-> r.kind, of |-> r.of, mine |-> r.mine]
                       /\ (r.kind = "inspect" => ~r.mine)
    BY DEF SystemIInv, SystemRequests
  <2>3. \A r \in new : r = [kind |-> "inspect", of |-> next, mine |-> TRUE] /\ next # None
    BY DEF SystemTabs!Inspect
  <2>4. next # None => SystemTabs!Inspect(next) \in new
    OBVIOUS
  <2>5. SystemActs(off) = SystemActs(now)
    BY DEF SystemActs, SystemIInv, SystemRequests
  <2> HIDE DEF off, new
  <2>6. SystemActs(requests') = SystemActs(now)
    BY <2>1, <2>3, <2>5 DEF SystemActs
  <2>7. SystemRequests'
    BY <2>1, <2>2, <2>3 DEF SystemRequests
  <2>8. \A r \in SystemAsks(requests') : r.of = next
    BY <2>1, <2>2, <2>3 DEF SystemAsks
  <2>9. next # None => SystemAsks(requests') # {}
    BY <2>1, <2>3, <2>4 DEF SystemAsks
  <2> QED
    BY <2>6, <2>7, <2>8, <2>9 DEF SystemDetails
<1> QED
  BY <1>1, <1>2

LEMMA SystemAnswered == ASSUME SystemIInv, SystemTabs!inspected PROVE SystemIInv'
<1> USE DEF SystemIInv, SystemRequests, SystemDetails, SystemBusy
<1> PICK r \in requests : \E answer \in {r.of, None} :
       /\ r.kind = "inspect"
       /\ inspect' = IF SystemTabs!taken(r) THEN answer ELSE inspect
       /\ requests' = requests \ {r} /\ busy' = busy
       /\ UNCHANGED <<tab, selected, online, snap, search, filter, sort, activePid>>
  BY DEF SystemTabs!inspected, SystemTabs!monitorVars, SystemTabs!listVars
<1> PICK answer \in {r.of, None} :
       /\ inspect' = IF SystemTabs!taken(r) THEN answer ELSE inspect
       /\ r.kind = "inspect" /\ requests' = requests \ {r} /\ busy' = busy
       /\ UNCHANGED <<tab, selected, online, snap, search, filter, sort, activePid>>
  OBVIOUS
<1>1. SystemTabs!Wanted' = SystemTabs!Wanted
  BY WantedSame
<1>2. SystemActs(requests') = SystemActs(requests)
  BY DEF SystemActs
<1>3. CASE r.mine
  <2>1. inspect' \in {None, SystemTabs!Wanted}
    BY <1>3 DEF SystemAsks, SystemTabs!taken
  <2> QED
    BY <1>1, <1>2, <2>1 DEF SystemAsks
<1>4. CASE ~r.mine
  <2>1. SystemAsks(requests') = SystemAsks(requests) /\ inspect' = inspect
    BY <1>4 DEF SystemAsks, SystemTabs!taken
  <2> QED
    BY <1>1, <1>2, <2>1
<1> QED
  BY <1>3, <1>4

(* A button: it works only while no call of the tab is under way.             *)
LEMMA SystemActed ==
    ASSUME SystemIInv, NEW what, NEW kind, kind # "inspect", busy = {}, busy' = {what},
           requests' = requests \cup {[kind |-> kind, of |-> what, mine |-> TRUE]},
           inspect' = inspect,
           UNCHANGED <<tab, selected, online, snap, search, filter, sort, activePid>>
    PROVE  SystemIInv'
<1> USE DEF SystemIInv, SystemRequests, SystemDetails, SystemBusy
<1> DEFINE c == [kind |-> kind, of |-> what, mine |-> TRUE]
<1>1. c = [kind |-> c.kind, of |-> c.of, mine |-> c.mine] /\ c.kind # "inspect" /\ c.mine /\ c.of = what
  OBVIOUS
<1>2. requests' = requests \cup {c}
  OBVIOUS
<1> HIDE DEF c
<1>3. SystemTabs!Wanted' = SystemTabs!Wanted
  BY WantedSame
<1>4. SystemAsks(requests') = SystemAsks(requests)
  BY <1>1, <1>2 DEF SystemAsks
<1>5. SystemActs(requests) = {}
  OBVIOUS
<1>6. SystemActs(requests') = {c}
  BY <1>1, <1>2, <1>5 DEF SystemActs
<1>7. SystemBusy'
  <2>1. {r.of : r \in {c}} = {what}
    BY <1>1
  <2>2. {r.of : r \in SystemActs(requests')} = busy'
    BY <1>6, <2>1
  <2> QED
    BY <1>6, <2>2
<1>8. SystemRequests' /\ SystemDetails'
  BY <1>1, <1>2, <1>3, <1>4
<1> QED
  BY <1>7, <1>8

LEMMA SystemButtons == ASSUME SystemIInv, SystemTabs!onKill \/ SystemTabs!Buttons PROVE SystemIInv'
<1>1. CASE SystemTabs!onKill
  <2> DEFINE what == [srv |-> selected, pid |-> SystemTabs!active.pid]
  <2>1. /\ busy = {} /\ busy' = {what} /\ inspect' = inspect
        /\ requests' = requests \cup {[kind |-> "kill", of |-> what, mine |-> TRUE]}
        /\ UNCHANGED <<tab, selected, online, snap, search, filter, sort, activePid>>
    BY <1>1 DEF SystemTabs!onKill, SystemTabs!monitorVars, SystemTabs!listVars
  <2> HIDE DEF what
  <2> QED
    BY <2>1, SystemActed
<1>2. ASSUME NEW name, NEW action, SystemTabs!act(name, action) PROVE SystemIInv'
  <2> DEFINE what == [srv |-> selected, name |-> name, action |-> action]
  <2>1. /\ busy = {} /\ busy' = {what} /\ inspect' = inspect
        /\ requests' = requests \cup {[kind |-> "service", of |-> what, mine |-> TRUE]}
        /\ UNCHANGED <<tab, selected, online, snap, search, filter, sort, activePid>>
    BY <1>2 DEF SystemTabs!act, SystemTabs!monitorVars, SystemTabs!listVars
  <2> HIDE DEF what
  <2> QED
    BY <2>1, SystemActed
<1> QED
  BY <1>1, <1>2 DEF SystemTabs!Buttons

LEMMA SystemDone == ASSUME SystemIInv, SystemTabs!killed \/ SystemTabs!acted PROVE SystemIInv'
<1> USE DEF SystemIInv, SystemRequests, SystemDetails, SystemBusy
<1>1. ASSUME NEW r \in requests, r.kind # "inspect"
      PROVE  /\ SystemAsks(requests \ {r}) = SystemAsks(requests)
             /\ r.mine => SystemActs(requests \ {r}) = {}
             /\ ~r.mine => SystemActs(requests \ {r}) = SystemActs(requests)
  BY <1>1 DEF SystemAsks, SystemActs
<1>2. CASE SystemTabs!killed
  <2> PICK r \in requests :
         /\ r.kind = "kill" /\ inspect' = inspect
         /\ busy' = IF r.mine THEN {} ELSE busy
         /\ SystemTabs!InspectEffect(requests \ {r})
    BY <1>2 DEF SystemTabs!killed, SystemTabs!done
  <2>1. SystemRequests' /\ SystemDetails' /\ SystemActs(requests') = SystemActs(requests \ {r})
    BY <1>1, SystemEffect
  <2> QED
    BY <1>1, <2>1
<1>3. CASE SystemTabs!acted
  <2> PICK r \in requests :
         /\ r.kind = "service" /\ inspect' = inspect
         /\ busy' = IF r.mine THEN {} ELSE busy
         /\ requests' = requests \ {r}
         /\ UNCHANGED <<tab, selected, online, snap, search, filter, sort, activePid>>
    BY <1>3 DEF SystemTabs!acted, SystemTabs!done, SystemTabs!monitorVars, SystemTabs!listVars
  <2>1. SystemTabs!Wanted' = SystemTabs!Wanted
    BY WantedSame
  <2> QED
    BY <1>1, <2>1
<1> QED
  BY <1>2, <1>3

LEMMA SystemShows ==
    ASSUME SystemIInv, SystemTabs!Narrow \/ SystemTabs!PickRow \/ SystemTabs!MonitorChanges
    PROVE  SystemIInv'
<1>1. SystemTabs!InspectEffect(requests) /\ inspect' = inspect /\ busy' = busy
  BY DEF SystemTabs!Narrow, SystemTabs!PickRow, SystemTabs!MonitorChanges
<1>2. SystemRequests' /\ SystemDetails' /\ SystemActs(requests') = SystemActs(requests)
  BY <1>1, SystemEffect
<1> QED
  BY <1>1, <1>2 DEF SystemIInv, SystemBusy

LEMMA SystemMounts == ASSUME SystemIInv, SystemTabs!Mount PROVE SystemIInv'
<1> DEFINE next == SystemTabs!Wanted'
           off == {[r EXCEPT !.mine = FALSE] : r \in requests}
           new == {SystemTabs!Inspect(w) : w \in {next} \ {None}}
<1>1. requests' = off \cup new /\ busy' = {}
  BY DEF SystemTabs!Mount
<1>2. \A r \in off : r = [kind |-> r.kind, of |-> r.of, mine |-> r.mine] /\ ~r.mine
  BY DEF SystemIInv, SystemRequests
<1>3. \A r \in new : r = [kind |-> "inspect", of |-> next, mine |-> TRUE] /\ next # None
  BY DEF SystemTabs!Inspect
<1>4. next # None => SystemTabs!Inspect(next) \in new
  OBVIOUS
<1> HIDE DEF off, new
<1>5. SystemActs(requests') = {}
  BY <1>1, <1>2, <1>3 DEF SystemActs
<1>6. SystemRequests'
  BY <1>1, <1>2, <1>3 DEF SystemRequests
<1>7. \A r \in SystemAsks(requests') : r.of = next
  BY <1>1, <1>2, <1>3 DEF SystemAsks
<1>8. next # None => SystemAsks(requests') # {}
  BY <1>1, <1>3, <1>4 DEF SystemAsks
<1> QED
  BY <1>1, <1>5, <1>6, <1>7, <1>8 DEF SystemIInv, SystemDetails, SystemBusy

LEMMA SystemStep == SystemIInv /\ [Next]_vars => SystemIInv'
<1> SUFFICES ASSUME SystemIInv, [Next]_vars PROVE SystemIInv'
  OBVIOUS
<1>1. SystemTabs!Next \/ SystemTabs!Remount \/ UNCHANGED systemVars
  BY DEF Next, DesktopSwitch, Other, vars
<1>2. CASE SystemTabs!Next
  BY <1>2, SystemAnswered, SystemButtons, SystemDone, SystemShows, SystemMounts
     DEF SystemTabs!Next, SystemTabs!SwitchTab
<1>3. CASE SystemTabs!Remount
  BY <1>3, SystemMounts DEF SystemTabs!Remount
<1>4. CASE UNCHANGED systemVars
  <2>1. SystemTabs!Wanted' = SystemTabs!Wanted
    BY <1>4, WantedSame DEF systemVars
  <2> QED
    BY <1>4, <2>1 DEF systemVars, SystemIInv, SystemRequests, SystemDetails, SystemBusy
<1> QED
  BY <1>1, <1>2, <1>3, <1>4

-----------------------------------------------------------------------------
(* The rows of a Files window.  Both gesture hooks follow the same press: what  *)
(* use-file-move-drag holds is the row of a plain press, which the rubber band  *)
(* leaves alone.  A row whose menu was not overtaken is on the page, selected - *)
(* or nothing is.                                                            *)

SelectionShape ==
    /\ move = [press |-> move.press, dragging |-> move.dragging, skipClick |-> move.skipClick,
               ghost |-> move.ghost]
    /\ band = [on |-> band.on, mods |-> band.mods, rows |-> band.rows, last |-> band.last,
               base |-> band.base, stage |-> band.stage]
    /\ context # None => context = [entry |-> context.entry, overtaken |-> context.overtaken]

SelectionPress ==
    /\ move.press # None =>
          Selection!Pressed /\ band.on = move.press /\ band.mods = "plain" /\ band.on # None
    /\ move.dragging \/ move.ghost # None => move.press # None
    /\ Selection!started => ~Selection!itemDragMovesFile

SelectionMenu ==
    context # None /\ context.entry # None /\ ~context.overtaken =>
        context.entry \in Selection!Shown /\ (context.entry \in selectedPaths \/ selectedPaths = {})

SelectionIInv == SelectionShape /\ SelectionPress /\ SelectionMenu

LEMMA SelectionCardinality == Selection!Cardinality({}) = 0
  BY DEF Selection!Cardinality

LEMMA SelectionImplies == SelectionIInv => SelectionInv
<1> SUFFICES ASSUME SelectionIInv PROVE Selection!OneGesture /\ Selection!MenuActsOnRow
  BY DEF SelectionInv, Selection!SelectionInv
<1>1. Selection!OneGesture
  BY DEF SelectionIInv, SelectionPress, Selection!OneGesture, Selection!itemDragMovesFile
<1>2. Selection!MenuActsOnRow
  <2> SUFFICES ASSUME context # None, context.entry \in Selection!ToSet(entries) \ {None},
                      ~context.overtaken
               PROVE  context.entry \in Selection!menuTargets(context.entry)
                                        \cap Selection!deleteTargets(context.entry)
    BY DEF Selection!MenuActsOnRow
  <2>1. CASE context.entry \in selectedPaths
    BY <2>1 DEF Selection!menuTargets, Selection!deleteTargets, Selection!selectedEntries
  <2>2. CASE selectedPaths = {}
    <3>1. Selection!selectedEntries = {}
      BY <2>2 DEF Selection!selectedEntries
    <3> QED
      BY <3>1, SelectionCardinality DEF Selection!menuTargets, Selection!deleteTargets
  <2> QED
    BY <2>1, <2>2 DEF SelectionIInv, SelectionMenu
<1> QED
  BY <1>1, <1>2

LEMMA SelectionFresh ==
    /\ Selection!Init => SelectionIInv
    /\ Selection!Remount => SelectionIInv'
<1>1. ASSUME Selection!Init PROVE SelectionIInv
  BY <1>1 DEF Selection!Init, SelectionIInv, SelectionShape, SelectionPress, SelectionMenu,
     Selection!Idle, Selection!NoPress, Selection!Pressed, Selection!started
<1>2. ASSUME Selection!Remount PROVE SelectionIInv'
  BY <1>2 DEF Selection!Remount, SelectionIInv, SelectionShape, SelectionPress, SelectionMenu,
     Selection!Idle, Selection!NoPress, Selection!Pressed, Selection!started
<1> QED
  BY <1>1, <1>2

(* What a step does to the menu, when it leaves the gestures alone.            *)
LEMMA SelectionGestureKept ==
    ASSUME SelectionIInv, UNCHANGED <<move, band>>
    PROVE  SelectionPress' /\ (context' = None \/ context' = context => SelectionShape')
  BY DEF SelectionIInv, SelectionPress, SelectionShape, Selection!Pressed, Selection!started,
         Selection!itemDragMovesFile

LEMMA SelectionMenuKept ==
    ASSUME SelectionIInv, context' = None \/ UNCHANGED <<entries, query, selectedPaths, context>>
    PROVE  SelectionMenu'
  BY DEF SelectionIInv, SelectionMenu, Selection!Shown

LEMMA SelectionPresses ==
    ASSUME SelectionIInv, NEW on, NEW mods, Selection!handleMouseDown(on, mods)
    PROVE  SelectionIInv'
<1>1. SelectionMenu'
  BY SelectionMenuKept DEF Selection!handleMouseDown, Selection!shownVars
<1>2. move.press = None /\ move.ghost = None /\ ~move.dragging
  BY DEF SelectionIInv, SelectionPress, Selection!handleMouseDown
<1>3. SelectionShape'
  BY DEF SelectionIInv, SelectionShape, Selection!handleMouseDown, Selection!startPress
<1>4. SelectionPress'
  BY <1>2 DEF SelectionIInv, SelectionShape, SelectionPress, Selection!handleMouseDown,
     Selection!startPress, Selection!Pressed, Selection!started
<1> QED
  BY <1>1, <1>3, <1>4 DEF SelectionIInv

LEMMA SelectionMoves ==
    ASSUME SelectionIInv, (\E at : Selection!onMovePointer(at)) \/ (\E box : Selection!handleMouseMove(box))
    PROVE  SelectionIInv'
<1>1. ASSUME NEW at, Selection!onMovePointer(at) PROVE SelectionIInv'
  <2>1. SelectionMenu'
    BY <1>1, SelectionMenuKept DEF Selection!onMovePointer, Selection!shownVars
  <2>2. SelectionShape'
    BY <1>1 DEF SelectionIInv, SelectionShape, Selection!onMovePointer
  <2>3. move'.press = move.press /\ band' = band /\ move.press # None
    BY <1>1 DEF SelectionIInv, SelectionShape, Selection!onMovePointer
  <2>4. SelectionPress'
    BY <2>3 DEF SelectionIInv, SelectionPress, Selection!Pressed, Selection!started,
       Selection!itemDragMovesFile
  <2> QED
    BY <2>1, <2>2, <2>4 DEF SelectionIInv
<1>2. ASSUME NEW box, Selection!handleMouseMove(box) PROVE SelectionIInv'
  <2>1. band'.on = band.on /\ band'.mods = band.mods /\ band'.stage = "moved" /\ move' = move
        /\ Selection!Pressed /\ ~Selection!itemDragMovesFile
    BY <1>2 DEF SelectionIInv, SelectionShape, Selection!handleMouseMove
  <2>2. SelectionPress'
    BY <2>1 DEF SelectionIInv, SelectionPress, Selection!Pressed, Selection!started,
       Selection!itemDragMovesFile
  <2>3. SelectionShape' /\ SelectionMenu'
    BY <1>2 DEF SelectionIInv, SelectionShape, SelectionMenu, Selection!handleMouseMove
  <2> QED
    BY <2>2, <2>3 DEF SelectionIInv
<1> QED
  BY <1>1, <1>2

(* The menu stays open only over a release that selects nothing.              *)
LEMMA SelectionReleases ==
    ASSUME SelectionIInv, NEW far \in BOOLEAN, NEW upMods \in Selection!Mods, Selection!handleMouseUp(far, upMods)
    PROVE  SelectionIInv'
<1>1. SelectionPress' /\ (context' = None \/ context' = context => SelectionShape')
  BY DEF SelectionIInv, SelectionShape, SelectionPress, Selection!handleMouseUp, Selection!onUp,
     Selection!Idle, Selection!NoPress, Selection!Pressed, Selection!started
<1>2. context' = None \/ context' = context
  BY DEF Selection!handleMouseUp
<1>3. context' # None => far \/ context' = None
  BY DEF Selection!handleMouseUp
<1>4. far => Selection!started \/ Selection!itemDragMovesFile
  BY DEF SelectionIInv, SelectionPress, Selection!handleMouseUp, Selection!itemDragMovesFile
<1>5. context' = None \/ UNCHANGED <<entries, query, selectedPaths, context>>
  BY <1>2, <1>3, <1>4 DEF Selection!handleMouseUp, Selection!shownVars
<1> QED
  BY <1>1, <1>2, <1>5, SelectionMenuKept DEF SelectionIInv

LEMMA SelectionGoes ==
    ASSUME SelectionIInv, NEW f, Selection!goTo(f) \/ Selection!travel(f)
    PROVE  SelectionIInv'
  BY SelectionGestureKept, SelectionMenuKept DEF SelectionIInv, Selection!goTo, Selection!travel

LEMMA SelectionOpens ==
    ASSUME SelectionIInv, NEW row, Selection!openEntry(row)
    PROVE  SelectionIInv'
<1>1. CASE Selection!IsDir(row)
  BY <1>1, SelectionGoes DEF Selection!openEntry
<1>2. CASE ~Selection!IsDir(row)
  BY <1>2, SelectionGestureKept, SelectionMenuKept DEF SelectionIInv, Selection!openEntry
<1> QED
  BY <1>1, <1>2

LEMMA SelectionDoubleClicks ==
    ASSUME SelectionIInv, NEW row, Selection!onDoubleClick(row)
    PROVE  SelectionIInv'
<1>1. CASE move.skipClick
  <2>1. /\ move' = [move EXCEPT !.skipClick = FALSE] /\ band' = band
        /\ UNCHANGED <<entries, query, selectedPaths, context>>
    BY <1>1 DEF Selection!onDoubleClick, Selection!shownVars
  <2>2. SelectionPress' /\ SelectionShape'
    BY <2>1 DEF SelectionIInv, SelectionShape, SelectionPress, Selection!Pressed,
       Selection!started, Selection!itemDragMovesFile
  <2> QED
    BY <2>1, <2>2, SelectionMenuKept DEF SelectionIInv
<1>2. CASE ~move.skipClick
  BY <1>2, SelectionOpens DEF Selection!onDoubleClick
<1> QED
  BY <1>1, <1>2

(* A listing that keeps the row keeps it on the page: the search is the same.  *)
LEMMA SelectionLists ==
    ASSUME SelectionIInv, Selection!Listed \/ Selection!showExtracted \/ Selection!setQuery
    PROVE  SelectionIInv'
<1>1. SelectionPress'
  BY SelectionGestureKept DEF Selection!Listed, Selection!showExtracted, Selection!setQuery
<1>2. ASSUME Selection!Listed PROVE SelectionShape' /\ SelectionMenu'
  <2>1. SelectionShape'
    BY <1>2 DEF SelectionIInv, SelectionShape, Selection!Listed
  <2>2. ASSUME context' # None, context'.entry # None, ~context'.overtaken
        PROVE  context'.entry = context.entry /\ ~context.overtaken /\ context # None
               /\ context.entry \in Selection!ToSet(entries')
    BY <1>2, <2>2 DEF SelectionIInv, SelectionShape, Selection!Listed
  <2>3. SelectionMenu'
    BY <1>2, <2>2 DEF SelectionIInv, SelectionMenu, Selection!Shown, Selection!Listed
  <2> QED
    BY <2>1, <2>3
<1>3. ASSUME Selection!showExtracted PROVE SelectionShape' /\ SelectionMenu'
  BY <1>3 DEF SelectionIInv, SelectionShape, SelectionMenu, Selection!showExtracted
<1>4. ASSUME Selection!setQuery PROVE SelectionShape' /\ SelectionMenu'
  BY <1>4 DEF SelectionIInv, SelectionShape, SelectionMenu, Selection!setQuery
<1> QED
  BY <1>1, <1>2, <1>3, <1>4 DEF SelectionIInv

LEMMA SelectionMenus ==
    ASSUME SelectionIInv, Selection!OpenMenu \/ Selection!menuItems
    PROVE  SelectionIInv'
<1>1. ASSUME NEW row \in Selection!Shown \cup {None}, Selection!openContextMenu(row)
      PROVE  SelectionIInv'
  <2>1. /\ context' = [entry |-> row, overtaken |-> FALSE]
        /\ UNCHANGED <<entries, query, move, band>>
        /\ row # None => row \in selectedPaths'
    BY <1>1 DEF Selection!openContextMenu, Selection!menuSelects, Selection!selectSingle,
       Selection!Select, Selection!shownVars
  <2>2. SelectionPress'
    BY <2>1, SelectionGestureKept
  <2>3. SelectionShape' /\ SelectionMenu'
    BY <2>1 DEF SelectionIInv, SelectionShape, SelectionMenu, Selection!Shown
  <2> QED
    BY <2>2, <2>3 DEF SelectionIInv
<1>2. ASSUME Selection!menuItems PROVE SelectionIInv'
  <2>1. CASE Selection!goTo(context.entry)
    BY <2>1, SelectionGoes
  <2>2. CASE context' = None /\ UNCHANGED <<move, band>>
    BY <2>2, SelectionGestureKept, SelectionMenuKept DEF SelectionIInv
  <2> QED
    BY <1>2, <2>1, <2>2 DEF Selection!menuItems
<1> QED
  BY <1>1, <1>2 DEF Selection!OpenMenu

LEMMA SelectionKeys ==
    ASSUME SelectionIInv, Selection!onKeyDown
    PROVE  SelectionIInv'
<1>1. ASSUME Selection!Select(Selection!Shown, lastSelectedPath) \/ Selection!clearSelection,
             UNCHANGED <<Selection!shownVars, context, move, band>>
      PROVE  SelectionIInv'
  <2>1. SelectionPress' /\ SelectionShape'
    BY <1>1, SelectionGestureKept
  <2>2. SelectionMenu'
    BY <1>1 DEF SelectionIInv, SelectionMenu, Selection!Shown, Selection!shownVars,
       Selection!Select, Selection!clearSelection
  <2> QED
    BY <2>1, <2>2 DEF SelectionIInv
<1>2. ASSUME NEW row, Selection!openEntry(row) PROVE SelectionIInv'
  BY <1>2, SelectionOpens
<1> QED
  BY <1>1, <1>2 DEF Selection!onKeyDown

LEMMA SelectionKept == ASSUME SelectionIInv, UNCHANGED selectionVars PROVE SelectionIInv'
  BY SelectionGestureKept, SelectionMenuKept DEF SelectionIInv, selectionVars

LEMMA SelectionNext == ASSUME SelectionIInv, Selection!Next PROVE SelectionIInv'
<1>1. ASSUME Selection!Press \/ Selection!Drag \/ Selection!Release PROVE SelectionIInv'
  BY <1>1, SelectionPresses, SelectionMoves, SelectionReleases
     DEF Selection!Press, Selection!Drag, Selection!Release
<1>2. ASSUME NEW row, Selection!onDoubleClick(row) PROVE SelectionIInv'
  BY <1>2, SelectionDoubleClicks
<1>3. ASSUME Selection!Navigate PROVE SelectionIInv'
  BY <1>3, SelectionGoes DEF Selection!Navigate
<1> QED
  BY <1>1, <1>2, <1>3, SelectionLists, SelectionMenus, SelectionKeys DEF Selection!Next

LEMMA SelectionStep == SelectionIInv /\ [Next]_vars => SelectionIInv'
<1> SUFFICES ASSUME SelectionIInv, [Next]_vars PROVE SelectionIInv'
  OBVIOUS
<1>1. Selection!Next \/ Selection!Remount \/ UNCHANGED selectionVars
  BY DEF Next, DesktopSwitch, Other, vars
<1> QED
  BY <1>1, SelectionNext, SelectionFresh, SelectionKept

(* One press of a Files window is a drag or a rubber band, never both, and the  *)
(* operations of a menu opened on a row act on that row, whatever the keys and   *)
(* the listings did while it was open (use-marquee-selection.ts,                *)
(* use-file-move-drag.ts, FileContextMenu.tsx).                              *)
THEOREM SelectionInvariance == Spec => []SelectionInv
<1>1. Init => SelectionIInv
  BY SelectionFresh DEF Init
<1> QED
  BY <1>1, SelectionStep, SelectionImplies, PTL DEF Spec

-----------------------------------------------------------------------------
(* The settings.  The image on the page is the one stored as soon as the read   *)
(* of the mount, the oldest transaction until it has run, is over: what later   *)
(* transactions change they change in both.  A change stores a preference the   *)
(* page kept within its range, so that what is read again is what was set.     *)

SettingsIds ==
    /\ theme \in Settings!Themes
    /\ storedIds \in [Settings!Themes -> Settings!WallpaperIds \cup {None}]
    /\ wallpaperId \in Settings!WallpaperIds
    /\ event \in BOOLEAN
    /\ Settings!IdFollowsStore

Transactions == {x \in [do : {"load", "save", "clear"}, image : Images \cup {None}] :
                   x.do = "save" => x.image # None}
SettingsStores == hasCustom = (db # None) /\ customUrl = db
SettingsImage ==
    /\ ops \in Seq(Transactions)
    /\ customUrl # None => hasCustom
    /\ ~unsure => SettingsStores \/ (ops # <<>> /\ Head(ops).do = "load")

SettingsPrefs ==
    /\ rawPrefs = [level |-> rawPrefs.level, compact |-> rawPrefs.compact]
    /\ rawPrefs.level \in Int \cup {None}
    /\ Settings!LastSetKept

SettingsIInv == SettingsIds /\ SettingsImage /\ SettingsPrefs

LEMMA SettingsImplies == SettingsIInv => SettingsInv
  BY DEF SettingsIInv, SettingsIds, SettingsImage, SettingsStores, SettingsPrefs, SettingsInv,
         Settings!SettingsInv, Settings!ImageIsStored

LEMMA ReadStored ==
    ASSUME NEW ids \in [Settings!Themes -> Settings!WallpaperIds \cup {None}],
           NEW t \in Settings!Themes
    PROVE  Settings!readStoredId(ids, t) \in Settings!WallpaperIds
  BY SettingsAssumption DEF Settings!readStoredId, Settings!WallpaperIds

LEMMA SettingsInit == Settings!Init => SettingsIInv
<1> SUFFICES ASSUME Settings!Init PROVE SettingsIInv
  OBVIOUS
<1>1. SettingsIds
  BY ReadStored DEF Settings!Init, SettingsIds, Settings!IdFollowsStore, Settings!WallpaperIds
<1>2. SettingsImage
  BY DEF Settings!Init, SettingsImage, Settings!Load, Transactions
<1>3. SettingsPrefs
  BY SettingsAssumption DEF Settings!Init, SettingsPrefs, Settings!LastSetKept
<1> QED
  BY <1>1, <1>2, <1>3 DEF SettingsIInv

LEMMA SettingsIdsKept ==
    ASSUME SettingsIds, UNCHANGED <<theme, storedIds, wallpaperId, event>>
    PROVE  SettingsIds'
  BY DEF SettingsIds, Settings!IdFollowsStore

LEMMA SettingsPrefsKept ==
    ASSUME SettingsPrefs, UNCHANGED <<rawPrefs, lastSet>>
    PROVE  SettingsPrefs'
  BY DEF SettingsPrefs, Settings!LastSetKept

(* The id is written, and read again with the image: a read joins the queue.    *)
LEMMA SettingsWrites ==
    ASSUME SettingsIds, NEW id \in Settings!WallpaperIds, NEW waiting \in Seq(Transactions),
           Settings!writeStoredId(id, waiting), UNCHANGED <<theme, event>>
    PROVE  SettingsIds' /\ ops' = Append(waiting, Settings!Load) /\ ops' \in Seq(Transactions)
<1>1. storedIds' \in [Settings!Themes -> Settings!WallpaperIds \cup {None}]
  BY DEF SettingsIds, Settings!writeStoredId
<1>2. wallpaperId' = Settings!readStoredId(storedIds', theme)
  BY DEF Settings!writeStoredId, Settings!onChange
<1>3. SettingsIds'
  BY <1>1, <1>2, ReadStored DEF SettingsIds, Settings!IdFollowsStore
<1>4. ops' = Append(waiting, Settings!Load) /\ Settings!Load \in Transactions
  BY DEF Settings!writeStoredId, Settings!onChange, Settings!Load, Transactions
<1> QED
  BY <1>3, <1>4

(* What joins the queue does not overtake the read of the mount.              *)
LEMMA SettingsQueues ==
    ASSUME SettingsImage, NEW x \in Transactions, ops' = Append(ops, x),
           UNCHANGED <<customUrl, hasCustom, db, unsure>>
    PROVE  SettingsImage'
  BY DEF SettingsImage, SettingsStores

LEMMA SettingsChooses ==
    ASSUME SettingsIInv, Settings!WallpaperSection
    PROVE  SettingsIInv'
<1> USE DEF SettingsIInv
<1>1. ASSUME NEW id \in Settings!WallpaperIds, Settings!setWallpaper(id) PROVE SettingsIInv'
  <2>1. SettingsPrefs'
    BY <1>1, SettingsPrefsKept DEF Settings!setWallpaper, Settings!prefsVars
  <2>2. ops \in Seq(Transactions) /\ Settings!Load \in Transactions
    BY DEF SettingsImage, Settings!Load, Transactions
  <2>3. SettingsIds' /\ ops' = Append(ops, Settings!Load)
    BY <1>1, <2>2, SettingsWrites DEF Settings!setWallpaper
  <2>4. SettingsImage'
    BY <1>1, <2>2, <2>3, SettingsQueues DEF Settings!setWallpaper
  <2> QED
    BY <2>1, <2>3, <2>4
<1>2. ASSUME NEW image \in Images, Settings!Upload(image) PROVE SettingsIInv'
  <2>1. SettingsIds' /\ SettingsPrefs'
    BY <1>2, SettingsIdsKept, SettingsPrefsKept DEF Settings!Upload, Settings!prefsVars
  <2>2. [do |-> "save", image |-> image] \in Transactions
    BY <1>2, SettingsAssumption DEF Transactions
  <2> QED
    BY <1>2, <2>1, <2>2, SettingsQueues DEF Settings!Upload
<1>3. ASSUME Settings!RemoveCustom PROVE SettingsIInv'
  <2>1. SettingsIds' /\ SettingsPrefs'
    BY <1>3, SettingsIdsKept, SettingsPrefsKept DEF Settings!RemoveCustom, Settings!prefsVars
  <2>2. [do |-> "clear", image |-> None] \in Transactions
    BY DEF Transactions
  <2> QED
    BY <1>3, <2>1, <2>2, SettingsQueues DEF Settings!RemoveCustom
<1> QED
  BY <1>1, <1>2, <1>3 DEF Settings!WallpaperSection

LEMMA SettingsRuns ==
    ASSUME SettingsIInv, Settings!Transaction
    PROVE  SettingsIInv'
<1> USE DEF SettingsIInv
<1>1. SettingsPrefs'
  BY SettingsPrefsKept DEF Settings!Transaction, Settings!prefsVars
<1>2. ops # <<>> /\ Head(ops) \in Transactions /\ Tail(ops) \in Seq(Transactions)
      /\ UNCHANGED <<theme, event>>
  BY DEF SettingsImage, Settings!Transaction
<1>3. ASSUME Settings!refreshCustom PROVE SettingsIds' /\ SettingsImage'
  BY <1>2, <1>3, SettingsIdsKept DEF Settings!refreshCustom, SettingsImage, SettingsStores
<1>4. ASSUME Settings!setCustomWallpaper PROVE SettingsIds' /\ SettingsImage'
  <2>1. "custom" \in Settings!WallpaperIds
    BY DEF Settings!WallpaperIds
  <2>2. SettingsIds' /\ ops' \in Seq(Transactions)
    BY <1>2, <1>4, <2>1, SettingsWrites DEF Settings!setCustomWallpaper
  <2>3. hasCustom' = TRUE /\ customUrl' = db' /\ db' # None
    BY <1>2, <1>4 DEF Settings!setCustomWallpaper, Transactions
  <2> QED
    BY <2>2, <2>3 DEF SettingsImage, SettingsStores
<1>5. ASSUME Settings!clearCustomWallpaper PROVE SettingsIds' /\ SettingsImage'
  <2>1. SettingsStores' /\ customUrl' = None
    BY <1>5 DEF Settings!clearCustomWallpaper, Settings!urlCleared, SettingsStores
  <2>2. CASE Settings!readStoredId(storedIds, theme) = "custom"
    <3>1. Default[theme] \in Settings!WallpaperIds
      BY SettingsAssumption DEF SettingsIds, Settings!WallpaperIds
    <3>2. SettingsIds' /\ ops' \in Seq(Transactions)
      BY <1>2, <1>5, <2>2, <3>1, SettingsWrites DEF Settings!clearCustomWallpaper
    <3> QED
      BY <2>1, <3>2 DEF SettingsImage
  <2>3. CASE Settings!readStoredId(storedIds, theme) # "custom"
    BY <1>2, <1>5, <2>1, <2>3, SettingsIdsKept DEF Settings!clearCustomWallpaper, SettingsImage
  <2> QED
    BY <2>2, <2>3
<1>6. ASSUME Settings!Failed PROVE SettingsIds' /\ SettingsImage'
  <2>1. SettingsIds'
    BY <1>2, <1>6, SettingsIdsKept DEF Settings!Failed
  <2>2. CASE Head(ops).do = "load"
    BY <1>2, <1>6, <2>1, <2>2 DEF Settings!Failed, SettingsImage
  <2>3. CASE Head(ops).do # "load"
    BY <1>2, <1>6, <2>1, <2>3 DEF Settings!Failed, SettingsImage, SettingsStores
  <2> QED
    BY <2>2, <2>3
<1> QED
  BY <1>1, <1>3, <1>4, <1>5, <1>6 DEF Settings!Transaction

(* A level that was read is within its range, and is read again as it is.      *)
Level(n) == IF n = None THEN Settings!ShellDefault ELSE Settings!Clamp(n)
LEMMA ClampedOnce ==
    ASSUME NEW n \in Int \cup {None}
    PROVE  Level(n) \in Int /\ Level(n) # None /\ Settings!Clamp(Level(n)) = Level(n)
<1>1. Level(n) \in LevelRange.min..LevelRange.max
  BY SettingsAssumption DEF Level, Settings!ShellDefault, Settings!Clamp
<1>2. Level(n) # None
  BY <1>1, SettingsAssumption
<1>3. Level(n) \in Int /\ Settings!Clamp(Level(n)) = Level(n)
  BY <1>1, SettingsAssumption DEF Settings!Clamp
<1> QED
  BY <1>2, <1>3

(* What was last set is what is stored, after a change over what is stored.    *)
LEMMA SettingsPatches ==
    ASSUME SettingsPrefs, NEW over, over = Settings!parseShellPrefs(rawPrefs),
           NEW new \in Settings!Patches(over), rawPrefs' = new,
           lastSet' = Settings!Set(lastSet, over, new)
    PROVE  SettingsPrefs'
<1> DEFINE v == Level(rawPrefs.level)
           c == rawPrefs.compact
<1>1. over = [level |-> v, compact |-> c] /\ lastSet = over
  BY DEF SettingsPrefs, Settings!LastSetKept, Settings!parseShellPrefs, Level
<1>2. v \in Int /\ v # None /\ Settings!Clamp(v) = v
  BY ClampedOnce DEF SettingsPrefs
<1> HIDE DEF v, c
<1>3. ASSUME NEW n \in Levels \ {None}, new = [over EXCEPT !.level = n] PROVE SettingsPrefs'
  <2>1. new = [level |-> n, compact |-> c] /\ n \in Int /\ n # None
    BY <1>1, <1>3, SettingsAssumption
  <2>2. Settings!parseShellPrefs(new) = [level |-> Settings!Clamp(n), compact |-> c]
    BY <2>1 DEF Settings!parseShellPrefs
  <2>3. lastSet' = [level |-> Settings!Clamp(n), compact |-> c]
    BY <1>1, <1>2, <2>1 DEF Settings!Set
  <2> QED
    BY <2>1, <2>2, <2>3 DEF SettingsPrefs, Settings!LastSetKept
<1>4. ASSUME NEW b, new = [over EXCEPT !.compact = b] PROVE SettingsPrefs'
  <2>1. new = [level |-> v, compact |-> b]
    BY <1>1, <1>4
  <2>2. Settings!parseShellPrefs(new) = [level |-> v, compact |-> b]
    BY <1>2, <2>1 DEF Settings!parseShellPrefs
  <2>3. lastSet' = [level |-> v, compact |-> b]
    BY <1>1, <2>1 DEF Settings!Set
  <2> QED
    BY <1>2, <2>1, <2>2, <2>3 DEF SettingsPrefs, Settings!LastSetKept
<1> QED
  BY <1>3, <1>4 DEF Settings!Patches

LEMMA SettingsHere ==
    ASSUME SettingsIInv, Settings!setTheme \/ Settings!updatePrefs
    PROVE  SettingsIInv'
<1> USE DEF SettingsIInv
<1>1. ASSUME Settings!setTheme PROVE SettingsIInv'
  <2>1. SettingsPrefs'
    BY <1>1, SettingsPrefsKept DEF Settings!setTheme, Settings!prefsVars
  <2>2. SettingsImage'
    BY <1>1 DEF Settings!setTheme, SettingsImage, SettingsStores
  <2>3. theme' \in Settings!Themes /\ wallpaperId' = Settings!readStoredId(storedIds, theme')
    BY <1>1 DEF Settings!setTheme, Settings!idFor, Settings!Themes
  <2>4. SettingsIds'
    BY <1>1, <2>3, ReadStored DEF Settings!setTheme, SettingsIds, Settings!IdFollowsStore
  <2> QED
    BY <2>1, <2>2, <2>4
<1>2. ASSUME Settings!updatePrefs PROVE SettingsIInv'
  <2>1. SettingsPrefs'
    BY <1>2, SettingsPatches DEF Settings!updatePrefs, Settings!readPrefs
  <2>2. SettingsIds' /\ SettingsImage'
    BY <1>2, SettingsIdsKept
       DEF Settings!updatePrefs, Settings!wallpaperVars, SettingsImage, SettingsStores
  <2> QED
    BY <2>1, <2>2
<1> QED
  BY <1>1, <1>2

LEMMA SettingsElsewhere ==
    ASSUME SettingsIInv, Settings!OtherTab \/ Settings!StorageEvent
    PROVE  SettingsIInv'
<1> USE DEF SettingsIInv
<1>1. ASSUME Settings!OtherTab PROVE SettingsIInv'
  <2>1. SettingsPrefs'
    BY <1>1, SettingsPatches, SettingsPrefsKept DEF Settings!OtherTab, Settings!prefsVars
  <2>2. storedIds' \in [Settings!Themes -> Settings!WallpaperIds \cup {None}]
    BY <1>1 DEF Settings!OtherTab, SettingsIds
  <2>3. theme' = theme /\ wallpaperId' = wallpaperId /\ event' \in BOOLEAN
        /\ (~event' => ~event /\ storedIds' = storedIds)
    BY <1>1 DEF Settings!OtherTab, SettingsIds
  <2>4. SettingsIds'
    BY <2>2, <2>3 DEF SettingsIds, Settings!IdFollowsStore
  <2>5. UNCHANGED <<ops, customUrl, hasCustom>> /\ (~unsure' => ~unsure /\ db' = db)
    BY <1>1 DEF Settings!OtherTab
  <2>6. SettingsImage'
    BY <2>5 DEF SettingsImage, SettingsStores
  <2> QED
    BY <2>1, <2>4, <2>6
<1>2. ASSUME Settings!StorageEvent PROVE SettingsIInv'
  <2>1. SettingsPrefs'
    BY <1>2, SettingsPrefsKept DEF Settings!StorageEvent
  <2>2. SettingsIds'
    BY <1>2, ReadStored
       DEF Settings!StorageEvent, Settings!onChange, SettingsIds, Settings!IdFollowsStore
  <2>3. Settings!Load \in Transactions
    BY DEF Settings!Load, Transactions
  <2>4. SettingsImage'
    BY <1>2, <2>3, SettingsQueues DEF Settings!StorageEvent, Settings!onChange
  <2> QED
    BY <2>1, <2>2, <2>4
<1> QED
  BY <1>1, <1>2

LEMMA SettingsKept == ASSUME SettingsIInv, UNCHANGED settingsVars PROVE SettingsIInv'
  BY SettingsIdsKept, SettingsPrefsKept DEF settingsVars, SettingsIInv, SettingsImage, SettingsStores

LEMMA SettingsStep == SettingsIInv /\ [Next]_vars => SettingsIInv'
<1> SUFFICES ASSUME SettingsIInv, [Next]_vars PROVE SettingsIInv'
  OBVIOUS
<1>1. Settings!Next \/ UNCHANGED settingsVars
  BY DEF Next, DesktopSwitch, Other, vars, settingsVars, Settings!setAppearance,
     Settings!wallpaperVars, Settings!prefsVars
<1> QED
  BY <1>1, SettingsChooses, SettingsRuns, SettingsHere, SettingsElsewhere, SettingsKept
     DEF Settings!Next

(* The wallpaper's id is the one stored for the theme, unless another tab's      *)
(* change is on its way; once nothing is under way the image shown is the image *)
(* stored, unless a read failed or another tab changed it; and no tab undoes    *)
(* what another set; however the transactions, the themes and the tabs' events  *)
(* interleave (wallpaper.tsx, theme.tsx, appearance.tsx).                      *)
THEOREM SettingsInvariance == Spec => []SettingsInv
<1>1. Init => SettingsIInv
  BY SettingsInit DEF Init
<1> QED
  BY <1>1, SettingsStep, SettingsImplies, PTL DEF Spec
-----------------------------------------------------------------------------
(* The Terminal window.  A run that was not disposed belongs to a live session, *)
(* which has no other; one that was is still loading xterm.                    *)

TerminalTab ==
    [id : TabIds, serverId : Terminal!Servers, cwd : {p.cwd : p \in Payloads} \cup {None}]
TerminalRun == [tab : TabIds, at : Terminal!Stages, disposed : BOOLEAN]
OneTabEach(ts) == \A i, j \in DOMAIN ts : ts[i].id = ts[j].id => i = j

TerminalOpens ==
    /\ payload \in Payloads \cup {None}
    /\ openedKey \in Payloads \cup {None}
    /\ Terminal!OneInFront

TerminalTabs ==
    /\ listed \subseteq Terminal!Servers /\ up \subseteq Terminal!Servers
    /\ tabs \in Seq(TerminalTab) /\ OneTabEach(tabs)
    /\ status \in [Terminal!Mounted(tabs, listed) -> Terminal!Statuses]

TerminalRuns ==
    /\ runs \subseteq TerminalRun
    /\ \A r \in runs :
         IF r.disposed THEN r.at = "import"
         ELSE /\ r.tab \in Terminal!Live(tabs, up, listed)
              /\ r.at = "closed" => status[r.tab] = "disconnected"
              /\ r.at = "open" => status[r.tab] # "connecting"
    /\ \A q, r \in runs : ~q.disposed /\ ~r.disposed /\ q.tab = r.tab => q = r
    /\ \A id \in Terminal!Live(tabs, up, listed) :
         status[id] = "disconnected" \/ \E r \in runs : r.tab = id /\ ~r.disposed

TerminalIInv == TerminalOpens /\ TerminalTabs /\ TerminalRuns

LEMMA TerminalImplies == TerminalIInv => TerminalInv
<1> SUFFICES ASSUME TerminalIInv PROVE Terminal!TerminalInv
  BY DEF TerminalInv
<1>1. Terminal!TypeOK
  <2>1. \A i \in DOMAIN tabs : tabs[i] \in TerminalTab
    BY DEF TerminalIInv, TerminalTabs
  <2>2. \A i \in DOMAIN tabs : tabs[i].id \in TabIds /\ tabs[i].serverId \in Terminal!Servers
    BY <2>1 DEF TerminalTab
  <2>3. \A r \in runs : r.tab \in TabIds /\ r.at \in Terminal!Stages /\ r.disposed \in BOOLEAN
    BY DEF TerminalIInv, TerminalRuns, TerminalRun
  <2> QED
    BY <2>2, <2>3 DEF TerminalIInv, TerminalOpens, TerminalTabs, Terminal!TypeOK
<1>2. Terminal!SocketsOwned
  BY DEF TerminalIInv, TerminalRuns, Terminal!SocketsOwned
<1>3. Terminal!OneRun
  BY DEF TerminalIInv, TerminalTabs, TerminalRuns, OneTabEach, Terminal!OneRun
<1>4. Terminal!StatusOfRun
  BY DEF TerminalIInv, TerminalRuns, Terminal!StatusOfRun
<1> QED
  BY <1>1, <1>2, <1>3, <1>4 DEF TerminalIInv, TerminalOpens, Terminal!TerminalInv

LEMMA MountedAreTabs ==
    ASSUME NEW ts \in Seq(TerminalTab), NEW on, NEW in
    PROVE  /\ Terminal!Live(ts, on, in) \subseteq Terminal!Mounted(ts, in)
           /\ Terminal!Mounted(ts, in) \subseteq Terminal!Ids(ts)
           /\ Terminal!Ids(ts) \subseteq TabIds
<1>1. Terminal!Live(ts, on, in) \subseteq Terminal!Mounted(ts, in)
  BY DEF Terminal!Live
<1>2. Terminal!Mounted(ts, in) \subseteq Terminal!Ids(ts)
  BY DEF Terminal!Mounted, Terminal!Ids
<1>3. \A i \in DOMAIN ts : ts[i] \in TerminalTab
  OBVIOUS
<1>4. Terminal!Ids(ts) \subseteq TabIds
  BY <1>3 DEF Terminal!Ids, TerminalTab
<1> QED
  BY <1>1, <1>2, <1>4

LEMMA TerminalInit == Terminal!Init => TerminalIInv
<1> SUFFICES ASSUME Terminal!Init PROVE TerminalIInv
  OBVIOUS
<1>1. Terminal!Mounted(tabs, listed) = {} /\ Terminal!Live(tabs, up, listed) = {}
  BY DEF Terminal!Init, Terminal!Mounted, Terminal!Live
<1> QED
  BY <1>1 DEF Terminal!Init, TerminalIInv, TerminalOpens, TerminalTabs, TerminalRuns, OneTabEach,
     Terminal!OneInFront

(* The runs that a cleanup leaves are disposed and have a tab's id.            *)
LEMMA DisposedRuns ==
    ASSUME TerminalIInv, NEW rs \in SUBSET runs
    PROVE  /\ Terminal!disposed(rs) \subseteq TerminalRun
           /\ \A r \in Terminal!disposed(rs) : r.disposed /\ r.at = "import"
<1>1. rs \subseteq TerminalRun
  BY DEF TerminalIInv, TerminalRuns
<1> QED
  BY <1>1 DEF Terminal!disposed, TerminalRun

LEMMA StartedRuns ==
    ASSUME NEW id \in TabIds
    PROVE  /\ Terminal!connect(id) \in TerminalRun /\ Terminal!connect(id).tab = id
           /\ Terminal!connect(id).at = "import" /\ ~Terminal!connect(id).disposed
  BY DEF Terminal!connect, TerminalRun, Terminal!Stages

(* A render cleans up what is no longer live and starts what has become live.   *)
LEMMA TerminalRenders ==
    ASSUME TerminalIInv, NEW ts \in Seq(TerminalTab), OneTabEach(ts),
           NEW on \in SUBSET Terminal!Servers, NEW in \in SUBSET Terminal!Servers,
           Terminal!Render(ts, on, in)
    PROVE  TerminalTabs' /\ TerminalRuns'
<1> DEFINE was == Terminal!Live(tabs, up, listed)
           is == Terminal!Live(ts, on, in)
           mounted == Terminal!Mounted(ts, in)
           stays == {r \in runs : r.tab \in is \cap was \/ r.disposed}
           ends == Terminal!disposed({r \in runs : r.tab \notin is \cap was})
           starts == {Terminal!connect(id) : id \in is \ was}
<1>1. is \subseteq mounted /\ mounted \subseteq TabIds
  BY MountedAreTabs
<1>2. tabs' = ts /\ up' = on /\ listed' = in /\ runs' = stays \cup ends \cup starts
  BY DEF Terminal!Render, Terminal!Effects
<1>3. status' = [id \in mounted |-> IF id \in DOMAIN status THEN status[id] ELSE "connecting"]
  BY DEF Terminal!Render
<1>4. DOMAIN status = Terminal!Mounted(tabs, listed) /\ was \subseteq DOMAIN status
      /\ \A id \in DOMAIN status : status[id] \in Terminal!Statuses
  <2>1. tabs \in Seq(TerminalTab) /\ status \in [Terminal!Mounted(tabs, listed) -> Terminal!Statuses]
    BY DEF TerminalIInv, TerminalTabs
  <2> QED
    BY <2>1, MountedAreTabs
<1>5. Terminal!Live(tabs', up', listed') = is /\ Terminal!Mounted(tabs', listed') = mounted
  BY <1>2
<1>6. ends \subseteq TerminalRun /\ \A r \in ends : r.disposed /\ r.at = "import"
  BY DisposedRuns
<1>7. \A r \in starts : r \in TerminalRun /\ r.tab \in is \ was /\ r.at = "import" /\ ~r.disposed
  BY <1>1, StartedRuns
<1>8. \A r \in stays : /\ r \in runs /\ r \in TerminalRun
                       /\ IF r.disposed THEN r.at = "import"
                          ELSE /\ r.tab \in is \cap was
                               /\ r.at = "closed" => status[r.tab] = "disconnected"
                               /\ r.at = "open" => status[r.tab] # "connecting"
  BY DEF TerminalIInv, TerminalRuns
<1>9. \A id \in is \cap was :
        status[id] = "disconnected" \/ \E r \in stays : r.tab = id /\ ~r.disposed
  BY DEF TerminalIInv, TerminalRuns
<1>10. \A id \in is \ was : \E r \in starts : r.tab = id /\ ~r.disposed
  BY <1>1, StartedRuns
<1> HIDE DEF was, is, mounted, stays, ends, starts
<1>11. \A id \in is \cap was : status'[id] = status[id]
  BY <1>1, <1>3, <1>4
<1>12. TerminalTabs'
  <2>1. status' \in [mounted -> Terminal!Statuses]
    BY <1>3, <1>4 DEF Terminal!Statuses
  <2> QED
    BY <1>2, <1>5, <2>1 DEF TerminalTabs
<1>13. runs' \subseteq TerminalRun
  BY <1>2, <1>6, <1>7, <1>8
<1>14. \A r \in runs' : IF r.disposed THEN r.at = "import"
                        ELSE /\ r.tab \in is
                             /\ r.at = "closed" => status'[r.tab] = "disconnected"
                             /\ r.at = "open" => status'[r.tab] # "connecting"
  BY <1>2, <1>6, <1>7, <1>8, <1>11
<1>15. \A q, r \in runs' : ~q.disposed /\ ~r.disposed /\ q.tab = r.tab => q = r
  <2>1. \A q, r \in stays : ~q.disposed /\ ~r.disposed /\ q.tab = r.tab => q = r
    BY <1>8 DEF TerminalIInv, TerminalRuns
  <2>2. \A q, r \in starts : q.tab = r.tab => q = r
    BY <1>1, StartedRuns DEF starts
  <2> QED
    BY <1>2, <1>6, <1>7, <1>8, <2>1, <2>2
<1>16. \A id \in is : status'[id] = "disconnected" \/ \E r \in runs' : r.tab = id /\ ~r.disposed
  BY <1>2, <1>9, <1>10, <1>11
<1> QED
  BY <1>5, <1>12, <1>13, <1>14, <1>15, <1>16 DEF TerminalRuns
LEMMA FirstTabsOpen ==
    ASSUME NEW id \in TabIds, NEW p \in Payloads, NEW on, NEW in,
           NEW new \in Terminal!FirstTabs(id, p, on, in)
    PROVE  new \in TerminalTab /\ new.id = id /\ new.serverId \in Terminal!openableServers(on, in)
<1>1. Terminal!FirstOf(Terminal!openableServers(on, in)) \subseteq Terminal!openableServers(on, in)
  BY DEF Terminal!FirstOf
<1>2. PICK s \in Terminal!openableServers(on, in) :
        new = Terminal!makeTab(id, s, IF s = p.serverId THEN p.cwd ELSE None)
  BY <1>1 DEF Terminal!FirstTabs
<1>3. s \in Terminal!Servers
  BY DEF Terminal!openableServers
<1> QED
  BY <1>2, <1>3 DEF Terminal!makeTab, TerminalTab

LEMMA OneTabAlone ==
    ASSUME NEW t \in TerminalTab
    PROVE  <<t>> \in Seq(TerminalTab) /\ OneTabEach(<<t>>) /\ Terminal!Ids(<<t>>) = {t.id}
           /\ <<t>> # <<>> /\ <<t>>[1] = t
  BY DEF OneTabEach, Terminal!Ids

LEMMA OneTabMore ==
    ASSUME NEW ts \in Seq(TerminalTab), OneTabEach(ts), NEW t \in TerminalTab, t.id \notin Terminal!Ids(ts)
    PROVE  /\ Append(ts, t) \in Seq(TerminalTab) /\ OneTabEach(Append(ts, t))
           /\ t.id \in Terminal!Ids(Append(ts, t))
           /\ Append(ts, t) # <<>>
<1> DEFINE new == Append(ts, t)
<1>1. new \in Seq(TerminalTab) /\ DOMAIN new = 1..(Len(ts) + 1) /\ new[Len(ts) + 1] = t
      /\ \A i \in DOMAIN ts : new[i] = ts[i]
  OBVIOUS
<1>2. Len(ts) \in Nat /\ DOMAIN ts = 1..Len(ts)
  OBVIOUS
<1>3. \A i \in DOMAIN ts : ts[i].id # t.id
  BY DEF Terminal!Ids
<1> HIDE DEF new
<1>4. \A i \in DOMAIN new : i = Len(ts) + 1 \/ i \in DOMAIN ts
  BY <1>1, <1>2
<1>5. OneTabEach(new)
  BY <1>1, <1>3, <1>4 DEF OneTabEach
<1>6. t.id \in Terminal!Ids(new) /\ new # <<>>
  BY <1>1, <1>2 DEF Terminal!Ids
<1> QED
  BY <1>1, <1>5, <1>6 DEF new

(* Taking a tab out keeps the other ones.                                     *)
LEMMA SequenceLess ==
    ASSUME NEW S, NEW s \in Seq(S), NEW k \in DOMAIN s
    PROVE  LET rest == Terminal!RemoveAt(s, k)
           IN /\ rest \in Seq(S) /\ Len(rest) = Len(s) - 1
              /\ \A i \in 1..(Len(s) - 1) : rest[i] = s[IF i < k THEN i ELSE i + 1]
<1> DEFINE n == Len(s)
           front == SubSeq(s, 1, k - 1)
           back == SubSeq(s, k + 1, n)
<1>1. n \in Nat /\ k \in 1..n /\ DOMAIN s = 1..n
  OBVIOUS
<1>2. front \in Seq(S) /\ Len(front) = k - 1 /\ \A i \in 1..(k - 1) : front[i] = s[i]
  BY <1>1
<1>3. back \in Seq(S) /\ Len(back) = n - k /\ \A i \in 1..(n - k) : back[i] = s[i + k]
  BY <1>1
<1>4. Terminal!RemoveAt(s, k) = front \o back
  BY DEF Terminal!RemoveAt
<1> HIDE DEF front, back
<1>5. front \o back \in Seq(S)
  BY <1>2, <1>3
<1>6. Len(front \o back) = n - 1
  <2>1. Len(front \o back) = Len(front) + Len(back)
    BY <1>2, <1>3, ConcatProperties
  <2> QED
    BY <1>1, <1>2, <1>3, <2>1
<1>7. \A i \in 1..(n - 1) : (front \o back)[i] = s[IF i < k THEN i ELSE i + 1]
  <2> SUFFICES ASSUME NEW i \in 1..(n - 1) PROVE (front \o back)[i] = s[IF i < k THEN i ELSE i + 1]
    OBVIOUS
  <2>0. (front \o back)[i] = IF i <= k - 1 THEN front[i] ELSE back[i - (k - 1)]
    BY <1>1, <1>2, <1>3, ConcatProperties
  <2>1. CASE i < k
    BY <1>1, <1>2, <2>0, <2>1
  <2>2. CASE i >= k
    <3>1. (front \o back)[i] = back[i - (k - 1)] /\ i - (k - 1) \in 1..(n - k)
      BY <1>1, <2>0, <2>2
    <3>2. back[i - (k - 1)] = s[(i - (k - 1)) + k]
      BY <1>3, <3>1
    <3>3. (i - (k - 1)) + k = i + 1
      BY <1>1
    <3> QED
      BY <1>1, <2>2, <3>1, <3>2, <3>3
  <2>3. i < k \/ i >= k
    BY <1>1
  <2> QED
    BY <2>1, <2>2, <2>3
<1>8. Terminal!RemoveAt(s, k) \in Seq(S) /\ Len(Terminal!RemoveAt(s, k)) = Len(s) - 1
  BY <1>4, <1>5, <1>6
<1>9. \A i \in 1..(Len(s) - 1) : Terminal!RemoveAt(s, k)[i] = s[IF i < k THEN i ELSE i + 1]
  BY <1>4, <1>7
<1> QED
  BY <1>8, <1>9

LEMMA OneTabLess ==
    ASSUME NEW ts \in Seq(TerminalTab), OneTabEach(ts), NEW k \in DOMAIN ts
    PROVE  LET rest == Terminal!RemoveAt(ts, k)
           IN /\ rest \in Seq(TerminalTab) /\ OneTabEach(rest)
              /\ Len(rest) = Len(ts) - 1
              /\ Terminal!Ids(rest) = Terminal!Ids(ts) \ {ts[k].id}
<1> DEFINE n == Len(ts)
           rest == Terminal!RemoveAt(ts, k)
           from(i) == IF i < k THEN i ELSE i + 1
<1>1. n \in Nat /\ k \in 1..n /\ DOMAIN ts = 1..n
  OBVIOUS
<1>2. rest \in Seq(TerminalTab) /\ Len(rest) = n - 1 /\ \A i \in 1..(n - 1) : rest[i] = ts[from(i)]
  BY SequenceLess
<1>3. DOMAIN rest = 1..(n - 1)
  BY <1>2
<1> HIDE DEF rest
<1>4. \A i \in 1..(n - 1) : from(i) \in 1..n /\ from(i) # k
  BY <1>1
<1>5. \A i, j \in 1..(n - 1) : from(i) = from(j) => i = j
  BY <1>1
<1>6. \A m \in 1..n : m # k => \E i \in 1..(n - 1) : from(i) = m
  <2> SUFFICES ASSUME NEW m \in 1..n, m # k PROVE \E i \in 1..(n - 1) : from(i) = m
    OBVIOUS
  <2>1. CASE m < k
    <3>1. m \in 1..(n - 1) /\ from(m) = m
      BY <1>1, <2>1
    <3> QED
      BY <3>1
  <2>2. CASE m > k
    <3>1. m - 1 \in 1..(n - 1) /\ from(m - 1) = m
      BY <1>1, <2>2
    <3> QED
      BY <3>1
  <2> QED
    BY <1>1, <2>1, <2>2
<1> HIDE DEF from
<1>7. OneTabEach(rest)
  BY <1>1, <1>2, <1>3, <1>4, <1>5 DEF OneTabEach
<1>8. Terminal!Ids(rest) \subseteq Terminal!Ids(ts) \ {ts[k].id}
  BY <1>1, <1>2, <1>3, <1>4 DEF Terminal!Ids, OneTabEach
<1>9. Terminal!Ids(ts) \ {ts[k].id} \subseteq Terminal!Ids(rest)
  <2> SUFFICES ASSUME NEW m \in 1..n, ts[m].id # ts[k].id PROVE ts[m].id \in Terminal!Ids(rest)
    BY <1>1 DEF Terminal!Ids
  <2>1. PICK i \in 1..(n - 1) : from(i) = m
    BY <1>6
  <2> QED
    BY <1>2, <1>3, <2>1 DEF Terminal!Ids
<1> QED
  BY <1>2, <1>7, <1>8, <1>9 DEF rest

LEMMA TerminalFirst ==
    ASSUME TerminalIInv, NEW p \in Payloads,
           NEW on \in SUBSET Terminal!Servers, NEW in \in SUBSET Terminal!Servers,
           Terminal!First(p, on, in), payload' = p
    PROVE  TerminalIInv'
<1>1. PICK id \in TabIds, new \in TerminalTab :
        new.id = id /\ Terminal!Render(<<new>>, on, in) /\ activeId' = id /\ openedKey' = p
  BY FirstTabsOpen DEF Terminal!First
<1>2. TerminalTabs' /\ TerminalRuns'
  BY <1>1, OneTabAlone, TerminalRenders
<1>3. tabs' = <<new>>
  BY <1>1 DEF Terminal!Render
<1>4. TerminalOpens'
  BY <1>1, <1>3, OneTabAlone DEF TerminalOpens, Terminal!OneInFront
<1> QED
  BY <1>2, <1>4 DEF TerminalIInv

(* A render with the same tabs, and one with one tab more.                    *)
LEMMA TerminalSame ==
    ASSUME TerminalIInv, NEW on \in SUBSET Terminal!Servers, NEW in \in SUBSET Terminal!Servers,
           Terminal!Render(tabs, on, in), activeId' = activeId,
           payload' \in Payloads \cup {None}, openedKey' \in Payloads \cup {None}
    PROVE  TerminalIInv'
<1>1. tabs \in Seq(TerminalTab) /\ OneTabEach(tabs)
  BY DEF TerminalIInv, TerminalTabs
<1>2. TerminalTabs' /\ TerminalRuns'
  BY <1>1, TerminalRenders
<1>3. tabs' = tabs
  BY DEF Terminal!Render
<1>4. TerminalOpens'
  BY <1>3 DEF TerminalIInv, TerminalOpens, Terminal!OneInFront
<1> QED
  BY <1>2, <1>4 DEF TerminalIInv

LEMMA TerminalMore ==
    ASSUME TerminalIInv, NEW id \in TabIds \ Terminal!Ids(tabs), NEW s \in Terminal!connected,
           NEW cwd \in {p.cwd : p \in Payloads} \cup {None},
           Terminal!Render(Append(tabs, Terminal!makeTab(id, s, cwd)), up, listed), activeId' = id,
           payload' \in Payloads \cup {None}, openedKey' \in Payloads \cup {None}
    PROVE  TerminalIInv'
<1> DEFINE new == Terminal!makeTab(id, s, cwd)
<1>1. new \in TerminalTab /\ new.id = id
  BY DEF Terminal!makeTab, TerminalTab, Terminal!connected, Terminal!openableServers
<1>2. tabs \in Seq(TerminalTab) /\ OneTabEach(tabs)
      /\ up \in SUBSET Terminal!Servers /\ listed \in SUBSET Terminal!Servers
  BY DEF TerminalIInv, TerminalTabs
<1> HIDE DEF new
<1>3. /\ Append(tabs, new) \in Seq(TerminalTab) /\ OneTabEach(Append(tabs, new))
      /\ id \in Terminal!Ids(Append(tabs, new)) /\ Append(tabs, new) # <<>>
  BY <1>1, <1>2, OneTabMore
<1>4. Terminal!Render(Append(tabs, new), up, listed)
  BY DEF new
<1>5. TerminalTabs' /\ TerminalRuns'
  BY <1>2, <1>3, <1>4, TerminalRenders
<1>6. tabs' = Append(tabs, new)
  BY <1>4 DEF Terminal!Render
<1>7. TerminalOpens'
  BY <1>3, <1>6 DEF TerminalOpens, Terminal!OneInFront
<1> QED
  BY <1>5, <1>7 DEF TerminalIInv
LEMMA TerminalShows ==
    ASSUME TerminalIInv, (\E p \in Payloads : Terminal!Open(p)) \/ Terminal!NewTab
    PROVE  TerminalIInv'
<1>1. /\ openedKey \in Payloads \cup {None} /\ payload \in Payloads \cup {None}
      /\ up \in SUBSET Terminal!Servers /\ listed \in SUBSET Terminal!Servers
  BY DEF TerminalIInv, TerminalOpens, TerminalTabs
<1>2. ASSUME NEW p \in Payloads, Terminal!Open(p) PROVE TerminalIInv'
  <2>1. payload' = p
    BY <1>2 DEF Terminal!Open
  <2>2. CASE Terminal!First(p, up, listed)
    BY <1>1, <2>1, <2>2, TerminalFirst
  <2>3. ASSUME NEW id \in TabIds \ Terminal!Ids(tabs), p.serverId \in Terminal!connected, openedKey' = p,
               Terminal!Render(Append(tabs, Terminal!makeTab(id, p.serverId, p.cwd)), up, listed),
               activeId' = id
        PROVE  TerminalIInv'
    BY <2>1, <2>3, TerminalMore
  <2>4. ASSUME Terminal!Stay, openedKey' \in {p, openedKey} PROVE TerminalIInv'
    BY <1>1, <2>1, <2>4, TerminalSame DEF Terminal!Stay
  <2> QED
    BY <1>2, <2>2, <2>3, <2>4 DEF Terminal!Open
<1>3. ASSUME Terminal!NewTab PROVE TerminalIInv'
  <2>1. PICK s \in Terminal!connected : Terminal!addTab(s)
    BY <1>3 DEF Terminal!NewTab
  <2>2. PICK id \in TabIds \ Terminal!Ids(tabs) :
          /\ Terminal!Render(Append(tabs, Terminal!makeTab(id, s, None)), up, listed)
          /\ activeId' = id
    BY <2>1 DEF Terminal!addTab
  <2>3. payload' = payload /\ openedKey' = openedKey
    BY <1>3 DEF Terminal!NewTab
  <2> QED
    BY <1>1, <2>2, <2>3, TerminalMore
<1> QED
  BY <1>2, <1>3

LEMMA TerminalServers ==
    ASSUME TerminalIInv, NEW on \in SUBSET Terminal!Servers, NEW in \in SUBSET Terminal!Servers,
           Terminal!SessionChanges(on, in)
    PROVE  TerminalIInv'
<1>1. payload' = payload /\ payload \in Payloads \cup {None} /\ openedKey \in Payloads \cup {None}
  BY DEF TerminalIInv, TerminalOpens, Terminal!SessionChanges
<1>2. CASE Terminal!OpensFirst(payload, on, in)
  <2>1. payload \in Payloads /\ Terminal!First(payload, on, in)
    BY <1>1, <1>2 DEF Terminal!SessionChanges, Terminal!OpensFirst
  <2> QED
    BY <1>1, <2>1, TerminalFirst
<1>3. CASE ~Terminal!OpensFirst(payload, on, in)
  BY <1>1, <1>3, TerminalSame DEF Terminal!SessionChanges
<1> QED
  BY <1>2, <1>3

LEMMA TerminalCloses ==
    ASSUME TerminalIInv, NEW id \in Terminal!Ids(tabs), Terminal!closeTab(id),
           UNCHANGED <<payload, openedKey>>
    PROVE  TerminalIInv'
<1> DEFINE index == CHOOSE i \in DOMAIN tabs : tabs[i].id = id
           next == Terminal!RemoveAt(tabs, index)
<1>1. /\ tabs \in Seq(TerminalTab) /\ OneTabEach(tabs)
      /\ up \in SUBSET Terminal!Servers /\ listed \in SUBSET Terminal!Servers
  BY DEF TerminalIInv, TerminalTabs
<1>2. index \in DOMAIN tabs /\ tabs[index].id = id
  BY DEF Terminal!Ids
<1>3. /\ Terminal!Render(next, up, listed)
      /\ activeId' = CASE activeId # id -> activeId
                       [] next = <<>> -> None
                       [] OTHER -> next[IF index <= Len(next) THEN index ELSE Len(next)].id
  BY DEF Terminal!closeTab
<1> HIDE DEF index
<1>4. /\ next \in Seq(TerminalTab) /\ OneTabEach(next)
      /\ Terminal!Ids(next) = Terminal!Ids(tabs) \ {id}
  BY <1>1, <1>2, OneTabLess
<1> HIDE DEF next
<1>5. TerminalTabs' /\ TerminalRuns' /\ tabs' = next
  BY <1>1, <1>3, <1>4, TerminalRenders DEF Terminal!Render
<1>6. Terminal!OneInFront'
  <2>1. activeId \in Terminal!Ids(tabs)
    BY <1>1, <1>2 DEF TerminalIInv, TerminalOpens, Terminal!OneInFront
  <2>2. CASE activeId # id
    <3>1. activeId \in Terminal!Ids(next)
      BY <1>4, <2>1, <2>2
    <3>2. next # <<>>
      BY <3>1 DEF Terminal!Ids
    <3>3. activeId' = activeId
      BY <1>3, <2>2, <3>2
    <3> QED
      BY <1>5, <3>1, <3>2, <3>3 DEF Terminal!OneInFront
  <2>3. CASE activeId = id /\ next = <<>>
    BY <1>3, <1>5, <2>3 DEF Terminal!OneInFront
  <2>4. CASE activeId = id /\ next # <<>>
    <3> DEFINE k == IF index <= Len(next) THEN index ELSE Len(next)
    <3>1. index \in 1..Len(tabs) /\ Len(next) \in Nat \ {0} /\ DOMAIN next = 1..Len(next)
      BY <1>1, <1>2, <1>4, <2>4
    <3>2. k \in DOMAIN next
      BY <3>1
    <3>3. activeId' = next[k].id
      BY <1>3, <2>4
    <3> QED
      BY <1>5, <2>4, <3>2, <3>3 DEF Terminal!Ids, Terminal!OneInFront
  <2> QED
    BY <2>2, <2>3, <2>4
<1> QED
  BY <1>5, <1>6 DEF TerminalIInv, TerminalOpens

LEMMA TerminalBar == ASSUME TerminalIInv, Terminal!TabBar PROVE TerminalIInv'
<1>1. PICK id \in Terminal!Ids(tabs) :
        \/ Terminal!closeTab(id)
        \/ activeId' = id /\ activeId # id /\ UNCHANGED <<tabs, status, runs, up, listed>>
  BY DEF Terminal!TabBar
<1>2. UNCHANGED <<payload, openedKey>>
  BY DEF Terminal!TabBar
<1>3. CASE Terminal!closeTab(id)
  BY <1>2, <1>3, TerminalCloses
<1>4. CASE activeId' = id /\ UNCHANGED <<tabs, status, runs, up, listed>>
  <2>1. tabs # <<>>
    BY DEF Terminal!Ids
  <2> QED
    BY <1>2, <1>4, <2>1
       DEF TerminalIInv, TerminalOpens, TerminalTabs, TerminalRuns, Terminal!OneInFront
<1> QED
  BY <1>1, <1>3, <1>4

(* Reconnect: the run of the session is cleaned up and another one begins.      *)
LEMMA TerminalReconnects == ASSUME TerminalIInv, Terminal!Reconnect PROVE TerminalIInv'
<1> DEFINE stays == {r \in runs : r.tab # activeId \/ r.disposed}
           ends == Terminal!disposed({r \in runs : r.tab = activeId})
           start == Terminal!connect(activeId)
<1>1. UNCHANGED <<listed, up, payload, tabs, activeId, openedKey>>
  BY DEF Terminal!Reconnect
<1>2. runs' = stays \cup ends \cup {start} /\ status' = [status EXCEPT ![activeId] = "connecting"]
      /\ activeId \in Terminal!Live(tabs, up, listed)
  BY DEF Terminal!Reconnect
<1>3. tabs \in Seq(TerminalTab)
  BY DEF TerminalIInv, TerminalTabs
<1>4. activeId \in Terminal!Mounted(tabs, listed) /\ activeId \in TabIds
  BY <1>2, <1>3, MountedAreTabs
<1>5. ends \subseteq TerminalRun /\ \A r \in ends : r.disposed /\ r.at = "import"
  BY DisposedRuns
<1>6. start \in TerminalRun /\ start.tab = activeId /\ start.at = "import" /\ ~start.disposed
  BY <1>4, StartedRuns
<1>7. \A r \in stays : r \in runs /\ r \in TerminalRun /\ (r.disposed \/ r.tab # activeId)
  BY DEF TerminalIInv, TerminalRuns
<1>8. status \in [Terminal!Mounted(tabs, listed) -> Terminal!Statuses]
  BY DEF TerminalIInv, TerminalTabs
<1>9. status' \in [Terminal!Mounted(tabs, listed) -> Terminal!Statuses]
  BY <1>2, <1>4, <1>8 DEF Terminal!Statuses
<1>10. \A id \in Terminal!Mounted(tabs, listed) : id # activeId => status'[id] = status[id]
  BY <1>2, <1>8
<1> HIDE DEF stays, ends, start
<1>11. TerminalTabs' /\ TerminalOpens'
  BY <1>1, <1>9 DEF TerminalIInv, TerminalTabs, TerminalOpens, Terminal!OneInFront
<1>12. runs' \subseteq TerminalRun
  BY <1>2, <1>5, <1>6, <1>7
<1>13. \A r \in runs' : IF r.disposed THEN r.at = "import"
                        ELSE /\ r.tab \in Terminal!Live(tabs, up, listed)
                             /\ r.at = "closed" => status'[r.tab] = "disconnected"
                             /\ r.at = "open" => status'[r.tab] # "connecting"
  <2>1. \A r \in runs : IF r.disposed THEN r.at = "import"
                        ELSE /\ r.tab \in Terminal!Live(tabs, up, listed)
                             /\ r.tab \in Terminal!Mounted(tabs, listed)
                             /\ r.at = "closed" => status[r.tab] = "disconnected"
                             /\ r.at = "open" => status[r.tab] # "connecting"
    BY <1>3, MountedAreTabs DEF TerminalIInv, TerminalRuns
  <2> QED
    BY <1>2, <1>5, <1>6, <1>7, <1>10, <2>1
<1>14. \A q, r \in runs' : ~q.disposed /\ ~r.disposed /\ q.tab = r.tab => q = r
  <2>1. \A q, r \in runs : ~q.disposed /\ ~r.disposed /\ q.tab = r.tab => q = r
    BY DEF TerminalIInv, TerminalRuns
  <2> QED
    BY <1>2, <1>5, <1>6, <1>7, <2>1
<1>15. \A id \in Terminal!Live(tabs, up, listed) :
         status'[id] = "disconnected" \/ \E r \in runs' : r.tab = id /\ ~r.disposed
  <2>1. \A id \in Terminal!Live(tabs, up, listed) : id # activeId =>
           status'[id] = "disconnected" \/ \E r \in stays : r.tab = id /\ ~r.disposed
    BY <1>3, <1>10, MountedAreTabs DEF TerminalIInv, TerminalRuns, stays
  <2> QED
    BY <1>2, <1>6, <2>1
<1>16. TerminalRuns'
  BY <1>1, <1>12, <1>13, <1>14, <1>15 DEF TerminalRuns
<1> QED
  BY <1>11, <1>16 DEF TerminalIInv

(* The window goes away, or comes back with at most one tab.                   *)
LEMMA TerminalFresh ==
    ASSUME TerminalIInv, NEW ts \in Seq(TerminalTab), OneTabEach(ts), tabs' = ts,
           UNCHANGED <<listed, up>>,
           status' = [id \in Terminal!Ids(ts) |-> "connecting"],
           Terminal!Mounted(ts, listed) = Terminal!Ids(ts),
           Terminal!Live(ts, up, listed) = Terminal!Ids(ts),
           runs' = {r \in runs : r.disposed} \cup Terminal!disposed(runs)
                   \cup {Terminal!connect(id) : id \in Terminal!Ids(ts)}
    PROVE  TerminalTabs' /\ TerminalRuns'
<1> DEFINE stays == {r \in runs : r.disposed}
           ends == Terminal!disposed(runs)
           starts == {Terminal!connect(id) : id \in Terminal!Ids(ts)}
<1>1. Terminal!Ids(ts) \subseteq TabIds
  BY MountedAreTabs
<1>2. \A r \in stays : r \in TerminalRun /\ r.disposed /\ r.at = "import"
  BY DEF TerminalIInv, TerminalRuns
<1>3. \A r \in ends : r \in TerminalRun /\ r.disposed /\ r.at = "import"
  BY DisposedRuns
<1>4. \A r \in starts : r \in TerminalRun /\ r.tab \in Terminal!Ids(ts) /\ r.at = "import" /\ ~r.disposed
  BY <1>1, StartedRuns
<1>5. \A q, r \in starts : q.tab = r.tab => q = r
  BY <1>1, StartedRuns
<1>6. runs' = stays \cup ends \cup starts
  OBVIOUS
<1>7. \A id \in Terminal!Ids(ts) : \E r \in starts : r.tab = id /\ ~r.disposed
  BY <1>1, StartedRuns
<1> HIDE DEF stays, ends, starts
<1>8. TerminalTabs'
  BY DEF TerminalIInv, TerminalTabs, Terminal!Statuses
<1>9. TerminalRuns'
  BY <1>2, <1>3, <1>4, <1>5, <1>6, <1>7 DEF TerminalRuns
<1> QED
  BY <1>8, <1>9

LEMMA TerminalGone == ASSUME TerminalIInv, Terminal!Unmounted PROVE TerminalIInv'
<1>1. /\ <<>> \in Seq(TerminalTab) /\ OneTabEach(<<>>) /\ Terminal!Ids(<<>>) = {}
      /\ Terminal!Mounted(<<>>, listed) = {} /\ Terminal!Live(<<>>, up, listed) = {}
  BY DEF OneTabEach, Terminal!Ids, Terminal!Mounted, Terminal!Live
<1>2. TerminalTabs' /\ TerminalRuns'
  BY <1>1, TerminalFresh DEF Terminal!Unmounted
<1> QED
  BY <1>2 DEF TerminalIInv, TerminalOpens, Terminal!OneInFront, Terminal!Unmounted

LEMMA OneTabLive ==
    ASSUME NEW t \in TerminalTab, t.serverId \in Terminal!connected
    PROVE  /\ Terminal!Mounted(<<t>>, listed) = Terminal!Ids(<<t>>)
           /\ Terminal!Live(<<t>>, up, listed) = Terminal!Ids(<<t>>)
<1>1. DOMAIN <<t>> = {1} /\ <<t>>[1] = t
  OBVIOUS
<1>2. t.serverId \in up /\ t.serverId \in listed
  BY DEF Terminal!connected, Terminal!openableServers
<1>3. Terminal!Ids(<<t>>) = {t.id}
  BY <1>1 DEF Terminal!Ids
<1>4. Terminal!Mounted(<<t>>, listed) = {t.id}
  BY <1>1, <1>2 DEF Terminal!Mounted
<1>5. Terminal!TabOf(<<t>>, t.id) = t
  BY <1>1 DEF Terminal!TabOf
<1> QED
  BY <1>2, <1>3, <1>4, <1>5 DEF Terminal!Live

LEMMA TerminalRemounts == ASSUME TerminalIInv, Terminal!Remount PROVE TerminalIInv'
<1>1. CASE payload = None
  BY <1>1 DEF Terminal!Remount, TerminalIInv, TerminalOpens, TerminalTabs, TerminalRuns,
     Terminal!OneInFront
<1>2. CASE payload # None
  <2>1. /\ UNCHANGED <<listed, up, payload>> /\ payload \in Payloads
        /\ status' = [id \in Terminal!Ids(tabs') |-> "connecting"]
        /\ runs' = {r \in runs : r.disposed} \cup Terminal!disposed(runs)
                   \cup {Terminal!connect(id) : id \in Terminal!Ids(tabs')}
    BY <1>2 DEF Terminal!Remount, TerminalIInv, TerminalOpens
  <2>2. CASE tabs' = <<>>
    <3>1. /\ <<>> \in Seq(TerminalTab) /\ OneTabEach(<<>>) /\ Terminal!Ids(<<>>) = {}
          /\ Terminal!Mounted(<<>>, listed) = {} /\ Terminal!Live(<<>>, up, listed) = {}
      BY DEF OneTabEach, Terminal!Ids, Terminal!Mounted, Terminal!Live
    <3>2. TerminalTabs' /\ TerminalRuns'
      BY <2>1, <2>2, <3>1, TerminalFresh
    <3>3. activeId' = None /\ openedKey' = None
      BY <1>2, <2>2 DEF Terminal!Remount
    <3> QED
      BY <2>1, <2>2, <3>2, <3>3 DEF TerminalIInv, TerminalOpens, Terminal!OneInFront
  <2>3. ASSUME NEW id \in TabIds, NEW new \in Terminal!FirstTabs(id, payload, up, listed), tabs' = <<new>>
        PROVE  TerminalIInv'
    <3>1. new \in TerminalTab /\ new.serverId \in Terminal!connected
      BY <2>1, FirstTabsOpen DEF Terminal!connected
    <3>2. TerminalTabs' /\ TerminalRuns'
      BY <2>1, <2>3, <3>1, OneTabAlone, OneTabLive, TerminalFresh
    <3>3. <<new>> # <<>> /\ <<new>>[1].id \in Terminal!Ids(<<new>>)
      BY <3>1, OneTabAlone
    <3>4. activeId' = <<new>>[1].id /\ openedKey' = payload
      BY <1>2, <2>3, <3>3 DEF Terminal!Remount
    <3> QED
      BY <2>1, <2>3, <3>2, <3>3, <3>4 DEF TerminalIInv, TerminalOpens, Terminal!OneInFront
  <2>4. (CHOOSE id \in TabIds : TRUE) \in TabIds
    BY TerminalAssumption
  <2> QED
    BY <1>2, <2>2, <2>3, <2>4 DEF Terminal!Remount
<1> QED
  BY <1>1, <1>2

(* A run goes on: its session, which has no other, follows it.                 *)
LEMMA TerminalRunTo ==
    ASSUME TerminalIInv, NEW r \in runs, NEW at \in Terminal!Stages \cup {"gone"},
           NEW s, Terminal!To(r, at, s),
           r.disposed => at = "gone",
           ~r.disposed => s \in Terminal!Statuses,
           at = "closed" => s = "disconnected", at = "open" => s # "connecting",
           ~r.disposed /\ at = "gone" => s = "disconnected"
    PROVE  TerminalIInv'
<1> DEFINE next == [r EXCEPT !.at = at]
<1>1. UNCHANGED <<listed, up, payload, tabs, activeId, openedKey>>
      /\ runs' = (runs \ {r}) \cup (IF at = "gone" THEN {} ELSE {next})
      /\ status' = IF r.disposed THEN status ELSE [status EXCEPT ![r.tab] = s]
  BY DEF Terminal!To
<1>2. r \in TerminalRun /\ runs \subseteq TerminalRun
  BY DEF TerminalIInv, TerminalRuns
<1>3. at # "gone" => next \in TerminalRun /\ next.tab = r.tab /\ next.at = at /\ ~next.disposed
  BY <1>2 DEF TerminalRun
<1>4. tabs \in Seq(TerminalTab) /\ status \in [Terminal!Mounted(tabs, listed) -> Terminal!Statuses]
  BY DEF TerminalIInv, TerminalTabs
<1>5. \A q \in runs : ~q.disposed => /\ q.tab \in Terminal!Live(tabs, up, listed)
                                     /\ q.tab \in Terminal!Mounted(tabs, listed)
                                     /\ q.at = "closed" => status[q.tab] = "disconnected"
                                     /\ q.at = "open" => status[q.tab] # "connecting"
  BY <1>4, MountedAreTabs DEF TerminalIInv, TerminalRuns
<1>6. \A p, q \in runs : ~p.disposed /\ ~q.disposed /\ p.tab = q.tab => p = q
  BY DEF TerminalIInv, TerminalRuns
<1>7. \A q \in runs : q.disposed => q.at = "import"
  BY DEF TerminalIInv, TerminalRuns
<1> HIDE DEF next
<1>8. status' \in [Terminal!Mounted(tabs, listed) -> Terminal!Statuses]
  BY <1>1, <1>4, <1>5
<1>9. TerminalTabs' /\ TerminalOpens'
  BY <1>1, <1>8 DEF TerminalIInv, TerminalTabs, TerminalOpens, Terminal!OneInFront
<1>10. \A q \in runs' : (q = next /\ at # "gone") \/ (q \in runs /\ q # r)
  BY <1>1
<1>11. \A q \in runs : q # r /\ ~q.disposed => status'[q.tab] = status[q.tab]
  BY <1>1, <1>4, <1>5, <1>6
<1>12. at # "gone" => ~r.disposed /\ status'[r.tab] = s
  BY <1>1, <1>4, <1>5
<1>13. \A q \in runs' : IF q.disposed THEN q.at = "import"
                        ELSE /\ q.tab \in Terminal!Live(tabs, up, listed)
                             /\ q.at = "closed" => status'[q.tab] = "disconnected"
                             /\ q.at = "open" => status'[q.tab] # "connecting"
  BY <1>3, <1>5, <1>7, <1>10, <1>11, <1>12
<1>14. \A p, q \in runs' : ~p.disposed /\ ~q.disposed /\ p.tab = q.tab => p = q
  BY <1>3, <1>6, <1>10, <1>12
<1>15. runs' \subseteq TerminalRun
  BY <1>2, <1>3, <1>10
<1>16. \A id \in Terminal!Live(tabs, up, listed) :
         status'[id] = "disconnected" \/ \E q \in runs' : q.tab = id /\ ~q.disposed
  <2> SUFFICES ASSUME NEW id \in Terminal!Live(tabs, up, listed)
               PROVE  status'[id] = "disconnected" \/ \E q \in runs' : q.tab = id /\ ~q.disposed
    OBVIOUS
  <2>1. id \in Terminal!Mounted(tabs, listed)
    BY <1>4, MountedAreTabs
  <2>2. CASE ~r.disposed /\ id = r.tab
    BY <1>1, <1>3, <1>4, <2>1, <2>2
  <2>3. CASE r.disposed \/ id # r.tab
    <3>1. status'[id] = status[id]
      BY <1>1, <1>4, <2>1, <2>3
    <3>2. status[id] = "disconnected" \/ \E q \in runs : q.tab = id /\ ~q.disposed /\ q # r
      BY <2>3 DEF TerminalIInv, TerminalRuns
    <3> QED
      BY <1>1, <3>1, <3>2
  <2> QED
    BY <2>2, <2>3
<1>17. TerminalRuns'
  BY <1>1, <1>13, <1>14, <1>15, <1>16 DEF TerminalRuns
<1> QED
  BY <1>9, <1>17 DEF TerminalIInv

LEMMA TerminalGoes ==
    ASSUME TerminalIInv,
           \/ Terminal!Returns \/ Terminal!Expires
           \/ \E r \in runs : Terminal!onopen(r) \/ Terminal!onmessage(r) \/ Terminal!onclose(r)
    PROVE  TerminalIInv'
<1>1. PICK r \in runs :
        \/ Terminal!loaded(r) \/ Terminal!loadFailed(r) \/ Terminal!timeout(r)
        \/ Terminal!onopen(r) \/ Terminal!onmessage(r) \/ Terminal!onclose(r)
  BY DEF Terminal!Returns, Terminal!Expires
<1>2. r.disposed => r.at = "import"
  BY DEF TerminalIInv, TerminalRuns
<1>3. ~r.disposed => Terminal!Keep(r) \in Terminal!Statuses
  <2>1. tabs \in Seq(TerminalTab) /\ status \in [Terminal!Mounted(tabs, listed) -> Terminal!Statuses]
    BY DEF TerminalIInv, TerminalTabs
  <2>2. ~r.disposed => r.tab \in Terminal!Mounted(tabs, listed)
    BY <2>1, MountedAreTabs DEF TerminalIInv, TerminalRuns
  <2> QED
    BY <2>1, <2>2 DEF Terminal!Keep
<1>4. CASE Terminal!loaded(r)
  <2>1. Terminal!To(r, IF r.disposed THEN "gone" ELSE "connecting", Terminal!Keep(r))
    BY <1>4 DEF Terminal!loaded
  <2>2. CASE r.disposed
    BY <2>1, <2>2, TerminalRunTo
  <2>3. CASE ~r.disposed
    BY <1>3, <2>1, <2>3, TerminalRunTo DEF Terminal!Stages
  <2> QED
    BY <2>2, <2>3
<1>5. CASE Terminal!loadFailed(r)
  BY <1>5, TerminalRunTo DEF Terminal!loadFailed, Terminal!Stages, Terminal!Statuses
<1>6. ASSUME NEW at \in {"open", "closed"}, NEW s \in {"connected", "disconnected"},
             Terminal!To(r, at, s), r.at # "import", at = "closed" => s = "disconnected"
      PROVE  TerminalIInv'
  BY <1>2, <1>6, TerminalRunTo DEF Terminal!Stages, Terminal!Statuses
<1> QED
  BY <1>1, <1>4, <1>5, <1>6
     DEF Terminal!timeout, Terminal!onopen, Terminal!onmessage, Terminal!onclose

LEMMA TerminalNext == ASSUME TerminalIInv, Terminal!Next PROVE TerminalIInv'
<1>1. up \subseteq Terminal!Servers /\ listed \subseteq Terminal!Servers
  BY DEF TerminalIInv, TerminalTabs
<1>2. ASSUME Terminal!UserAsks PROVE TerminalIInv'
  BY <1>2, TerminalShows, TerminalBar, TerminalReconnects, TerminalGone
     DEF Terminal!UserAsks, Terminal!Close
<1>3. ASSUME NEW s \in Terminal!Servers,
             Terminal!SessionChanges(IF s \in up THEN up \ {s} ELSE up \cup {s}, listed)
      PROVE  TerminalIInv'
  <2>1. (IF s \in up THEN up \ {s} ELSE up \cup {s}) \in SUBSET Terminal!Servers
    BY <1>1
  <2> QED
    BY <1>1, <1>3, <2>1, TerminalServers
<1>4. ASSUME Terminal!SessionChanges(up, IF listed = {} THEN Terminal!Servers ELSE {})
      PROVE  TerminalIInv'
  BY <1>1, <1>4, TerminalServers
<1> QED
  BY <1>2, <1>3, <1>4, TerminalGoes DEF Terminal!Next

LEMMA TerminalStep == TerminalIInv /\ [Next]_vars => TerminalIInv'
<1> SUFFICES ASSUME TerminalIInv, [Next]_vars PROVE TerminalIInv'
  OBVIOUS
<1>1. Terminal!Next \/ Terminal!Remount \/ UNCHANGED terminalVars
  BY DEF Next, DesktopSwitch, Other, vars
<1>2. CASE UNCHANGED terminalVars
  BY <1>2 DEF terminalVars, TerminalIInv, TerminalOpens, TerminalTabs, TerminalRuns,
     Terminal!OneInFront
<1> QED
  BY <1>1, <1>2, TerminalNext, TerminalRemounts

(* A socket belongs to a session that is on the page, a session has one run,    *)
(* one tab is in front, and a session without a shell or one on its way says    *)
(* that it is disconnected, whatever opens, closes and reconnects while xterm   *)
(* loads and sockets open (TerminalApp.tsx).                                   *)
THEOREM TerminalInvariance == Spec => []TerminalInv
<1>1. Init => TerminalIInv
  BY TerminalInit DEF Init
<1> QED
  BY <1>1, TerminalStep, TerminalImplies, PTL DEF Spec

-----------------------------------------------------------------------------
(* The sparkline.  An animation is on its way to the newest series, for there   *)
(* is one; without an animation that series stands, unless nothing does.       *)

ChartsIInv ==
    /\ frame = {} \/ (frame = {Charts!target} /\ ~Charts!Empty(Charts!target))
    /\ frame = {} /\ ~Charts!Empty(Charts!target) /\ ~display.empty => display.at = Charts!target

LEMMA ChartsImplies == ChartsIInv => Charts!NoFrozenChart
BY DEF ChartsIInv, Charts!NoFrozenChart, Charts!onPage

LEMMA ChartsAnimated ==
    ASSUME Charts!Animated
    PROVE  ChartsIInv'
BY DEF Charts!Animated, Charts!animate, ChartsIInv

LEMMA ChartsMount ==
    ASSUME Charts!Mount
    PROVE  ChartsIInv'
BY DEF Charts!Mount, Charts!Standing, ChartsIInv

LEMMA ChartsStep == ChartsIInv /\ [Next]_vars => ChartsIInv'
<1> SUFFICES ASSUME ChartsIInv, [Next]_vars PROVE ChartsIInv'
  OBVIOUS
<1>1. Charts!Next \/ Charts!Remount \/ UNCHANGED chartsVars
  BY DEF Next, DesktopSwitch, Other, vars
<1>2. ASSUME UNCHANGED <<viewed, kept, clock, range, metric>>
      PROVE  Charts!target' = Charts!target
  BY <1>2 DEF Charts!target, Charts!chartFor
<1>3. CASE UNCHANGED chartsVars
  BY <1>2, <1>3 DEF chartsVars, ChartsIInv, Charts!Empty
<1>4. CASE Charts!tick
  <2>1. frame = {Charts!target} /\ ~Charts!Empty(Charts!target) /\ Charts!target' = Charts!target
    BY <1>2, <1>4 DEF Charts!tick, ChartsIInv
  <2> QED
    BY <1>4, <2>1 DEF Charts!tick, Charts!Standing, Charts!Empty, ChartsIInv
<1>5. CASE Charts!onMove \/ Charts!onPointerLeave
  BY <1>2, <1>5 DEF Charts!onMove, Charts!onPointerLeave, Charts!Empty, ChartsIInv
<1>6. CASE Charts!Sampled \/ Charts!setRange \/ Charts!onMetric
  BY <1>6, ChartsAnimated DEF Charts!Sampled, Charts!setRange, Charts!onMetric
<1>7. CASE Charts!Choose \/ Charts!Remount
  BY <1>7, ChartsAnimated, ChartsMount DEF Charts!Choose, Charts!Remount
<1> QED
  BY <1>1, <1>3, <1>4, <1>5, <1>6, <1>7 DEF Charts!Next

-----------------------------------------------------------------------------
(* The charts: histories are in their order, and no own point is later than    *)
(* the clock, so what is drawn and read of them is in order too.              *)

ChartPoint == [t : Nat, own : BOOLEAN]
History(s) == s \in Seq(ChartPoint) /\ Ordered(s)
ChartsTimes ==
    /\ clock \in Nat /\ viewed \in Views /\ hover \in Nat \cup {None}
    /\ \A v \in Views : {v[i] : i \in DOMAIN v} \subseteq DOMAIN kept
    /\ \A s \in DOMAIN kept :
         History(kept[s]) /\ \A i \in DOMAIN kept[s] : kept[s][i].own => kept[s][i].t <= clock

LEMMA LatestInOrder ==
    ASSUME NEW s, History(s), NEW n \in Nat \ {0}
    PROVE  /\ History(Charts!Latest(s, n))
           /\ \A i \in DOMAIN Charts!Latest(s, n) : \E j \in DOMAIN s : Charts!Latest(s, n)[i] = s[j]
           /\ s # <<>> => Charts!Latest(s, n) # <<>>
<1> DEFINE from == IF Len(s) > n THEN Len(s) - n + 1 ELSE 1
           l == SubSeq(s, from, Len(s))
<1>1. s \in Seq(ChartPoint) /\ Len(s) \in Nat /\ DOMAIN s = 1..Len(s)
      /\ from \in Nat /\ from >= 1 /\ from <= Len(s) + 1 /\ (Len(s) > 0 => from <= Len(s))
  BY DEF History
<1>2. Charts!Latest(s, n) = l
  BY DEF Charts!Latest
<1> HIDE DEF from
<1>3. l \in Seq(ChartPoint) /\ Len(l) = Len(s) - from + 1
      /\ \A i \in 1..(Len(s) - from + 1) : l[i] = s[from + i - 1]
  BY <1>1
<1> HIDE DEF l
<1>4. DOMAIN l = 1..(Len(s) - from + 1)
      /\ \A i \in DOMAIN l : from + i - 1 \in DOMAIN s /\ l[i] = s[from + i - 1]
  <2>1. DOMAIN l = 1..Len(l)
    BY <1>3
  <2>2. Len(s) - from + 1 \in Nat
    BY <1>1
  <2>3. \A i \in 1..(Len(s) - from + 1) : from + i - 1 \in 1..Len(s)
    BY <1>1
  <2> QED
    BY <1>1, <1>3, <2>1, <2>2, <2>3
<1>5. Ordered(l)
  <2> SUFFICES ASSUME NEW i \in DOMAIN l, NEW j \in DOMAIN l, i < j PROVE Later(l[i], l[j])
    BY DEF Ordered
  <2>1. from + i - 1 < from + j - 1
    BY <1>1, <1>4
  <2> QED
    <3> DEFINE a == from + i - 1
               b == from + j - 1
    <3>1. a \in DOMAIN s /\ b \in DOMAIN s /\ a < b /\ l[i] = s[a] /\ l[j] = s[b]
      BY <1>4, <2>1
    <3> HIDE DEF a, b
    <3> QED
      BY <3>1 DEF History, Ordered
<1>6. s # <<>> => l # <<>>
  <2>1. s # <<>> => Len(s) > 0
    BY <1>1
  <2>2. Len(s) > 0 => Len(l) > 0
    BY <1>1, <1>3
  <2> QED
    BY <2>1, <2>2
<1> QED
  BY <1>2, <1>3, <1>4, <1>5, <1>6 DEF History

(* An own point that is later than all of them comes last.                     *)
LEMMA LiveLast ==
    ASSUME NEW s, History(s), NEW now \in Nat, \A i \in DOMAIN s : s[i].own => s[i].t <= now
    PROVE  LET long == Append(s, [t |-> now + 1, own |-> TRUE])
           IN History(long) /\ \A i \in DOMAIN long : long[i].own => long[i].t <= now + 1
<1> DEFINE live == [t |-> now + 1, own |-> TRUE]
           long == Append(s, live)
<1>1. s \in Seq(ChartPoint) /\ Len(s) \in Nat /\ DOMAIN s = 1..Len(s) /\ Ordered(s)
      /\ \A i \in 1..Len(s) : s[i] \in ChartPoint
  BY DEF History
<1>2. live \in ChartPoint /\ live.t = now + 1 /\ live.own
  BY DEF ChartPoint
<1>3. \A p \in ChartPoint : p.t \in Nat /\ p.own \in BOOLEAN
  BY DEF ChartPoint
<1> HIDE DEF live
<1>4. long \in Seq(ChartPoint) /\ Len(long) = Len(s) + 1 /\ long[Len(s) + 1] = live
      /\ \A i \in 1..Len(s) : long[i] = s[i]
  BY <1>1, <1>2, AppendProperties
<1> HIDE DEF long
<1>5. DOMAIN long = 1..(Len(s) + 1)
  BY <1>4
<1>6. ASSUME NEW i \in 1..Len(s)
      PROVE  Later(s[i], live) /\ (s[i].own => s[i].t <= now + 1)
  <2>1. s[i].t \in Nat /\ s[i].own \in BOOLEAN /\ (s[i].own => s[i].t <= now)
    BY <1>1, <1>3
  <2>2. s[i].own => s[i].t < live.t /\ s[i].t <= now + 1
    BY <1>2, <2>1
  <2>3. live.own = TRUE
    BY <1>2, <1>3
  <2> QED
    BY <2>1, <2>2, <2>3 DEF Later
<1>7. Ordered(long)
  <2> SUFFICES ASSUME NEW i \in DOMAIN long, NEW j \in DOMAIN long, i < j
               PROVE  Later(long[i], long[j])
    BY DEF Ordered
  <2>1. i \in 1..Len(s) /\ (j = Len(s) + 1 \/ j \in 1..Len(s))
    BY <1>1, <1>5
  <2>2. CASE j = Len(s) + 1
    BY <1>4, <1>6, <2>1, <2>2
  <2>3. CASE j \in 1..Len(s)
    BY <1>1, <1>4, <2>1, <2>3 DEF Ordered
  <2> QED
    BY <2>1, <2>2, <2>3
<1>8. \A i \in DOMAIN long : long[i].own => long[i].t <= now + 1
  <2> SUFFICES ASSUME NEW i \in 1..(Len(s) + 1), long[i].own PROVE long[i].t <= now + 1
    BY <1>5
  <2>1. CASE i = Len(s) + 1
    BY <1>2, <1>4, <2>1
  <2>2. CASE i # Len(s) + 1
    <3>1. i \in 1..Len(s)
      BY <1>1, <2>2
    <3> QED
      BY <1>4, <1>6, <3>1
  <2> QED
    BY <2>1, <2>2
<1> QED
  BY <1>4, <1>7, <1>8 DEF History, long, live

LEMMA HistoryGrows ==
    ASSUME NEW s, History(s), NEW now \in Nat, \A i \in DOMAIN s : s[i].own => s[i].t <= now
    PROVE  LET grown == Charts!mergeHistory(s, <<>>, [t |-> now + 1, own |-> TRUE])
           IN History(grown) /\ \A i \in DOMAIN grown : grown[i].own => grown[i].t <= now + 1
<1> DEFINE live == [t |-> now + 1, own |-> TRUE]
           long == Append(s, live)
           front == Charts!Front(s)
           near == live.t - Near < Charts!Last(s).t /\ Charts!Last(s).t < live.t + Near
           grown == Charts!mergeHistory(s, <<>>, live)
           Fits(h) == History(h) /\ \A i \in DOMAIN h : h[i].own => h[i].t <= now + 1
<1> SUFFICES Fits(grown)
  OBVIOUS
<1>1. s \in Seq(ChartPoint) /\ Len(s) \in Nat /\ DOMAIN s = 1..Len(s) /\ Ordered(s) /\ MaxPoints \in Nat \ {0}
  BY ChartsAssumption DEF History
<1>2. (IF Len(<<>>) >= Len(s) THEN <<>> ELSE s) = s
  <2>1. Len(s) = 0 => s = <<>>
    BY <1>1, EmptySeq
  <2>2. Len(<<>>) = 0
    OBVIOUS
  <2> QED
    BY <1>1, <2>1, <2>2
<1>3. grown = IF s # <<>> /\ near THEN Append(front, live) ELSE Charts!Latest(long, MaxPoints)
  <2> HIDE DEF live, front
  <2> QED
    BY <1>2 DEF Charts!mergeHistory, front
<1>4. CASE s # <<>> /\ near
  <2>1. /\ front \in Seq(ChartPoint) /\ DOMAIN front = 1..(Len(s) - 1) /\ DOMAIN front \subseteq DOMAIN s
        /\ \A i \in DOMAIN front : front[i] = s[i]
    <3> DEFINE m == Len(s) - 1
    <3>1. m \in Nat /\ m + 1 = Len(s) /\ m <= Len(s)
      <4>1. Len(s) # 0
        BY <1>1, <1>4, EmptySeq
      <4> QED
        BY <1>1, <4>1
    <3>2. front = SubSeq(s, 1, m)
      BY DEF Charts!Front
    <3> HIDE DEF m, front
    <3>3. front \in Seq(ChartPoint) /\ Len(front) = m /\ \A i \in 1..m : front[i] = s[i]
      BY <1>1, <3>1, <3>2
    <3>4. DOMAIN front = 1..m
      BY <3>3
    <3> QED
      BY <1>1, <3>1, <3>3, <3>4 DEF m
  <2> HIDE DEF front
  <2>2. Ordered(front) /\ \A i \in DOMAIN front : front[i].own => front[i].t <= now
    BY <1>1, <2>1 DEF Ordered
  <2>3. History(front)
    BY <2>1, <2>2 DEF History
  <2>4. Fits(Append(front, live))
    BY <2>2, <2>3, LiveLast
  <2> QED
    BY <1>3, <1>4, <2>4
<1>5. CASE ~(s # <<>> /\ near)
  <2>1. History(long) /\ \A i \in DOMAIN long : long[i].own => long[i].t <= now + 1
    BY LiveLast
  <2>2. grown = Charts!Latest(long, MaxPoints)
    BY <1>3, <1>5
  <2> HIDE DEF long, grown
  <2>3. /\ History(grown)
        /\ \A i \in DOMAIN grown : \E j \in DOMAIN long : grown[i] = long[j]
    BY <1>1, <2>1, <2>2, LatestInOrder
  <2> QED
    BY <2>1, <2>3
<1> QED
  BY <1>4, <1>5

LEMMA ChartInOrder ==
    ASSUME NEW s, History(s), NEW span, NEW now PROVE History(Charts!filterHistory(s, span, now))
<1> DEFINE S == {p \in Charts!ToSet(s) : p.t >= now - span}
           good == Charts!Keep(s, S)
<1>1. good = Keep(s, S)
  BY DEF Charts!Keep, Keep
<1> HIDE DEF S
<1>2. Keep(s, S) \in Seq(ChartPoint) /\ Ordered(Keep(s, S))
  BY Keeps, KeepsOrder DEF History
<1> HIDE DEF good
<1>3. History(good) /\ History(Charts!Latest(s, 2))
  BY <1>1, <1>2, LatestInOrder DEF History
<1> QED
  BY <1>3 DEF Charts!filterHistory, good, S

(* What is drawn of a line: points of it, in their order and spread.          *)
Picked(at, picks, s, group) ==
    /\ at \in [1..Len(picks) -> 1..Len(s)]
    /\ \A k \in 1..Len(picks) : picks[k] = s[at[k]]
    /\ \A k, l \in 1..Len(picks) : k < l => at[k] < at[l]
    /\ \A k \in 2..Len(picks) : at[k] - at[k - 1] \in 1..(2 * group)
    /\ Len(picks) > 0 => at[1] <= group /\ Len(s) - at[Len(picks)] < group

LEMMA FewPicked ==
    ASSUME NEW s, History(s), Len(s) <= MaxDrawn
    PROVE  /\ Charts!pickPoints(s, MaxDrawn) = s
           /\ \E at : Picked(at, s, s, (Len(s) + MaxDrawn - 1) \div MaxDrawn)
<1> DEFINE n == Len(s)
           group == (n + MaxDrawn - 1) \div MaxDrawn
           at == [k \in 1..n |-> k]
<1>1. n \in Nat /\ MaxDrawn \in Nat \ {0}
  BY ChartsAssumption, LenProperties DEF History
<1>2. n > 0 => group \in Nat /\ group >= 1
  <2> SUFFICES ASSUME n > 0 PROVE group \in Nat /\ group >= 1
    OBVIOUS
  <2> DEFINE a == n + MaxDrawn - 1
  <2>1. a \in Nat /\ a >= MaxDrawn
    BY <1>1
  <2> HIDE DEF a
  <2>2. a \div MaxDrawn \in Nat /\ a < MaxDrawn * (a \div MaxDrawn) + MaxDrawn
    BY <1>1, <2>1, Quotient
  <2>3. a \div MaxDrawn # 0
    BY <1>1, <2>1, <2>2
  <2> QED
    BY <2>2, <2>3 DEF a
<1>3. Charts!pickPoints(s, MaxDrawn) = s
  BY DEF Charts!pickPoints
<1> HIDE DEF group
<1>4. Picked(at, s, s, group)
  <2>1. \A k \in 2..n : at[k] - at[k - 1] = 1 /\ 1 \in 1..(2 * group)
    BY <1>1, <1>2
  <2>2. n > 0 => at[1] <= group /\ n - at[n] < group
    BY <1>1, <1>2
  <2> QED
    BY <1>1, <2>1, <2>2 DEF Picked
<1> HIDE DEF at
<1> QED
  BY <1>3, <1>4 DEF group

LEMMA ManyPicked ==
    ASSUME NEW s, History(s), Len(s) > MaxDrawn
    PROVE  LET picks == Charts!pickPoints(s, MaxDrawn)
           IN /\ picks \in Seq(ChartPoint) /\ Len(picks) = MaxDrawn
              /\ \E at : Picked(at, picks, s, (Len(s) + MaxDrawn - 1) \div MaxDrawn)
<1> DEFINE n == Len(s)
           c == MaxDrawn
           Begin(i) == (i * n) \div c
           Middle(i) == Begin(i) + (Begin(i + 1) - Begin(i)) \div 2
           group == (n + c - 1) \div c
           at == [k \in 1..c |-> 1 + Middle(k - 1)]
           picks == [k \in 1..c |-> s[1 + Middle(k - 1)]]
<1>1. n \in Nat /\ c \in Nat \ {0} /\ n > c /\ s \in Seq(ChartPoint)
  BY ChartsAssumption, LenProperties DEF History
<1>2. Charts!pickPoints(s, MaxDrawn) = picks
  BY <1>1 DEF Charts!pickPoints
<1>3. ASSUME NEW i \in 0..(c - 1)
      PROVE  /\ Begin(i) \in 0..n /\ Begin(i + 1) \in 0..n /\ Begin(i + 1) - Begin(i) \in 1..group
             /\ group \in Nat /\ Begin(0) = 0 /\ Begin(c) = n
  <2> HIDE DEF n, c
  <2> QED
    BY <1>1, Groups
<1>4. ASSUME NEW i \in Nat, NEW j \in Nat, i <= j PROVE Begin(i) <= Begin(j)
  <2> HIDE DEF n, c
  <2> QED
    BY <1>1, <1>4, GroupsFollow
<1> HIDE DEF c, n, Begin, group
<1>5. ASSUME NEW i \in 0..(c - 1)
      PROVE  Middle(i) \in Nat /\ Begin(i) <= Middle(i) /\ Middle(i) < Begin(i + 1)
  <2> DEFINE d == Begin(i + 1) - Begin(i)
             h == d \div 2
  <2>1. d \in Nat /\ d >= 1 /\ Begin(i) \in Nat /\ Begin(i + 1) = Begin(i) + d
    BY <1>1, <1>3
  <2> HIDE DEF d
  <2>2. h \in Nat /\ h < d
    BY <2>1
  <2>3. Middle(i) = Begin(i) + h
    BY DEF d
  <2> HIDE DEF h, Middle
  <2> QED
    BY <2>1, <2>2, <2>3
<1> HIDE DEF Middle
<1>6. ASSUME NEW k \in 1..c
      PROVE  /\ k - 1 \in 0..(c - 1) /\ k - 1 + 1 = k /\ at[k] \in 1..n /\ picks[k] = s[at[k]]
             /\ Begin(k - 1) < at[k] /\ at[k] <= Begin(k) /\ Begin(k - 1) \in Nat /\ Begin(k) \in Nat
             /\ Begin(k) - Begin(k - 1) \in 1..group
  <2>1. k - 1 \in 0..(c - 1) /\ k - 1 + 1 = k
    BY <1>1
  <2>2. /\ Middle(k - 1) \in Nat /\ Begin(k - 1) <= Middle(k - 1) /\ Middle(k - 1) < Begin(k)
        /\ Begin(k - 1) \in 0..n /\ Begin(k) \in 0..n /\ Begin(k) - Begin(k - 1) \in 1..group
    BY <2>1, <1>3, <1>5
  <2>3. at[k] = 1 + Middle(k - 1) /\ picks[k] = s[1 + Middle(k - 1)]
    OBVIOUS
  <2> HIDE DEF at, picks
  <2>4. at[k] \in 1..n /\ picks[k] = s[at[k]] /\ Begin(k - 1) < at[k] /\ at[k] <= Begin(k)
        /\ Begin(k - 1) \in Nat /\ Begin(k) \in Nat
    BY <1>1, <2>2, <2>3
  <2> QED
    BY <2>1, <2>2, <2>4
<1>7. at \in [1..c -> 1..n] /\ picks \in Seq(ChartPoint) /\ Len(picks) = c
  <2>1. \A k \in 1..c : at[k] \in 1..n /\ picks[k] \in ChartPoint
    <3> SUFFICES ASSUME NEW k \in 1..c PROVE at[k] \in 1..n /\ picks[k] \in ChartPoint
      OBVIOUS
    <3> HIDE DEF at, picks
    <3>1. at[k] \in 1..n /\ picks[k] = s[at[k]]
      BY <1>6
    <3> QED
      BY <1>1, <3>1, ElementOfSeq DEF n
  <2>2. at = [k \in 1..c |-> at[k]] /\ picks = [k \in 1..c |-> picks[k]]
    OBVIOUS
  <2> HIDE DEF at, picks
  <2>3. at \in [1..c -> 1..n]
    BY <2>1, <2>2
  <2>4. picks \in [1..c -> ChartPoint]
    BY <2>1, <2>2
  <2> QED
    BY <1>1, <2>3, <2>4
<1> HIDE DEF at, picks
<1>8. ASSUME NEW k \in 1..c, NEW l \in 1..c, k < l PROVE at[k] < at[l]
  <2>1. Begin(k) <= Begin(l - 1)
    <3>1. k \in Nat /\ l - 1 \in Nat /\ k <= l - 1
      BY <1>1, <1>8
    <3> QED
      BY <3>1, <1>4
  <2>2. at[k] <= Begin(k) /\ Begin(l - 1) < at[l] /\ at[k] \in 1..n /\ at[l] \in 1..n
        /\ Begin(k) \in Nat /\ Begin(l - 1) \in Nat
    BY <1>6
  <2> QED
    BY <2>1, <2>2
<1>9. ASSUME NEW k \in 2..c PROVE at[k] - at[k - 1] \in 1..(2 * group)
  <2>1. k \in 1..c /\ k - 1 \in 1..c /\ k - 1 < k
    BY <1>1
  <2>2. at[k] \in 1..n /\ at[k - 1] \in 1..n /\ at[k - 1] < at[k]
    BY <1>6, <1>8, <2>1
  <2>3. at[k] <= Begin(k) /\ Begin(k - 1 - 1) < at[k - 1] /\ Begin(k) - Begin(k - 1) \in 1..group
        /\ Begin(k - 1) - Begin(k - 1 - 1) \in 1..group
        /\ Begin(k) \in Nat /\ Begin(k - 1) \in Nat /\ Begin(k - 1 - 1) \in Nat
    BY <1>6, <2>1
  <2>4. 0 \in 0..(c - 1)
    BY <1>1
  <2>5. group \in Nat
    BY <1>3, <2>4
  <2> QED
    BY <2>2, <2>3, <2>5
<1>10. at[1] <= group /\ n - at[c] < group
  <2>1. 1 \in 1..c /\ c \in 1..c /\ 0 \in 0..(c - 1) /\ 1 - 1 = 0
    BY <1>1
  <2>2. Begin(0) = 0 /\ Begin(c) = n /\ group \in Nat
    BY <1>3, <2>1
  <2>3. at[1] <= Begin(1) /\ Begin(1) - Begin(0) \in 1..group /\ at[1] \in 1..n /\ Begin(1) \in Nat
    <3>1. /\ at[1] \in 1..n /\ at[1] <= Begin(1) /\ Begin(1) \in Nat
          /\ Begin(1) - Begin(1 - 1) \in 1..group
      BY <1>6, <2>1
    <3> QED
      BY <2>1, <3>1
  <2>4. Begin(c - 1) < at[c] /\ Begin(c) - Begin(c - 1) \in 1..group /\ at[c] \in 1..n
        /\ Begin(c - 1) \in Nat
    BY <1>6, <2>1
  <2> QED
    BY <1>1, <2>2, <2>3, <2>4
<1>11. Picked(at, picks, s, group)
  BY <1>6, <1>7, <1>8, <1>9, <1>10 DEF Picked, n
<1> QED
  BY <1>2, <1>7, <1>11 DEF c, n, group

LEMMA PicksInOrder ==
    ASSUME NEW s, History(s)
    PROVE  LET picks == Charts!pickPoints(s, MaxDrawn)
           IN /\ History(picks) /\ Len(picks) \in 0..MaxDrawn
              /\ Len(s) <= MaxDrawn => picks = s
              /\ \E at : Picked(at, picks, s, (Len(s) + MaxDrawn - 1) \div MaxDrawn)
<1> DEFINE picks == Charts!pickPoints(s, MaxDrawn)
           group == (Len(s) + MaxDrawn - 1) \div MaxDrawn
<1>1. Len(s) \in Nat /\ MaxDrawn \in Nat \ {0} /\ s \in Seq(ChartPoint) /\ DOMAIN s = 1..Len(s)
  BY ChartsAssumption, LenProperties DEF History
<1>2. CASE Len(s) <= MaxDrawn
  BY <1>1, <1>2, FewPicked
<1>3. CASE Len(s) > MaxDrawn
  <2>1. picks \in Seq(ChartPoint) /\ Len(picks) = MaxDrawn /\ \E at : Picked(at, picks, s, group)
    BY <1>3, ManyPicked
  <2> HIDE DEF picks, group
  <2>2. PICK at : Picked(at, picks, s, group)
    BY <2>1
  <2>3. Ordered(picks)
    <3> SUFFICES ASSUME NEW k \in 1..Len(picks), NEW l \in 1..Len(picks), k < l
                 PROVE  Later(picks[k], picks[l])
      BY <2>1 DEF Ordered
    <3>1. at[k] \in DOMAIN s /\ at[l] \in DOMAIN s /\ at[k] < at[l]
          /\ picks[k] = s[at[k]] /\ picks[l] = s[at[l]]
      BY <1>1, <2>2 DEF Picked
    <3> QED
      BY <3>1 DEF History, Ordered
  <2>4. ~(Len(s) <= MaxDrawn) /\ MaxDrawn \in 0..MaxDrawn
    BY <1>1, <1>3
  <2>5. History(picks)
    BY <2>1, <2>3 DEF History
  <2> QED
    BY <2>1, <2>4, <2>5 DEF picks, group
<1> QED
  BY <1>1, <1>2, <1>3

(* The guide is one of the lines: the first of the longest.                   *)
LEMMA GuideIsLine ==
    ASSUME NEW n \in Nat \ {0}, NEW lines, DOMAIN lines = 1..n,
           \A i \in 1..n : History(lines[i]) /\ Len(lines[i]) <= MaxDrawn
    PROVE  \E i \in 1..n : /\ Charts!Guide(lines) = lines[i]
                           /\ \A j \in 1..n : Len(lines[j]) <= Len(lines[i])
<1> DEFINE Short == {MaxDrawn - Len(lines[j]) : j \in 1..n}
<1>1. \A i \in 1..n : Len(lines[i]) \in Nat
  BY LenProperties DEF History
<1>2. MaxDrawn \in Nat
  BY ChartsAssumption
<1>3. Short \subseteq Nat /\ Short # {}
  BY <1>1, <1>2
<1>4. PICK m \in Short : \A k \in Short : m <= k
  <2> HIDE DEF Short
  <2> QED
    BY <1>3, Least
<1>5. PICK l \in 1..n : m = MaxDrawn - Len(lines[l])
  BY <1>4
<1>6. ASSUME NEW j \in 1..n PROVE Len(lines[j]) <= Len(lines[l])
  <2> DEFINE a == Len(lines[j])
             b == Len(lines[l])
  <2>1. MaxDrawn - b <= MaxDrawn - a
    BY <1>4, <1>5
  <2>2. a \in Nat /\ b \in Nat
    BY <1>1
  <2> HIDE DEF a, b
  <2>3. a <= b
    BY <1>2, <2>1, <2>2
  <2> QED
    BY <2>3 DEF a, b
<1> DEFINE Longest == {i \in 1..n : Len(lines[i]) = Len(lines[l])}
<1>7. Longest \subseteq Nat /\ Longest # {}
  BY <1>5
<1>8. PICK i \in Longest : \A k \in Longest : i <= k
  <2> HIDE DEF Longest
  <2> QED
    BY <1>7, Least
<1> DEFINE First(k) == \A j \in DOMAIN lines :
             Len(lines[j]) < Len(lines[k]) \/ (Len(lines[j]) = Len(lines[k]) /\ k <= j)
<1>9. i \in DOMAIN lines /\ First(i)
  BY <1>1, <1>5, <1>6, <1>8
<1> DEFINE g == CHOOSE k \in DOMAIN lines : First(k)
<1>10. g \in DOMAIN lines /\ First(g)
  <2> HIDE DEF First
  <2> QED
    BY <1>9
<1>11. Charts!Guide(lines) = lines[g]
  BY DEF Charts!Guide
<1> HIDE DEF g
<1>12. ASSUME NEW j \in 1..n PROVE Len(lines[j]) <= Len(lines[g])
  <2>1. Len(lines[j]) \in Nat /\ Len(lines[g]) \in Nat
    BY <1>1, <1>10
  <2>2. Len(lines[j]) < Len(lines[g]) \/ Len(lines[j]) = Len(lines[g])
    BY <1>10
  <2> QED
    BY <2>1, <2>2
<1> QED
  BY <1>10, <1>11, <1>12

(* What is drawn, of every server that is viewed.                             *)
LEMMA LinesInOrder ==
    ASSUME ChartsTimes
    PROVE  /\ Len(viewed) \in Nat \ {0} /\ DOMAIN viewed = 1..Len(viewed)
           /\ DOMAIN Charts!serverLines = 1..Len(viewed) /\ DOMAIN Charts!drawn = 1..Len(viewed)
           /\ \A i \in 1..Len(viewed) :
                /\ History(Charts!serverLines[i])
                /\ Charts!drawn[i] = Charts!pickPoints(Charts!serverLines[i], MaxDrawn)
                /\ History(Charts!drawn[i]) /\ Len(Charts!drawn[i]) \in 0..MaxDrawn
<1>1. viewed \in Seq({viewed[i] : i \in DOMAIN viewed}) /\ viewed # <<>>
  BY ChartsAssumption DEF ChartsTimes
<1>2. Len(viewed) \in Nat \ {0} /\ DOMAIN viewed = 1..Len(viewed)
  <2>1. Len(viewed) \in Nat /\ DOMAIN viewed = 1..Len(viewed)
    BY <1>1
  <2>2. Len(viewed) # 0
    BY <1>1, EmptySeq
  <2> QED
    BY <2>1, <2>2
<1>3. DOMAIN Charts!serverLines = 1..Len(viewed) /\ DOMAIN Charts!drawn = 1..Len(viewed)
  BY <1>2 DEF Charts!serverLines, Charts!drawn
<1>4. ASSUME NEW i \in 1..Len(viewed)
      PROVE  /\ History(Charts!serverLines[i])
             /\ Charts!drawn[i] = Charts!pickPoints(Charts!serverLines[i], MaxDrawn)
             /\ History(Charts!drawn[i]) /\ Len(Charts!drawn[i]) \in 0..MaxDrawn
  <2> DEFINE line == Charts!serverLines[i]
  <2>1. line = Charts!filterHistory(kept[viewed[i]], RangeOf[range], clock)
    BY <1>2 DEF Charts!serverLines, Charts!chartFor
  <2>2. History(kept[viewed[i]])
    <3>1. viewed[i] \in DOMAIN kept
      BY <1>2 DEF ChartsTimes
    <3> QED
      BY <3>1 DEF ChartsTimes
  <2>3. Charts!drawn[i] = Charts!pickPoints(line, MaxDrawn)
    BY <1>2 DEF Charts!drawn
  <2> HIDE DEF line
  <2>4. History(line)
    BY <2>1, <2>2, ChartInOrder
  <2>5. History(Charts!pickPoints(line, MaxDrawn)) /\ Len(Charts!pickPoints(line, MaxDrawn)) \in 0..MaxDrawn
    BY <2>4, PicksInOrder
  <2> QED
    BY <2>3, <2>4, <2>5 DEF line
<1> QED
  BY <1>2, <1>3, <1>4

LEMMA GuideDrawn ==
    ASSUME ChartsTimes
    PROVE  /\ \E i \in 1..Len(viewed) : Charts!Guide(Charts!drawn) = Charts!drawn[i]
           /\ History(Charts!Guide(Charts!drawn)) /\ Charts!guideCount \in Nat
           /\ Len(Charts!Guide(Charts!drawn)) = Charts!guideCount
           /\ \A j \in 1..Len(viewed) : Len(Charts!drawn[j]) <= Charts!guideCount
<1> DEFINE lines == Charts!drawn
           n == Len(viewed)
<1>1. n \in Nat \ {0} /\ DOMAIN lines = 1..n
      /\ \A i \in 1..n : History(lines[i]) /\ Len(lines[i]) \in 0..MaxDrawn
  BY LinesInOrder
<1>2. Charts!guideCount = Len(Charts!Guide(lines))
  BY DEF Charts!guideCount
<1> HIDE DEF lines, n
<1>3. \A i \in 1..n : History(lines[i]) /\ Len(lines[i]) <= MaxDrawn
  BY <1>1, ChartsAssumption
<1>4. PICK i \in 1..n : Charts!Guide(lines) = lines[i] /\ \A j \in 1..n : Len(lines[j]) <= Len(lines[i])
  BY <1>1, <1>3, GuideIsLine
<1> QED
  BY <1>1, <1>2, <1>4 DEF lines, n

(* The point of a line that the pointer reads, between the ends of the chart.  *)
LEMMA ReadsPoint ==
    ASSUME NEW s, History(s), s # <<>>, NEW count \in Nat \ {0}, NEW k \in 0..(count - 1)
    PROVE  LET d == IF count > 2 THEN count - 1 ELSE 1
               at(i) == (2 * (i * (Len(s) - 1)) + d) \div (2 * d)
           IN /\ at(k) \in 0..(Len(s) - 1) /\ Charts!Under(k, s, count) = s[at(k) + 1]
              /\ at(0) = 0 /\ (count > 1 => at(count - 1) = Len(s) - 1)
              /\ \A i \in 0..k : at(i) <= at(k)
<1> DEFINE d == IF count > 2 THEN count - 1 ELSE 1
           l == Len(s) - 1
           at(i) == (2 * (i * l) + d) \div (2 * d)
<1>1. l \in Nat /\ Len(s) = l + 1
  <2>1. Len(s) \in Nat /\ (Len(s) = 0 => s = <<>>)
    BY EmptySeq DEF History
  <2> QED
    BY <2>1
<1>2. d \in Nat \ {0} /\ k \in Nat /\ k <= d /\ (count > 1 => d = count - 1)
  OBVIOUS
<1>3. Charts!Under(k, s, count) = IF at(k) < Len(s) THEN s[at(k) + 1] ELSE None
  BY DEF Charts!Under, Charts!Rounded
<1> HIDE DEF d, l
<1>4. ASSUME NEW i \in Nat, NEW j \in Nat, i <= j PROVE at(i) \in Nat /\ at(i) <= at(j)
  <2>1. i * l \in Nat /\ j * l \in Nat /\ i * l <= j * l
    BY <1>1, <1>4
  <2> DEFINE a == i * l
             b == j * l
  <2>2. (2 * a + d) \div (2 * d) \in Nat /\ (2 * a + d) \div (2 * d) <= (2 * b + d) \div (2 * d)
    <3>1. a \in Nat /\ b \in Nat /\ a <= b
      BY <2>1
    <3> HIDE DEF a, b
    <3> QED
      BY <1>2, <3>1, RoundsUp
  <2> QED
    BY <2>2
<1>5. at(d) = l
  BY <1>1, <1>2, RoundsMultiple
<1>6. at(0) = 0
  <2>1. d * 0 = 0 /\ 0 * l = 0
    BY <1>1, <1>2
  <2>2. (2 * (d * 0) + d) \div (2 * d) = 0
    BY <1>2, RoundsMultiple
  <2> QED
    BY <2>1, <2>2
<1> HIDE DEF at
<1>7. at(k) \in Nat /\ at(k) <= l
  BY <1>2, <1>4, <1>5
<1>8. \A i \in 0..k : at(i) <= at(k)
  BY <1>2, <1>4
<1>9. at(k) \in 0..l /\ at(k) < Len(s) /\ Len(s) - 1 = l
  BY <1>1, <1>7
<1>10. count > 1 => at(count - 1) = l
  BY <1>2, <1>5
<1>11. /\ at(k) \in 0..(Len(s) - 1) /\ Charts!Under(k, s, count) = s[at(k) + 1]
       /\ at(0) = 0 /\ (count > 1 => at(count - 1) = Len(s) - 1)
       /\ \A i \in 0..k : at(i) <= at(k)
  BY <1>3, <1>6, <1>8, <1>9, <1>10
<1> QED
  BY <1>11 DEF at, d, l

(* In order no point stands twice.                                            *)
LEMMA PointsOnce ==
    ASSUME NEW s, History(s), NEW i \in DOMAIN s, NEW j \in DOMAIN s, s[i] = s[j] PROVE i = j
<1>1. i \in Nat /\ j \in Nat /\ s[i] \in ChartPoint
  BY DEF History
<1>2. s[i].t \in Nat
  BY <1>1 DEF ChartPoint
<1>3. ~(i < j) /\ ~(j < i)
  BY <1>2 DEF History, Ordered, Later
<1> QED
  BY <1>1, <1>3

LEMMA PicksStandSpread == ChartsTimes => Charts!PicksSpread
<1> SUFFICES ASSUME ChartsTimes, NEW i \in DOMAIN Charts!serverLines
             PROVE  LET s == Charts!serverLines[i]
                        picks == Charts!pickPoints(s, MaxDrawn)
                        place == [k \in DOMAIN picks |-> CHOOSE n \in 1..Len(s) : s[n] = picks[k]]
                        group == (Len(s) + MaxDrawn - 1) \div MaxDrawn
                        last == Len(picks)
                    IN /\ last <= MaxDrawn /\ (Len(s) <= MaxDrawn => picks = s)
                       /\ \A k \in 2..last : place[k] - place[k - 1] \in 1..(2 * group)
                       /\ last > 0 => place[1] <= group /\ Len(s) - place[last] < group
  BY DEF Charts!PicksSpread
<1> DEFINE s == Charts!serverLines[i]
           picks == Charts!pickPoints(s, MaxDrawn)
           place == [k \in DOMAIN picks |-> CHOOSE n \in 1..Len(s) : s[n] = picks[k]]
           group == (Len(s) + MaxDrawn - 1) \div MaxDrawn
<1>1. History(s)
  BY LinesInOrder
<1> HIDE DEF s
<1>2. /\ History(picks) /\ Len(picks) \in 0..MaxDrawn /\ (Len(s) <= MaxDrawn => picks = s)
      /\ \E at : Picked(at, picks, s, group)
  BY <1>1, PicksInOrder
<1> HIDE DEF group, picks
<1>3. PICK at : Picked(at, picks, s, group)
  BY <1>2
<1>4. DOMAIN picks = 1..Len(picks) /\ DOMAIN s = 1..Len(s) /\ Len(picks) \in Nat /\ Len(s) \in Nat
  BY <1>1, <1>2 DEF History
<1>5. ASSUME NEW k \in 1..Len(picks) PROVE place[k] = at[k]
  <2>1. at[k] \in 1..Len(s) /\ s[at[k]] = picks[k]
    BY <1>3 DEF Picked
  <2> DEFINE p == CHOOSE n \in 1..Len(s) : s[n] = picks[k]
  <2>2. p \in 1..Len(s) /\ s[p] = picks[k]
    BY <2>1
  <2>3. place[k] = p
    BY <1>4
  <2> HIDE DEF p, place
  <2>4. p = at[k]
    BY <1>1, <1>4, <2>1, <2>2, PointsOnce
  <2> QED
    BY <2>3, <2>4
<1> HIDE DEF place
<1>6. ASSUME NEW k \in 2..Len(picks) PROVE place[k] - place[k - 1] \in 1..(2 * group)
  <2>1. k \in 1..Len(picks) /\ k - 1 \in 1..Len(picks)
    BY <1>4
  <2>2. place[k] = at[k] /\ place[k - 1] = at[k - 1]
    BY <1>5, <2>1
  <2> QED
    BY <1>3, <2>2 DEF Picked
<1>7. Len(picks) > 0 => place[1] <= group /\ Len(s) - place[Len(picks)] < group
  <2> SUFFICES ASSUME Len(picks) > 0 PROVE place[1] <= group /\ Len(s) - place[Len(picks)] < group
    OBVIOUS
  <2>1. 1 \in 1..Len(picks) /\ Len(picks) \in 1..Len(picks)
    BY <1>4
  <2>2. place[1] = at[1] /\ place[Len(picks)] = at[Len(picks)]
    BY <1>5, <2>1
  <2> QED
    BY <1>3, <2>2 DEF Picked
<1>8. Len(picks) <= MaxDrawn
  BY <1>2, ChartsAssumption
<1> QED
  BY <1>2, <1>6, <1>7, <1>8 DEF place, picks, group, s

(* Along a line the pointer reads.                                            *)
LEMMA LineReads ==
    ASSUME NEW s, History(s), s # <<>>, NEW count \in Nat, count > 1
    PROVE  LET read == [k \in 0..(count - 1) |-> Charts!Under(k, s, count)]
           IN /\ read[0] = s[1] /\ read[count - 1] = Charts!Last(s)
              /\ \A k \in 1..(count - 1) : read[k - 1] = read[k] \/ Charts!Before(read[k - 1], read[k])
<1> DEFINE d == IF count > 2 THEN count - 1 ELSE 1
           at(i) == (2 * (i * (Len(s) - 1)) + d) \div (2 * d)
           read == [k \in 0..(count - 1) |-> Charts!Under(k, s, count)]
<1>1. ASSUME NEW k \in 0..(count - 1)
      PROVE  /\ at(k) \in 0..(Len(s) - 1) /\ Charts!Under(k, s, count) = s[at(k) + 1]
             /\ at(0) = 0 /\ at(count - 1) = Len(s) - 1
             /\ \A i \in 0..k : at(i) <= at(k)
  <2>1. count \in Nat \ {0}
    OBVIOUS
  <2> QED
    BY <2>1, ReadsPoint
<1> HIDE DEF at
<1>2. Len(s) \in Nat /\ DOMAIN s = 1..Len(s) /\ 0 \in 0..(count - 1) /\ count - 1 \in 0..(count - 1)
      /\ \A j \in 1..Len(s) : s[j] \in ChartPoint
  BY DEF History
<1>4. \A k \in 0..(count - 1) : read[k] = s[at(k) + 1]
  BY <1>1
<1> HIDE DEF read
<1>5. read[0] = s[1]
  BY <1>1, <1>2, <1>4
<1>6. read[count - 1] = s[Len(s)]
  BY <1>1, <1>2, <1>4
<1>7. ASSUME NEW k \in 1..(count - 1) PROVE read[k - 1] = read[k] \/ Charts!Before(read[k - 1], read[k])
  <2>1. k \in 0..(count - 1) /\ k - 1 \in 0..(count - 1) /\ k - 1 \in 0..k
    OBVIOUS
  <2>2. at(k - 1) \in 0..(Len(s) - 1) /\ at(k) \in 0..(Len(s) - 1) /\ at(k - 1) <= at(k)
    BY <1>1, <2>1
  <2> DEFINE a == at(k - 1) + 1
             b == at(k) + 1
  <2>3. a \in 1..Len(s) /\ b \in 1..Len(s) /\ a <= b /\ read[k - 1] = s[a] /\ read[k] = s[b]
    BY <1>2, <1>4, <2>1, <2>2
  <2> HIDE DEF a, b
  <2>4. a < b => Charts!Before(s[a], s[b])
    BY <1>2, <2>3 DEF History, Ordered, Later, Charts!Before
  <2>5. a < b \/ a = b
    BY <1>2, <2>3
  <2> QED
    BY <2>3, <2>4, <2>5
<1> QED
  BY <1>5, <1>6, <1>7 DEF read, Charts!Last

LEMMA PointIsSome == \A p \in ChartPoint : p # None
  BY ChartsAssumption DEF ChartPoint

LEMMA BoxReads ==
    ASSUME ChartsTimes, Charts!tip # None
    PROVE  /\ \E k \in DOMAIN Charts!Guide(Charts!drawn) :
                Charts!Guide(Charts!drawn)[k].t = Charts!tip.t
           /\ hover < Charts!guideCount =>
                \A i \in DOMAIN Charts!drawn : Charts!tip.rows[i] = None <=> Charts!drawn[i] = <<>>
<1> DEFINE lines == Charts!drawn
           n == Len(viewed)
           guide == Charts!Guide(lines)
           count == Charts!guideCount
           box == Charts!tip
<1>1. n \in Nat \ {0} /\ DOMAIN lines = 1..n /\ \A i \in 1..n : History(lines[i])
  BY LinesInOrder
<1>2. PICK g \in 1..n : guide = lines[g]
  BY GuideDrawn
<1>3. History(guide) /\ count \in Nat /\ Len(guide) = count /\ DOMAIN guide = 1..count
  BY GuideDrawn DEF History
<1>4. hover \in Nat /\ count # 0
  BY DEF ChartsTimes, Charts!tip
<1>5. box = IF Charts!single THEN Charts!AreaTip(hover, lines[1]) ELSE Charts!LineTip(hover, lines)
  BY DEF Charts!tip
<1>6. Charts!single <=> n = 1
  BY DEF Charts!single
<1> HIDE DEF lines, guide, count, box, n
<1>7. CASE Charts!single
  <2>1. guide = lines[1] /\ DOMAIN lines = {1}
    BY <1>1, <1>2, <1>6, <1>7
  <2>2. Len(lines[1]) = count
    BY <1>3, <2>1
  <2>3. box = Charts!AreaTip(hover, lines[1]) /\ box # None
    BY <1>5, <1>7 DEF box
  <2>4. hover < count
        /\ box = [t |-> guide[hover + 1].t, rows |-> <<guide[hover + 1]>>]
    BY <2>1, <2>2, <2>3 DEF Charts!AreaTip
  <2>5. hover + 1 \in DOMAIN guide
    BY <1>3, <1>4, <2>4
  <2>6. guide[hover + 1] \in ChartPoint
    BY <1>3, <2>5 DEF History
  <2>7. guide[hover + 1] # None /\ lines[1] # <<>>
    <3>1. Len(<<>>) = 0
      OBVIOUS
    <3> QED
      BY <1>4, <2>2, <2>6, <3>1, PointIsSome
  <2>8. box.rows[1] = guide[hover + 1] /\ box.t = guide[hover + 1].t
    BY <2>4
  <2> QED
    BY <2>1, <2>5, <2>7, <2>8 DEF box, guide, count, lines
<1>8. CASE ~Charts!single
  <2> DEFINE first == IF hover < count THEN guide[hover + 1] ELSE guide[1]
  <2>1. box = Charts!LineTip(hover, lines)
    BY <1>5, <1>8
  <2>2. /\ box.t = first.t
        /\ \A i \in DOMAIN lines : box.rows[i] = Charts!Under(hover, lines[i], count)
    BY <1>3, <2>1 DEF Charts!LineTip, guide
  <2>3. \E k \in DOMAIN guide : guide[k] = first
    <3>1. CASE hover < count
      <4>1. hover + 1 \in DOMAIN guide
        BY <1>3, <1>4, <3>1
      <4> QED
        BY <3>1, <4>1
    <3>2. CASE ~(hover < count)
      <4>1. 1 \in DOMAIN guide
        BY <1>3, <1>4
      <4> QED
        BY <3>2, <4>1
    <3> QED
      BY <3>1, <3>2
  <2> HIDE DEF first
  <2>4. ASSUME hover < count, NEW i \in 1..n PROVE box.rows[i] = None <=> lines[i] = <<>>
    <3> DEFINE s == lines[i]
    <3>1. box.rows[i] = Charts!Under(hover, s, count) /\ History(s)
      BY <1>1, <2>2
    <3> HIDE DEF s
    <3>2. CASE s = <<>>
      <4>1. Charts!Under(hover, s, count) = None
        <5> DEFINE d == IF count > 2 THEN count - 1 ELSE 1
                   at == (2 * (hover * 0) + d) \div (2 * d)
        <5>1. d \in Nat \ {0} /\ hover * 0 = 0
          BY <1>3, <1>4
        <5> HIDE DEF d
        <5>2. d * 0 = 0 /\ (2 * (d * 0) + d) \div (2 * d) = 0
          BY <5>1, RoundsMultiple
        <5>3. at = 0
          BY <5>1, <5>2
        <5>4. Charts!Under(hover, s, count) = IF at < Len(s) THEN s[at + 1] ELSE None
          BY <3>2 DEF Charts!Under, Charts!Rounded, d
        <5> HIDE DEF at
        <5>5. Len(s) = 0
          BY <3>2
        <5> QED
          BY <5>3, <5>4, <5>5
      <4> QED
        BY <3>1, <3>2, <4>1 DEF s
    <3>3. CASE s # <<>>
      <4> DEFINE d == IF count > 2 THEN count - 1 ELSE 1
                 at == (2 * (hover * (Len(s) - 1)) + d) \div (2 * d)
      <4>1. hover \in 0..(count - 1) /\ count \in Nat \ {0}
        BY <1>3, <1>4, <2>4
      <4>2. at \in 0..(Len(s) - 1) /\ Charts!Under(hover, s, count) = s[at + 1]
        BY <3>1, <3>3, <4>1, ReadsPoint
      <4> HIDE DEF at, d
      <4>3. Len(s) \in Nat /\ \A j \in 1..Len(s) : s[j] \in ChartPoint
        BY <3>1 DEF History
      <4>4. s[at + 1] \in ChartPoint
        BY <4>2, <4>3
      <4> QED
        BY <3>1, <3>3, <4>2, <4>4, PointIsSome DEF s
    <3> QED
      BY <3>2, <3>3
  <2> QED
    BY <1>1, <2>2, <2>3, <2>4 DEF box, guide, count, lines
<1> QED
  BY <1>7, <1>8

LEMMA PointerReads == ChartsTimes => Charts!ReadsAcross
<1> SUFFICES ASSUME ChartsTimes PROVE Charts!ReadsAcross
  OBVIOUS
<1> DEFINE lines == Charts!drawn
           count == Charts!guideCount
<1>1. count = Len(Charts!Guide(lines)) /\ count \in Nat
  BY GuideDrawn
<1>2. \A i \in DOMAIN lines : History(lines[i])
  BY LinesInOrder
<1>3. ASSUME NEW i \in DOMAIN lines, lines[i] # <<>>, count > 1
      PROVE  LET read == [k \in 0..(count - 1) |-> Charts!Under(k, lines[i], count)]
             IN /\ read[0] = lines[i][1] /\ read[count - 1] = Charts!Last(lines[i])
                /\ \A k \in 1..(count - 1) : read[k - 1] = read[k] \/ Charts!Before(read[k - 1], read[k])
  <2> DEFINE s == lines[i]
  <2>1. History(s) /\ s # <<>>
    BY <1>2, <1>3
  <2> HIDE DEF s, count
  <2>2. LET read == [k \in 0..(count - 1) |-> Charts!Under(k, s, count)]
        IN /\ read[0] = s[1] /\ read[count - 1] = Charts!Last(s)
           /\ \A k \in 1..(count - 1) : read[k - 1] = read[k] \/ Charts!Before(read[k - 1], read[k])
    BY <1>1, <1>3, <2>1, LineReads
  <2> QED
    BY <2>2 DEF s
<1> HIDE DEF count, lines
<1>4. Charts!tip # None =>
        /\ \E k \in DOMAIN Charts!Guide(lines) : Charts!Guide(lines)[k].t = Charts!tip.t
        /\ hover < count =>
             \A i \in DOMAIN lines : Charts!tip.rows[i] = None <=> lines[i] = <<>>
  BY BoxReads DEF lines, count
<1> QED
  BY <1>1, <1>3, <1>4 DEF Charts!ReadsAcross, lines

LEMMA ChartsTimesInit == Init => ChartsTimes
<1> SUFFICES ASSUME Init PROVE ChartsTimes
  OBVIOUS
<1>1. viewed \in Views /\ kept \in Histories /\ clock = MaxPoints /\ hover = None
  BY DEF Init, Charts!Init
<1>2. MaxPoints \in Nat
  BY ChartsAssumption
<1>3. \A v \in Views : {v[i] : i \in DOMAIN v} \subseteq DOMAIN kept
  BY <1>1, ChartsAssumption
<1>4. ASSUME NEW s \in DOMAIN kept
      PROVE  History(kept[s]) /\ \A i \in DOMAIN kept[s] : kept[s][i].own => kept[s][i].t <= clock
  <2> DEFINE h == kept[s]
  <2>1. /\ h \in Seq(ChartPoint) /\ \A i \in DOMAIN h : h[i].own => h[i].t <= MaxPoints
        /\ \A i, j \in DOMAIN h : i < j => Charts!Before(h[i], h[j])
    BY <1>1, ChartsAssumption DEF ChartPoint
  <2> HIDE DEF h
  <2>2. Ordered(h)
    BY <2>1 DEF Ordered, Later, Charts!Before
  <2> QED
    BY <1>1, <2>1, <2>2 DEF History, h
<1> QED
  BY <1>1, <1>2, <1>3, <1>4 DEF ChartsTimes

LEMMA ChartsTimesSampled == ASSUME ChartsTimes, Charts!Sampled PROVE ChartsTimes'
<1>1. clock' = clock + 1 /\ viewed' = viewed /\ hover' = hover
  BY DEF Charts!Sampled
<1>2. PICK reporting :
        kept' = [s \in DOMAIN kept |->
                   IF s \in reporting THEN Charts!mergeHistory(kept[s], <<>>, [t |-> clock + 1, own |-> TRUE])
                   ELSE kept[s]]
  BY <1>1 DEF Charts!Sampled
<1>3. DOMAIN kept' = DOMAIN kept /\ clock \in Nat
  BY <1>2 DEF ChartsTimes
<1>4. ASSUME NEW s \in DOMAIN kept
      PROVE  History(kept'[s]) /\ \A i \in DOMAIN kept'[s] : kept'[s][i].own => kept'[s][i].t <= clock + 1
  <2> DEFINE h == kept[s]
             grown == Charts!mergeHistory(h, <<>>, [t |-> clock + 1, own |-> TRUE])
  <2>1. History(h) /\ \A i \in DOMAIN h : h[i].own => h[i].t <= clock
    BY DEF ChartsTimes
  <2>2. kept'[s] = IF s \in reporting THEN grown ELSE h
    BY <1>2
  <2> HIDE DEF h
  <2>3. History(grown) /\ \A i \in DOMAIN grown : grown[i].own => grown[i].t <= clock + 1
    BY <1>3, <2>1, HistoryGrows
  <2> HIDE DEF grown
  <2>4. \A i \in DOMAIN h : h[i].own => h[i].t <= clock + 1
    <3> SUFFICES ASSUME NEW i \in DOMAIN h, h[i].own PROVE h[i].t <= clock + 1
      OBVIOUS
    <3>1. h[i] \in ChartPoint
      BY <2>1 DEF History
    <3>2. h[i].t \in Nat
      BY <3>1 DEF ChartPoint
    <3> QED
      BY <1>3, <2>1, <3>2
  <2> QED
    BY <2>1, <2>2, <2>3, <2>4
<1> QED
  BY <1>1, <1>3, <1>4 DEF ChartsTimes

LEMMA ChartsTimesStep == ChartsTimes /\ [Next]_vars => ChartsTimes'
<1> SUFFICES ASSUME ChartsTimes, [Next]_vars PROVE ChartsTimes'
  OBVIOUS
<1>1. Charts!Next \/ Charts!Remount \/ UNCHANGED chartsVars
  BY DEF Next, DesktopSwitch, Other, vars
<1>2. ASSUME UNCHANGED <<kept, clock>>, viewed' \in Views, hover' \in Nat \cup {None} PROVE ChartsTimes'
  BY <1>2 DEF ChartsTimes
<1>3. CASE UNCHANGED chartsVars
  BY <1>2, <1>3 DEF chartsVars, ChartsTimes
<1>4. CASE Charts!tick \/ Charts!setRange \/ Charts!onMetric \/ Charts!onPointerLeave
  BY <1>2, <1>4 DEF Charts!tick, Charts!setRange, Charts!onMetric, Charts!onPointerLeave, ChartsTimes
<1>5. CASE Charts!onMove
  <2>1. hover' \in 0..(Charts!guideCount - 1) /\ UNCHANGED <<viewed, kept, clock>>
    BY <1>5 DEF Charts!onMove
  <2>2. hover' \in Nat
    BY <2>1, GuideDrawn
  <2> QED
    BY <1>2, <2>1, <2>2 DEF ChartsTimes
<1>6. CASE Charts!Choose
  BY <1>2, <1>6 DEF Charts!Choose, Charts!Mount, ChartsTimes
<1>7. CASE Charts!Remount
  <2>1. kept' = [s \in DOMAIN kept |-> <<>>] /\ UNCHANGED <<viewed, clock>> /\ hover' = None
    BY <1>7 DEF Charts!Remount, Charts!Mount
  <2>2. History(<<>>) /\ DOMAIN <<>> = {}
    BY EmptySeq DEF History, Ordered
  <2> QED
    BY <2>1, <2>2 DEF ChartsTimes
<1> QED
  BY <1>1, <1>3, <1>4, <1>5, <1>6, <1>7, ChartsTimesSampled DEF Charts!Next

(* Whatever points come and however the tabs are used: the only details the      *)
(* processes tab takes are of what it asks for now, and it has those or none    *)
(* once they have come; a button is blocked exactly while its call is under way *)
(* (ProcessesTab.tsx, ServicesTab.tsx); the points drawn are spread over the     *)
(* whole line, the pointer reads every line from end to end, back in time only  *)
(* where the browser's points follow the collector's, and a sparkline comes to  *)
(* stand on the newest series (charts.tsx, chart-path.ts).                      *)
THEOREM TabsChartsInvariance == Spec => []TabsChartsInv
<1>1. Init => SystemIInv /\ ChartsIInv /\ ChartsTimes
  <2>1. Init => SystemTabs!Init /\ Charts!Init
    BY DEF Init
  <2>2. Charts!Init => ChartsIInv
    BY DEF Charts!Init, Charts!Standing, ChartsIInv
  <2> QED
    BY <2>1, <2>2, SystemInit, ChartsTimesInit
<1>2. (SystemIInv /\ ChartsIInv /\ ChartsTimes) /\ [Next]_vars => (SystemIInv /\ ChartsIInv /\ ChartsTimes)'
  BY SystemStep, ChartsStep, ChartsTimesStep
<1>3. SystemIInv /\ ChartsIInv /\ ChartsTimes => TabsChartsInv
  BY SystemImplies, ChartsImplies, PicksStandSpread, PointerReads DEF TabsChartsInv, Charts!ChartsInv
<1> QED
  BY <1>1, <1>2, <1>3, PTL DEF Spec

-----------------------------------------------------------------------------
(* The dock: its order.                                                       *)

Apps == Of(APP_IDS)
Arranged(o) == o \in Seq(Apps) /\ OnceEach(o) /\ Of(o) = Apps

(* The operators of Dock's INSTANCE are those of the lemmas above.           *)
LEMMA DockFilters ==
    /\ \A s, S : Dock!Keep(s, S) = Keep(s, S)
    /\ \A s : Dock!Once(s) = Once(s)
    /\ \A s : Dock!ToSet(s) = Of(s)
<1>1. \A s, S : Dock!Keep(s, S) = Keep(s, S)
  BY DEF Dock!Keep, Keep
<1>2. \A s : Dock!Once(s) = Once(s)
  BY <1>1 DEF Dock!Once, Dock!FirstOf, Once, FirstOf
<1> QED
  BY <1>1, <1>2 DEF Dock!ToSet, Of

LEMMA AppsArranged == Arranged(APP_IDS)
  BY DockAssumption DEF Arranged, Apps, Of, OnceEach

(* Whatever list was stored, what is read has every app once.                *)
LEMMA DockReads ==
    ASSUME NEW T, NEW list \in Seq(T)
    PROVE  Arranged(Dock!readOrderFromList(list))
<1> DEFINE known == Keep(list, Apps)
           once == Once(known)
           rest == Keep(APP_IDS, Apps \ Of(once))
<1>1. Dock!readOrderFromList(list) = once \o rest
  BY DockFilters DEF Dock!readOrderFromList, Apps
<1>2. known \in Seq(T) /\ Of(known) = Of(list) \cap Apps
  BY Keeps
<1> HIDE DEF known
<1>3. once \in Seq(T) /\ Of(once) \subseteq Apps /\ OnceEach(once)
  BY <1>2, DropsRepeated
<1> HIDE DEF once
<1>4. once \in Seq(Apps)
  <2>1. once \in Seq(Of(once))
    BY <1>3, OwnElements
  <2> QED
    BY <1>3, <2>1, SeqMonotonic
<1>5. rest \in Seq(Apps) /\ Of(rest) = Apps \ Of(once) /\ OnceEach(rest)
  <2>1. APP_IDS \in Seq(Apps) /\ OnceEach(APP_IDS) /\ Of(APP_IDS) = Apps
    BY AppsArranged DEF Arranged
  <2>2. /\ rest \in Seq(Apps) /\ Of(rest) = Of(APP_IDS) \cap (Apps \ Of(once))
        /\ OnceEach(APP_IDS) => OnceEach(rest)
    BY <2>1, Keeps
  <2> QED
    BY <2>1, <2>2
<1> HIDE DEF rest
<1>6. once \o rest \in Seq(Apps) /\ Of(once \o rest) = Of(once) \cup Of(rest)
      /\ (OnceEach(once) /\ OnceEach(rest) /\ Of(once) \cap Of(rest) = {} => OnceEach(once \o rest))
  BY <1>4, <1>5, Joins
<1> QED
  BY <1>1, <1>3, <1>5, <1>6 DEF Arranged

(* An order that is whole is read as it is.                                  *)
LEMMA DockReadsBack ==
    ASSUME NEW o, Arranged(o) PROVE Dock!readOrderFromList(o) = o
<1>1. o \in Seq(Apps) /\ OnceEach(o) /\ Of(o) = Apps
  BY DEF Arranged
<1>2. Keep(o, Apps) = o
  BY <1>1, KeepsAll
<1>3. Once(o) = o
  BY <1>1, DropsRepeated
<1>4. Keep(APP_IDS, Apps \ Of(o)) = <<>>
  BY <1>1, AppsArranged, NothingKept DEF Arranged
<1>5. o \o <<>> = o
  BY <1>1, ConcatEmptySeq
<1>6. Dock!readOrderFromList(o) = Once(Keep(o, Apps)) \o Keep(APP_IDS, Apps \ Of(Once(Keep(o, Apps))))
  BY DockFilters DEF Dock!readOrderFromList, Apps
<1> QED
  BY <1>2, <1>3, <1>4, <1>5, <1>6

LEMMA DockShows ==
    ASSUME NEW o, Arranged(o)
    PROVE  LET v == Dock!visibleDockOrder(o)
           IN v \in Seq(Apps) /\ OnceEach(v) /\ Of(v) = Apps \ DOCK_HIDDEN_IDS
<1>1. Dock!visibleDockOrder(o) = Keep(o, Of(o) \ DOCK_HIDDEN_IDS)
  BY DockFilters DEF Dock!visibleDockOrder
<1> QED
  BY <1>1, Keeps DEF Arranged

(* What setDockOrder stores is what the page then has.                        *)
LEMMA DockSets ==
    ASSUME NEW T, NEW ids \in Seq(T), Dock!setDockOrder(ids)
    PROVE  Arranged(order') /\ (Arranged(ids) => order' = ids)
<1>1. storedOrder' = Dock!readOrderFromList(ids) /\ order' = Dock!parseOrder(storedOrder')
  BY DEF Dock!setDockOrder
<1>2. Arranged(storedOrder')
  BY <1>1, DockReads
<1>3. storedOrder' # None
  BY <1>2, DockAssumption DEF Arranged, Apps, Of
<1>4. order' = storedOrder'
  BY <1>1, <1>2, <1>3, DockReadsBack DEF Dock!parseOrder
<1> QED
  BY <1>1, <1>2, <1>4, DockReadsBack

(* The app at `from` comes out and goes in at `over`.                          *)
LEMMA DockMoves ==
    ASSUME NEW T, NEW v \in Seq(T), OnceEach(v), NEW from \in 1..Len(v), NEW over \in 1..Len(v)
    PROVE  LET next == Dock!InsertAt(Dock!RemoveAt(v, from), over, v[from])
           IN next \in Seq(T) /\ OnceEach(next) /\ Of(next) = Of(v) /\ next[over] = v[from]
              /\ over \in DOMAIN next
BY Moves DEF Dock!InsertAt, Dock!RemoveAt

-----------------------------------------------------------------------------
(* The dock.  Away from the track, with no drag and none flung, the dock only   *)
(* thinks that the pointer is on it while mouseX is known: the next move then    *)
(* tells it.  Once the pointer has been far off it thinks so no more.           *)

DockRecord(r) ==
    r = [drag |-> r.drag, suppressClick |-> r.suppressClick, place |-> r.place,
         hovering |-> r.hovering, revealed |-> r.revealed, focusedIndex |-> r.focusedIndex,
         listensFirst |-> r.listensFirst, mouse |-> r.mouse, magnified |-> r.magnified,
         frame |-> r.frame, flung |-> r.flung]

DockShape ==
    /\ DockRecord(dock)
    /\ dock.drag = [id |-> dock.drag.id, from |-> dock.drag.from, active |-> dock.drag.active]
    /\ dock.place \in Dock!Places /\ away \in {0, 1, 2}

DockHovers ==
    (dock.hovering /\ ~calm /\ ~dock.flung /\ ~Dock!Dragging /\ dock.place # "dock") => dock.mouse

DockLeft ==
    /\ (away # 0 /\ ~Dock!Held /\ ~calm /\ ~dock.flung) => (~dock.hovering /\ dock.place = "far")
    /\ (Dock!Held /\ dock.flung) => dock.place # "near"

DockIInv == DockShape /\ DockHovers /\ DockLeft /\ Dock!HidesAway /\ Dock!NoFrozenIcon

LEMMA DockMounts == ASSUME dock' = Dock!Mounted, away' = 0 PROVE DockIInv'
BY DEF DockIInv, DockShape, DockRecord, DockHovers, DockLeft, Dock!HidesAway, Dock!NoFrozenIcon,
   Dock!Mounted, Dock!NoDrag, Dock!Held, Dock!Dragging, Dock!Places

LEMMA DockRests ==
    ASSUME DockIInv, UNCHANGED <<hideMode, fullscreen, calm, away>>,
           DockShape', UNCHANGED <<dock.drag, dock.place, dock.hovering, dock.revealed,
                                   dock.mouse, dock.flung>>,
           dock.listensFirst' => dock.listensFirst,
           dock.magnified' => dock.frame'
    PROVE  DockIInv'
BY DEF DockIInv, DockHovers, DockLeft, Dock!HidesAway, Dock!NoFrozenIcon, Dock!Held,
   Dock!Dragging, Dock!autoHide

LEMMA DockHideSet ==
    ASSUME DockIInv, Dock!HideSet, UNCHANGED calm
    PROVE  DockIInv'
BY DEF DockIInv, DockShape, DockRecord, DockHovers, DockLeft, Dock!HidesAway, Dock!NoFrozenIcon,
   Dock!Held,
   Dock!Dragging, Dock!HideSet

LEMMA DockPressed ==
    ASSUME DockIInv, NEW index \in DOMAIN Dock!items, Dock!onItemPointerDown(index)
    PROVE  DockIInv'
<1>1. PICK id : /\ dock' = [dock EXCEPT !.drag = [id |-> id, from |-> index, active |-> FALSE],
                                        !.place = "dock"]
                /\ away' = 0
  BY DEF Dock!onItemPointerDown
<1>2. /\ DockShape' /\ dock'.place = "dock"
      /\ dock'.magnified = dock.magnified /\ dock'.frame = dock.frame
  BY <1>1 DEF DockIInv, DockShape, DockRecord, Dock!Places
<1> QED
  BY <1>1, <1>2 DEF DockIInv, DockHovers, DockLeft, Dock!HidesAway, Dock!NoFrozenIcon

LEMMA DockDragged ==
    ASSUME DockIInv, NEW over \in DOMAIN Dock!items, Dock!onItemPointerMove(over)
    PROVE  DockIInv'
<1> DEFINE dragged == IF dock.drag.active THEN dock
                      ELSE [dock EXCEPT !.drag.active = TRUE, !.mouse = FALSE, !.frame = TRUE]
<1>1. UNCHANGED <<hideMode, fullscreen, calm, away>> /\ Dock!Held
  BY DEF Dock!onItemPointerMove
<1>2. PICK next :
        dock' = dragged
        \/ dock' = Dock!ItemsChanged([dragged EXCEPT !.drag = Dock!followed(dock.drag, next)])
  BY DEF Dock!onItemPointerMove
<1>3. DockShape' /\ dock'.drag.active /\ dock'.place = dock.place /\ dock'.flung = dock.flung
      /\ (dock'.magnified => dock'.frame)
  <2>1. CASE dock' = dragged /\ dock.drag.active
    BY <1>1, <2>1 DEF DockIInv, DockShape, DockRecord, Dock!NoFrozenIcon
  <2>2. CASE dock' = dragged /\ ~dock.drag.active
    BY <1>1, <2>2 DEF DockIInv, DockShape, DockRecord
  <2>3. CASE dock' = Dock!ItemsChanged([dragged EXCEPT !.drag = Dock!followed(dock.drag, next)])
    BY <1>1, <2>3 DEF DockIInv, DockShape, DockRecord, Dock!ItemsChanged, Dock!followed
  <2> QED
    BY <1>2, <2>1, <2>2, <2>3
<1>4. Dock!Held'
  BY <1>3 DEF Dock!Held, Dock!NoDrag
<1> QED
  BY <1>1, <1>3, <1>4 DEF DockIInv, DockHovers, DockLeft, Dock!HidesAway, Dock!NoFrozenIcon,
     Dock!Dragging

LEMMA DockReleased == ASSUME DockIInv, Dock!onItemPointerUp PROVE DockIInv'
<1> USE DEF DockIInv, DockShape, DockRecord
<1>1. UNCHANGED <<hideMode, fullscreen, calm>> /\ Dock!Held /\ away' = 0
  BY DEF Dock!onItemPointerUp
<1>2. /\ DockShape' /\ dock'.drag = Dock!NoDrag /\ dock'.place = dock.place
      /\ (dock'.magnified => dock'.frame)
      /\ dock'.flung <=> (Dock!Dragging /\ dock.place = "near")
      /\ dock.place = "near" => dock'.hovering = dock.hovering /\ dock'.mouse = dock.mouse
      /\ dock.place \notin {"dock", "near"} => ~dock'.hovering
  BY <1>1 DEF Dock!onItemPointerUp, Dock!onTrackLeave, Dock!NoDrag, Dock!NoFrozenIcon, Dock!Places
<1>3. DockHovers'
  BY <1>1, <1>2 DEF DockHovers, DockLeft, Dock!Dragging
<1> QED
  BY <1>1, <1>2, <1>3 DEF DockLeft, Dock!Held, Dock!HidesAway, Dock!NoFrozenIcon

LEMMA DockListeners ==
    ASSUME NEW r, DockRecord(r), NEW at
    PROVE  /\ DockRecord(Dock!onMove(r, at)) /\ DockRecord(Dock!onWindowPointerMove(r, at))
           /\ Dock!onMove(r, at).listensFirst = r.listensFirst
           /\ Dock!onMove(r, at).drag = r.drag /\ Dock!onMove(r, at).flung = r.flung
           /\ Dock!onMove(r, at).focusedIndex = r.focusedIndex
           /\ Dock!onWindowPointerMove(r, at).focusedIndex = r.focusedIndex
           /\ Dock!onWindowPointerMove(r, at).listensFirst = r.listensFirst
           /\ Dock!onWindowPointerMove(r, at).drag = r.drag
           /\ Dock!onWindowPointerMove(r, at).flung = r.flung
BY DEF DockRecord, Dock!onMove, Dock!onWindowPointerMove

LEMMA DockPointer ==
    ASSUME DockIInv, NEW place \in Dock!Places, Dock!PointerTo(place)
    PROVE  DockIInv'
<1> DEFINE d == Dock!Tracked(place)
           at == IF Dock!Held THEN "dock" ELSE place
           heard == IF dock.listensFirst THEN Dock!onMove(Dock!onWindowPointerMove(d, at), at)
                    ELSE Dock!onWindowPointerMove(Dock!onMove(d, at), at)
           over == place \in {"dock", "near"}
<1>1. /\ UNCHANGED <<hideMode, fullscreen, calm>>
      /\ dock' = [heard EXCEPT !.place = place, !.flung = @ /\ ~over]
      /\ away' = IF place = "far" /\ ~Dock!Held THEN IF away = 0 THEN 1 ELSE 2 ELSE 0
  BY DEF Dock!PointerTo
<1>2. ~Dock!Held => ~Dock!Dragging
  BY DEF Dock!Held, Dock!NoDrag, Dock!Dragging
<1>3. DockRecord(d) /\ d.listensFirst = dock.listensFirst /\ d.drag = dock.drag
      /\ d.flung = dock.flung
  BY DEF DockIInv, DockShape, DockRecord, Dock!Tracked, Dock!onTrackEnter, Dock!onTrackLeave
<1>4. DockShape' /\ dock'.place = place /\ dock'.drag = dock.drag
      /\ dock'.listensFirst = dock.listensFirst
      /\ dock'.flung = (dock.flung /\ ~over)
  <2>1. DockRecord(heard) /\ heard.listensFirst = dock.listensFirst
        /\ heard.drag = dock.drag /\ heard.flung = dock.flung
    <3> HIDE DEF d, at
    <3> QED
      BY <1>3, DockListeners
  <2>2. away' \in {0, 1, 2} /\ place \in Dock!Places
    BY <1>1
  <2> HIDE DEF heard
  <2> QED
    BY <1>1, <2>1, <2>2 DEF DockIInv, DockShape, DockRecord
<1>5. dock'.magnified => dock'.frame
  BY <1>1 DEF DockIInv, DockShape, DockRecord, Dock!Tracked, Dock!onTrackEnter, Dock!onTrackLeave,
     Dock!onMove, Dock!onWindowPointerMove, Dock!NoFrozenIcon
<1>6. CASE Dock!Held
  <2>1. ~Dock!Dragging /\ ~calm => dock'.mouse
    BY <1>1, <1>6 DEF DockIInv, DockShape, DockRecord, Dock!Tracked, Dock!onMove,
       Dock!onWindowPointerMove
  <2> QED
    BY <1>1, <1>4, <1>5, <1>6, <2>1 DEF DockIInv, DockHovers, DockLeft, Dock!HidesAway,
       Dock!NoFrozenIcon, Dock!Dragging, Dock!Held
<1>7. CASE ~Dock!Held /\ over
  <2>1. ~calm => dock'.mouse
    BY <1>1, <1>2, <1>7 DEF DockIInv, DockShape, DockRecord, Dock!Tracked, Dock!onTrackEnter,
       Dock!onTrackLeave, Dock!onMove, Dock!onWindowPointerMove
  <2> QED
    BY <1>1, <1>4, <1>5, <1>7, <2>1 DEF DockIInv, DockHovers, DockLeft, Dock!HidesAway,
       Dock!NoFrozenIcon, Dock!Dragging, Dock!Held
<1>8. CASE ~Dock!Held /\ ~over /\ ~calm /\ ~dock.flung
  <2>1. d.hovering => d.mouse
    BY <1>2, <1>8 DEF DockIInv, DockShape, DockRecord, DockHovers, Dock!Tracked, Dock!onTrackLeave
  <2>2. ~dock'.hovering
    BY <1>1, <1>2, <1>8, <2>1 DEF DockIInv, DockShape, DockRecord, Dock!Tracked, Dock!onTrackLeave,
       Dock!onMove, Dock!onWindowPointerMove
  <2>3. ASSUME Dock!autoHide, place = "far",
             dock.listensFirst \/ (~dock.hovering /\ dock.place = "far")
        PROVE  ~dock'.revealed
    BY <1>1, <1>2, <1>8, <2>1, <2>3 DEF DockIInv, DockShape, DockRecord, Dock!Tracked,
       Dock!onTrackLeave,
       Dock!onMove, Dock!onWindowPointerMove
  <2>4. Dock!HidesAway'
    BY <1>1, <1>4, <1>8, <2>3 DEF DockIInv, DockShape, DockRecord, DockLeft, Dock!HidesAway,
       Dock!autoHide
  <2> QED
    BY <1>1, <1>4, <1>5, <1>8, <2>2, <2>4 DEF DockIInv, DockHovers, DockLeft,
       Dock!NoFrozenIcon, Dock!Dragging, Dock!Held
<1>9. CASE ~Dock!Held /\ ~over /\ (calm \/ dock.flung)
  BY <1>1, <1>4, <1>5, <1>9 DEF DockIInv, DockHovers, DockLeft, Dock!HidesAway,
     Dock!NoFrozenIcon, Dock!Dragging, Dock!Held
<1> QED
  BY <1>6, <1>7, <1>8, <1>9

LEMMA DockStep == DockIInv /\ [Next]_vars => DockIInv'
<1> SUFFICES ASSUME DockIInv, [Next]_vars PROVE DockIInv'
  OBVIOUS
<1>1. Dock!Next \/ Dock!Remount \/ UNCHANGED dockVars
  BY DEF Next, DesktopSwitch, Other, vars
<1>2. CASE UNCHANGED dockVars
  BY <1>2 DEF dockVars, DockIInv, DockShape, DockRecord, DockHovers, DockLeft, Dock!HidesAway,
     Dock!NoFrozenIcon, Dock!Held, Dock!Dragging, Dock!autoHide
<1>3. CASE Dock!Remount
  BY <1>3, DockMounts DEF Dock!Remount
<1>4. CASE Dock!HideChanges
  BY <1>4, DockHideSet DEF Dock!HideChanges, Dock!setDockHideMode
<1>5. CASE Dock!OtherTab
  <2>1. CASE dock' = Dock!ItemsChanged(dock) /\ UNCHANGED <<hideMode, fullscreen, away, calm>>
    BY <2>1, DockRests DEF DockIInv, DockShape, DockRecord, Dock!ItemsChanged
  <2>2. CASE Dock!HideSet /\ UNCHANGED calm
    BY <2>2, DockHideSet
  <2> QED
    BY <1>5, <2>1, <2>2 DEF Dock!OtherTab, Dock!setDockHideMode
<1>6. CASE Dock!Icons
  <2>1. CASE Dock!onSelect
    BY <2>1, DockRests DEF Dock!onSelect, DockIInv, DockShape, DockRecord, Dock!NoFrozenIcon
  <2> QED
    BY <1>6, <2>1, DockPressed, DockDragged, DockReleased DEF Dock!Icons
<1>7. ASSUME NEW place \in Dock!Places, Dock!PointerTo(place) PROVE DockIInv'
  BY <1>7, DockPointer
<1>8. CASE Dock!applyMagnify
  BY <1>8, DockRests DEF Dock!applyMagnify, DockIInv, DockShape, DockRecord
<1>9. ASSUME NEW key \in {"right", "left", "home", "end"}, Dock!onDockKeyDown(key)
      PROVE  DockIInv'
  <2>1. PICK i : dock' = [dock EXCEPT !.focusedIndex = i]
    BY <1>9 DEF Dock!onDockKeyDown
  <2> QED
    BY <1>9, <2>1, DockRests DEF Dock!onDockKeyDown, DockIInv, DockShape, DockRecord,
       Dock!NoFrozenIcon
<1> QED
  BY <1>1, <1>2, <1>3, <1>4, <1>5, <1>6, <1>7, <1>8, <1>9 DEF Dock!Next

-----------------------------------------------------------------------------
(* The order, and what of the dock's state points into it.                    *)

Icons == Len(Keep(APP_IDS, Apps \ DOCK_HIDDEN_IDS))
OfDrag == dock.drag.from \in 1..Icons
          /\ (~strayed => Dock!visibleOrder[dock.drag.from] = dock.drag.id)
DockOrderly ==
    /\ hideMode \in {"always", "auto"} /\ Arranged(order)
    /\ dock.focusedIndex \in 1..(Icons + 1)
    /\ Dock!Held => OfDrag

(* The number of icons is the same in every order.                           *)
LEMMA IconsShown ==
    ASSUME NEW o, Arranged(o)
    PROVE  /\ Len(Dock!visibleDockOrder(o)) = Icons /\ Icons \in Nat
           /\ Dock!visibleDockOrder(o) \in Seq(Apps)
<1> DEFINE v == Dock!visibleDockOrder(o)
           k == Keep(APP_IDS, Apps \ DOCK_HIDDEN_IDS)
<1>1. v \in Seq(Apps) /\ OnceEach(v) /\ Of(v) = Apps \ DOCK_HIDDEN_IDS
  BY DockShows
<1>2. APP_IDS \in Seq(Apps) /\ OnceEach(APP_IDS) /\ Of(APP_IDS) = Apps
  BY AppsArranged DEF Arranged
<1>3. /\ k \in Seq(Apps) /\ Of(k) = Of(APP_IDS) \cap (Apps \ DOCK_HIDDEN_IDS)
      /\ OnceEach(APP_IDS) => OnceEach(k)
  BY <1>2, Keeps
<1> HIDE DEF v, k
<1>4. Len(v) = Len(k) /\ Len(k) \in Nat
  BY <1>1, <1>2, <1>3, SameLength, LenProperties
<1> QED
  BY <1>1, <1>4 DEF v, k, Icons

LEMMA ItemsShown ==
    ASSUME Arranged(order)
    PROVE  /\ DOMAIN Dock!items = 1..(Icons + 1)
           /\ \A i \in DOMAIN Dock!items : Dock!items[i] # "info" =>
                i \in 1..Icons /\ Dock!items[i] = Dock!visibleOrder[i]
<1> DEFINE v == Dock!visibleOrder
<1>1. v \in Seq(Apps) /\ Len(v) = Icons /\ Icons \in Nat
  BY IconsShown DEF Dock!visibleOrder
<1> DEFINE T == Apps \cup {"info"}
<1>2. v \in Seq(T)
  BY <1>1, SeqMonotonic
<1>3. Dock!items = Append(v, "info")
  BY DEF Dock!items
<1> HIDE DEF v
<1>4. /\ Append(v, "info") \in Seq(T) /\ Len(Append(v, "info")) = Len(v) + 1
      /\ Append(v, "info")[Len(v) + 1] = "info"
      /\ \A i \in 1..Len(v) : Append(v, "info")[i] = v[i]
  BY <1>2, AppendProperties
<1>5. DOMAIN Append(v, "info") = 1..(Icons + 1)
  BY <1>1, <1>4
<1>6. ASSUME NEW i \in 1..(Icons + 1), Append(v, "info")[i] # "info"
      PROVE  i \in 1..Icons /\ Append(v, "info")[i] = v[i]
  <2>1. i # Icons + 1
    BY <1>1, <1>4, <1>6
  <2>2. i \in 1..Icons
    BY <1>1, <2>1
  <2> QED
    BY <1>1, <1>4, <2>2
<1> QED
  BY <1>3, <1>5, <1>6 DEF v

LEMMA DockStays ==
    ASSUME DockOrderly, order' = order, hideMode' \in {"always", "auto"},
           dock'.focusedIndex \in 1..(Icons + 1), dock'.drag = Dock!NoDrag \/ strayed' = strayed,
           \/ dock'.drag = Dock!NoDrag
           \/ Dock!Held /\ dock'.drag.from = dock.drag.from /\ dock'.drag.id = dock.drag.id
    PROVE  DockOrderly'
BY DEF DockOrderly, OfDrag, Dock!Held, Dock!visibleOrder

LEMMA DockUntouched ==
    ASSUME DockOrderly, UNCHANGED <<order, hideMode, strayed>>,
           dock'.focusedIndex = dock.focusedIndex, dock'.drag = dock.drag
    PROVE  DockOrderly'
<1>1. dock'.drag = Dock!NoDrag \/ Dock!Held
  BY DEF Dock!Held
<1> QED
  BY <1>1, DockStays DEF DockOrderly

(* Another tab's order is one that has every app once, whatever it stored.     *)
LEMMA DockOtherTab ==
    ASSUME DockOrderly, DockShape, Dock!OtherTab PROVE DockOrderly'
<1>1. CASE Dock!setDockHideMode(Dock!Toggled) /\ UNCHANGED <<storedOrder, order, strayed>>
  <2>1. hideMode' \in {"always", "auto"} /\ dock'.drag = dock.drag
        /\ dock'.focusedIndex = dock.focusedIndex
    BY <1>1 DEF Dock!setDockHideMode, Dock!Toggled, Dock!HideSet, DockShape, DockRecord
  <2>2. dock'.drag = Dock!NoDrag \/ Dock!Held
    BY <2>1 DEF Dock!Held
  <2> QED
    BY <1>1, <2>1, <2>2, DockStays DEF DockOrderly
<1>2. ASSUME NEW i \in DOMAIN Dock!visibleOrder, NEW j \in DOMAIN Dock!visibleOrder, NEW p, NEW q,
             Dock!setDockOrder(Dock!visibleDockOrder(
               [order EXCEPT ![p] = Dock!visibleOrder[j], ![q] = Dock!visibleOrder[i]])
               \o Dock!Keep(order, DOCK_HIDDEN_IDS)),
             dock' = Dock!ItemsChanged(dock), strayed' = Dock!Held, UNCHANGED hideMode
      PROVE  DockOrderly'
  <2> DEFINE v == Dock!visibleOrder
             swapped == [order EXCEPT ![p] = v[j], ![q] = v[i]]
             left == Keep(swapped, Of(swapped) \ DOCK_HIDDEN_IDS)
             right == Keep(order, DOCK_HIDDEN_IDS)
  <2>1. order \in Seq(Apps) /\ v \in Seq(Apps)
    BY IconsShown DEF DockOrderly, Arranged, Dock!visibleOrder
  <2>2. v[i] \in Apps /\ v[j] \in Apps
    BY <1>2, <2>1
  <2>3. Dock!setDockOrder(left \o right)
    BY <1>2, DockFilters DEF Dock!visibleDockOrder
  <2> HIDE DEF v
  <2>4. swapped \in Seq(Apps)
    BY <2>1, <2>2, Swaps
  <2> HIDE DEF swapped
  <2>5. left \in Seq(Apps) /\ right \in Seq(Apps)
    BY <2>1, <2>4, Keeps
  <2> HIDE DEF left, right
  <2>6. left \o right \in Seq(Apps)
    BY <2>5, ConcatProperties
  <2>7. Arranged(order')
    BY <2>3, <2>6, DockSets
  <2>8. dock'.drag = dock.drag /\ dock'.focusedIndex = dock.focusedIndex
    BY <1>2 DEF Dock!ItemsChanged, DockShape, DockRecord
  <2>9. Dock!Held' => Dock!Held /\ strayed'
    BY <1>2, <2>8 DEF Dock!Held
  <2> QED
    BY <1>2, <2>7, <2>8, <2>9 DEF DockOrderly, OfDrag
<1> QED
  BY <1>1, <1>2 DEF Dock!OtherTab

LEMMA DockPressedOrderly ==
    ASSUME DockOrderly, DockShape, NEW index \in DOMAIN Dock!items, Dock!onItemPointerDown(index)
    PROVE  DockOrderly'
<1>1. index \in 1..Icons /\ Dock!items[index] = Dock!visibleOrder[index]
  BY ItemsShown DEF DockOrderly, Dock!onItemPointerDown
<1>2. /\ dock'.drag.from = index /\ dock'.drag.id = Dock!items[index]
      /\ dock'.focusedIndex = dock.focusedIndex /\ UNCHANGED <<order, hideMode>>
  BY DEF Dock!onItemPointerDown, DockShape, DockRecord
<1> QED
  BY <1>1, <1>2 DEF DockOrderly, OfDrag, Dock!visibleOrder

(* An element that is there once is found where it is.                       *)
LEMMA DockFinds ==
    ASSUME NEW T, NEW s \in Seq(T), OnceEach(s), NEW k \in DOMAIN s, NEW x, s[k] = x
    PROVE  LET found == {i \in 1..Len(s) : s[i] = x}
           IN (IF found # {} THEN Dock!Min(found) ELSE 0) = k
<1> DEFINE found == {i \in 1..Len(s) : s[i] = x}
<1>1. found = {k} /\ k \in Nat
  BY DEF OnceEach
<1>2. Dock!Min({k}) = k
  BY <1>1 DEF Dock!Min
<1> QED
  BY <1>1, <1>2

(* The app that is dragged, at the place it is dragged to.                     *)
LEMMA DockDraggedOrderly ==
    ASSUME DockOrderly, DockShape, NEW over \in DOMAIN Dock!items, Dock!onItemPointerMove(over)
    PROVE  DockOrderly'
<1> DEFINE v == Dock!visibleOrder
           from == dock.drag.from
           next == Dock!Moved(from, over)
           hid == Keep(order, Of(order) \ Of(next))
           dragged == IF dock.drag.active THEN dock
                      ELSE [dock EXCEPT !.drag.active = TRUE, !.mouse = FALSE, !.frame = TRUE]
<1>1. UNCHANGED hideMode /\ Dock!Held /\ from \in 1..Icons
      /\ (~strayed => v[from] = dock.drag.id)
  BY DEF Dock!onItemPointerMove, DockOrderly, OfDrag
<1>2. CASE dock' = dragged /\ UNCHANGED <<order, strayed>>
  <2>1. dock'.drag.from = from /\ dock'.drag.id = dock.drag.id
        /\ dock'.focusedIndex = dock.focusedIndex
    BY <1>2 DEF DockShape, DockRecord
  <2> QED
    BY <1>1, <1>2, <2>1, DockStays DEF DockOrderly
<1>3. CASE /\ Dock!items[over] # "info"
           /\ \/ Dock!setDockOrder(next \o hid) /\ strayed' = strayed
              \/ strayed' = TRUE /\ order' = order
           /\ dock' = Dock!ItemsChanged([dragged EXCEPT !.drag = Dock!followed(dock.drag, next)])
  <2>1. /\ Arranged(order) /\ order \in Seq(Apps) /\ OnceEach(order) /\ Of(order) = Apps
        /\ v \in Seq(Apps) /\ Len(v) = Icons /\ Icons \in Nat
        /\ OnceEach(v) /\ Of(v) = Apps \ DOCK_HIDDEN_IDS
    BY IconsShown, DockShows DEF DockOrderly, Arranged, Dock!visibleOrder
  <2>2. over \in 1..Icons
    BY <1>3, ItemsShown, <2>1
  <2>3. next = Dock!InsertAt(Dock!RemoveAt(v, from), over, v[from])
    <3>1. ~(from > Len(v))
      BY <1>1, <2>1
    <3> QED
      BY <3>1 DEF Dock!Moved
  <2> HIDE DEF v, from
  <2>4. from \in 1..Len(v) /\ over \in 1..Len(v)
    BY <1>1, <2>1, <2>2
  <2>5. next \in Seq(Apps) /\ OnceEach(next) /\ Of(next) = Apps \ DOCK_HIDDEN_IDS
        /\ next[over] = v[from] /\ over \in DOMAIN next
    <3> DEFINE moved == Dock!InsertAt(Dock!RemoveAt(v, from), over, v[from])
    <3>1. moved \in Seq(Apps) /\ OnceEach(moved) /\ Of(moved) = Of(v)
          /\ moved[over] = v[from] /\ over \in DOMAIN moved
      <4>1. v \in Seq(Apps) /\ OnceEach(v) /\ from \in 1..Len(v) /\ over \in 1..Len(v)
        BY <2>1, <2>4
      <4> QED
        BY ONLY <4>1, DockMoves
    <3> HIDE DEF moved, next
    <3>2. next = moved
      BY <2>3 DEF moved
    <3> QED
      BY <2>1, <3>1, <3>2
  <2> HIDE DEF next
  <2>6. hid \in Seq(Apps) /\ OnceEach(hid) /\ Of(hid) = Apps \cap DOCK_HIDDEN_IDS
    <3>1. /\ hid \in Seq(Apps) /\ Of(hid) = Of(order) \cap (Of(order) \ Of(next))
          /\ OnceEach(order) => OnceEach(hid)
      BY <2>1, Keeps
    <3> QED
      BY <2>1, <2>5, <3>1
  <2> HIDE DEF hid
  <2>7. Arranged(next \o hid)
    <3>1. /\ next \o hid \in Seq(Apps) /\ Of(next \o hid) = Of(next) \cup Of(hid)
          /\ (OnceEach(next) /\ OnceEach(hid) /\ Of(next) \cap Of(hid) = {} => OnceEach(next \o hid))
      BY <2>5, <2>6, Joins
    <3> QED
      BY <2>5, <2>6, <3>1 DEF Arranged
  <2>8. ASSUME Dock!setDockOrder(next \o hid)
        PROVE  Arranged(order') /\ Dock!visibleOrder' = next
    <3>1. order' = next \o hid /\ Arranged(order')
      <4> DEFINE ids == next \o hid
      <4>1. ids \in Seq(Apps) /\ Arranged(ids) /\ Dock!setDockOrder(ids)
        BY <2>7, <2>8 DEF Arranged
      <4> HIDE DEF ids
      <4>2. Arranged(order') /\ order' = ids
        BY <4>1, DockSets
      <4> QED
        BY <4>2 DEF ids
    <3>2. Dock!visibleOrder' = Keep(next \o hid, Apps \ DOCK_HIDDEN_IDS)
      <4>1. Of(order') = Apps
        BY <3>1 DEF Arranged
      <4> QED
        BY <3>1, <4>1, DockFilters DEF Dock!visibleOrder, Dock!visibleDockOrder
    <3>3. Of(next) \subseteq Apps \ DOCK_HIDDEN_IDS /\ Of(hid) \cap (Apps \ DOCK_HIDDEN_IDS) = {}
      BY <2>5, <2>6
    <3>4. Keep(next \o hid, Apps \ DOCK_HIDDEN_IDS) = next
      BY <2>5, <2>6, <3>3, KeepsOne
    <3> QED
      BY <3>1, <3>2, <3>4
  <2>10. /\ dock'.focusedIndex = dock.focusedIndex /\ dock'.drag.id = dock.drag.id
         /\ LET found == {i \in 1..Len(next) : next[i] = v[from]}
            IN dock'.drag.from = IF found # {} THEN Dock!Min(found) ELSE 0
    BY <1>3 DEF Dock!ItemsChanged, Dock!followed, Dock!SelectInSeq, DockShape, DockRecord, v, from
  <2>11. dock'.drag.from = over
    <3> DEFINE x == v[from]
    <3>1. next[over] = x
      BY <2>5
    <3>2. LET found == {i \in 1..Len(next) : next[i] = x}
          IN dock'.drag.from = IF found # {} THEN Dock!Min(found) ELSE 0
      BY <2>10
    <3> HIDE DEF x
    <3>3. LET found == {i \in 1..Len(next) : next[i] = x}
          IN (IF found # {} THEN Dock!Min(found) ELSE 0) = over
      BY <2>5, <3>1, DockFinds
    <3> QED
      BY <3>2, <3>3
  <2>12. CASE Dock!setDockOrder(next \o hid) /\ strayed' = strayed
    BY <1>1, <2>2, <2>5, <2>8, <2>10, <2>11, <2>12 DEF DockOrderly, OfDrag
  <2>13. CASE strayed' = TRUE /\ order' = order
    BY <1>1, <2>2, <2>10, <2>11, <2>13 DEF DockOrderly, OfDrag
  <2> QED
    BY <1>3, <2>12, <2>13
<1> QED
  <2>1. \/ dock' = dragged /\ UNCHANGED <<order, strayed>>
        \/ /\ Dock!items[over] # "info"
           /\ \/ /\ Dock!setDockOrder(next \o Dock!Keep(order, Dock!ToSet(order) \ Dock!ToSet(next)))
                 /\ strayed' = strayed
              \/ strayed' = TRUE /\ order' = order
           /\ dock' = Dock!ItemsChanged([dragged EXCEPT !.drag = Dock!followed(dock.drag, next)])
    BY DEF Dock!onItemPointerMove
  <2> HIDE DEF next, dragged
  <2>2. Dock!Keep(order, Dock!ToSet(order) \ Dock!ToSet(next)) = hid
    BY DockFilters
  <2> QED
    BY <1>2, <1>3, <2>1, <2>2

LEMMA DockKeysOrderly ==
    ASSUME DockOrderly, DockShape, NEW key \in {"right", "left", "home", "end"},
           Dock!onDockKeyDown(key)
    PROVE  DockOrderly'
<1>1. Len(Dock!items) = Icons + 1 /\ Icons \in Nat
  <2>1. DOMAIN Dock!items = 1..(Icons + 1) /\ Icons \in Nat
    BY ItemsShown, IconsShown DEF DockOrderly
  <2>2. Dock!items = Append(Dock!visibleOrder, "info") /\ Dock!visibleOrder \in Seq(Apps)
        /\ Len(Dock!visibleOrder) = Icons
    BY IconsShown DEF DockOrderly, Dock!items, Dock!visibleOrder
  <2> DEFINE v == Dock!visibleOrder
             T == Apps \cup {"info"}
  <2>3. v \in Seq(T)
    BY <2>2, SeqMonotonic
  <2> HIDE DEF v, T
  <2>4. Len(Append(v, "info")) = Len(v) + 1
    <3>1. "info" \in T
      BY DEF T
    <3> QED
      BY <2>3, <3>1, AppendProperties
  <2> QED
    BY <2>1, <2>2, <2>4 DEF v
<1> DEFINE last == Len(Dock!items)
           i == dock.focusedIndex
           to == CASE key = "right" -> IF i < last THEN i + 1 ELSE last
                   [] key = "left" -> IF i > 1 THEN i - 1 ELSE 1
                   [] key = "home" -> 1
                   [] key = "end" -> last
<1>2. dock' = [dock EXCEPT !.focusedIndex = to] /\ UNCHANGED <<order, hideMode, strayed>>
  BY DEF Dock!onDockKeyDown
<1>3. to \in 1..(Icons + 1)
  <2>1. i \in 1..(Icons + 1)
    BY DEF DockOrderly
  <2>2. last = Icons + 1
    BY <1>1
  <2> HIDE DEF i, last
  <2> QED
    BY <1>1, <2>1, <2>2
<1> HIDE DEF to
<1>4. dock'.focusedIndex = to /\ dock'.drag = dock.drag
  BY <1>2 DEF DockShape, DockRecord
<1>5. dock'.drag = Dock!NoDrag \/ Dock!Held
  BY <1>4 DEF Dock!Held
<1> QED
  BY <1>2, <1>3, <1>4, <1>5, DockStays DEF DockOrderly

LEMMA DockOrderStep == DockIInv /\ DockOrderly /\ [Next]_vars => DockOrderly'
<1> SUFFICES ASSUME DockIInv, DockOrderly, [Next]_vars PROVE DockOrderly'
  OBVIOUS
<1>1. Dock!Next \/ Dock!Remount \/ UNCHANGED dockVars
  BY DEF Next, DesktopSwitch, Other, vars
<1>2. DockShape
  BY DEF DockIInv
<1>3. CASE UNCHANGED dockVars
  BY <1>3, DockUntouched DEF dockVars
<1>4. CASE Dock!Remount
  <2>1. dock'.drag = Dock!NoDrag /\ dock'.focusedIndex = 1 /\ UNCHANGED <<order, hideMode>>
    BY <1>4 DEF Dock!Remount, Dock!Mounted
  <2>2. 1 \in 1..(Icons + 1)
    BY IconsShown DEF DockOrderly
  <2> QED
    BY <2>1, <2>2, DockStays DEF DockOrderly
<1>5. CASE Dock!HideChanges
  <2>1. hideMode' \in {"always", "auto"} /\ dock'.drag = dock.drag
        /\ dock'.focusedIndex = dock.focusedIndex /\ UNCHANGED <<order, strayed>>
    BY <1>2, <1>5 DEF Dock!HideChanges, Dock!setDockHideMode, Dock!Toggled, Dock!HideSet, DockShape,
       DockRecord, DockOrderly
  <2>2. dock'.drag = Dock!NoDrag \/ Dock!Held
    BY <2>1 DEF Dock!Held
  <2> QED
    BY <2>1, <2>2, DockStays DEF DockOrderly
<1>6. CASE Dock!OtherTab
  BY <1>2, <1>6, DockOtherTab
<1>7. CASE Dock!Icons
  <2>1. CASE Dock!onSelect
    BY <1>2, <2>1, DockUntouched DEF Dock!onSelect, DockShape, DockRecord
  <2>2. CASE Dock!onItemPointerUp
    <3>1. dock'.drag = Dock!NoDrag /\ dock'.focusedIndex = dock.focusedIndex
          /\ UNCHANGED <<order, hideMode>>
      BY <1>2, <2>2 DEF Dock!onItemPointerUp, Dock!onTrackLeave, DockShape, DockRecord
    <3> QED
      BY <3>1, DockStays DEF DockOrderly
  <2> QED
    BY <1>2, <1>7, <2>1, <2>2, DockPressedOrderly, DockDraggedOrderly DEF Dock!Icons
<1>8. ASSUME NEW place \in Dock!Places, Dock!PointerTo(place) PROVE DockOrderly'
  <2>1. UNCHANGED <<order, hideMode, strayed>>
    BY <1>8 DEF Dock!PointerTo
  <2>2. dock'.drag = dock.drag /\ dock'.focusedIndex = dock.focusedIndex
    <3> DEFINE d == Dock!Tracked(place)
               at == IF Dock!Held THEN "dock" ELSE place
               heard == IF dock.listensFirst THEN Dock!onMove(Dock!onWindowPointerMove(d, at), at)
                        ELSE Dock!onWindowPointerMove(Dock!onMove(d, at), at)
    <3>1. dock' = [heard EXCEPT !.place = place,
                               !.flung = @ /\ place \notin {"dock", "near"}]
      BY <1>8 DEF Dock!PointerTo
    <3>2. DockRecord(d) /\ d.drag = dock.drag /\ d.focusedIndex = dock.focusedIndex
      BY <1>2 DEF DockShape, DockRecord, Dock!Tracked, Dock!onTrackEnter, Dock!onTrackLeave
    <3> HIDE DEF d, at
    <3>3. DockRecord(heard) /\ heard.drag = dock.drag /\ heard.focusedIndex = dock.focusedIndex
      BY <3>2, DockListeners
    <3> HIDE DEF heard
    <3> QED
      BY <3>1, <3>3 DEF DockRecord
  <2> QED
    BY <2>1, <2>2, DockUntouched
<1>9. CASE Dock!applyMagnify
  BY <1>2, <1>9, DockUntouched DEF Dock!applyMagnify, DockShape, DockRecord
<1>10. ASSUME NEW key \in {"right", "left", "home", "end"}, Dock!onDockKeyDown(key)
       PROVE  DockOrderly'
  BY <1>2, <1>10, DockKeysOrderly
<1> QED
  BY <1>1, <1>3, <1>4, <1>5, <1>6, <1>7, <1>8, <1>9, <1>10 DEF Dock!Next

(* Whatever is stored by this tab or another, and however an icon is dragged:   *)
(* every app is in the order once; a drag goes on with the app that was pressed *)
(* unless another tab reorders the dock meanwhile or a new order cannot be      *)
(* stored; a dock that hides is hidden when the pointer has gone, as HidesAway  *)
(* says it; and an icon that is magnified has a frame to come (Dock.tsx,        *)
(* dock-prefs.ts).                                                           *)
THEOREM DockInvariance == Spec => []DockInv
<1>1. Init => DockIInv
  BY DEF Init, Dock!Init, Dock!Mounted, Dock!NoDrag, Dock!Held, Dock!Dragging, Dock!Places,
     DockIInv, DockShape, DockRecord, DockHovers, DockLeft, Dock!HidesAway, Dock!NoFrozenIcon
<1>2. Init => DockOrderly
  <2> SUFFICES ASSUME Init PROVE DockOrderly
    OBVIOUS
  <2>1. Arranged(order)
    <3>1. CASE storedOrder = None
      BY <3>1, AppsArranged DEF Init, Dock!Init, Dock!parseOrder
    <3>2. CASE storedOrder # None
      <4>1. storedOrder \in OldOrders /\ order = Dock!readOrderFromList(storedOrder)
        BY <3>2 DEF Init, Dock!Init, Dock!parseOrder
      <4>2. storedOrder \in Seq({storedOrder[i] : i \in DOMAIN storedOrder})
        BY <4>1, DockAssumption
      <4> QED
        BY <4>1, <4>2, DockReads
    <3> QED
      BY <3>1, <3>2
  <2>2. 1 \in 1..(Icons + 1)
    BY <2>1, IconsShown
  <2> QED
    BY <2>1, <2>2 DEF Init, Dock!Init, Dock!Mounted, Dock!NoDrag, Dock!Held, DockOrderly
<1>3. DockIInv /\ DockOrderly => DockInv
  <2> SUFFICES ASSUME DockIInv, DockOrderly PROVE DockInv
    OBVIOUS
  <2>1. Dock!TypeOK
    <3>1. DOMAIN Dock!items = 1..(Icons + 1)
      BY ItemsShown DEF DockOrderly
    <3> QED
      BY <3>1 DEF DockIInv, DockShape, DockOrderly, Dock!TypeOK
  <2>2. Dock!EveryAppOnce
    <3>1. Dock!ToSet(order) = Apps /\ Dock!ToSet(APP_IDS) = Apps
      BY DockFilters DEF DockOrderly, Arranged, Apps
    <3> QED
      BY <3>1 DEF DockOrderly, Arranged, OnceEach, Dock!EveryAppOnce, Dock!IsInjective
  <2>3. Dock!DragFollows
    BY DEF DockOrderly, OfDrag, Dock!DragFollows
  <2> QED
    BY <2>1, <2>2, <2>3 DEF DockIInv, DockInv, Dock!DockInv
<1> QED
  BY <1>1, <1>2, <1>3, DockStep, DockOrderStep, PTL DEF Spec

=============================================================================
