----------------------------- MODULE WebDesktop -----------------------------
(***************************************************************************)
(* The parts of the page that keep a state of their own beside the windows: *)
(* the Terminal, the text editor, the rows of a Files window, two tabs and the *)
(* charts of the Monitor, the dock, the icons of the desktop and the settings, *)
(* in one page.  They meet in the appearance: DesktopSwitch (Desktop.tsx)      *)
(* shows one of two desktops, and a change mounts everything on the page anew *)
(* - with whatever was under way in it.                                      *)
(*                                                                         *)
(* In one behaviour the user works with one of the parts, and may change the  *)
(* appearance at any moment.                                                 *)
(***************************************************************************)
EXTENDS Integers, Sequences, FiniteSets

CONSTANTS
  Budget,  \* what the user and the other tabs do in a behaviour, by the part in use
  Order, Payloads, TabIds,
  Texts, MaxWrites,
  RowsOf, Home, Queries,
  Samples, Searches,
  Views, Histories, MaxDrawn, RangeOf, MaxPoints, Near,
  APP_IDS, DOCK_HIDDEN_IDS, OldOrders,
  Folders, Grids, Stored,
  BuiltIn, Default, Images, Levels, LevelRange, MaxOps,
  None

VARIABLES
  inUse, asks, appearance,
  listed, up, payload, tabs, activeId, openedKey, status, runs,
  disk, mode, page, writes, writer,
  folder, entries, query, selectedPaths, lastSelectedPath, context, move, band,
  tab, selected, shownOn, online, snap, search, filter, sort, activePid, inspect, busy, requests,
  viewed, kept, clock, range, metric, hover, display, frame,
  storedOrder, order, hideMode, fullscreen, calm, dock, strayed, away,
  stored, shortcuts, grid, drag, menu, dropped,
  theme, storedIds, wallpaperId, customUrl, hasCustom, db, ops, event,
  unsure, rawPrefs, prefs, lastSet

terminalVars == <<listed, up, payload, tabs, activeId, openedKey, status, runs>>
editorVars == <<disk, mode, page, writes, writer>>
selectionVars == <<folder, entries, query, selectedPaths, lastSelectedPath, context, move, band>>
systemVars == <<tab, selected, shownOn, online, snap, search, filter, sort, activePid, inspect, busy,
                requests>>
chartsVars == <<viewed, kept, clock, range, metric, hover, display, frame>>
dockVars == <<storedOrder, order, hideMode, fullscreen, calm, dock, strayed, away>>
shortcutsVars == <<stored, shortcuts, grid, drag, menu, dropped>>
settingsVars == <<theme, storedIds, wallpaperId, customUrl, hasCustom, db, ops,
                  event, unsure, rawPrefs, prefs, lastSet>>
vars == <<inUse, asks, appearance, terminalVars, editorVars, selectionVars, systemVars, chartsVars,
          dockVars, shortcutsVars, settingsVars>>

Terminal == INSTANCE Terminal
Editor == INSTANCE Editor
Selection == INSTANCE Selection
SystemTabs == INSTANCE SystemTabs
Charts == INSTANCE Charts
Dock == INSTANCE Dock
Shortcuts == INSTANCE Shortcuts
Settings == INSTANCE Settings

ASSUME TerminalAssumption == TabIds # {}
ASSUME EditorAssumption == None \notin Texts \cup Editor!Page
ASSUME DockAssumption ==
  /\ APP_IDS \in Seq({APP_IDS[i] : i \in DOMAIN APP_IDS})
  /\ \A i, j \in DOMAIN APP_IDS : APP_IDS[i] = APP_IDS[j] => i = j
  /\ \A o \in OldOrders : o \in Seq({o[i] : i \in DOMAIN o})
  /\ None \notin Seq({APP_IDS[i] : i \in DOMAIN APP_IDS})
ASSUME ChartsAssumption ==
  /\ Views # {} /\ \A v \in Views : v \in Seq({v[i] : i \in DOMAIN v}) /\ v # <<>>
  /\ Histories # {}
  /\ \A h \in Histories :
       /\ \A v \in Views : {v[i] : i \in DOMAIN v} \subseteq DOMAIN h
       /\ \A s \in DOMAIN h :
            /\ h[s] \in Seq([t : Nat, own : BOOLEAN])
            /\ \A i \in DOMAIN h[s] : h[s][i].own => h[s][i].t <= MaxPoints
            /\ \A i, j \in DOMAIN h[s] : i < j => Charts!Before(h[s][i], h[s][j])
  /\ MaxDrawn \in Nat \ {0} /\ MaxPoints \in Nat \ {0} /\ Near \in Nat \ {0}
  /\ None \notin [t : Nat, own : BOOLEAN]
ASSUME ShortcutsAssumption ==
  /\ Grids \subseteq [cols : Nat \ {0}, rows : Nat \ {0}]
  /\ Stored \subseteq Seq(Shortcuts!Shortcut) /\ None \notin Shortcuts!Cell
ASSUME SettingsAssumption ==
  /\ Default \in [Settings!Themes -> BuiltIn]
  /\ None \notin Images /\ Levels \subseteq Int \cup {None}
  /\ LevelRange.min \in Int /\ LevelRange.max \in Int /\ LevelRange.min <= LevelRange.max
  /\ None \notin LevelRange.min..LevelRange.max

----------------------------------------------------------------------------
(* A part that is not in use begins in one state, and stays in it.           *)
Init ==
  /\ inUse \in DOMAIN Budget /\ asks = Budget[inUse]
  /\ Terminal!Init /\ (inUse = "terminal" \/ up = {})
  /\ Editor!Init
  /\ inUse = "editor" \/ (mode /\ disk = Editor!toDisk(CHOOSE t \in Texts : TRUE, FALSE))
  /\ Selection!Init
  /\ SystemTabs!Init
  /\ \/ inUse = "system"
     \/ /\ selected = CHOOSE s \in DOMAIN Samples : TRUE
        /\ snap = CHOOSE x \in Samples[selected] : TRUE
  /\ Charts!Init
  /\ \/ inUse = "charts"
     \/ /\ viewed = CHOOSE v \in Views : TRUE
        /\ kept = CHOOSE h \in Histories : TRUE
  /\ Dock!Init
  /\ inUse = "dock" \/ (storedOrder = None /\ hideMode = "always" /\ ~calm)
  /\ Shortcuts!Init
  /\ inUse = "shortcuts" \/ (stored = <<>> /\ grid = CHOOSE g \in Grids : TRUE)
  /\ Settings!Init
  /\ \/ inUse = "settings"
     \/ /\ theme = "dark" /\ storedIds = [t \in Settings!Themes |-> None]
        /\ db = None /\ rawPrefs.level = None

(* DesktopSwitch: the other desktop is mounted.  What the terminals and the   *)
(* editor held is lost, without a question.                                  *)
DesktopSwitch ==
  /\ Settings!setAppearance
  /\ Terminal!Remount /\ Editor!Remount /\ Selection!Remount
  /\ SystemTabs!Remount /\ Charts!Remount /\ Dock!Remount /\ Shortcuts!Remount
  /\ UNCHANGED inUse

Other(part) ==
  /\ UNCHANGED inUse
  /\ part # "settings" => UNCHANGED <<appearance, settingsVars>>
  /\ part # "terminal" => UNCHANGED terminalVars
  /\ part # "editor" => UNCHANGED editorVars
  /\ part # "files" => UNCHANGED selectionVars
  /\ part # "system" => UNCHANGED systemVars
  /\ part # "charts" => UNCHANGED chartsVars
  /\ part # "dock" => UNCHANGED dockVars
  /\ part # "shortcuts" => UNCHANGED shortcutsVars

Next ==
  \/ inUse = "terminal" /\ Terminal!Next /\ Other("terminal")
  \/ inUse = "editor" /\ Editor!Next /\ Other("editor")
  \/ inUse = "files" /\ Selection!Next /\ Other("files")
  \/ inUse = "system" /\ SystemTabs!Next /\ Other("system")
  \/ inUse = "charts" /\ Charts!Next /\ Other("charts")
  \/ inUse = "dock" /\ Dock!Next /\ Other("dock")
  \/ inUse = "shortcuts" /\ Shortcuts!Next /\ Other("shortcuts")
  \/ inUse = "settings" /\ Settings!Next /\ Other("settings")
  \/ DesktopSwitch

(* Imports come back and the timer of a socket goes off.                     *)
TerminalGoesOn == Terminal!Returns /\ Other("terminal")
TerminalExpires == Terminal!Expires /\ Other("terminal")

Spec == Init /\ [][Next]_vars /\ WF_vars(TerminalGoesOn) /\ WF_vars(TerminalExpires)

----------------------------------------------------------------------------
(* Every socket a terminal opens belongs to a session on the page, one run to  *)
(* each; a tab is in front; a session whose shell is gone, and that is not      *)
(* mounting another, says that it is disconnected.                            *)
TerminalInv == Terminal!TerminalInv

(* A session on a connected server comes to an open shell or says that it is   *)
(* disconnected.                                                             *)
SessionSettles == \A id \in TabIds : []<>Terminal!Settled(id)

(* A text without the mark of unsaved changes is what the file holds, unless   *)
(* another program wrote it, or a save that the page calls "Not saved".        *)
EditorInv == Editor!EditorInv

(* A press drags or selects, and the context menu acts on its row.           *)
SelectionInv == Selection!SelectionInv

(* The only details a tab takes are those it wants now; buttons are blocked     *)
(* while, and only while, a call is under way.  What the pointer reads from a   *)
(* chart is there, and a sparkline comes to stand on the newest series.        *)
TabsChartsInv == SystemTabs!TabsInv /\ Charts!ChartsInv

(* A drag moves the pressed app unless another tab reorders the dock, no app is  *)
(* lost from it, it hides once the pointer has left it (but for reduced motion   *)
(* and drags that end beside it), and no icon freezes while it is magnified.    *)
DockInv == Dock!DockInv

(* Icons have cells of their own, and a drop moves no third icon.             *)
ShortcutsInv == Shortcuts!ShortcutsInv

(* Wallpaper and preferences on the page agree with what the browser stores,   *)
(* through overlapping transactions, unless a read failed or another tab's      *)
(* change is not known yet.                                                  *)
SettingsInv == Settings!SettingsInv
=============================================================================
