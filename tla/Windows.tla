------------------------------ MODULE Windows ------------------------------
(***************************************************************************)
(* The window manager of the web desktop (window-context.tsx), the gestures *)
(* of a window (Window.tsx) and what the two desktops (Desktop.tsx,         *)
(* AuraDesktop.tsx), the dock and the title bar's buttons ask of it.        *)
(*                                                                         *)
(* The array of windows is a function from ids: its order is the order of   *)
(* opening, which `at`, the zIndex a window was opened with, keeps.  An id  *)
(* is the tuple of what windowId() joins with colons.  Titles and chrome    *)
(* are left out.  Every dispatch is handled at once; the veto of an editor  *)
(* (closeGuards) is in module Editor: a vetoed close changes nothing here.  *)
(***************************************************************************)
EXTENDS Integers, FiniteSets, Nothing

CONSTANTS
  Asks,       \* what callers pass to openWindow: [app, payload]
  Meta,       \* APP_META: app -> [width, height] of a new window
  Viewports,  \* the sizes the browser window may have: [width, height]
  Points,     \* where a pointer may be, per axis
  Edges,      \* the resize edges in use: sets of "n", "s", "e", "w"
  MaxZ        \* bound on zCounter

WINDOW_MIN_WIDTH == 360
WINDOW_MIN_HEIGHT == 220

Rects == [x : Int, y : Int, width : Int, height : Int]
Roomy(r) == r.width >= WINDOW_MIN_WIDTH /\ r.height >= WINDOW_MIN_HEIGHT

NoPayload == [serverId |-> None, filePath |-> None, info |-> FALSE]

Apps == {ask.app : ask \in Asks}
Payloads == {ask.payload : ask \in Asks} \cup {None}

(* Every app's window is born with at least the minimum size (APP_META).     *)
ASSUME MetaAssumption ==
  \A app \in Apps : Meta[app] \in [width : Nat, height : Nat] /\ Roomy(Meta[app])
ASSUME ViewportAssumption == Viewports \subseteq [width : Nat, height : Nat]
ASSUME PointAssumption == Points \subseteq Int
ASSUME NoneAssumption == None \notin Rects

VARIABLES
  viewport,   \* window.innerWidth and innerHeight
  windows,    \* the open windows, by id
  focusedId,  \* the focused window's id, or None
  zCounter,
  gesture     \* the pointer's drag or resize (drag.current, resize.current), or None

vars == <<viewport, windows, focusedId, zCounter, gesture>>

----------------------------------------------------------------------------
MaxOf(a, b) == IF a >= b THEN a ELSE b
MinOf(a, b) == IF a <= b THEN a ELSE b

workHeight == MaxOf(320, viewport.height - 32 - 108)
fullscreenHeight == MaxOf(320, viewport.height - 32)

clampPosition(x, y, width) ==
  [x |-> MinOf(MaxOf(x, 8 - MaxOf(0, width - 80)), MaxOf(8, viewport.width - 80)),
   y |-> MinOf(MaxOf(y, 0), MaxOf(0, workHeight - 40))]

fitSize(size) ==
  [width |-> MinOf(size.width, MaxOf(WINDOW_MIN_WIDTH, viewport.width - 32)),
   height |-> MinOf(size.height, MaxOf(WINDOW_MIN_HEIGHT, workHeight))]

maximizedRect ==
  [x |-> 0, y |-> 0, width |-> viewport.width, height |-> fullscreenHeight]

Rect(pos, size) ==
  [x |-> pos.x, y |-> pos.y, width |-> size.width, height |-> size.height]

(* The id of a window: one per file for an editor or a viewer, one per       *)
(* server for Files and the monitor, else one per app.                       *)
windowId(app, payload) ==
  LET p == IF payload = None THEN NoPayload ELSE payload
  IN CASE app = "editor" /\ p.filePath # None -> <<app, p.serverId, p.filePath>>
       [] app = "viewer" /\ p.filePath # None ->
            <<app, p.serverId, IF p.info THEN "info" ELSE "file", p.filePath>>
       [] app \in {"files", "dashboard"} /\ p.serverId # None -> <<app, p.serverId>>
       [] OTHER -> <<app>>

Open == DOMAIN windows
Ids == {windowId(app, p) : app \in Apps, p \in Payloads}

nextZ == zCounter + 1

----------------------------------------------------------------------------
(* The reducer.  Each operator is one of its cases.                          *)

(* "open": show the window that has this id, with the new payload, or a new  *)
(* one, cascaded by the number of windows there are.                         *)
open(app, payload) ==
  LET id == windowId(app, payload)
      cascade == (Cardinality(Open) % 6) * 28
      size == fitSize(Meta[app])
      fresh == [app |-> app, payload |-> payload, minimized |-> FALSE,
                maximized |-> FALSE, restoreBounds |-> None, zIndex |-> nextZ,
                at |-> nextZ,
                rect |-> Rect(clampPosition(64 + cascade, 20 + cascade, size.width), size)]
      shown == [windows[id] EXCEPT !.minimized = FALSE, !.zIndex = nextZ,
                  !.payload = IF payload = None THEN @ ELSE payload]
  IN /\ windows' = [i \in Open \cup {id} |->
                      IF i # id THEN windows[i] ELSE IF id \in Open THEN shown ELSE fresh]
     /\ focusedId' = id
     /\ zCounter' = nextZ

LastOpened(ids) == CHOOSE i \in ids : \A j \in ids : windows[j].at <= windows[i].at

\* mutant
closeFocusKept(id) ==
  /\ windows' = [i \in Open \ {id} |-> windows[i]]
  /\ UNCHANGED <<focusedId, zCounter>>
(* "close": the focus goes to the last window of the array, whatever it      *)
(* shows.                                                                    *)
close(id) ==
  /\ windows' = [i \in Open \ {id} |-> windows[i]]
  /\ focusedId' = IF focusedId # id THEN focusedId
                  ELSE IF Open \ {id} = {} THEN None ELSE LastOpened(Open \ {id})
  /\ UNCHANGED zCounter

Update(id, w) == windows' = [i \in Open |-> IF i = id THEN w ELSE windows[i]]

minimize(id) ==
  /\ Update(id, [windows[id] EXCEPT !.minimized = TRUE])
  /\ focusedId' = IF focusedId = id THEN None ELSE focusedId
  /\ UNCHANGED zCounter

maximize(id) ==
  /\ Update(id, IF windows[id].maximized THEN windows[id]
                ELSE [windows[id] EXCEPT !.maximized = TRUE, !.minimized = FALSE,
                        !.zIndex = nextZ, !.restoreBounds = windows[id].rect,
                        !.rect = maximizedRect])
  /\ focusedId' = id
  /\ zCounter' = nextZ

(* "restore": a minimized window is shown again as it was, maximized or not; *)
(* one that is shown gets its bounds back.                                   *)
restore(id) ==
  /\ Update(id,
       IF ~windows[id].minimized /\ windows[id].maximized /\ windows[id].restoreBounds # None
       THEN [windows[id] EXCEPT !.maximized = FALSE, !.zIndex = nextZ,
               !.rect = windows[id].restoreBounds, !.restoreBounds = None]
       ELSE [windows[id] EXCEPT !.minimized = FALSE, !.zIndex = nextZ])
  /\ focusedId' = id
  /\ zCounter' = nextZ

\* mutant
focusKeepsPlace(id) ==
  /\ Update(id, [windows[id] EXCEPT !.minimized = FALSE])
  /\ focusedId' = id
  /\ zCounter' = nextZ
focus(id) ==
  /\ Update(id, [windows[id] EXCEPT !.minimized = FALSE, !.zIndex = nextZ])
  /\ focusedId' = id
  /\ zCounter' = nextZ

WindowsOf(app) == {id \in Open : windows[id].app = app}
TopOf(ids) == CHOOSE i \in ids : \A j \in ids : windows[j].zIndex <= windows[i].zIndex

toggleDock(app) ==
  LET top == TopOf(WindowsOf(app))
  IN CASE WindowsOf(app) = {} -> open(app, None)
       [] WindowsOf(app) # {} /\ windows[top].minimized -> restore(top)
       [] WindowsOf(app) # {} /\ ~windows[top].minimized /\ focusedId = top -> minimize(top)
       [] OTHER -> focus(top)

clearFocus == focusedId' = None /\ UNCHANGED <<windows, zCounter>>

(* "move" and "resize" leave a maximized window alone.                       *)
move(id, x, y) ==
  /\ windows' = [i \in Open |->
       IF i # id \/ windows[i].maximized THEN windows[i]
       ELSE [windows[i] EXCEPT !.rect = Rect(clampPosition(x, y, 80), @)]]
  /\ UNCHANGED <<focusedId, zCounter>>

\* mutant
resizeUnclamped(id, r) ==
  /\ windows' = [i \in Open |->
       IF i # id \/ windows[i].maximized THEN windows[i]
       ELSE [windows[i] EXCEPT !.rect =
               Rect(r, [width |-> MaxOf(WINDOW_MIN_WIDTH, r.width),
                        height |-> MaxOf(WINDOW_MIN_HEIGHT, r.height)])]]
  /\ UNCHANGED <<focusedId, zCounter>>
resize(id, r) ==
  LET size == [width |-> MaxOf(WINDOW_MIN_WIDTH, r.width),
               height |-> MaxOf(WINDOW_MIN_HEIGHT, r.height)]
  IN /\ windows' = [i \in Open |->
          IF i # id \/ windows[i].maximized THEN windows[i]
          ELSE [windows[i] EXCEPT !.rect = Rect(clampPosition(r.x, r.y, size.width), size)]]
     /\ UNCHANGED <<focusedId, zCounter>>

----------------------------------------------------------------------------
Init ==
  /\ viewport \in Viewports
  /\ windows = [i \in {} |-> None]
  /\ focusedId = None
  /\ zCounter = 10
  /\ gesture = None

Room == zCounter < MaxZ
Shown == {id \in Open : ~windows[id].minimized}

(* A click in the Servers app, on a shortcut, in a menu, or ⌘,: openWindow.  *)
OpenWindow ==
  /\ Room
  /\ \E ask \in Asks : open(ask.app, ask.payload)
  /\ UNCHANGED <<viewport, gesture>>

(* The red button of a window that is shown.  It does not focus it first.    *)
CloseButton ==
  /\ \E id \in Shown : close(id)
  /\ UNCHANGED <<viewport, gesture>>

(* ⌘W.                                                                       *)
CloseKey ==
  /\ focusedId # None
  /\ close(focusedId)
  /\ UNCHANGED <<viewport, gesture>>

MinimizeButton ==
  /\ \E id \in Shown : minimize(id)
  /\ UNCHANGED <<viewport, gesture>>

(* The green button, or a double click on the title bar.                     *)
MaximizeButton ==
  /\ Room
  /\ \E id \in Shown : IF windows[id].maximized THEN restore(id) ELSE maximize(id)
  /\ UNCHANGED <<viewport, gesture>>

(* The pointer goes down in a window.                                        *)
PressWindow ==
  /\ Room
  /\ \E id \in Shown : focus(id)
  /\ UNCHANGED <<viewport, gesture>>

DockClick ==
  /\ Room
  /\ \E app \in Apps : toggleDock(app)
  /\ UNCHANGED <<viewport, gesture>>

(* The pointer goes down on the desktop, or Escape.                          *)
DesktopPress == clearFocus /\ UNCHANGED <<viewport, gesture>>

(* The pointer goes down on a title bar, or on an edge of a window that is   *)
(* not maximized: it is captured until it goes up.                           *)
onHeaderPointerDown ==
  /\ Room /\ gesture = None
  /\ \E id \in Shown :
       /\ focus(id)
       /\ ~windows[id].maximized
       /\ gesture' = [id |-> id, edge |-> {}, from |-> windows[id].rect]
  /\ UNCHANGED viewport

onResizePointerDown ==
  /\ Room /\ gesture = None
  /\ \E id \in Shown, edge \in Edges :
       /\ ~windows[id].maximized
       /\ focus(id)
       /\ gesture' = [id |-> id, edge |-> edge, from |-> windows[id].rect]
  /\ UNCHANGED viewport

(* The rectangle that a captured pointer that moved by dx, dy asks for.      *)
Pulled(from, edge, dx, dy) ==
  LET wide == IF "e" \in edge THEN from.width + dx
              ELSE IF "w" \in edge THEN from.width - dx ELSE from.width
      high == IF "n" \in edge THEN from.height - dy
              ELSE IF "s" \in edge THEN from.height + dy ELSE from.height
      narrow == "w" \in edge /\ wide < WINDOW_MIN_WIDTH
      low == "n" \in edge /\ high < WINDOW_MIN_HEIGHT
  IN [x |-> IF "w" \notin edge THEN from.x
            ELSE IF narrow THEN from.x + from.width - WINDOW_MIN_WIDTH ELSE from.x + dx,
      y |-> IF "n" \notin edge THEN from.y
            ELSE IF low THEN from.y + from.height - WINDOW_MIN_HEIGHT ELSE from.y + dy,
      width |-> IF narrow THEN WINDOW_MIN_WIDTH ELSE wide,
      height |-> IF low THEN WINDOW_MIN_HEIGHT ELSE high]

(* The captured pointer moves.  Its window may be closed or maximized since. *)
DragMove ==
  /\ gesture # None /\ gesture.edge = {}
  /\ \E x, y \in Points : move(gesture.id, gesture.from.x + x, gesture.from.y + y)
  /\ UNCHANGED <<viewport, gesture>>

ResizeMove ==
  /\ gesture # None /\ gesture.edge # {}
  /\ \E dx, dy \in Points : resize(gesture.id, Pulled(gesture.from, gesture.edge, dx, dy))
  /\ UNCHANGED <<viewport, gesture>>

PointerUp ==
  /\ gesture # None
  /\ gesture' = None
  /\ UNCHANGED <<viewport, windows, focusedId, zCounter>>

(* The browser window is resized: every maximized window follows.            *)
syncMaximized ==
  windows' = [i \in Open |->
    IF windows[i].maximized
    THEN [windows[i] EXCEPT !.rect =
            [x |-> 0, y |-> 0, width |-> viewport'.width,
             height |-> MaxOf(320, viewport'.height - 32)]]
    ELSE windows[i]]

BrowserResized ==
  /\ viewport' \in Viewports
  /\ syncMaximized
  /\ UNCHANGED <<focusedId, zCounter, gesture>>

Next ==
  \/ OpenWindow \/ CloseButton \/ CloseKey \/ MinimizeButton \/ MaximizeButton
  \/ PressWindow \/ DockClick \/ DesktopPress
  \/ onHeaderPointerDown \/ onResizePointerDown \/ DragMove \/ ResizeMove \/ PointerUp
  \/ BrowserResized

Spec == Init /\ [][Next]_vars

----------------------------------------------------------------------------
Windows ==
  [app : Apps, payload : Payloads, minimized : BOOLEAN, maximized : BOOLEAN,
   restoreBounds : Rects \cup {None}, zIndex : Nat, at : Nat, rect : Rects]

TypeOK ==
  /\ viewport \in Viewports
  /\ Open \subseteq Ids
  /\ zCounter \in Nat
  /\ \A id \in Open : windows[id] \in Windows
  /\ \/ gesture = None
     \/ gesture.id \in Ids /\ gesture.edge \in Edges \cup {{}} /\ gesture.from \in Rects

Layered(w) == 10 < w.at /\ w.at <= w.zIndex /\ w.zIndex <= zCounter

(* A maximized window fills the screen and has bounds to go back to.          *)
Bounded(w) ==
  IF w.maximized
  THEN w.rect = maximizedRect /\ w.restoreBounds # None /\ Roomy(w.restoreBounds)
  ELSE w.restoreBounds = None /\ Roomy(w.rect)

(* What every dispatch relies on, after any sequence of clicks, keys and      *)
(* drags (reducer, Window.tsx): a window still has the id its app and payload *)
(* give, so opening it again finds it; no two windows claim one layer; the    *)
(* focus is on a window there is; a maximized window fills the screen there   *)
(* is now and has bounds to go back to, and the others never fall below the   *)
(* minimum size.                                                              *)
WindowsInv ==
  /\ TypeOK
  /\ \A id \in Open : /\ windowId(windows[id].app, windows[id].payload) = id
                      /\ Layered(windows[id])
                      /\ Bounded(windows[id])
  /\ \A i, j \in Open :
       windows[i].zIndex = windows[j].zIndex \/ windows[i].at = windows[j].at => i = j
  /\ focusedId \in Open \cup {None}

(* A window that gets the focus is in front of every other and not minimized, *)
(* so that what ⌘W closes is what the user sees on top.  The exception is the *)
(* focus a closed window leaves: it goes to the last one of the array, behind *)
(* others or minimized (window-context.tsx:162).                              *)
FocusRaises ==
  [][focusedId' # focusedId /\ focusedId' # None /\ Open \subseteq DOMAIN windows'
       => /\ ~windows'[focusedId'].minimized
          /\ \A id \in DOMAIN windows' \ {focusedId'} :
               windows'[id].zIndex < windows'[focusedId'].zIndex]_vars

(* A place from which the title bar can be dragged back.                      *)
Grabbable(r) ==
  /\ r.x + r.width >= 88 /\ r.x <= MaxOf(8, viewport.width - 80)
  /\ r.y \in 0..MaxOf(0, workHeight - 40)

(* No drag, resize or opening puts a window where its title bar is out of     *)
(* reach, even when its place is computed from where it was when the pointer  *)
(* went down and the browser window has another size by now.  Only bounds     *)
(* given back after the browser window shrank may be (window-context.tsx:204).*)
WithinReach ==
  [][\A id \in DOMAIN windows' :
       (/\ ~windows'[id].maximized
        /\ \/ id \notin Open
           \/ ~windows[id].maximized /\ windows'[id].rect # windows[id].rect)
       => Grabbable(windows'[id].rect)]_vars
=============================================================================
