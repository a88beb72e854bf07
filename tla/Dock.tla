-------------------------------- MODULE Dock --------------------------------
(***************************************************************************)
(* The dock of the macOS desktop (Dock.tsx) and its preferences, which the  *)
(* browser stores and every tab of the browser reads (dock-prefs.ts): the   *)
(* order of the apps, changed by dragging one, and whether the dock hides.  *)
(*                                                                         *)
(* Where the pointer is stands for the hit tests: on the dock's track, near  *)
(* it (within the reach of magnified icons), at the bottom edge, far.  The    *)
(* magnification is animated frame by frame; of the scales the model keeps    *)
(* whether one is above 1.  Icon sizes, bounces and tooltips are left out;    *)
(* what a click opens is in module Windows.                                  *)
(***************************************************************************)
EXTENDS Filters, SequencesExt

CONSTANTS
  APP_IDS,          \* the catalogue, a sequence
  DOCK_HIDDEN_IDS,  \* the apps not shown on the dock
  OldOrders,        \* orders an earlier version may have stored
  None

VARIABLES
  appearance,   \* "macos", which has the dock, or "aura"
  storedOrder,  \* localStorage: the order, or None
  order,        \* orderCache: what was read from it last
  hideMode,     \* localStorage: "always" or "auto"
  fullscreen,   \* a window is maximized: autoHideOverride
  calm,         \* compact or reduced motion: no magnification, no window listener
  dock,         \* the mounted dock's state
  strayed,      \* ghost: the order is not the one this drag gave it
  away,         \* ghost: how many of the last pointer moves were far off (2 at most)
  asks

vars == <<appearance, storedOrder, order, hideMode, fullscreen, calm, dock, strayed, away, asks>>

Places == {"dock", "near", "edge", "far"}

(* An order that has every app once: unknown and repeated ids of the list are *)
(* dropped, missing ones follow.                                             *)
readOrderFromList(list) ==
  LET once == Once(Keep(list, ToSet(APP_IDS)))
  IN once \o Keep(APP_IDS, ToSet(APP_IDS) \ ToSet(once))

parseOrder(raw) == IF raw = None THEN APP_IDS ELSE readOrderFromList(raw)

visibleDockOrder(ids) == Keep(ids, ToSet(ids) \ DOCK_HIDDEN_IDS)
visibleOrder == visibleDockOrder(order)
items == Append(visibleOrder, "info")

autoHide == hideMode = "auto" \/ fullscreen
shown == ~autoHide \/ dock.revealed

(* listensFirst: the window listener that follows the pointer was added       *)
(* before the one that hides the dock.  mouse: mouseX is known; frame: raf,   *)
(* an animation frame is asked for; flung (ghost): a drag ended near the dock  *)
(* and the pointer has not been seen on or near it since.                     *)
NoDrag == [id |-> None, from |-> 0, active |-> FALSE]
Mounted ==
  [drag |-> NoDrag, suppressClick |-> FALSE, place |-> "far", hovering |-> FALSE,
   revealed |-> TRUE, focusedIndex |-> 1, listensFirst |-> TRUE,
   mouse |-> FALSE, magnified |-> FALSE, frame |-> TRUE, flung |-> FALSE]

Held == dock.drag # NoDrag
Dragging == dock.drag.active
OnDock == appearance = "macos" /\ asks > 0 /\ asks' = asks - 1

----------------------------------------------------------------------------
(* Preferences.                                                              *)
setDockOrder(ids) == storedOrder' = readOrderFromList(ids) /\ order' = parseOrder(storedOrder')

(* A changed order gives the listener of the pointer a new place, after the   *)
(* one that hides the dock, and the animation a new frame; a changed autoHide  *)
(* puts the listener that hides last.                                        *)
\* mutant: the frame under way is cancelled and no other asked for
frameCancelled(d) == [d EXCEPT !.listensFirst = FALSE, !.frame = FALSE]
ItemsChanged(d) == [d EXCEPT !.listensFirst = FALSE, !.frame = TRUE]
HideSet ==
  /\ dock' = [dock EXCEPT !.listensFirst = @ \/ autoHide' # autoHide]
  /\ away' = 0
setDockHideMode(mode) == hideMode' = mode /\ UNCHANGED fullscreen /\ HideSet

Toggled == IF hideMode = "auto" THEN "always" ELSE "auto"

(* "Fade app rail" is a switch of the Aura appearance; a window goes full     *)
(* screen or back.                                                           *)
HideChanges ==
  /\ asks > 0 /\ asks' = asks - 1
  /\ \/ appearance = "aura" /\ setDockHideMode(Toggled)
     \/ fullscreen' = ~fullscreen /\ UNCHANGED hideMode /\ HideSet
  /\ UNCHANGED <<appearance, storedOrder, order, calm, strayed>>

(* Another tab stores an order or a mode: the storage event.                 *)
OtherTab ==
  /\ asks > 0 /\ asks' = asks - 1
  /\ \/ /\ \E i, j \in DOMAIN visibleOrder :
             /\ i < j
             /\ setDockOrder(visibleDockOrder([order EXCEPT
                  ![SelectInSeq(order, LAMBDA a : a = visibleOrder[i])] = visibleOrder[j],
                  ![SelectInSeq(order, LAMBDA a : a = visibleOrder[j])] = visibleOrder[i]])
                  \o Keep(order, DOCK_HIDDEN_IDS))
        /\ dock' = ItemsChanged(dock)
        /\ strayed' = Held
        /\ UNCHANGED <<hideMode, fullscreen, away>>
     \/ setDockHideMode(Toggled) /\ UNCHANGED <<storedOrder, order, strayed>>
  /\ UNCHANGED <<appearance, calm>>

----------------------------------------------------------------------------
(* Dragging an icon.                                                         *)
onItemPointerDown(index) ==
  /\ OnDock /\ shown
  /\ items[index] # "info"
  /\ dock' = [dock EXCEPT !.drag = [id |-> items[index], from |-> index, active |-> FALSE],
                          !.place = "dock"]
  /\ strayed' = FALSE /\ away' = 0
  /\ UNCHANGED <<appearance, storedOrder, order, hideMode, fullscreen, calm>>

(* nextVisible: the app at current.from comes out and goes in at `over`.     *)
Moved(from, over) ==
  IF from > Len(visibleOrder) THEN visibleOrder
  ELSE InsertAt(RemoveAt(visibleOrder, from), over, visibleOrder[from])

\* mutant: the drag goes on from where it began
fromStays(d, next) == [d EXCEPT !.active = TRUE]
followed(d, next) ==
  [d EXCEPT !.active = TRUE,
     !.from = SelectInSeq(next, LAMBDA id : id = visibleOrder[d.from])]

(* A localStorage that refuses the new order leaves the old one, while the     *)
(* drag goes on from the place in the new.                                    *)
onItemPointerMove(over) ==
  /\ OnDock /\ Held
  /\ LET d == dock.drag
         next == Moved(d.from, over)
         dragged == IF d.active THEN dock
                    ELSE [dock EXCEPT !.drag.active = TRUE, !.mouse = FALSE, !.frame = TRUE]
     IN IF over = d.from \/ items[over] = "info" \/ d.from > Len(visibleOrder)
        THEN /\ ~d.active
             /\ dock' = dragged
             /\ UNCHANGED <<storedOrder, order, strayed>>
        ELSE /\ \/ setDockOrder(next \o Keep(order, ToSet(order) \ ToSet(next)))
                   /\ UNCHANGED strayed
                \/ strayed' = TRUE /\ UNCHANGED <<storedOrder, order>>
             /\ dock' = ItemsChanged([dragged EXCEPT !.drag = followed(d, next)])
  /\ UNCHANGED <<appearance, hideMode, fullscreen, calm, away>>

(* The track is entered, or left: to a place near it, this handler leaves it   *)
(* to the window's listener to tell.                                         *)
onTrackEnter(d) ==
  IF calm \/ Dragging THEN [d EXCEPT !.hovering = TRUE, !.revealed = TRUE]
  ELSE [d EXCEPT !.hovering = TRUE, !.revealed = TRUE, !.mouse = TRUE, !.frame = TRUE]
onTrackLeave(d, place) ==
  IF place = "near" THEN d
  ELSE [d EXCEPT !.hovering = FALSE, !.mouse = FALSE, !.frame = TRUE]

(* The pointer is released, or the drag cancelled.  The icon has had it       *)
(* captured: the browser tells only now that it has left the track.           *)
onItemPointerUp ==
  /\ OnDock /\ Held
  /\ LET up == [dock EXCEPT !.drag = NoDrag, !.suppressClick = @ \/ Dragging,
                            !.flung = Dragging /\ dock.place = "near"]
     IN dock' = IF dock.place = "dock" THEN up ELSE onTrackLeave(up, dock.place)
  /\ away' = 0
  /\ UNCHANGED <<appearance, storedOrder, order, hideMode, fullscreen, calm, strayed>>

(* A click: the one that ends a drag opens nothing.                          *)
onSelect ==
  /\ OnDock /\ dock.suppressClick
  /\ dock' = [dock EXCEPT !.suppressClick = FALSE]
  /\ UNCHANGED <<appearance, storedOrder, order, hideMode, fullscreen, calm, strayed, away>>

----------------------------------------------------------------------------
(* The pointer moves to `place`: first the track is entered or left, then the *)
(* two listeners of the window run.  A pointer captured by a pressed icon is   *)
(* on the dock for all of them, wherever it is.                               *)
Tracked(place) ==
  IF place = "dock" /\ dock.place # "dock" /\ ~Held THEN onTrackEnter(dock)
  ELSE IF place # "dock" /\ dock.place = "dock" /\ ~Held THEN onTrackLeave(dock, place)
  ELSE dock

\* mutant: the window's listener only ever sees the pointer come
hoverComes(d, place) ==
  IF calm \/ Dragging \/ place \notin {"dock", "near"} THEN d
  ELSE [d EXCEPT !.hovering = TRUE, !.mouse = TRUE, !.frame = TRUE]
(* Where mouseX is not known the pointer was not over the dock before: so it   *)
(* is taken, though a drag has forgotten it too.                              *)
onWindowPointerMove(d, place) ==
  LET over == place \in {"dock", "near"}
  IN IF calm \/ Dragging \/ (~over /\ ~d.mouse) THEN d
     ELSE [d EXCEPT !.hovering = over, !.mouse = over, !.frame = TRUE]

onMove(d, place) ==
  IF autoHide THEN [d EXCEPT !.revealed = place \in {"dock", "edge"} \/ d.hovering] ELSE d

PointerTo(place) ==
  /\ OnDock
  /\ place \in {"dock", "near"} => shown
  /\ LET d == Tracked(place)
         at == IF Held THEN "dock" ELSE place
         listened == IF dock.listensFirst THEN onMove(onWindowPointerMove(d, at), at)
                     ELSE onWindowPointerMove(onMove(d, at), at)
     IN dock' = [listened EXCEPT !.place = place,
                                !.flung = @ /\ place \notin {"dock", "near"}]
  /\ away' = IF place = "far" /\ ~Held THEN IF away = 0 THEN 1 ELSE 2 ELSE 0
  /\ UNCHANGED <<appearance, storedOrder, order, hideMode, fullscreen, calm, strayed>>

(* A frame: icons within reach of the pointer grow, the others shrink, by a    *)
(* part of what is missing; while an icon is not at rest there is another.     *)
applyMagnify ==
  /\ appearance = "macos" /\ dock.frame
  /\ \E magnified, more \in BOOLEAN :
       /\ magnified => dock.magnified \/ (dock.mouse /\ ~calm /\ ~Dragging)
       /\ calm => ~magnified
       /\ magnified => more
       /\ more => magnified \/ dock.magnified
       /\ dock' = [dock EXCEPT !.magnified = magnified, !.frame = more]
  /\ UNCHANGED <<appearance, storedOrder, order, hideMode, fullscreen, calm, strayed, away, asks>>

(* Arrow keys, Home and End move the one tab stop; so does focus.            *)
onDockKeyDown(key) ==
  /\ OnDock
  /\ LET last == Len(items)
         i == dock.focusedIndex
     IN dock' = [dock EXCEPT !.focusedIndex =
          CASE key = "right" -> IF i < last THEN i + 1 ELSE last
            [] key = "left" -> IF i > 1 THEN i - 1 ELSE 1
            [] key = "home" -> 1
            [] key = "end" -> last]
  /\ dock' # dock
  /\ UNCHANGED <<appearance, storedOrder, order, hideMode, fullscreen, calm, strayed, away>>

(* The other appearance: the dock is unmounted, or mounted anew.             *)
Remount ==
  /\ dock' = Mounted /\ strayed' = FALSE /\ away' = 0
  /\ UNCHANGED <<storedOrder, order, hideMode, fullscreen, calm>>

----------------------------------------------------------------------------
Init ==
  /\ storedOrder \in OldOrders \cup {None} /\ order = parseOrder(storedOrder)
  /\ hideMode \in {"always", "auto"} /\ fullscreen = FALSE /\ calm \in BOOLEAN
  /\ dock = Mounted /\ strayed = FALSE /\ away = 0

(* What the icons listen to.                                                 *)
Icons ==
  \/ \E i \in DOMAIN items : onItemPointerDown(i) \/ onItemPointerMove(i)
  \/ onItemPointerUp \/ onSelect

Next ==
  \/ HideChanges \/ OtherTab
  \/ Icons
  \/ \E place \in Places : PointerTo(place)
  \/ applyMagnify
  \/ \E key \in {"right", "left", "home", "end"} : onDockKeyDown(key)

----------------------------------------------------------------------------
TypeOK ==
  /\ hideMode \in {"always", "auto"}
  /\ dock.place \in Places /\ dock.focusedIndex \in DOMAIN items

(* Whatever is stored and dragged, every app is in the order once.           *)
EveryAppOnce == IsInjective(order) /\ ToSet(order) = ToSet(APP_IDS)

(* A drag moves the app that was pressed: as long as no other tab reorders    *)
(* the dock meanwhile and each new order is stored, current.from is where that  *)
(* app is now.                                                               *)
DragFollows ==
  (Held /\ ~strayed) => visibleOrder[dock.drag.from] = dock.drag.id

(* A dock that hides is hidden once the pointer has moved far from it, twice   *)
(* where the listener that hides is the first, unless an icon is pressed,      *)
(* nothing is magnified, or the pointer was thrown far from the place near the *)
(* dock where a drag ended.                                                  *)
HidesAway ==
  (/\ autoHide /\ (away = 2 \/ (away = 1 /\ dock.listensFirst))
   /\ ~Held /\ ~calm /\ ~dock.flung) => ~dock.revealed

(* No icon freezes while it is magnified: until it is at rest another frame    *)
(* is asked for, through drags and reordered items.                           *)
NoFrozenIcon == dock.magnified => dock.frame

DockInv == TypeOK /\ EveryAppOnce /\ DragFollows /\ HidesAway /\ NoFrozenIcon
=============================================================================
