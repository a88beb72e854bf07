---------------------------- MODULE DesktopProofs ----------------------------
(***************************************************************************)
(* Theorems about the windows of the page and the process behind it:        *)
(*   - the window manager (Windows), for any apps, sizes of the browser     *)
(*     window, pointer movements and numbers of windows: WInv;              *)
(*   - the server process the desktop shell keeps (DesktopBackend), for any  *)
(*     number of mounts of the page: DesktopInv;                            *)
(*   - the System Monitor (Monitor, MonitorData), for any servers, readings, *)
(*     workers and lengths of histories: MonitorIInv;                       *)
(*   - the extraction banner (Transfers), for any jobs and servers:         *)
(*     BannerIInv.                                                          *)
(* The four share the constant None and no variable: theorems on Spec are   *)
(* about the window manager alone, those on DesktopSpec, MonitorSpec and    *)
(* TransfersSpec about the others.                                          *)
(*                                                                         *)
(* For the windows WInv is inductive: WindowsInv, with the finiteness of the *)
(* set of windows that its cascade and the choice of the last or topmost one *)
(* rest on.  The part of it that a dispatch can disturb is Held.  Every       *)
(* dispatch but open and close changes one window in place: UpdateHeld says   *)
(* what it must not disturb.  DesktopInv is inductive as it stands; the views *)
(* only read the manager, so their steps preserve all of it but the types.   *)
(***************************************************************************)
EXTENDS Windows, DesktopBackend, Monitor, Transfers, FiltersProofs, FiniteSetTheorems,
        SequenceTheorems, WellFoundedInduction, TLAPS

(* What the inductive step assumes and shows of each window.                 *)
Sound(id) ==
  /\ id \in Ids
  /\ windows[id] \in Windows
  /\ windowId(windows[id].app, windows[id].payload) = id
  /\ Layered(windows[id])
  /\ Bounded(windows[id])

Apart(i, j) ==
  windows[i].zIndex = windows[j].zIndex \/ windows[i].at = windows[j].at => i = j

Held ==
  /\ viewport \in Viewports
  /\ IsFiniteSet(Open)
  /\ zCounter \in Nat /\ zCounter >= 10
  /\ \A id \in Open : Sound(id)
  /\ \A i, j \in Open : Apart(i, j)
  /\ focusedId \in Open \cup {None}

Captured ==
  \/ gesture = None
  \/ gesture.id \in Ids /\ gesture.edge \in Edges \cup {{}} /\ gesture.from \in Rects

WInv == Held /\ Captured

LEMMA WInvImplies == WInv => WindowsInv
BY DEF WInv, Held, Captured, WindowsInv, TypeOK, Sound, Apart

(* The geometry: what the clamps return, for any viewport.                   *)
LEMMA MinMaxInt ==
    ASSUME NEW a \in Int, NEW b \in Int
    PROVE  /\ MinOf(a, b) \in Int /\ MinOf(a, b) <= a /\ MinOf(a, b) <= b
           /\ MinOf(a, b) \in {a, b}
           /\ MaxOf(a, b) \in Int /\ MaxOf(a, b) >= a /\ MaxOf(a, b) >= b
           /\ MaxOf(a, b) \in {a, b}
BY DEF MinOf, MaxOf

LEMMA WorkHeightNat ==
    ASSUME viewport \in Viewports
    PROVE  /\ viewport.width \in Nat /\ viewport.height \in Nat
           /\ workHeight \in Nat /\ fullscreenHeight \in Nat
BY ViewportAssumption DEF workHeight, fullscreenHeight, MaxOf

LEMMA ClampReach ==
    ASSUME viewport \in Viewports, NEW x \in Int, NEW y \in Int, NEW w \in Int, w >= 80
    PROVE  /\ clampPosition(x, y, w) \in [x : Int, y : Int]
           /\ clampPosition(x, y, w).x + w >= 88
           /\ clampPosition(x, y, w).x <= MaxOf(8, viewport.width - 80)
           /\ clampPosition(x, y, w).y \in 0..MaxOf(0, workHeight - 40)
BY WorkHeightNat DEF clampPosition, MinOf, MaxOf

LEMMA FitSizeRoomy ==
    ASSUME viewport \in Viewports, NEW appId \in Apps
    PROVE  /\ fitSize(Meta[appId]) \in [width : Int, height : Int]
           /\ Roomy(fitSize(Meta[appId]))
BY WorkHeightNat, MetaAssumption
DEF fitSize, Roomy, MinOf, MaxOf, WINDOW_MIN_WIDTH, WINDOW_MIN_HEIGHT

LEMMA ScreenRect ==
    ASSUME viewport \in Viewports
    PROVE  maximizedRect \in Rects
BY WorkHeightNat DEF maximizedRect, Rects

(* A non-empty finite set of windows has one that was opened last, and one   *)
(* that is in front.                                                         *)
LEMMA Largest ==
    ASSUME NEW S, S # {}, NEW bound \in Nat, NEW f, \A i \in S : f[i] \in Nat /\ f[i] <= bound
    PROVE  \E i \in S : \A j \in S : f[j] <= f[i]
<1> DEFINE T == {bound - f[i] : i \in S}
<1>1. T \subseteq Nat /\ T # {}
  OBVIOUS
<1>2. \E x \in T : \A y \in T : ~ (<<y, x>> \in OpToRel(<, Nat))
  BY <1>1, WFMin, NatLessThanWellFounded, Zenon
<1>3. PICK x \in T : \A y \in T : ~ (y < x)
  BY <1>1, <1>2 DEF OpToRel
<1>4. PICK i \in S : x = bound - f[i]
  BY <1>3
<1>5. ASSUME NEW j \in S PROVE f[j] <= f[i]
  <2>1. ~ (bound - f[j] < bound - f[i])
    BY <1>3, <1>4
  <2> QED
    BY <2>1
<1> QED
  BY <1>5

LEMMA LastOpenedIn ==
    ASSUME Held, NEW ids \in SUBSET Open, ids # {}
    PROVE  LastOpened(ids) \in ids
<1> DEFINE f == [i \in ids |-> windows[i].at]
<1>1. \A i \in ids : f[i] \in Nat /\ f[i] <= zCounter
  BY DEF Held, Sound, Layered, Windows
<1>2. \E i \in ids : \A j \in ids : f[j] <= f[i]
  BY <1>1, Largest DEF Held
<1> QED
  BY <1>2 DEF LastOpened

LEMMA TopOfIn ==
    ASSUME Held, NEW ids \in SUBSET Open, ids # {}
    PROVE  TopOf(ids) \in ids
<1> DEFINE f == [i \in ids |-> windows[i].zIndex]
<1>1. \A i \in ids : f[i] \in Nat /\ f[i] <= zCounter
  BY DEF Held, Sound, Layered, Windows
<1>2. \E i \in ids : \A j \in ids : f[j] <= f[i]
  BY <1>1, Largest DEF Held
<1> QED
  BY <1>2 DEF TopOf

(* ------------------------------------------------------------------------ *)
(* A dispatch that changes one window in place keeps Held when the window    *)
(* keeps its app, payload and place in the array, when its layer stays or is *)
(* the next one, and when its bounds are those of Bounded.                   *)
Changed(old, new) ==
  /\ new \in Windows
  /\ new.app = old.app /\ new.payload = old.payload /\ new.at = old.at
  /\ \/ new.zIndex = old.zIndex
     \/ new.zIndex = nextZ /\ zCounter' = nextZ
  /\ Bounded(new)

LEMMA UpdateHeld ==
    ASSUME Held, viewport' = viewport, zCounter' \in {zCounter, nextZ},
           NEW id \in Open, NEW w, Update(id, w), Changed(windows[id], w),
           focusedId' \in Open \cup {None}
    PROVE  Held'
<1>1. DOMAIN windows' = Open /\ Open' = Open
  BY DEF Update, Open
<1>2. \A i \in Open : windows'[i] = IF i = id THEN w ELSE windows[i]
  BY DEF Update
<1>3. zCounter' \in Nat /\ zCounter' >= zCounter /\ (zCounter' = nextZ => zCounter' = zCounter + 1)
  BY DEF Held, nextZ
<1>4. ASSUME NEW i \in Open PROVE Sound(i)'
  <2>1. Sound(i) /\ Sound(id)
    BY DEF Held
  <2>2. maximizedRect' = maximizedRect
    BY DEF maximizedRect, fullscreenHeight
  <2>3. CASE i # id
    <3>1. Layered(windows[i])'
      BY <2>1, <2>3, <1>1, <1>2, <1>3 DEF Sound, Layered, Windows, Held
    <3>2. Bounded(windows[i])'
      BY <2>1, <2>2, <2>3, <1>1, <1>2 DEF Sound, Bounded
    <3> QED
      BY <2>1, <2>3, <1>1, <1>2, <3>1, <3>2 DEF Sound
  <2>4. CASE i = id
    <3>1. Layered(windows[i])'
      BY <2>1, <2>4, <1>1, <1>2, <1>3 DEF Sound, Layered, Windows, Held, Changed, nextZ
    <3>2. Bounded(windows[i])'
      BY <2>2, <2>4, <1>1, <1>2 DEF Bounded, Changed
    <3> QED
      BY <2>1, <2>4, <1>1, <1>2, <3>1, <3>2 DEF Sound, Changed
  <2> QED
    BY <2>3, <2>4
<1>5. ASSUME NEW i \in Open, NEW j \in Open PROVE Apart(i, j)'
  <2>1. Apart(i, j) /\ Apart(id, j) /\ Apart(i, id)
    BY DEF Held
  <2>2. \A k \in Open : windows[k].zIndex # nextZ
    BY DEF Held, Sound, Layered, Windows, nextZ
  <2> QED
    BY <2>1, <2>2, <1>2 DEF Apart, Changed
<1> QED
  BY <1>1, <1>3, <1>4, <1>5 DEF Held

(* Each dispatch in turn.                                                    *)
LEMMA MinimizeHeld ==
    ASSUME Held, viewport' = viewport, NEW id \in Open, minimize(id)
    PROVE  Held'
<1>1. Sound(id)
  BY DEF Held
<1>2. Changed(windows[id], [windows[id] EXCEPT !.minimized = TRUE])
  BY <1>1 DEF Changed, Sound, Windows, Bounded
<1> QED
  BY <1>2, UpdateHeld DEF minimize, Held

LEMMA FocusHeld ==
    ASSUME Held, viewport' = viewport, NEW id \in Open, focus(id)
    PROVE  Held'
<1>1. Sound(id)
  BY DEF Held
<1>2. nextZ \in Nat
  BY DEF Held, nextZ
<1>3. Changed(windows[id], [windows[id] EXCEPT !.minimized = FALSE, !.zIndex = nextZ])
  BY <1>1, <1>2 DEF Changed, Sound, Windows, Bounded, focus
<1> QED
  BY <1>3, UpdateHeld DEF focus

LEMMA MaximizeHeld ==
    ASSUME Held, viewport' = viewport, NEW id \in Open, ~windows[id].maximized, maximize(id)
    PROVE  Held'
<1> DEFINE w == [windows[id] EXCEPT !.maximized = TRUE, !.minimized = FALSE,
                   !.zIndex = nextZ, !.restoreBounds = windows[id].rect,
                   !.rect = maximizedRect]
<1>1. Sound(id)
  BY DEF Held
<1>2. nextZ \in Nat
  BY DEF Held, nextZ
<1>3. maximizedRect \in Rects
  BY ScreenRect DEF Held
<1>4. /\ w \in Windows /\ w.maximized /\ w.rect = maximizedRect
      /\ w.restoreBounds = windows[id].rect /\ w.zIndex = nextZ
      /\ w.app = windows[id].app /\ w.payload = windows[id].payload /\ w.at = windows[id].at
  BY <1>1, <1>2, <1>3 DEF Sound, Windows
<1>5. windows[id].rect # None /\ Roomy(windows[id].rect)
  BY <1>1, NoneAssumption DEF Sound, Bounded, Windows
<1>6. Bounded(w)
  BY <1>4, <1>5 DEF Bounded
<1>7. Changed(windows[id], w)
  BY <1>4, <1>6 DEF Changed, maximize
<1>8. Update(id, w)
  BY DEF maximize
<1>9. focusedId' = id /\ zCounter' = nextZ
  BY DEF maximize
<1> QED
  BY <1>7, <1>8, <1>9, UpdateHeld

LEMMA RestoreHeld ==
    ASSUME Held, viewport' = viewport, NEW id \in Open, restore(id)
    PROVE  Held'
<1> DEFINE back == [windows[id] EXCEPT !.maximized = FALSE, !.zIndex = nextZ,
                      !.rect = windows[id].restoreBounds, !.restoreBounds = None]
           again == [windows[id] EXCEPT !.minimized = FALSE, !.zIndex = nextZ]
<1>1. Sound(id)
  BY DEF Held
<1>2. nextZ \in Nat
  BY DEF Held, nextZ
<1>3. focusedId' = id /\ zCounter' = nextZ
  BY DEF restore
<1>4. CASE ~windows[id].minimized /\ windows[id].maximized /\ windows[id].restoreBounds # None
  <2>1. /\ back \in Windows /\ ~back.maximized /\ back.rect = windows[id].restoreBounds
        /\ back.restoreBounds = None /\ back.zIndex = nextZ
        /\ back.app = windows[id].app /\ back.payload = windows[id].payload
        /\ back.at = windows[id].at
    BY <1>1, <1>2, <1>4 DEF Sound, Windows
  <2>2. Roomy(windows[id].restoreBounds)
    BY <1>1, <1>4 DEF Sound, Bounded
  <2>3. Changed(windows[id], back)
    BY <2>1, <2>2, <1>3 DEF Changed, Bounded
  <2>4. Update(id, back)
    BY <1>4 DEF restore
  <2> QED
    BY <2>3, <2>4, <1>3, UpdateHeld
<1>5. CASE ~(~windows[id].minimized /\ windows[id].maximized /\ windows[id].restoreBounds # None)
  <2>1. Changed(windows[id], again)
    BY <1>1, <1>2, <1>3 DEF Changed, Sound, Windows, Bounded
  <2>2. Update(id, again)
    BY <1>5 DEF restore
  <2> QED
    BY <2>1, <2>2, <1>3, UpdateHeld
<1> QED
  BY <1>4, <1>5

(* A drag or a resize: the bounds of a window that is not maximized.         *)
Placed(id, r) ==
  windows' = [i \in Open |-> IF i # id \/ windows[i].maximized THEN windows[i]
                             ELSE [windows[i] EXCEPT !.rect = r]]

LEMMA PlacedHeld ==
    ASSUME Held, viewport' = viewport, UNCHANGED <<focusedId, zCounter>>,
           NEW id, NEW r \in Rects, id \in Open /\ ~windows[id].maximized => Roomy(r),
           Placed(id, r)
    PROVE  Held'
<1>1. CASE id \in Open /\ ~windows[id].maximized
  <2> DEFINE w == [windows[id] EXCEPT !.rect = r]
  <2>1. Sound(id)
    BY <1>1 DEF Held
  <2>2. Changed(windows[id], w)
    BY <1>1, <2>1 DEF Changed, Sound, Windows, Bounded
  <2>3. Update(id, w)
    BY <1>1 DEF Placed, Update
  <2> QED
    BY <1>1, <2>2, <2>3, UpdateHeld DEF Held
<1>2. CASE ~(id \in Open /\ ~windows[id].maximized)
  <2>1. DOMAIN windows' = Open /\ Open' = Open
    BY DEF Placed, Open
  <2>2. \A i \in Open : windows'[i] = windows[i]
    BY <1>2 DEF Placed
  <2>3. maximizedRect' = maximizedRect
    BY DEF maximizedRect, fullscreenHeight
  <2>4. \A i \in Open : Sound(i)'
    BY <2>1, <2>2, <2>3 DEF Held, Sound, Layered, Bounded
  <2>5. \A i, j \in Open : Apart(i, j)'
    BY <2>2 DEF Held, Apart
  <2> QED
    BY <2>1, <2>4, <2>5 DEF Held
<1> QED
  BY <1>1, <1>2

LEMMA MoveHeld ==
    ASSUME Held, viewport' = viewport, NEW id, NEW x \in Int, NEW y \in Int, move(id, x, y)
    PROVE  Held'
<1> DEFINE r == Rect(clampPosition(x, y, 80), windows[id].rect)
<1>1. CASE id \in Open
  <2>1. Sound(id)
    BY <1>1 DEF Held
  <2>2. clampPosition(x, y, 80) \in [x : Int, y : Int]
    BY ClampReach DEF Held
  <2>3. r \in Rects /\ (~windows[id].maximized => Roomy(r))
    BY <2>1, <2>2 DEF Rect, Rects, Sound, Windows, Bounded, Roomy
  <2>4. Placed(id, r)
    BY DEF move, Placed
  <2> QED
    BY <2>3, <2>4, PlacedHeld DEF move
<1>2. CASE id \notin Open
  <2>1. Placed(id, maximizedRect)
    BY <1>2 DEF move, Placed
  <2>2. maximizedRect \in Rects
    BY ScreenRect DEF Held
  <2> QED
    BY <1>2, <2>1, <2>2, PlacedHeld DEF move
<1> QED
  BY <1>1, <1>2

LEMMA ResizeHeld ==
    ASSUME Held, viewport' = viewport, NEW id, NEW r \in Rects, resize(id, r)
    PROVE  Held'
<1> DEFINE size == [width |-> MaxOf(WINDOW_MIN_WIDTH, r.width),
                    height |-> MaxOf(WINDOW_MIN_HEIGHT, r.height)]
           place == Rect(clampPosition(r.x, r.y, size.width), size)
<1>1. size \in [width : Int, height : Int] /\ size.width >= 360 /\ size.height >= 220
  BY DEF Rects, MaxOf, WINDOW_MIN_WIDTH, WINDOW_MIN_HEIGHT
<1>2. clampPosition(r.x, r.y, size.width) \in [x : Int, y : Int]
  <2>1. r.x \in Int /\ r.y \in Int /\ size.width \in Int /\ size.width >= 80
    BY <1>1 DEF Rects
  <2> HIDE DEF size
  <2> QED
    BY <2>1, ClampReach DEF Held
<1>3. place \in Rects /\ Roomy(place)
  BY <1>1, <1>2 DEF Rect, Rects, Roomy, WINDOW_MIN_WIDTH, WINDOW_MIN_HEIGHT
<1>4. Placed(id, place)
  BY DEF resize, Placed
<1> QED
  BY <1>3, <1>4, PlacedHeld DEF resize

LEMMA ClearFocusHeld ==
    ASSUME Held, viewport' = viewport, clearFocus
    PROVE  Held'
BY DEF clearFocus, Held, Sound, Apart, Layered, Bounded, maximizedRect, fullscreenHeight, Open

LEMMA CloseHeld ==
    ASSUME Held, viewport' = viewport, NEW id \in Open, close(id)
    PROVE  Held'
<1>1. Open' = Open \ {id} /\ \A i \in Open' : windows'[i] = windows[i]
  BY DEF close, Open
<1>2. IsFiniteSet(Open')
  BY <1>1, FS_RemoveElement DEF Held
<1>3. focusedId' \in Open' \cup {None}
  BY <1>1, LastOpenedIn DEF close, Held
<1>4. maximizedRect' = maximizedRect
  BY DEF maximizedRect, fullscreenHeight
<1>5. \A i \in Open' : Sound(i)'
  BY <1>1, <1>4 DEF close, Held, Sound, Layered, Bounded
<1>6. \A i, j \in Open' : Apart(i, j)'
  BY <1>1 DEF Held, Apart
<1> QED
  BY <1>1, <1>2, <1>3, <1>5, <1>6 DEF Held, close

(* An id determines the app it was made for.                                 *)
LEMMA IdApp ==
    ASSUME NEW appId, NEW payload
    PROVE  windowId(appId, payload)[1] = appId
BY DEF windowId

LEMMA OpenHeld ==
    ASSUME Held, viewport' = viewport, NEW appId \in Apps, NEW payload \in Payloads,
           open(appId, payload)
    PROVE  Held'
<1> DEFINE id == windowId(appId, payload)
<1>1. focusedId' = id /\ zCounter' = nextZ
  BY DEF open
<1>2. nextZ \in Nat /\ nextZ = zCounter + 1 /\ zCounter \in Nat /\ zCounter >= 10
  BY DEF Held, nextZ
<1>3. CASE id \in Open
  <2> DEFINE w == [windows[id] EXCEPT !.minimized = FALSE, !.zIndex = nextZ,
                     !.payload = IF payload = None THEN @ ELSE payload]
             u == [windows[id] EXCEPT !.minimized = FALSE, !.zIndex = nextZ]
  <2>1. Sound(id)
    BY <1>3 DEF Held
  <2>2. w \in Windows /\ w.app = windows[id].app /\ w.at = windows[id].at /\ w.zIndex = nextZ
        /\ w.maximized = windows[id].maximized /\ w.rect = windows[id].rect
        /\ w.restoreBounds = windows[id].restoreBounds
        /\ w.payload = IF payload = None THEN windows[id].payload ELSE payload
    BY <2>1, <1>2 DEF Sound, Windows
  <2>3. windows[id].app = appId
    BY <2>1, IdApp DEF Sound
  <2>4. windowId(w.app, w.payload) = id
    BY <2>1, <2>2, <2>3 DEF Sound
  <2>5. Open' = Open /\ \A i \in Open : windows'[i] = IF i = id THEN w ELSE windows[i]
    BY <1>3 DEF open, Open
  <2>6. maximizedRect' = maximizedRect
    BY DEF maximizedRect, fullscreenHeight
  <2> HIDE DEF w, id
  <2>7. ASSUME NEW i \in Open PROVE Sound(i)'
    <3>1. Sound(i)
      BY DEF Held
    <3>2. Layered(windows[i])'
      BY <1>1, <1>2, <2>1, <2>2, <2>5, <3>1 DEF Sound, Layered, Windows
    <3>3. Bounded(windows[i])'
      BY <2>1, <2>2, <2>5, <2>6, <3>1 DEF Sound, Bounded
    <3> QED
      BY <2>2, <2>4, <2>5, <3>1, <3>2, <3>3 DEF Sound
  <2>8. ASSUME NEW i \in Open, NEW j \in Open PROVE Apart(i, j)'
    <3>1. Apart(i, j) /\ Apart(id, j) /\ Apart(i, id)
      BY <1>3 DEF Held
    <3>2. \A k \in Open : windows[k].zIndex # nextZ
      BY <1>2 DEF Held, Sound, Layered, Windows
    <3> QED
      BY <2>2, <2>5, <3>1, <3>2 DEF Apart
  <2> QED
    BY <1>1, <1>2, <1>3, <2>5, <2>7, <2>8 DEF Held
<1>4. CASE id \notin Open
  <2> DEFINE size == fitSize(Meta[appId])
             cascade == (Cardinality(Open) % 6) * 28
             place == Rect(clampPosition(64 + cascade, 20 + cascade, size.width), size)
             w == [app |-> appId, payload |-> payload, minimized |-> FALSE,
                   maximized |-> FALSE, restoreBounds |-> None, zIndex |-> nextZ,
                   at |-> nextZ, rect |-> place]
  <2>1. cascade \in Int
    BY FS_CardinalityType DEF Held
  <2>2. size \in [width : Int, height : Int] /\ Roomy(size)
    BY FitSizeRoomy DEF Held
  <2>3. size.width >= 80
    BY <2>2 DEF Roomy, WINDOW_MIN_WIDTH
  <2>4. clampPosition(64 + cascade, 20 + cascade, size.width) \in [x : Int, y : Int]
    <3>1. 64 + cascade \in Int /\ 20 + cascade \in Int /\ size.width \in Int
      BY <2>1, <2>2
    <3> HIDE DEF size, cascade
    <3> QED
      BY <2>3, <3>1, ClampReach DEF Held
  <2>5. place \in Rects /\ Roomy(place)
    BY <2>2, <2>4 DEF Rect, Rects, Roomy
  <2>6. /\ w \in Windows /\ w.app = appId /\ w.payload = payload /\ ~w.maximized
        /\ w.restoreBounds = None /\ Roomy(w.rect) /\ w.zIndex = nextZ /\ w.at = nextZ
    BY <1>2, <2>5 DEF Windows
  <2>7. Open' = Open \cup {id} /\ \A i \in Open' : windows'[i] = IF i = id THEN w ELSE windows[i]
    BY <1>4 DEF open, Open
  <2>8. IsFiniteSet(Open')
    BY <2>7, FS_AddElement DEF Held
  <2>9. maximizedRect' = maximizedRect
    BY DEF maximizedRect, fullscreenHeight
  <2>10. windowId(w.app, w.payload) = id
    BY <2>6
  <2> HIDE DEF w
  <2>11. ASSUME NEW i \in Open' PROVE Sound(i)'
    <3>1. CASE i = id
      <4>1. id \in Ids
        BY DEF Ids
      <4> QED
        BY <1>1, <1>2, <2>6, <2>7, <2>10, <3>1, <4>1 DEF Sound, Layered, Bounded
    <3>2. CASE i # id
      <4>1. i \in Open /\ Sound(i)
        BY <2>7, <3>2 DEF Held
      <4>2. Layered(windows[i])'
        BY <1>1, <1>2, <2>7, <3>2, <4>1 DEF Sound, Layered, Windows
      <4> QED
        BY <2>7, <2>9, <3>2, <4>1, <4>2 DEF Sound, Bounded
    <3> QED
      BY <3>1, <3>2
  <2>12. ASSUME NEW i \in Open', NEW j \in Open' PROVE Apart(i, j)'
    <3>1. \A k \in Open : windows[k].zIndex # nextZ /\ windows[k].at # nextZ
      BY <1>2 DEF Held, Sound, Layered, Windows
    <3>2. i \in Open /\ j \in Open => Apart(i, j)
      BY DEF Held
    <3> QED
      BY <2>6, <2>7, <3>1, <3>2 DEF Apart
  <2> QED
    BY <1>1, <1>2, <2>7, <2>8, <2>11, <2>12 DEF Held
<1> QED
  BY <1>3, <1>4

LEMMA ToggleDockHeld ==
    ASSUME Held, viewport' = viewport, NEW appId \in Apps, toggleDock(appId)
    PROVE  Held'
<1>1. CASE WindowsOf(appId) = {}
  <2>1. open(appId, None)
    BY <1>1 DEF toggleDock
  <2>2. None \in Payloads
    BY DEF Payloads
  <2> QED
    BY <2>1, <2>2, OpenHeld
<1>2. CASE WindowsOf(appId) # {}
  <2> DEFINE top == TopOf(WindowsOf(appId))
  <2>1. top \in Open
    BY <1>2, TopOfIn DEF WindowsOf
  <2>2. restore(top) \/ minimize(top) \/ focus(top)
    BY <1>2 DEF toggleDock
  <2> QED
    BY <2>1, <2>2, RestoreHeld, MinimizeHeld, FocusHeld
<1> QED
  BY <1>1, <1>2

LEMMA BrowserResizedHeld ==
    ASSUME Held, BrowserResized
    PROVE  Held'
<1>1. viewport' \in Viewports /\ syncMaximized /\ UNCHANGED <<focusedId, zCounter>>
  BY DEF BrowserResized
<1>2. Open' = Open
  BY <1>1 DEF syncMaximized, Open
<1>3. maximizedRect' = [x |-> 0, y |-> 0, width |-> viewport'.width,
                        height |-> MaxOf(320, viewport'.height - 32)]
  BY DEF maximizedRect, fullscreenHeight
<1>4. maximizedRect' \in Rects
  BY <1>1, <1>3, ViewportAssumption DEF Rects, MaxOf
<1>5. ASSUME NEW i \in Open PROVE Sound(i)' /\ windows'[i].zIndex = windows[i].zIndex
                                /\ windows'[i].at = windows[i].at
  <2>1. Sound(i)
    BY DEF Held
  <2>2. CASE windows[i].maximized
    <3>1. windows'[i] = [windows[i] EXCEPT !.rect = maximizedRect']
      BY <1>1, <1>3, <2>2 DEF syncMaximized
    <3>2. /\ windows'[i] \in Windows /\ windows'[i].rect = maximizedRect'
          /\ windows'[i].app = windows[i].app /\ windows'[i].payload = windows[i].payload
          /\ windows'[i].zIndex = windows[i].zIndex /\ windows'[i].at = windows[i].at
          /\ windows'[i].maximized /\ windows'[i].restoreBounds = windows[i].restoreBounds
      BY <1>4, <2>1, <2>2, <3>1 DEF Sound, Windows
    <3> QED
      BY <1>1, <2>1, <2>2, <3>2 DEF Sound, Layered, Bounded
  <2>3. CASE ~windows[i].maximized
    <3>1. windows'[i] = windows[i]
      BY <1>1, <2>3 DEF syncMaximized
    <3> QED
      BY <1>1, <2>1, <2>3, <3>1 DEF Sound, Layered, Bounded
  <2> QED
    BY <2>2, <2>3
<1>6. \A i, j \in Open : Apart(i, j)'
  BY <1>5 DEF Held, Apart
<1> QED
  BY <1>1, <1>2, <1>5, <1>6 DEF Held

(* ------------------------------------------------------------------------ *)
LEMMA InitWInv == Init => WInv
BY FS_EmptySet DEF Init, WInv, Held, Captured, Open

(* What a captured pointer asks for is a rectangle.                          *)
LEMMA PulledRect ==
    ASSUME NEW from \in Rects, NEW edge, NEW dx \in Int, NEW dy \in Int
    PROVE  Pulled(from, edge, dx, dy) \in Rects
BY DEF Pulled, Rects, WINDOW_MIN_WIDTH, WINDOW_MIN_HEIGHT

LEMMA NextHeld == ASSUME WInv, Next PROVE Held'
<1> USE DEF WInv
<1>1. CASE OpenWindow
  BY <1>1, OpenHeld DEF OpenWindow, Apps, Payloads
<1>2. CASE CloseButton
  BY <1>2, CloseHeld DEF CloseButton, Shown
<1>3. CASE CloseKey
  BY <1>3, CloseHeld DEF CloseKey, Held
<1>4. CASE MinimizeButton
  BY <1>4, MinimizeHeld DEF MinimizeButton, Shown
<1>5. CASE MaximizeButton
  BY <1>5, MaximizeHeld, RestoreHeld DEF MaximizeButton, Shown
<1>6. CASE PressWindow
  BY <1>6, FocusHeld DEF PressWindow, Shown
<1>7. CASE DockClick
  BY <1>7, ToggleDockHeld DEF DockClick
<1>8. CASE DesktopPress
  BY <1>8, ClearFocusHeld DEF DesktopPress
<1>9. CASE onHeaderPointerDown
  BY <1>9, FocusHeld DEF onHeaderPointerDown, Shown
<1>10. CASE onResizePointerDown
  BY <1>10, FocusHeld DEF onResizePointerDown, Shown
<1>11. CASE DragMove
  <2>1. PICK x \in Points, y \in Points : move(gesture.id, gesture.from.x + x, gesture.from.y + y)
    BY <1>11 DEF DragMove
  <2>2. gesture.from.x + x \in Int /\ gesture.from.y + y \in Int
    BY <1>11, PointAssumption DEF DragMove, Captured, Rects
  <2> QED
    BY <1>11, <2>1, <2>2, MoveHeld DEF DragMove
<1>12. CASE ResizeMove
  <2>1. PICK dx \in Points, dy \in Points :
          resize(gesture.id, Pulled(gesture.from, gesture.edge, dx, dy))
    BY <1>12 DEF ResizeMove
  <2>2. Pulled(gesture.from, gesture.edge, dx, dy) \in Rects
    BY <1>12, PointAssumption, PulledRect DEF ResizeMove, Captured
  <2> QED
    BY <1>12, <2>1, <2>2, ResizeHeld DEF ResizeMove
<1>13. CASE PointerUp
  BY <1>13 DEF PointerUp, Held, Sound, Apart, Layered, Bounded, maximizedRect, fullscreenHeight, Open
<1>14. CASE BrowserResized
  BY <1>14, BrowserResizedHeld
<1> QED
  BY <1>1, <1>2, <1>3, <1>4, <1>5, <1>6, <1>7, <1>8, <1>9, <1>10, <1>11, <1>12, <1>13, <1>14
  DEF Next

LEMMA NextCaptured == ASSUME WInv, Next PROVE Captured'
<1>1. CASE onHeaderPointerDown
  BY <1>1 DEF onHeaderPointerDown, WInv, Held, Captured, Sound, Shown, Windows
<1>2. CASE onResizePointerDown
  BY <1>2 DEF onResizePointerDown, WInv, Held, Captured, Sound, Shown, Windows
<1>3. CASE PointerUp
  BY <1>3 DEF PointerUp, Captured
<1>4. CASE gesture' = gesture
  BY <1>4 DEF WInv, Captured
<1> QED
  BY <1>1, <1>2, <1>3, <1>4
  DEF Next, OpenWindow, CloseButton, CloseKey, MinimizeButton, MaximizeButton, PressWindow,
      DockClick, DesktopPress, DragMove, ResizeMove, BrowserResized

LEMMA StutterWInv == ASSUME WInv, UNCHANGED vars PROVE WInv'
BY DEF vars, WInv, Held, Captured, Sound, Apart, Layered, Bounded, maximizedRect,
   fullscreenHeight, Open

(* The inductive invariant: in every reachable state every window has the id *)
(* its app and payload give, its own layer, and bounds of its kind.          *)
THEOREM WInvariance == Spec => []WInv
<1>1. Init => WInv
  BY InitWInv
<1>2. WInv /\ [Next]_vars => WInv'
  BY NextHeld, NextCaptured, StutterWInv DEF WInv
<1> QED
  BY <1>1, <1>2, PTL DEF Spec

(* What every dispatch of the window manager's reducer relies on holds.      *)
THEOREM WindowsInvariance == Spec => []WindowsInv
BY WInvariance, WInvImplies, PTL

(* ------------------------------------------------------------------------ *)
(* In front: shown, with a layer above every other window's.                 *)
InFront(id) ==
  /\ id \in Open /\ ~windows[id].minimized
  /\ \A i \in Open \ {id} : windows[i].zIndex < windows[id].zIndex

LEMMA RaisedInFront ==
    ASSUME Held, NEW id, Open' = Open \cup {id}, windows'[id].zIndex = nextZ,
           ~windows'[id].minimized, \A i \in Open \ {id} : windows'[i] = windows[i]
    PROVE  InFront(id)'
<1>1. \A i \in Open : windows[i].zIndex \in Nat /\ windows[i].zIndex < nextZ
  BY DEF Held, Sound, Layered, Windows, nextZ
<1> QED
  BY <1>1 DEF InFront

LEMMA OpenRaises ==
    ASSUME Held, NEW appId \in Apps, NEW payload \in Payloads, open(appId, payload)
    PROVE  InFront(focusedId)'
<1> DEFINE id == windowId(appId, payload)
<1>1. focusedId' = id /\ Open' = Open \cup {id} /\ \A i \in Open \ {id} : windows'[i] = windows[i]
  BY DEF open, Open
<1>2. CASE id \in Open
  <2>1. windows[id] \in Windows
    BY <1>2 DEF Held, Sound
  <2> QED
    BY <1>1, <1>2, <2>1, RaisedInFront DEF open, Windows
<1>3. CASE id \notin Open
  BY <1>1, <1>3, RaisedInFront DEF open
<1> QED
  BY <1>2, <1>3

LEMMA FocusInFront ==
    ASSUME Held, NEW id \in Open, focus(id)
    PROVE  InFront(focusedId)'
<1>1. windows[id] \in Windows
  BY DEF Held, Sound
<1>2. Open' = Open /\ \A i \in Open \ {id} : windows'[i] = windows[i]
  BY DEF focus, Update, Open
<1>3. windows'[id].zIndex = nextZ /\ ~windows'[id].minimized
  BY <1>1 DEF focus, Update, Windows
<1> QED
  BY <1>2, <1>3, RaisedInFront DEF focus

LEMMA MaximizeInFront ==
    ASSUME Held, NEW id \in Open, ~windows[id].maximized, maximize(id)
    PROVE  InFront(focusedId)'
<1>1. windows[id] \in Windows
  BY DEF Held, Sound
<1>2. Open' = Open /\ \A i \in Open \ {id} : windows'[i] = windows[i]
  BY DEF maximize, Update, Open
<1>3. windows'[id].zIndex = nextZ /\ ~windows'[id].minimized
  BY <1>1 DEF maximize, Update, Windows
<1> QED
  BY <1>2, <1>3, RaisedInFront DEF maximize

LEMMA RestoreInFront ==
    ASSUME Held, NEW id \in Open, restore(id)
    PROVE  InFront(focusedId)'
<1>1. windows[id] \in Windows
  BY DEF Held, Sound
<1>2. Open' = Open /\ \A i \in Open \ {id} : windows'[i] = windows[i]
  BY DEF restore, Update, Open
<1>3. windows'[id].zIndex = nextZ /\ ~windows'[id].minimized
  BY <1>1 DEF restore, Update, Windows
<1> QED
  BY <1>2, <1>3, RaisedInFront DEF restore

(* Nothing but a closing gives the focus to a window that is not in front.   *)
LEMMA NextRaises ==
    ASSUME WInv, Next, focusedId' # focusedId, focusedId' # None, Open \subseteq DOMAIN windows'
    PROVE  InFront(focusedId)'
<1> USE DEF WInv
<1>1. CASE OpenWindow
  BY <1>1, OpenRaises DEF OpenWindow, Apps, Payloads
<1>2. CASE CloseButton \/ CloseKey
  <2>1. PICK id \in Open : close(id)
    BY <1>2 DEF CloseButton, CloseKey, Shown, Held
  <2> QED
    BY <2>1 DEF close
<1>3. CASE MinimizeButton
  BY <1>3 DEF MinimizeButton, minimize
<1>4. CASE MaximizeButton
  BY <1>4, MaximizeInFront, RestoreInFront DEF MaximizeButton, Shown
<1>5. CASE PressWindow \/ onHeaderPointerDown \/ onResizePointerDown
  BY <1>5, FocusInFront DEF PressWindow, onHeaderPointerDown, onResizePointerDown, Shown
<1>6. CASE DockClick
  <2>1. PICK appId \in Apps : toggleDock(appId)
    BY <1>6 DEF DockClick
  <2>2. CASE WindowsOf(appId) = {}
    BY <2>1, <2>2, OpenRaises DEF toggleDock, Payloads
  <2>3. CASE WindowsOf(appId) # {}
    <3> DEFINE top == TopOf(WindowsOf(appId))
    <3>1. top \in Open
      BY <2>3, TopOfIn DEF WindowsOf
    <3>2. restore(top) \/ minimize(top) \/ focus(top)
      BY <2>1, <2>3 DEF toggleDock
    <3> QED
      BY <3>1, <3>2, RestoreInFront, FocusInFront DEF minimize
  <2> QED
    BY <2>2, <2>3
<1>7. CASE DesktopPress
  BY <1>7 DEF DesktopPress, clearFocus
<1>8. CASE DragMove \/ ResizeMove \/ PointerUp \/ BrowserResized
  BY <1>8 DEF DragMove, ResizeMove, PointerUp, BrowserResized, move, resize
<1> QED
  BY <1>1, <1>2, <1>3, <1>4, <1>5, <1>6, <1>7, <1>8 DEF Next

(* A window that gets the focus is in front of every other and shown, unless *)
(* a closing gave it the focus.                                              *)
THEOREM FocusInFrontAlways == Spec => FocusRaises
<1>1. WInv /\ [Next]_vars
        => [focusedId' # focusedId /\ focusedId' # None /\ Open \subseteq DOMAIN windows'
              => /\ ~windows'[focusedId'].minimized
                 /\ \A id \in DOMAIN windows' \ {focusedId'} :
                      windows'[id].zIndex < windows'[focusedId'].zIndex]_vars
  BY NextRaises DEF InFront, Open, vars
<1> QED
  BY <1>1, WInvariance, PTL DEF Spec, FocusRaises

(* ------------------------------------------------------------------------ *)
(* A step that changes the place of a window that stays unmaximized puts it  *)
(* within reach.                                                             *)
Reached(id) ==
  (/\ ~windows'[id].maximized
   /\ \/ id \notin Open
      \/ ~windows[id].maximized /\ windows'[id].rect # windows[id].rect)
  => Grabbable(windows'[id].rect)

LEMMA PlacedReached ==
    ASSUME Held, NEW id, NEW r, id \in Open => Grabbable(r), Placed(id, r),
           NEW i \in DOMAIN windows'
    PROVE  Reached(i)
<1>1. i \in Open /\ windows[i] \in Windows
  BY DEF Placed, Held, Sound
<1> QED
  BY <1>1 DEF Placed, Reached, Windows

LEMMA UpdateReached ==
    ASSUME Held, NEW id \in Open, NEW w, Update(id, w),
           ~windows[id].maximized => w.maximized \/ w.rect = windows[id].rect,
           NEW i \in DOMAIN windows'
    PROVE  Reached(i)
BY DEF Update, Reached, Open

LEMMA OpenReached ==
    ASSUME Held, NEW appId \in Apps, NEW payload, open(appId, payload), NEW i \in DOMAIN windows'
    PROVE  Reached(i)
<1> DEFINE id == windowId(appId, payload)
<1>1. CASE i # id
  BY <1>1 DEF open, Reached, Open
<1>2. CASE i = id /\ id \in Open
  <2>1. windows[id] \in Windows
    BY <1>2 DEF Held, Sound
  <2>2. windows'[id].rect = windows[id].rect /\ windows'[id].maximized = windows[id].maximized
    BY <1>2, <2>1 DEF open, Windows
  <2> QED
    BY <1>2, <2>2 DEF Reached
<1>3. CASE i = id /\ id \notin Open
  <2> DEFINE size == fitSize(Meta[appId])
             cascade == (Cardinality(Open) % 6) * 28
             pos == clampPosition(64 + cascade, 20 + cascade, size.width)
  <2>1. cascade \in Int
    BY FS_CardinalityType DEF Held
  <2>2. size \in [width : Int, height : Int] /\ Roomy(size)
    BY FitSizeRoomy DEF Held
  <2>3. 64 + cascade \in Int /\ 20 + cascade \in Int /\ size.width \in Int /\ size.width >= 80
    BY <2>1, <2>2 DEF Roomy, WINDOW_MIN_WIDTH
  <2>4. windows'[id].rect = Rect(pos, size)
    BY <1>3 DEF open
  <2> HIDE DEF size, cascade
  <2>5. /\ pos \in [x : Int, y : Int] /\ pos.x + size.width >= 88
        /\ pos.x <= MaxOf(8, viewport.width - 80) /\ pos.y \in 0..MaxOf(0, workHeight - 40)
    BY <2>3, ClampReach DEF Held
  <2> HIDE DEF pos
  <2> QED
    BY <1>3, <2>4, <2>5 DEF Reached, Grabbable, Rect
<1> QED
  BY <1>1, <1>2, <1>3

LEMMA RestoreReached ==
    ASSUME Held, NEW id \in Open, restore(id), NEW i \in DOMAIN windows'
    PROVE  Reached(i)
<1>1. windows[id] \in Windows
  BY DEF Held, Sound
<1>2. CASE windows[id].maximized
  BY <1>2 DEF restore, Update, Reached, Open
<1>3. CASE ~windows[id].maximized
  <2>1. Update(id, [windows[id] EXCEPT !.minimized = FALSE, !.zIndex = nextZ])
    BY <1>3 DEF restore
  <2>2. windows'[id].rect = windows[id].rect
    BY <1>1, <2>1 DEF Update, Windows
  <2> QED
    BY <2>1, <2>2 DEF Update, Reached, Open
<1> QED
  BY <1>2, <1>3

LEMMA FocusReached ==
    ASSUME Held, NEW id \in Open, focus(id) \/ minimize(id), NEW i \in DOMAIN windows'
    PROVE  Reached(i)
<1>1. windows[id] \in Windows
  BY DEF Held, Sound
<1>2. windows'[id].rect = windows[id].rect
  BY <1>1 DEF focus, minimize, Update, Windows
<1> QED
  BY <1>2 DEF focus, minimize, Update, Reached, Open

LEMMA MaximizeReached ==
    ASSUME Held, NEW id \in Open, ~windows[id].maximized, maximize(id), NEW i \in DOMAIN windows'
    PROVE  Reached(i)
<1>1. windows[id] \in Windows
  BY DEF Held, Sound
<1>2. windows'[id].maximized
  BY <1>1 DEF maximize, Update, Windows
<1> QED
  BY <1>2 DEF maximize, Update, Reached, Open

LEMMA MoveReached ==
    ASSUME Held, NEW id, NEW x \in Int, NEW y \in Int, move(id, x, y), NEW i \in DOMAIN windows'
    PROVE  Reached(i)
<1> DEFINE pos == clampPosition(x, y, 80)
           r == Rect(pos, windows[id].rect)
<1>1. CASE id \in Open /\ ~windows[id].maximized
  <2>1. windows[id].rect \in Rects /\ Roomy(windows[id].rect)
    BY <1>1 DEF Held, Sound, Bounded, Windows
  <2>2. /\ pos \in [x : Int, y : Int] /\ pos.x + 80 >= 88
        /\ pos.x <= MaxOf(8, viewport.width - 80) /\ pos.y \in 0..MaxOf(0, workHeight - 40)
    BY ClampReach DEF Held
  <2>3. Placed(id, r)
    BY DEF move, Placed
  <2> HIDE DEF pos
  <2>4. Grabbable(r)
    BY <2>1, <2>2 DEF Grabbable, Rect, Rects, Roomy, WINDOW_MIN_WIDTH
  <2> QED
    BY <2>3, <2>4, PlacedReached
<1>2. CASE ~(id \in Open /\ ~windows[id].maximized)
  BY <1>2 DEF move, Reached, Open
<1> QED
  BY <1>1, <1>2

LEMMA ResizeReached ==
    ASSUME Held, NEW id, NEW r \in Rects, resize(id, r), NEW i \in DOMAIN windows'
    PROVE  Reached(i)
<1> DEFINE size == [width |-> MaxOf(WINDOW_MIN_WIDTH, r.width),
                    height |-> MaxOf(WINDOW_MIN_HEIGHT, r.height)]
           pos == clampPosition(r.x, r.y, size.width)
<1>1. r.x \in Int /\ r.y \in Int /\ size.width \in Int /\ size.width >= 80
  BY DEF Rects, MaxOf, WINDOW_MIN_WIDTH
<1>2. Placed(id, Rect(pos, size))
  BY DEF resize, Placed
<1> HIDE DEF size
<1>3. /\ pos \in [x : Int, y : Int] /\ pos.x + size.width >= 88
      /\ pos.x <= MaxOf(8, viewport.width - 80) /\ pos.y \in 0..MaxOf(0, workHeight - 40)
  BY <1>1, ClampReach DEF Held
<1> HIDE DEF pos
<1>4. Grabbable(Rect(pos, size))
  BY <1>3 DEF Grabbable, Rect
<1> QED
  BY <1>2, <1>4, PlacedReached

LEMMA NextReached == ASSUME WInv, Next, NEW i \in DOMAIN windows' PROVE Reached(i)
<1> USE DEF WInv
<1>1. CASE OpenWindow
  BY <1>1, OpenReached DEF OpenWindow, Apps
<1>2. CASE CloseButton \/ CloseKey
  BY <1>2 DEF CloseButton, CloseKey, close, Reached, Open
<1>3. CASE MinimizeButton
  BY <1>3, FocusReached DEF MinimizeButton, Shown
<1>4. CASE MaximizeButton
  BY <1>4, MaximizeReached, RestoreReached DEF MaximizeButton, Shown
<1>5. CASE PressWindow \/ onHeaderPointerDown \/ onResizePointerDown
  BY <1>5, FocusReached DEF PressWindow, onHeaderPointerDown, onResizePointerDown, Shown
<1>6. CASE DockClick
  <2>1. PICK appId \in Apps : toggleDock(appId)
    BY <1>6 DEF DockClick
  <2>2. CASE WindowsOf(appId) = {}
    BY <2>1, <2>2, OpenReached DEF toggleDock
  <2>3. CASE WindowsOf(appId) # {}
    <3> DEFINE top == TopOf(WindowsOf(appId))
    <3>1. top \in Open
      BY <2>3, TopOfIn DEF WindowsOf
    <3>2. restore(top) \/ minimize(top) \/ focus(top)
      BY <2>1, <2>3 DEF toggleDock
    <3> QED
      BY <3>1, <3>2, RestoreReached, FocusReached
  <2> QED
    BY <2>2, <2>3
<1>7. CASE DesktopPress \/ PointerUp
  BY <1>7 DEF DesktopPress, PointerUp, clearFocus, Reached, Open
<1>8. CASE DragMove
  <2>1. PICK x \in Points, y \in Points : move(gesture.id, gesture.from.x + x, gesture.from.y + y)
    BY <1>8 DEF DragMove
  <2>2. gesture.from.x + x \in Int /\ gesture.from.y + y \in Int
    BY <1>8, PointAssumption DEF DragMove, Captured, Rects
  <2> QED
    BY <2>1, <2>2, MoveReached
<1>9. CASE ResizeMove
  <2>1. PICK dx \in Points, dy \in Points :
          resize(gesture.id, Pulled(gesture.from, gesture.edge, dx, dy))
    BY <1>9 DEF ResizeMove
  <2>2. Pulled(gesture.from, gesture.edge, dx, dy) \in Rects
    BY <1>9, PointAssumption, PulledRect DEF ResizeMove, Captured
  <2> QED
    BY <2>1, <2>2, ResizeReached
<1>10. CASE BrowserResized
  <2>1. syncMaximized
    BY <1>10 DEF BrowserResized
  <2>2. windows[i] \in Windows
    BY <2>1 DEF syncMaximized, Held, Sound
  <2> QED
    BY <2>1, <2>2 DEF syncMaximized, Reached, Open, Windows
<1> QED
  BY <1>1, <1>2, <1>3, <1>4, <1>5, <1>6, <1>7, <1>8, <1>9, <1>10 DEF Next

(* No drag, resize or opening puts a title bar out of reach, for any sizes of *)
(* the browser window and any movements.                                     *)
THEOREM TitleBarsWithinReach == Spec => WithinReach
<1>1. WInv /\ [Next]_vars
        => [\A id \in DOMAIN windows' :
              (/\ ~windows'[id].maximized
               /\ \/ id \notin Open
                  \/ ~windows[id].maximized /\ windows'[id].rect # windows[id].rect)
              => Grabbable(windows'[id].rect)]_vars
  BY NextReached DEF Reached, vars
<1> QED
  BY <1>1, WInvariance, PTL DEF Spec, WithinReach

-----------------------------------------------------------------------------
(* The server process behind the desktop.                                     *)

ShellInv == HeldIffReady /\ ChildOwned /\ DownIsDown /\ StartUndisturbed

USE DEF Status, RuntimeConfig, Live, Down, NoConfig, Failed

\* A step of a view leaves the shell as it is.
LEMMA ShellKept == ASSUME ShellInv, UNCHANGED shellVars PROVE ShellInv'
  BY DEF ShellInv, shellVars, HeldIffReady, ChildOwned, DownIsDown, StartUndisturbed

LEMMA StartInv == ASSUME DesktopInv, Start PROVE DesktopInv'
<1> USE DEF DesktopInv, viewVars, StarterAt, Starter, DesktopTypeOK, HeldIffReady, ChildOwned,
            DownIsDown, StartUndisturbed
<1>1. CASE Begin
  BY <1>1 DEF Begin
<1>2. CASE PrepareFails
  BY <1>2 DEF PrepareFails
<1>3. CASE Spawn
  BY <1>3 DEF Spawn
<1>4. CASE Publish
  BY <1>4 DEF Publish
<1>5. CASE HealthOk
  BY <1>5 DEF HealthOk
<1>6. CASE HealthFails
  BY <1>6 DEF HealthFails
<1>7. CASE Kill
  BY <1>7 DEF Kill, AfterKill
<1>8. CASE StoreReady
  BY <1>8 DEF StoreReady
<1>9. CASE StoreFailed
  BY <1>9 DEF StoreFailed
<1>10. CASE SpawnWatcher
  BY <1>10 DEF SpawnWatcher, NewWatcher
<1> QED
  BY <1>1, <1>2, <1>3, <1>4, <1>5, <1>6, <1>7, <1>8, <1>9, <1>10 DEF Start

LEMMA WatchInv == ASSUME DesktopInv, Watch PROVE DesktopInv'
<1> USE DEF DesktopInv, viewVars, Watching, Starter, DesktopTypeOK, HeldIffReady, ChildOwned,
            DownIsDown, StartUndisturbed
<1>1. CASE WatchTaken
  BY <1>1 DEF WatchTaken
<1>2. CASE WatchExited
  BY <1>2 DEF WatchExited, TokenAfterExit
<1>3. CASE WatchFails
  BY <1>3 DEF WatchFails
<1> QED
  BY <1>1, <1>2, <1>3 DEF Watch

\* An exit may find the manager in any state: only a held child is killed,
\* and only a ready status becomes stopped.
LEMMA ExitInv ==
    ASSUME DesktopInv, ExitRequested \/ Exit \/ Leave \/ Boots \/ Dies
    PROVE  DesktopInv'
<1> USE DEF DesktopInv, viewVars, Starter, DesktopTypeOK, HeldIffReady, ChildOwned,
            DownIsDown, StartUndisturbed
<1>1. CASE ExitRequested
  BY <1>1 DEF ExitRequested, Stop, StatusAfterStop
<1>2. CASE Exit
  BY <1>2 DEF Exit, Stop, StatusAfterStop
<1>3. CASE Leave
  BY <1>3 DEF Leave
<1>4. CASE Boots
  BY <1>4 DEF Boots
<1>5. CASE Dies
  BY <1>5 DEF Dies
<1> QED
  BY <1>1, <1>2, <1>3, <1>4, <1>5

Phase == {"none", "checking", "ready", "failed", "unmounted"}
Turn == {"idle", "boot", "booting", "watch", "watching"}

\* What the parts of a view's step do to the types of its variables.
LEMMA ShowType ==
    ASSUME DesktopTypeOK, NEW v \in Views, NEW p \in Phase, Show(v, p)
    PROVE  phase' \in [Views -> Phase]
  BY DEF DesktopTypeOK, Show, Phase

LEMMA GotoType ==
    ASSUME DesktopTypeOK, NEW v \in Views, NEW there \in Turn, Goto(v, there)
    PROVE  loop' \in [Views -> Turn]
  BY DEF DesktopTypeOK, Goto, Turn

LEMMA ReadType ==
    ASSUME DesktopTypeOK, NEW v \in Views, Read(v)
    PROVE  answer' \in [Views -> RuntimeConfig] /\ UNCHANGED <<shellVars, phase, late, injected>>
<1>1. [status |-> status, token |-> token] \in RuntimeConfig
  BY DEF DesktopTypeOK
<1> HIDE DEF RuntimeConfig
<1> QED
  BY <1>1 DEF DesktopTypeOK, Read

LEMMA ForgetType ==
    ASSUME DesktopTypeOK, NEW v \in Views, Forget(v)
    PROVE  answer' \in [Views -> RuntimeConfig] /\ late' \in [Views -> BOOLEAN]
<1>1. NoConfig \in RuntimeConfig
  OBVIOUS
<1> HIDE DEF RuntimeConfig, NoConfig
<1> QED
  BY <1>1 DEF DesktopTypeOK, Forget

LEMMA AnswerType ==
    ASSUME DesktopTypeOK, NEW v \in Views
    PROVE  Validated(answer[v]).token \in BOOLEAN /\ Synced(answer[v]) \in BOOLEAN
<1>1. answer[v] \in RuntimeConfig
  BY DEF DesktopTypeOK
<1> QED
  BY <1>1 DEF Validated, Synced, Ends

ViewTypes ==
    /\ phase' \in [Views -> Phase]
    /\ loop' \in [Views -> Turn]
    /\ answer' \in [Views -> RuntimeConfig]
    /\ late' \in [Views -> BOOLEAN]
    /\ injected' \in BOOLEAN

LEMMA BootFailsType ==
    ASSUME DesktopTypeOK, NEW v \in Views, NEW c, c.token \in BOOLEAN, BootFails(v, c)
    PROVE  ViewTypes
<1>1. "failed" \in Phase /\ "idle" \in Turn
  BY DEF Phase, Turn
<1> HIDE DEF RuntimeConfig, NoConfig
<1> QED
  BY <1>1, ShowType, GotoType, ForgetType DEF BootFails, ViewTypes

LEMMA ViewInv ==
    ASSUME DesktopInv, NEW v \in Views, Mount(v) \/ Unmount(v) \/ Late(v) \/ Loop(v)
    PROVE  DesktopInv'
<1> USE DEF DesktopInv
<1>1. UNCHANGED shellVars
  BY DEF Mount, Unmount, Late, Loop, BootAsk, BootTimesOut, BootIpcFails, BootAnswer, BootFails,
         WatchAsk, WatchIpcFails, WatchAnswer, WatchAborted, Read
<1>2. ViewTypes
  <2> HIDE DEF RuntimeConfig, NoConfig, Failed
  <2>0. /\ phase \in [Views -> Phase] /\ loop \in [Views -> Turn]
        /\ answer \in [Views -> RuntimeConfig] /\ late \in [Views -> BOOLEAN]
        /\ injected \in BOOLEAN
        /\ {"checking", "ready", "failed", "unmounted"} \subseteq Phase
        /\ {"idle", "boot", "booting", "watch", "watching"} \subseteq Turn
    BY DEF DesktopTypeOK, Phase, Turn
  <2> USE <2>0 DEF ViewTypes
  <2>1. CASE Mount(v)
    BY <2>1 DEF Mount
  <2>2. CASE Unmount(v)
    BY <2>2 DEF Unmount
  <2>3. CASE Late(v)
    BY <2>3 DEF Late
  <2>4. CASE BootAsk(v)
    BY <2>4, GotoType, ReadType DEF BootAsk
  <2>5. CASE BootTimesOut(v) \/ BootIpcFails(v)
    <3>1. Failed.token \in BOOLEAN
      BY DEF Failed
    <3> QED
      BY <2>5, <3>1, BootFailsType DEF BootTimesOut, BootIpcFails
  <2>6. CASE BootAnswer(v)
    <3> DEFINE config == Validated(answer[v])
    <3>1. config.token \in BOOLEAN
      BY AnswerType
    <3>2. CASE BootFails(v, config)
      BY <3>1, <3>2, BootFailsType
    <3>3. CASE /\ injected' = config.token
               /\ Show(v, "ready")
               /\ Goto(v, IF Mounted(v) THEN "watch" ELSE "idle")
               /\ Forget(v)
      <4>1. (IF Mounted(v) THEN "watch" ELSE "idle") \in Turn
        OBVIOUS
      <4> QED
        BY <3>1, <3>3, <4>1, ShowType, GotoType, ForgetType
    <3>4. CASE /\ injected' = config.token
               /\ Goto(v, "boot")
               /\ answer' = [answer EXCEPT ![v] = NoConfig]
               /\ UNCHANGED <<phase, late>>
      <4>1. NoConfig \in RuntimeConfig
        BY DEF NoConfig, RuntimeConfig
      <4> QED
        BY <3>1, <3>4, <4>1, GotoType
    <3> QED
      BY <2>6, <3>2, <3>3, <3>4 DEF BootAnswer
  <2>7. CASE WatchAsk(v)
    BY <2>7, GotoType, ReadType DEF WatchAsk
  <2>8. CASE WatchIpcFails(v)
    BY <2>8, ShowType, GotoType DEF WatchIpcFails
  <2>9. CASE WatchAnswer(v)
    BY <2>9, AnswerType, ShowType, GotoType, ForgetType DEF WatchAnswer
  <2>10. CASE WatchAborted(v)
    BY <2>10, GotoType DEF WatchAborted
  <2> QED
    BY <2>1, <2>2, <2>3, <2>4, <2>5, <2>6, <2>7, <2>8, <2>9, <2>10 DEF Loop
<1>3. DesktopTypeOK'
  BY <1>1, <1>2 DEF DesktopTypeOK, ViewTypes, shellVars, Phase, Turn
<1> QED
  BY <1>1, <1>3, ShellKept DEF ShellInv

-----------------------------------------------------------------------------
LEMMA DesktopStarts == ASSUME DesktopInit PROVE DesktopInv
<1>1. NoConfig \in RuntimeConfig
  OBVIOUS
<1>2. DesktopTypeOK
  <2> HIDE DEF RuntimeConfig, NoConfig
  <2> QED
    BY <1>1 DEF DesktopInit, DesktopTypeOK, Starter
<1>3. ShellInv
  BY DEF DesktopInit, ShellInv, HeldIffReady, ChildOwned, DownIsDown, StartUndisturbed
<1> QED
  BY <1>2, <1>3 DEF DesktopInv, ShellInv

LEMMA DesktopStep == DesktopInv /\ [DesktopNext]_desktopVars => DesktopInv'
<1> SUFFICES ASSUME DesktopInv, [DesktopNext]_desktopVars PROVE DesktopInv'
  OBVIOUS
<1>1. CASE Start
  BY <1>1, StartInv
<1>2. CASE Watch
  BY <1>2, WatchInv
<1>3. CASE ExitRequested \/ Exit \/ Leave \/ Boots \/ Dies
  BY <1>3, ExitInv
<1>4. CASE \E v \in Views : Mount(v) \/ Unmount(v) \/ Late(v) \/ Loop(v)
  BY <1>4, ViewInv
<1>5. CASE UNCHANGED desktopVars
  BY <1>5 DEF desktopVars, DesktopInv, DesktopTypeOK, HeldIffReady, ChildOwned, DownIsDown,
     StartUndisturbed
<1> QED
  BY <1>1, <1>2, <1>3, <1>4, <1>5 DEF DesktopNext

\* The inductive invariant of the desktop shell and its page.
THEOREM DesktopInvariance == DesktopSpec => []DesktopInv
  BY DesktopStarts, DesktopStep, PTL DEF DesktopSpec

\* The manager holds the child exactly while it reports it as ready.
THEOREM HeldWhileReady == DesktopSpec => []HeldIffReady
<1>1. DesktopInv => HeldIffReady
  BY DEF DesktopInv
<1> QED
  BY DesktopInvariance, <1>1, PTL

\* A running child is always in some thread's hands.
THEOREM ChildrenOwned == DesktopSpec => []ChildOwned
<1>1. DesktopInv => ChildOwned
  BY DEF DesktopInv
<1> QED
  BY DesktopInvariance, <1>1, PTL

\* A backend that is reported as down is dead and its token is forgotten.
THEOREM DownAndForgotten == DesktopSpec => []DownIsDown
<1>1. DesktopInv => DownIsDown
  BY DEF DesktopInv
<1> QED
  BY DesktopInvariance, <1>1, PTL

\* Nothing brings back a backend that was reported as down: a start that is
\* still under way has the status of a start.
THEOREM DownStays == DesktopSpec => DownForGood
<1>1. DesktopInv /\ [DesktopNext]_desktopVars => [(status \in Down) => (status' \in Down)]_desktopVars
  <2> SUFFICES ASSUME DesktopInv, DesktopNext, status \in Down PROVE status' \in Down
    BY DEF desktopVars
  <2> USE DEF DesktopInv, StartUndisturbed, shellVars
  <2>1. CASE Start
    BY <2>1 DEF Start, StarterAt, Begin, PrepareFails, Spawn, Publish, HealthOk, HealthFails, Kill,
                StoreReady, StoreFailed, SpawnWatcher, HeldIffReady, ChildOwned
  <2>2. CASE Watch
    BY <2>2 DEF Watch, WatchTaken, WatchExited, WatchFails
  <2>3. CASE ExitRequested \/ Exit \/ Leave \/ Boots \/ Dies
    BY <2>3 DEF ExitRequested, Exit, Leave, Boots, Dies, Stop, StatusAfterStop
  <2>4. CASE \E v \in Views : Mount(v) \/ Unmount(v) \/ Late(v) \/ Loop(v)
    BY <2>4 DEF Mount, Unmount, Late, Loop, BootAsk, BootTimesOut, BootIpcFails, BootAnswer,
                BootFails, WatchAsk, WatchIpcFails, WatchAnswer, WatchAborted, Read
  <2> QED
    BY <2>1, <2>2, <2>3, <2>4 DEF DesktopNext
<1> QED
  BY <1>1, DesktopInvariance, PTL DEF DesktopSpec, DownForGood

-----------------------------------------------------------------------------
(* The System Monitor.  A server is asked once in a tick, so that what is asked *)
(* of it is answered in the order of asking, unless a Refresh comes between;  *)
(* histories are merged from ordered ones; and sums are compared part by part. *)

(* The types.                                                                 *)
Snap == [at : Nat, up : BOOLEAN]
PollCall == [id : AllServers, sample : Snap \cup {None}, live : BOOLEAN]
Pull == [id : AllServers, sample : Snap \cup {None}]
Point == [t : Int, at : Nat, own : BOOLEAN]

(* No point is of a time to come, by the clock that dates it.                 *)
Dated(p) == p.at <= now /\ p.t <= now + (IF p.own THEN Skew ELSE 0)

InTurn(h) == \A i, j \in DOMAIN h : i < j => Follows(h[i], h[j])

Past(h) ==
    /\ h \in Seq(Point) /\ InTurn(h) /\ Len(h) <= MaxPoints
    /\ \A i \in DOMAIN h : Dated(h[i])

SamplesTyped ==
    /\ live \in [AllServers -> Snap \cup {None}]
    /\ \A s \in AllServers : live[s] # None => live[s].at <= now
    /\ history \in [AllServers -> Seq(Point)] /\ \A s \in AllServers : Past(history[s])

CallsTyped ==
    /\ calls \subseteq PollCall /\ pulls \subseteq Pull
    /\ \A c \in calls \cup pulls : c.sample # None => c.sample.at <= now

MonitorTyped ==
    /\ listed \subseteq AllServers /\ now \in 0..MaxTime /\ since \in [AllServers -> Nat]
    /\ SamplesTyped /\ CallsTyped
    /\ effectKey \in Seq(AllServers) /\ queue \in Seq(AllServers)

(* A server is asked once in a tick, and one tick counts at a time.           *)
AskedOnce ==
    /\ \A c, d \in calls : c.live /\ d.live /\ c.id = d.id => c = d
    /\ \A c \in calls : c.live => c.id \notin Of(queue)
    /\ OnceEach(queue) /\ OnceEach(effectKey)
    /\ timer => Mine = {}

(* No answer on its way is older than what is shown.                          *)
NotOvertaken ==
    ~refreshed =>
      /\ pulls = {}
      /\ \A c \in calls :
           c.live /\ c.sample # None /\ live[c.id] # None => live[c.id].at <= c.sample.at

PollingInv == MonitorTyped /\ AskedOnce /\ NotOvertaken

(* What the tabs are doing is done to a server shown.                          *)
Tabs == {"overview", "processes", "services"}
Deed == [srv : AllServers, shown : AllServers, what : Tabs, here : BOOLEAN]
ActingTyped == tab \in Tabs /\ acting \subseteq Deed

MonitorIInv == PollingInv /\ ActingTyped

-----------------------------------------------------------------------------
(* The servers shown, each once.                                              *)
LEMMA ShownOnce ==
    ASSUME MonitorTyped
    PROVE  /\ catalog \in Seq(AllServers) /\ OnceEach(catalog)
           /\ visible \in Seq(AllServers) /\ OnceEach(visible)
           /\ pollIds \in Seq(AllServers) /\ OnceEach(pollIds)
<1> DEFINE bound == IF Bound # None /\ Bound \notin listed THEN <<Bound>> ELSE <<>>
           order == Keep(Order, listed)
<1>1. order \in Seq(AllServers) /\ OnceEach(order) /\ Of(order) \subseteq listed
  <2>1. Order \in Seq(AllServers) /\ OnceEach(Order)
    BY MonitorAssumption DEF OnceEach
  <2> QED
    BY <2>1, Keeps
<1>2. bound \in Seq(AllServers) /\ OnceEach(bound) /\ Of(bound) \cap listed = {}
  <2>1. CASE Bound # None /\ Bound \notin listed
    <3>1. Bound \in AllServers /\ bound = <<Bound>>
      BY <2>1, MonitorAssumption
    <3>2. <<Bound>> \in Seq(AllServers) /\ OnceEach(<<Bound>>) /\ Of(<<Bound>>) = {Bound}
      BY <3>1 DEF OnceEach, Of
    <3> QED
      BY <2>1, <3>1, <3>2
  <2>2. CASE ~(Bound # None /\ Bound \notin listed)
    <3>1. bound = <<>>
      BY <2>2
    <3>2. <<>> \in Seq(AllServers) /\ OnceEach(<<>>) /\ Of(<<>>) = {}
      BY EmptySeq DEF OnceEach, Of
    <3> QED
      BY <3>1, <3>2
  <2> QED
    BY <2>1, <2>2
<1>3. catalog = bound \o order
  BY DEF catalog
<1> HIDE DEF bound, order
<1>4. catalog \in Seq(AllServers) /\ OnceEach(catalog)
  <2>1. Of(bound) \cap Of(order) = {}
    BY <1>1, <1>2
  <2> QED
    BY <1>1, <1>2, <1>3, <2>1, Joins
<1>5. visible \in Seq(AllServers) /\ OnceEach(visible)
  <2>1. Keep(catalog, picked) \in Seq(AllServers) /\ OnceEach(Keep(catalog, picked))
    BY <1>4, Keeps
  <2> QED
    BY <1>4, <2>1 DEF visible
<1>6. pollIds \in Seq(AllServers) /\ OnceEach(pollIds)
  BY <1>5, Keeps DEF pollIds
<1> QED
  BY <1>4, <1>5, <1>6

-----------------------------------------------------------------------------
(* Histories.                                                                 *)
LEMMA LatestPast ==
    ASSUME NEW T, NEW s \in Seq(T), InTurn(s), NEW n \in Nat \ {0}
    PROVE  /\ Latest(s, n) \in Seq(T) /\ InTurn(Latest(s, n)) /\ Len(Latest(s, n)) <= n
           /\ \A i \in DOMAIN Latest(s, n) : \E j \in DOMAIN s : Latest(s, n)[i] = s[j]
<1> DEFINE from == IF Len(s) > n THEN Len(s) - n + 1 ELSE 1
           l == SubSeq(s, from, Len(s))
<1>1. Len(s) \in Nat /\ DOMAIN s = 1..Len(s) /\ from \in Nat /\ from >= 1 /\ from <= Len(s) + 1
      /\ Len(s) - from + 1 <= n
  OBVIOUS
<1>2. Latest(s, n) = l
  BY DEF Latest
<1> HIDE DEF from
<1>3. l \in Seq(T) /\ Len(l) = Len(s) - from + 1 /\ \A i \in 1..(Len(s) - from + 1) : l[i] = s[from + i - 1]
  BY <1>1
<1> HIDE DEF l
<1>4. \A i \in 1..(Len(s) - from + 1) : from + i - 1 \in 1..Len(s)
  BY <1>1
<1>5. DOMAIN l = 1..(Len(s) - from + 1)
  BY <1>3
<1>6. InTurn(l)
  <2> SUFFICES ASSUME NEW i \in DOMAIN l, NEW j \in DOMAIN l, i < j PROVE Follows(l[i], l[j])
    BY DEF InTurn
  <2> DEFINE a == from + i - 1
             b == from + j - 1
  <2>1. a \in DOMAIN s /\ b \in DOMAIN s /\ a < b /\ l[i] = s[a] /\ l[j] = s[b]
    BY <1>1, <1>3, <1>4, <1>5
  <2> HIDE DEF a, b
  <2> QED
    BY <2>1 DEF InTurn
<1> QED
  BY <1>1, <1>2, <1>3, <1>4, <1>5, <1>6

(* A point that follows all others at the end.                                 *)
LEMMA LaterLast ==
    ASSUME NEW s \in Seq(Point), InTurn(s), NEW live_ \in Point,
           \A i \in DOMAIN s : Follows(s[i], live_)
    PROVE  Append(s, live_) \in Seq(Point) /\ InTurn(Append(s, live_))
<1> DEFINE long == Append(s, live_)
<1>1. Len(s) \in Nat /\ DOMAIN s = 1..Len(s)
  OBVIOUS
<1>2. long \in Seq(Point) /\ Len(long) = Len(s) + 1 /\ long[Len(s) + 1] = live_
      /\ \A i \in 1..Len(s) : long[i] = s[i]
  BY AppendProperties
<1> HIDE DEF long
<1>3. DOMAIN long = 1..(Len(s) + 1)
  BY <1>2
<1>4. InTurn(long)
  <2> SUFFICES ASSUME NEW i \in DOMAIN long, NEW j \in DOMAIN long, i < j PROVE Follows(long[i], long[j])
    BY DEF InTurn
  <2>1. i \in 1..Len(s) /\ (j = Len(s) + 1 \/ j \in 1..Len(s))
    BY <1>1, <1>3
  <2>2. CASE j = Len(s) + 1
    BY <1>1, <1>2, <2>1, <2>2
  <2>3. CASE j \in 1..Len(s)
    BY <1>1, <1>2, <2>1, <2>3 DEF InTurn
  <2> QED
    BY <2>1, <2>2, <2>3
<1> QED
  BY <1>2, <1>4 DEF long

(* The window's own point of this moment follows the last one, unless that is   *)
(* so near that it goes, and with it all others.                               *)
IsNear(t, to) == to - Near < t /\ t < to + Near

LEMMA LiveFollows ==
    ASSUME MonitorTyped, NEW p \in Point, NEW q \in Point, NEW live_ \in Point, Dated(p), Dated(q),
           live_.own, live_.t = now + Skew, Follows(p, q) \/ (p = q /\ ~IsNear(q.t, live_.t))
    PROVE  Follows(p, live_)
<1> DEFINE t == p.t
           u == q.t
           clock == live_.t
<1>1. /\ t \in Int /\ u \in Int /\ clock \in Int /\ now \in Int /\ Skew \in Int /\ Near \in Nat \ {0}
      /\ p.own \in BOOLEAN /\ q.own \in BOOLEAN
  BY MonitorAssumption DEF MonitorTyped, Point
<1>2. /\ t <= now + (IF p.own THEN Skew ELSE 0) /\ u <= now + (IF q.own THEN Skew ELSE 0)
      /\ clock = now + Skew
  BY DEF Dated
<1>3. CASE Follows(p, q)
  <2>1. /\ p.own => q.own
        /\ p.own = q.own => t < u
        /\ p.own => t + Near <= u
        /\ ~p.own /\ q.own => (Skew = 0 => t < u)
    BY <1>3 DEF Follows, Before
  <2> HIDE DEF t, u, clock
  <2>2. (p.own => t + Near <= clock) /\ (~p.own => t + Skew <= clock /\ (Skew = 0 => t < clock))
    BY <1>1, <1>2, <2>1
  <2>3. p.own => t < clock
    BY <1>1, <2>2
  <2> QED
    BY <2>2, <2>3 DEF Follows, Before, t, clock
<1>4. CASE p = q /\ ~IsNear(q.t, live_.t)
  <2>1. u <= clock - Near \/ clock + Near <= u
    BY <1>1, <1>4 DEF IsNear
  <2>2. t = u
    BY <1>4
  <2> HIDE DEF t, u, clock
  <2>3. (p.own => t + Near <= clock) /\ (~p.own => t + Skew <= clock /\ (Skew = 0 => t < clock))
    BY <1>1, <1>2, <2>1, <2>2
  <2>4. p.own => t < clock
    BY <1>1, <2>3
  <2> QED
    BY <2>3, <2>4 DEF Follows, Before, t, clock
<1> QED
  BY <1>3, <1>4

(* What the collector sends.                                                  *)
LEMMA CollectedPast ==
    ASSUME MonitorTyped, NEW s \in AllServers, NEW at \in Nat, at <= now
    PROVE  Past(Collected(s, at))
<1> DEFINE most == at - MaxCollected + 1
           from == IF since[s] > at THEN at ELSE IF since[s] > most THEN since[s] ELSE most
           n == at - from + 1
           h == [i \in 1..n |-> [t |-> from + i - 1, at |-> from + i - 1, own |-> FALSE]]
<1>1. since[s] \in Nat /\ now \in Nat /\ MaxCollected \in Nat /\ MaxCollected <= MaxPoints /\ MaxPoints \in Nat
      /\ MaxCollected >= 1
  BY MonitorAssumption DEF MonitorTyped
<1>2. Collected(s, at) = h
  BY DEF Collected
<1>3. from \in Int /\ from <= at /\ from >= most /\ (from \in Nat \/ from = most)
  BY <1>1
<1>4. from \in Nat
  <2>1. CASE since[s] > at
    BY <2>1
  <2>2. CASE since[s] <= at
    BY <1>1, <2>2
  <2> QED
    BY <1>1, <2>1, <2>2
<1>5. n \in Nat /\ n <= MaxPoints
  BY <1>1, <1>3
<1> HIDE DEF from
<1>6. \A i \in 1..n : from + i - 1 \in Nat /\ from + i - 1 <= now
  BY <1>1, <1>4, <1>5
<1>7. DOMAIN h = 1..n /\ \A i \in 1..n : h[i].t = from + i - 1 /\ h[i].at = from + i - 1 /\ ~h[i].own
  OBVIOUS
<1>8. h \in Seq(Point)
  <2>1. \A i \in 1..n : [t |-> from + i - 1, at |-> from + i - 1, own |-> FALSE] \in Point
    BY <1>6 DEF Point
  <2> QED
    BY <1>5, <2>1
<1>9. Len(h) = n
  BY <1>5
<1> HIDE DEF h
<1>10. InTurn(h)
  <2> SUFFICES ASSUME NEW i \in 1..n, NEW j \in 1..n, i < j PROVE Follows(h[i], h[j])
    BY <1>7 DEF InTurn
  <2>1. ~h[i].own /\ ~h[j].own /\ h[i].t < h[j].t
    BY <1>4, <1>7
  <2> HIDE DEF h
  <2> QED
    BY <2>1 DEF Follows, Before
<1>11. \A i \in 1..n : Dated(h[i])
  <2> SUFFICES ASSUME NEW i \in 1..n PROVE Dated(h[i])
    OBVIOUS
  <2>1. ~h[i].own /\ h[i].t <= now /\ h[i].at <= now /\ now + 0 = now
    BY <1>1, <1>6, <1>7
  <2> HIDE DEF h
  <2> QED
    BY <2>1 DEF Dated
<1> QED
  BY <1>2, <1>5, <1>7, <1>8, <1>9, <1>10, <1>11 DEF Past

(* A sample that arrives is the last point.                                   *)
LEMMA MergedPast ==
    ASSUME MonitorTyped, NEW prev, Past(prev), NEW incoming, Past(incoming), NEW at \in Nat, at <= now
    PROVE  Past(mergeHistory(prev, incoming, [t |-> now + Skew, at |-> at, own |-> TRUE]))
<1> DEFINE point == [t |-> now + Skew, at |-> at, own |-> TRUE]
           base == IF Len(incoming) >= Len(prev) THEN incoming ELSE prev
           merged == mergeHistory(prev, incoming, point)
<1> SUFFICES Past(merged)
  OBVIOUS
<1>1. now \in Nat /\ Skew \in Int /\ MaxPoints \in Nat \ {0}
  BY MonitorAssumption DEF MonitorTyped
<1>2. point \in Point /\ point.own /\ point.t = now + Skew /\ Dated(point)
  BY <1>1 DEF Point, Dated
<1>3. Past(base)
  OBVIOUS
<1>4. merged = IF base # <<>> /\ IsNear(Last(base).t, point.t) THEN Append(Front(base), point)
               ELSE Latest(Append(base, point), MaxPoints)
  BY DEF mergeHistory, IsNear
<1> HIDE DEF base, merged, point
<1> DEFINE n == Len(base)
<1>5. /\ base \in Seq(Point) /\ InTurn(base) /\ n \in Nat /\ DOMAIN base = 1..n
      /\ n <= MaxPoints /\ \A i \in 1..n : base[i] \in Point /\ Dated(base[i])
  BY <1>3, ElementOfSeq DEF Past
<1>s. (base # <<>> <=> n # 0) /\ Last(base) = base[n] /\ Front(base) = SubSeq(base, 1, n - 1)
  BY <1>5, EmptySeq DEF Last, Front
<1>a. Append(base, point) \in Seq(Point) /\ Len(Append(base, point)) = n + 1 /\ Append(base, point)[n + 1] = point
      /\ \A i \in 1..n : Append(base, point)[i] = base[i]
  BY <1>2, <1>5, AppendProperties
<1> HIDE DEF n
<1>6. ASSUME NEW i \in 1..n, i < n \/ ~IsNear(base[n].t, point.t) PROVE Follows(base[i], point)
  <2>1. n \in 1..n
    BY <1>5
  <2>2. i < n => Follows(base[i], base[n])
    BY <1>5, <2>1 DEF InTurn
  <2>3. i < n \/ i = n
    BY <1>5
  <2>4. Follows(base[i], base[n]) \/ (base[i] = base[n] /\ ~IsNear(base[n].t, point.t))
    BY <1>6, <2>2, <2>3
  <2> QED
    BY <1>2, <1>5, <2>1, <2>4, LiveFollows
<1>7. CASE base # <<>> /\ IsNear(Last(base).t, point.t)
  <2> DEFINE front == Front(base)
             m == n - 1
  <2>1. m \in Nat /\ m + 1 = n
    <3>1. n # 0
      BY <1>7, <1>s
    <3> QED
      BY <1>5, <3>1
  <2>2. front = SubSeq(base, 1, m)
    BY <1>s
  <2>3. front \in Seq(Point) /\ Len(front) = m /\ \A i \in 1..m : front[i] = base[i]
    BY <1>5, <2>1, <2>2 DEF n
  <2>m. m \in Nat /\ n = m + 1
    BY <2>1
  <2> HIDE DEF front, m
  <2>4. DOMAIN front = 1..m
    BY <2>3
  <2>5. \A i \in DOMAIN front : Follows(front[i], point)
    <3> SUFFICES ASSUME NEW i \in 1..m PROVE Follows(front[i], point)
      BY <2>4
    <3>1. i \in 1..n /\ i < n /\ front[i] = base[i]
      BY <1>5, <2>m, <2>3
    <3> QED
      BY <1>6, <3>1
  <2>6. InTurn(front)
    <3> SUFFICES ASSUME NEW i \in 1..m, NEW j \in 1..m, i < j PROVE Follows(front[i], front[j])
      BY <2>4 DEF InTurn
    <3>1. i \in 1..n /\ j \in 1..n /\ front[i] = base[i] /\ front[j] = base[j]
      BY <2>m, <2>3
    <3> QED
      BY <1>5, <3>1 DEF InTurn
  <2>7. Append(front, point) \in Seq(Point) /\ InTurn(Append(front, point))
    BY <1>2, <2>3, <2>5, <2>6, LaterLast
  <2>8. /\ Len(Append(front, point)) = m + 1 /\ Append(front, point)[m + 1] = point
        /\ \A i \in 1..m : Append(front, point)[i] = front[i]
    BY <1>2, <2>3, AppendProperties
  <2>9. merged = Append(front, point)
    BY <1>4, <1>7 DEF front
  <2>10. Len(merged) <= MaxPoints
    BY <1>1, <1>5, <2>1, <2>8, <2>9
  <2>11. \A i \in DOMAIN merged : Dated(merged[i])
    <3> SUFFICES ASSUME NEW i \in 1..(m + 1) PROVE Dated(merged[i])
      BY <2>7, <2>8, <2>9
    <3>1. CASE i = m + 1
      BY <1>2, <2>8, <2>9, <3>1
    <3>2. CASE i # m + 1
      <4>1. i \in 1..m /\ i \in 1..n
        BY <2>m, <3>2
      <4>2. merged[i] = base[i]
        BY <2>3, <2>8, <2>9, <4>1
      <4> QED
        BY <1>5, <4>1, <4>2
    <3> QED
      BY <3>1, <3>2
  <2> QED
    BY <2>7, <2>9, <2>10, <2>11 DEF Past
<1>8. CASE ~(base # <<>> /\ IsNear(Last(base).t, point.t))
  <2> DEFINE long == Append(base, point)
  <2>1. \A i \in DOMAIN base : Follows(base[i], point)
    <3> SUFFICES ASSUME NEW i \in 1..n PROVE Follows(base[i], point)
      BY <1>5
    <3>1. base # <<>>
      BY <1>5, <1>s
    <3>2. ~IsNear(base[n].t, point.t)
      BY <1>8, <3>1, <1>s
    <3> QED
      BY <1>6, <3>2
  <2>2. long \in Seq(Point) /\ InTurn(long)
    BY <1>2, <1>5, <2>1, LaterLast
  <2>3. /\ Len(long) = n + 1 /\ long[n + 1] = point
        /\ \A i \in 1..n : long[i] = base[i]
    BY <1>a
  <2>4. merged = Latest(long, MaxPoints)
    BY <1>4, <1>8
  <2> HIDE DEF long
  <2>5. /\ merged \in Seq(Point) /\ InTurn(merged) /\ Len(merged) <= MaxPoints
        /\ \A i \in DOMAIN merged : \E j \in DOMAIN long : merged[i] = long[j]
    BY <1>1, <2>2, <2>4, LatestPast
  <2>6. \A j \in DOMAIN long : Dated(long[j])
    <3> SUFFICES ASSUME NEW j \in 1..(n + 1) PROVE Dated(long[j])
      BY <2>2, <2>3
    <3>1. CASE j = n + 1
      BY <1>2, <2>3, <3>1
    <3>2. CASE j # n + 1
      <4>1. j \in 1..n
        BY <1>5, <3>2
      <4> QED
        BY <1>5, <2>3, <4>1
    <3> QED
      BY <3>1, <3>2
  <2>7. \A i \in DOMAIN merged : Dated(merged[i])
    BY <2>5, <2>6
  <2> QED
    BY <2>5, <2>7 DEF Past
<1> QED
  BY <1>7, <1>8

-----------------------------------------------------------------------------
(* The steps.                                                                 *)
LEMMA PollingInit == MonitorInit => PollingInv
<1> SUFFICES ASSUME MonitorInit PROVE PollingInv
  OBVIOUS
<1>1. 2 \in 0..MaxTime /\ MaxPoints \in Nat
  BY MonitorAssumption
<1>2. <<>> \in Seq(AllServers) /\ Of(<<>>) = {} /\ OnceEach(<<>>)
  BY EmptySeq DEF Of, OnceEach
<1>3. <<>> \in Seq(Point) /\ InTurn(<<>>) /\ Len(<<>>) = 0 /\ DOMAIN <<>> = {}
  BY EmptySeq DEF InTurn
<1>4. Past(<<>>)
  BY <1>1, <1>3 DEF Past
<1>5. SamplesTyped
  BY <1>3, <1>4 DEF MonitorInit, SamplesTyped
<1>6. MonitorTyped
  BY <1>1, <1>2, <1>5 DEF MonitorInit, MonitorTyped, CallsTyped
<1> QED
  BY <1>2, <1>6 DEF MonitorInit, PollingInv, AskedOnce, NotOvertaken

(* An answer is remembered.                                                   *)
LEMMA Remembered ==
    ASSUME MonitorTyped, NEW s \in AllServers, NEW got \in Snap, got.at <= now, rememberSample(s, got), now' = now
    PROVE  SamplesTyped' /\ live' = [live EXCEPT ![s] = got]
<1> DEFINE next == mergeHistory(history[s], Collected(s, got.at), [t |-> now + Skew, at |-> got.at, own |-> TRUE])
<1>1. live' = [live EXCEPT ![s] = got] /\ history' = [history EXCEPT ![s] = next]
  BY DEF rememberSample
<1>2. Past(next)
  <2>1. got.at \in Nat
    BY DEF Snap
  <2>2. Past(history[s])
    BY DEF MonitorTyped, SamplesTyped
  <2>3. Past(Collected(s, got.at))
    BY <2>1, CollectedPast
  <2> QED
    BY <2>1, <2>2, <2>3, MergedPast
<1> HIDE DEF next
<1>3. \A h : Past(h)' <=> Past(h)
  BY DEF Past, Dated
<1>4. history' \in [AllServers -> Seq(Point)] /\ \A x \in AllServers : Past(history'[x])
  <2>1. next \in Seq(Point) /\ history \in [AllServers -> Seq(Point)] /\ \A x \in AllServers : Past(history[x])
    BY <1>2 DEF Past, MonitorTyped, SamplesTyped
  <2> QED
    BY <1>1, <1>2, <2>1
<1>5. live' \in [AllServers -> Snap \cup {None}] /\ \A x \in AllServers : live'[x] # None => live'[x].at <= now
  BY <1>1 DEF MonitorTyped, SamplesTyped
<1> QED
  BY <1>1, <1>3, <1>4, <1>5 DEF SamplesTyped

(* Nothing but the time or what is not of the samples has changed.             *)
LEMMA SamplesStay ==
    ASSUME MonitorTyped, UNCHANGED <<live, history>>, now' \in Nat, now <= now'
    PROVE  SamplesTyped'
<1>1. now \in Nat
  BY DEF MonitorTyped
<1>2. \A h : Past(h) => Past(h)'
  <2> SUFFICES ASSUME NEW h, Past(h) PROVE Past(h)'
    OBVIOUS
  <2>1. ASSUME NEW i \in DOMAIN h PROVE Dated(h[i])'
    <3>1. h[i] \in Point /\ Dated(h[i])
      BY ElementOfSeq DEF Past
    <3>2. h[i].t \in Int /\ h[i].at \in Nat /\ h[i].own \in BOOLEAN /\ Skew \in Int
      BY <3>1, MonitorAssumption DEF Point
    <3> QED
      BY <1>1, <3>1, <3>2 DEF Dated
  <2> QED
    BY <2>1 DEF Past
<1>3. \A s \in AllServers : live[s] # None => live[s].at \in Nat
  BY DEF MonitorTyped, SamplesTyped, Snap
<1> QED
  BY <1>1, <1>2, <1>3 DEF MonitorTyped, SamplesTyped

LEMMA CallsStay ==
    ASSUME MonitorTyped, UNCHANGED calls, pulls' = pulls, now' \in Nat, now <= now'
    PROVE  CallsTyped'
<1>1. now \in Nat
  BY DEF MonitorTyped
<1>2. \A c \in calls \cup pulls : c.sample # None => c.sample.at \in Nat
  BY DEF MonitorTyped, CallsTyped, PollCall, Pull, Snap
<1> QED
  BY <1>1, <1>2 DEF MonitorTyped, CallsTyped

(* What the invariant is about stays.                                          *)
LEMMA MonitorStays ==
    ASSUME PollingInv, listed' \subseteq AllServers, since' \in [AllServers -> Nat], now' \in 0..MaxTime, now <= now',
           UNCHANGED <<samples, polling, pulls, refreshed>>
    PROVE  PollingInv'
<1>1. MonitorTyped'
  <2>1. now' \in Nat
    BY MonitorAssumption
  <2>2. SamplesTyped' /\ CallsTyped'
    BY <2>1, SamplesStay, CallsStay DEF PollingInv, samples, polling
  <2> QED
    BY <2>2 DEF PollingInv, MonitorTyped, polling
<1> QED
  BY <1>1 DEF PollingInv, AskedOnce, NotOvertaken, Mine, samples, polling

(* A tick begins: nobody is waiting for another.                               *)
LEMMA Ticks ==
    ASSUME PollingInv, NEW ids \in Seq(AllServers), OnceEach(ids), NEW others, others \subseteq PollCall,
           \A c \in others : ~c.live /\ (c.sample # None => c.sample.at <= now),
           Tick(ids, others), effectKey' = ids,
           UNCHANGED <<listed, since, now, samples, pulls, refreshed>>
    PROVE  PollingInv'
<1> DEFINE n == IF Len(ids) < MaxWorkers THEN Len(ids) ELSE MaxWorkers
           front == SubSeq(ids, 1, n)
           rest == SubSeq(ids, n + 1, Len(ids))
<1>1. Len(ids) \in Nat /\ n \in 0..Len(ids) /\ None \notin AllServers
  BY MonitorAssumption
<1>2. calls' = others \cup {Call(ids[i]) : i \in 1..n} /\ queue' = rest /\ timer' = FALSE
  BY DEF Tick
<1> HIDE DEF n
<1>3. front \in Seq(AllServers) /\ rest \in Seq(AllServers) /\ Len(front) = n /\ ids = front \o rest
  BY <1>1, Splits
<1>4. \A i \in 1..n : ids[i] \in AllServers /\ ids[i] = front[i]
  BY <1>1
<1> HIDE DEF front, rest
<1>5. OnceEach(rest) /\ Of(front) \cap Of(rest) = {}
  BY <1>3, Parts
<1>6. \A i \in 1..n : ids[i] \in Of(front)
  <2>1. DOMAIN front = 1..n
    BY <1>3
  <2> QED
    BY <1>4, <2>1 DEF Of
<1>7. \A c \in calls' : c \in others \/ (\E i \in 1..n : c = Call(ids[i]))
  BY <1>2
<1>8. \A x \in AllServers : Call(x) \in PollCall /\ Call(x).sample = None /\ Call(x).live /\ Call(x).id = x
  BY DEF Call, PollCall
<1>9. MonitorTyped'
  <2>1. SamplesTyped'
    BY SamplesStay DEF PollingInv, MonitorTyped, samples
  <2>2. CallsTyped'
    <3>1. calls' \subseteq PollCall
      BY <1>4, <1>7, <1>8
    <3>2. \A c \in calls' : c.sample # None => c.sample.at <= now
      BY <1>4, <1>7, <1>8
    <3> QED
      BY <3>1, <3>2 DEF CallsTyped, PollingInv, MonitorTyped
  <2> QED
    BY <1>2, <1>3, <2>1, <2>2 DEF PollingInv, MonitorTyped
<1>10. AskedOnce'
  <2>1. ASSUME NEW c \in calls', NEW d \in calls', c.live, d.live, c.id = d.id PROVE c = d
    <3>1. (\E i \in 1..n : c = Call(ids[i])) /\ (\E i \in 1..n : d = Call(ids[i]))
      BY <1>7, <2>1
    <3> QED
      BY <1>4, <1>8, <2>1, <3>1
  <2>2. ASSUME NEW c \in calls', c.live PROVE c.id \notin Of(queue')
    <3>1. PICK i \in 1..n : c = Call(ids[i])
      BY <1>7, <2>2
    <3>2. c.id = ids[i]
      BY <1>4, <1>8, <3>1
    <3> QED
      BY <1>2, <1>5, <1>6, <3>2
  <2>3. Of(queue)' = Of(queue') /\ (OnceEach(queue)' <=> OnceEach(queue')) /\ (OnceEach(effectKey)' <=> OnceEach(effectKey'))
    BY DEF Of, OnceEach
  <2> QED
    BY <1>2, <1>5, <2>1, <2>2, <2>3 DEF AskedOnce
<1>11. NotOvertaken'
  <2>1. \A c \in calls' : c.live => c.sample = None
    BY <1>4, <1>7, <1>8
  <2> QED
    BY <2>1 DEF NotOvertaken, PollingInv
<1> QED
  BY <1>9, <1>10, <1>11 DEF PollingInv

(* A call is served: its sample is of this moment.                             *)
LEMMA ServeKeeps ==
    ASSUME PollingInv, NEW c \in calls \cup pulls, Serve(c)
    PROVE  PollingInv'
<1> DEFINE d == [c EXCEPT !.sample = Sample(c.id)]
<1>1. now \in Nat /\ Sample(c.id) \in Snap /\ Sample(c.id).at = now /\ None \notin AllServers
  BY MonitorAssumption DEF PollingInv, MonitorTyped, Sample, Snap
<1>2. UNCHANGED <<servers, samples, effectKey, queue, timer, refreshed>>
  BY DEF Serve
<1>3. SamplesTyped'
  BY <1>1, <1>2, SamplesStay DEF PollingInv, samples, servers
<1>4. CASE c \in calls /\ calls' = (calls \ {c}) \cup {d} /\ UNCHANGED pulls
  <2>1. d \in PollCall /\ d.sample = Sample(c.id) /\ d.id = c.id /\ d.live = c.live
    BY <1>1, <1>4 DEF PollingInv, MonitorTyped, CallsTyped, PollCall
  <2> HIDE DEF d
  <2>2. MonitorTyped'
    <3>1. CallsTyped'
      BY <1>1, <1>2, <1>4, <2>1 DEF PollingInv, MonitorTyped, CallsTyped, servers
    <3> QED
      BY <1>2, <1>3, <3>1 DEF PollingInv, MonitorTyped, servers
  <2>3. AskedOnce'
    <3>1. \A a, b \in calls' : a.live /\ b.live /\ a.id = b.id => a = b
      BY <1>4, <2>1 DEF PollingInv, AskedOnce
    <3>2. \A a \in calls' : a.live => a.id \notin Of(queue)
      BY <1>4, <2>1 DEF PollingInv, AskedOnce
    <3>3. timer => \A a \in calls' : ~a.live
      BY <1>4, <2>1 DEF PollingInv, AskedOnce, Mine
    <3>4. OnceEach(queue) /\ OnceEach(effectKey)
      BY DEF PollingInv, AskedOnce
    <3> QED
      BY <1>2, <3>1, <3>2, <3>3, <3>4 DEF AskedOnce, Mine
  <2>4. NotOvertaken'
    <3>1. \A s \in AllServers : live[s] # None => live[s].at <= now
      BY DEF PollingInv, MonitorTyped, SamplesTyped
    <3>2. c.id \in AllServers
      BY <1>4 DEF PollingInv, MonitorTyped, CallsTyped, PollCall
    <3> QED
      BY <1>1, <1>2, <1>4, <2>1, <3>1, <3>2 DEF PollingInv, NotOvertaken, samples
  <2> QED
    BY <2>2, <2>3, <2>4 DEF PollingInv
<1>5. CASE c \in pulls /\ pulls' = (pulls \ {c}) \cup {d} /\ UNCHANGED calls
  <2>1. d \in Pull /\ d.sample = Sample(c.id) /\ refreshed
    BY <1>1, <1>5 DEF PollingInv, MonitorTyped, CallsTyped, Pull, NotOvertaken
  <2> HIDE DEF d
  <2>2. MonitorTyped'
    <3>1. CallsTyped'
      BY <1>1, <1>2, <1>5, <2>1 DEF PollingInv, MonitorTyped, CallsTyped, servers
    <3> QED
      BY <1>2, <1>3, <3>1 DEF PollingInv, MonitorTyped, servers
  <2> QED
    BY <1>2, <1>5, <2>1, <2>2 DEF PollingInv, AskedOnce, NotOvertaken, Mine
<1> QED
  BY <1>4, <1>5 DEF Serve

(* A worker that is done takes the next server, or the tick ends.              *)
LEMMA WorkedOn ==
    ASSUME PollingInv, NEW c \in calls, Worked(c), SamplesTyped',
           UNCHANGED <<servers, effectKey, pulls, refreshed>>,
           \A s \in AllServers : live'[s] # live[s] => c.live /\ c.id = s
    PROVE  PollingInv'
<1>1. now \in Nat /\ None \notin AllServers
  BY MonitorAssumption DEF PollingInv, MonitorTyped
<1>2. \A x \in AllServers : Call(x) \in PollCall /\ Call(x).sample = None /\ Call(x).live /\ Call(x).id = x
  BY DEF Call, PollCall
<1>3. CASE c.live /\ queue # <<>>
  <2> DEFINE h == Head(queue)
             r == Tail(queue)
  <2>1. h \in AllServers /\ r \in Seq(AllServers) /\ queue = <<h>> \o r
    BY <1>3 DEF PollingInv, MonitorTyped
  <2>2. calls' = (calls \ {c}) \cup {Call(h)} /\ queue' = r /\ (timer' => timer)
    BY <1>3 DEF Worked
  <2> HIDE DEF h, r
  <2>3. OnceEach(r) /\ h \notin Of(r) /\ Of(queue) = {h} \cup Of(r)
    <3>1. <<h>> \in Seq(AllServers) /\ Of(<<h>>) = {h}
      BY <2>1 DEF Of
    <3> DEFINE one == <<h>>
    <3>2. one \in Seq(AllServers) /\ queue = one \o r /\ Of(one) = {h}
      BY <2>1, <3>1
    <3> HIDE DEF one
    <3>3. OnceEach(one \o r)
      BY <3>2 DEF PollingInv, AskedOnce
    <3>4. OnceEach(r) /\ Of(one) \cap Of(r) = {}
      BY <2>1, <3>2, <3>3, Parts
    <3>5. Of(one \o r) = Of(one) \cup Of(r)
      BY <2>1, <3>2, Joins
    <3> QED
      BY <3>2, <3>4, <3>5
  <2>4. \A d \in calls : d.live => d.id \notin {h} \cup Of(r)
    BY <2>3 DEF PollingInv, AskedOnce
  <2>5. MonitorTyped'
    <3>1. CallsTyped'
      BY <1>2, <2>1, <2>2 DEF PollingInv, MonitorTyped, CallsTyped, servers
    <3> QED
      BY <2>1, <2>2, <3>1 DEF PollingInv, MonitorTyped, servers
  <2>6. AskedOnce'
    <3>1. \A a, b \in calls' : a.live /\ b.live /\ a.id = b.id => a = b
      BY <1>2, <2>1, <2>2, <2>4 DEF PollingInv, AskedOnce
    <3>2. \A a \in calls' : a.live => a.id \notin Of(r)
      BY <1>2, <2>1, <2>2, <2>3, <2>4
    <3>3. ~timer
      BY <1>3 DEF PollingInv, AskedOnce, Mine
    <3> QED
      BY <2>2, <2>3, <3>1, <3>2, <3>3 DEF AskedOnce, PollingInv
  <2>7. NotOvertaken'
    <3>1. \A d \in calls \ {c} : d.live => d.id # c.id /\ d.id \in AllServers
      BY <1>3 DEF PollingInv, AskedOnce, MonitorTyped, CallsTyped, PollCall
    <3>2. \A d \in calls \ {c} : d.live => live'[d.id] = live[d.id]
      BY <3>1
    <3> QED
      BY <1>2, <2>1, <2>2, <3>2 DEF PollingInv, NotOvertaken
  <2> QED
    BY <2>5, <2>6, <2>7 DEF PollingInv
<1>4. CASE ~(c.live /\ queue # <<>>)
  <2>1. calls' = calls \ {c} /\ queue' = queue
    BY <1>4 DEF Worked
  <2>2. timer' => \A d \in calls' : ~d.live
    BY <2>1 DEF Worked, Mine, PollingInv, AskedOnce
  <2>3. MonitorTyped'
    <3>1. CallsTyped'
      BY <2>1 DEF PollingInv, MonitorTyped, CallsTyped, servers
    <3> QED
      BY <2>1, <3>1 DEF PollingInv, MonitorTyped, servers
  <2>4. AskedOnce'
    BY <2>1, <2>2 DEF PollingInv, AskedOnce, Mine
  <2>5. NotOvertaken'
    <3>1. \A d \in calls \ {c} : d.live => ~(c.live /\ d.id = c.id) /\ d.id \in AllServers
      BY DEF PollingInv, AskedOnce, MonitorTyped, CallsTyped, PollCall
    <3>2. \A d \in calls \ {c} : d.live => live'[d.id] = live[d.id]
      BY <3>1
    <3> QED
      BY <2>1, <3>2 DEF PollingInv, NotOvertaken
  <2> QED
    BY <2>3, <2>4, <2>5 DEF PollingInv
<1> QED
  BY <1>3, <1>4

LEMMA PolledKeeps ==
    ASSUME PollingInv, NEW c \in calls, Polled(c)
    PROVE  PollingInv'
<1>1. Worked(c) /\ UNCHANGED <<servers, effectKey, pulls, refreshed>> /\ now' = now
  BY DEF Polled, servers
<1>2. CASE c.sample # None /\ c.live /\ rememberSample(c.id, c.sample)
  <2>1. c.id \in AllServers /\ c.sample \in Snap /\ c.sample.at <= now
    BY <1>2 DEF PollingInv, MonitorTyped, CallsTyped, PollCall
  <2>2. SamplesTyped' /\ live' = [live EXCEPT ![c.id] = c.sample]
    BY <1>1, <1>2, <2>1, Remembered DEF PollingInv
  <2>3. \A s \in AllServers : live'[s] # live[s] => c.live /\ c.id = s
    BY <1>2, <2>2 DEF PollingInv, MonitorTyped, SamplesTyped
  <2> QED
    BY <1>1, <2>2, <2>3, WorkedOn
<1>3. CASE UNCHANGED samples
  <2>1. SamplesTyped'
    <3>1. now' \in Nat /\ now <= now'
      BY <1>1, MonitorAssumption DEF PollingInv, MonitorTyped
    <3> QED
      BY <1>3, <3>1, SamplesStay DEF PollingInv, samples
  <2>2. live' = live
    BY <1>3 DEF samples
  <2> QED
    BY <1>1, <2>1, <2>2, WorkedOn
<1> QED
  BY <1>2, <1>3 DEF Polled

(* A refresh is asked for, or answered: from then on answers may overtake.     *)
LEMMA RefreshKeeps ==
    ASSUME PollingInv, UNCHANGED <<servers, polling>>, SamplesTyped',
           pulls' \subseteq Pull, \A p \in pulls' : p.sample # None => p.sample.at <= now, refreshed'
    PROVE  PollingInv'
<1>1. CallsTyped'
  BY DEF PollingInv, MonitorTyped, CallsTyped, polling, servers
<1> QED
  BY <1>1 DEF PollingInv, MonitorTyped, AskedOnce, NotOvertaken, Mine, polling, servers

(* The steps that ask for a refresh or are answered one, and the effect.       *)
LEMMA AsksAgain ==
    ASSUME PollingInv, NEW s \in AllServers, refresh(s), UNCHANGED <<servers, polling, samples>>
    PROVE  PollingInv'
<1>1. SamplesTyped'
  <2>1. now' \in Nat /\ now <= now'
    BY MonitorAssumption DEF PollingInv, MonitorTyped, servers
  <2> QED
    BY <2>1, SamplesStay DEF PollingInv, samples
<1>2. [id |-> s, sample |-> None] \in Pull
  BY DEF Pull
<1>3. pulls' \subseteq Pull /\ (\A p \in pulls' : p.sample # None => p.sample.at <= now) /\ refreshed'
  BY <1>2 DEF refresh, PollingInv, MonitorTyped, CallsTyped
<1> QED
  BY <1>1, <1>3, RefreshKeeps

LEMMA RefreshedKeeps == ASSUME PollingInv, Refreshed PROVE PollingInv'
<1>1. PICK p \in pulls : pulls' = pulls \ {p} /\ ((p.sample # None /\ rememberSample(p.id, p.sample)) \/ UNCHANGED samples)
  BY DEF Refreshed
<1>2. UNCHANGED <<servers, polling, refreshed>> /\ now' = now
  BY DEF Refreshed, servers
<1>3. SamplesTyped'
  <2>1. CASE p.sample # None /\ rememberSample(p.id, p.sample)
    <3>1. p.id \in AllServers /\ p.sample \in Snap /\ p.sample.at <= now
      BY <2>1 DEF PollingInv, MonitorTyped, CallsTyped, Pull
    <3> QED
      BY <1>2, <2>1, <3>1, Remembered DEF PollingInv
  <2>2. CASE UNCHANGED samples
    <3>1. now' \in Nat /\ now <= now'
      BY <1>2, MonitorAssumption DEF PollingInv, MonitorTyped
    <3> QED
      BY <2>2, <3>1, SamplesStay DEF PollingInv, samples
  <2> QED
    BY <1>1, <2>1, <2>2
<1>4. pulls' \subseteq Pull /\ (\A q \in pulls' : q.sample # None => q.sample.at <= now)
  BY <1>1 DEF PollingInv, MonitorTyped, CallsTyped
<1>5. refreshed'
  BY <1>1, <1>2 DEF PollingInv, NotOvertaken
<1> QED
  BY <1>2, <1>3, <1>4, <1>5, RefreshKeeps

LEMMA EffectKeeps == ASSUME PollingInv, RunEffect \/ NextTick PROVE PollingInv'
<1>1. CASE RunEffect
  <2> DEFINE others == {[c EXCEPT !.live = FALSE] : c \in calls}
  <2>1. pollIds \in Seq(AllServers) /\ OnceEach(pollIds)
    BY ShownOnce DEF PollingInv
  <2>2. others \subseteq PollCall /\ \A c \in others : ~c.live /\ (c.sample # None => c.sample.at <= now)
    BY DEF PollingInv, MonitorTyped, CallsTyped, PollCall
  <2>3. Tick(pollIds, others) /\ effectKey' = pollIds /\ UNCHANGED <<listed, since, now, samples, pulls, refreshed>>
    BY <1>1 DEF RunEffect, servers
  <2> HIDE DEF others
  <2> QED
    BY <2>1, <2>2, <2>3, Ticks
<1>2. CASE NextTick
  <2>1. effectKey \in Seq(AllServers) /\ OnceEach(effectKey) /\ \A c \in calls : ~c.live
    BY <1>2 DEF NextTick, PollingInv, MonitorTyped, AskedOnce, Mine
  <2>2. calls \subseteq PollCall /\ \A c \in calls : c.sample # None => c.sample.at <= now
    BY DEF PollingInv, MonitorTyped, CallsTyped
  <2>3. Tick(effectKey, calls) /\ effectKey' = effectKey /\ UNCHANGED <<listed, since, now, samples, pulls, refreshed>>
    BY <1>2 DEF NextTick, servers
  <2> QED
    BY <2>1, <2>2, <2>3, Ticks
<1> QED
  BY <1>1, <1>2

(* The tab shows one of the servers.                                           *)
LEMMA ShowsServer == ASSUME MonitorTyped, visible # <<>> PROVE ShownServer \in AllServers
<1>1. visible \in Seq(AllServers) /\ pollIds \in Seq(AllServers)
  BY ShownOnce
<1>2. Len(visible) > 0 /\ visible[1] \in AllServers
  <2>1. Len(visible) \in Nat /\ Len(visible) # 0
    BY <1>1, EmptySeq
  <2>2. 1 \in 1..Len(visible)
    BY <2>1
  <2> QED
    BY <1>1, <2>1, <2>2, ElementOfSeq
<1>3. switchServers \in Seq(AllServers) /\ switchServers # <<>>
  BY <1>1 DEF switchServers
<1>4. switchServers[1] \in AllServers
  <2>1. Len(switchServers) \in Nat /\ Len(switchServers) # 0
    BY <1>3, EmptySeq
  <2>2. 1 \in 1..Len(switchServers)
    BY <2>1
  <2> QED
    BY <1>3, <2>2, ElementOfSeq
<1>5. focused \in AllServers
  <2>1. Has(switchServers, focusId) => focusId \in AllServers
    BY <1>3, ElementOfSeq DEF Has
  <2> QED
    BY <1>4, <2>1 DEF focused
<1> QED
  BY <1>2, <1>5 DEF ShownServer

LEMMA ActingStays == ASSUME ActingTyped, NEW pg, NEW id, Remount(pg, id) PROVE acting' \subseteq Deed
BY DEF ActingTyped, Remount, Deed

LEMMA ActingStep == MonitorIInv /\ [MonitorNext]_monitorVars => ActingTyped'
<1> SUFFICES ASSUME MonitorIInv, [MonitorNext]_monitorVars PROVE ActingTyped'
  OBVIOUS
<1>1. ActingTyped /\ MonitorTyped
  BY DEF MonitorIInv, PollingInv
<1>2. ASSUME UNCHANGED <<tab, acting>> PROVE ActingTyped'
  BY <1>1, <1>2 DEF ActingTyped
<1>3. ASSUME tab' \in Tabs, Same PROVE ActingTyped'
  BY <1>1, <1>3, ActingStays DEF ActingTyped, Same
<1>4. CASE UNCHANGED monitorVars
  BY <1>2, <1>4 DEF monitorVars
<1>5. CASE SessionChanges \/ ServerMenu \/ OpenRow
  BY <1>1, <1>3, <1>5 DEF SessionChanges, ServerMenu, OpenRow, ActingTyped
<1>6. CASE MonitorSidebar
  BY <1>3, <1>6 DEF MonitorSidebar, Tabs
<1>7. CASE Time \/ CollectorRestarts \/ onRefresh \/ RunEffect \/ NextTick \/ Refreshed
  BY <1>2, <1>7 DEF Time, CollectorRestarts, onRefresh, RunEffect, NextTick, Refreshed
<1>8. CASE ServerSwitch
  <2>1. tab' = tab /\ \E id : Remount(page, id)
    BY <1>8 DEF ServerSwitch
  <2> QED
    BY <1>1, <2>1, ActingStays DEF ActingTyped
<1>9. CASE TurnPage
  <2>1. tab' = tab /\ \E pg : Remount(pg, focusId)
    BY <1>9 DEF TurnPage
  <2> QED
    BY <1>1, <2>1, ActingStays DEF ActingTyped
<1>10. CASE act
  <2>1. visible # <<>> /\ Bound \in AllServers /\ tab' = tab
    BY <1>10, MonitorAssumption DEF act, MountedTab
  <2>2. acting' = acting \cup {[srv |-> Bound, shown |-> ShownServer, what |-> tab, here |-> TRUE]}
    BY <1>10 DEF act
  <2>3. ShownServer \in AllServers /\ tab \in Tabs
    BY <1>1, <2>1, ShowsServer DEF ActingTyped
  <2>4. [srv |-> Bound, shown |-> ShownServer, what |-> tab, here |-> TRUE] \in Deed
    BY <2>1, <2>3 DEF Deed
  <2> QED
    BY <1>1, <2>1, <2>2, <2>4 DEF ActingTyped
<1>11. CASE \E c \in calls \cup pulls : Serve(c)
  BY <1>2, <1>11 DEF Serve
<1>12. CASE \E c \in calls : Polled(c)
  BY <1>2, <1>12 DEF Polled
<1>13. CASE \E x \in acting : Acted(x)
  BY <1>1, <1>13 DEF Acted, ActingTyped
<1> QED
  BY <1>4, <1>5, <1>6, <1>7, <1>8, <1>9, <1>10, <1>11, <1>12, <1>13 DEF MonitorNext

LEMMA PollingStep == MonitorIInv /\ [MonitorNext]_monitorVars => PollingInv'
<1> SUFFICES ASSUME MonitorIInv, [MonitorNext]_monitorVars PROVE PollingInv'
  OBVIOUS
<1>1. PollingInv /\ ActingTyped /\ MonitorTyped
  BY DEF MonitorIInv, PollingInv
<1>2. now \in 0..MaxTime /\ MaxTime \in Nat /\ listed \subseteq AllServers /\ since \in [AllServers -> Nat]
  BY <1>1, MonitorAssumption DEF MonitorTyped
<1>3. ASSUME UNCHANGED <<servers, samples, polling, pulls, refreshed>> PROVE PollingInv'
  BY <1>1, <1>2, <1>3, MonitorStays DEF servers
<1>4. CASE UNCHANGED monitorVars
  BY <1>3, <1>4 DEF monitorVars
<1>5. CASE ServerMenu \/ OpenRow \/ MonitorSidebar \/ ServerSwitch \/ TurnPage \/ act
  BY <1>3, <1>5 DEF ServerMenu, OpenRow, MonitorSidebar, ServerSwitch, TurnPage, act, Clicked
<1>6. CASE SessionChanges
  <2>1. UNCHANGED <<since, now, samples, polling, pulls, refreshed>> /\ now <= now'
    BY <1>2, <1>6 DEF SessionChanges
  <2>2. listed' \subseteq AllServers
    BY <1>2, <1>6 DEF SessionChanges
  <2> QED
    BY <1>1, <1>2, <2>1, <2>2, MonitorStays
<1>7. CASE Time
  <2>1. UNCHANGED <<listed, since, samples, polling, pulls, refreshed>> /\ now' \in 0..MaxTime /\ now <= now'
    BY <1>2, <1>7 DEF Time
  <2> QED
    BY <1>1, <1>2, <2>1, MonitorStays
<1>8. CASE CollectorRestarts
  <2>1. UNCHANGED <<listed, now, samples, polling, pulls, refreshed>> /\ now <= now'
    BY <1>2, <1>8 DEF CollectorRestarts
  <2>2. since' \in [AllServers -> Nat]
    <3>1. now \in Nat
      BY <1>2
    <3> QED
      BY <1>2, <1>8, <3>1 DEF CollectorRestarts
  <2> QED
    BY <1>1, <1>2, <2>1, <2>2, MonitorStays
<1>9. CASE onRefresh
  <2>1. ShownServer \in AllServers /\ refresh(ShownServer) /\ UNCHANGED <<servers, polling, samples>>
    BY <1>1, <1>9, ShowsServer DEF onRefresh
  <2> QED
    BY <1>1, <2>1, AsksAgain
<1>10. CASE RunEffect \/ NextTick
  BY <1>1, <1>10, EffectKeeps
<1>11. CASE Refreshed
  BY <1>1, <1>11, RefreshedKeeps
<1>12. CASE \E c \in calls \cup pulls : Serve(c)
  BY <1>1, <1>12, ServeKeeps
<1>13. CASE \E c \in calls : Polled(c)
  BY <1>1, <1>13, PolledKeeps
<1>14. CASE \E x \in acting : Acted(x)
  <2>1. PICK x \in acting : Acted(x)
    BY <1>14
  <2>2. x.shown \in AllServers
    BY <1>1 DEF ActingTyped, Deed
  <2>3. UNCHANGED <<servers, polling, samples>> /\ (refresh(x.shown) \/ UNCHANGED <<pulls, refreshed>>)
    BY <2>1 DEF Acted
  <2> QED
    BY <1>1, <1>3, <2>2, <2>3, AsksAgain
<1> QED
  BY <1>4, <1>5, <1>6, <1>7, <1>8, <1>9, <1>10, <1>11, <1>12, <1>13, <1>14 DEF MonitorNext

LEMMA MonitorIInvariance == MonitorSpec => []MonitorIInv
<1>1. MonitorInit => MonitorIInv
  <2>1. MonitorInit => ActingTyped
    BY DEF MonitorInit, ActingTyped, Tabs
  <2> QED
    BY <2>1, PollingInit DEF MonitorIInv
<1>2. MonitorIInv /\ [MonitorNext]_monitorVars => MonitorIInv'
  BY ActingStep, PollingStep DEF MonitorIInv
<1> QED
  BY <1>1, <1>2, PTL DEF MonitorSpec

(* What is shown of a server never gets older by polling, whatever the effect  *)
(* was restarted for and in whatever order polls are answered or fail; only a   *)
(* Refresh, which nothing cancels, may show an answer that was overtaken       *)
(* (useMonitorSamples in DashboardApp.tsx).                                   *)
THEOREM SamplesNeverOlder == MonitorSpec => NeverOlder
<1> DEFINE Older == ~refreshed' => \A s \in AllServers :
             live[s] # None => live'[s] # None /\ live'[s].at >= live[s].at
<1>1. MonitorIInv /\ [MonitorNext]_monitorVars => [Older]_monitorVars
  <2> SUFFICES ASSUME MonitorIInv, MonitorNext, ~refreshed', NEW s \in AllServers, live[s] # None
               PROVE  live'[s] # None /\ live'[s].at >= live[s].at
    OBVIOUS
  <2>1. PollingInv /\ MonitorTyped /\ live[s].at \in Nat
    BY DEF MonitorIInv, PollingInv, MonitorTyped, SamplesTyped, Snap
  <2>2. ASSUME UNCHANGED samples PROVE live'[s] # None /\ live'[s].at >= live[s].at
    BY <2>1, <2>2 DEF samples
  <2>3. CASE SessionChanges \/ Time \/ CollectorRestarts \/ ServerMenu \/ OpenRow \/ MonitorSidebar
               \/ ServerSwitch \/ TurnPage \/ onRefresh \/ act
    BY <2>2, <2>3 DEF SessionChanges, Time, CollectorRestarts, ServerMenu, OpenRow, MonitorSidebar,
         ServerSwitch, TurnPage, onRefresh, act, Clicked
  <2>4. CASE RunEffect \/ NextTick \/ (\E c \in calls \cup pulls : Serve(c)) \/ (\E x \in acting : Acted(x))
    BY <2>2, <2>4 DEF RunEffect, NextTick, Serve, Acted
  <2>5. CASE Refreshed
    BY <2>1, <2>5 DEF Refreshed, PollingInv, NotOvertaken
  <2>6. CASE \E c \in calls : Polled(c)
    <3>1. PICK c \in calls : Polled(c)
      BY <2>6
    <3>2. CASE c.sample # None /\ c.live /\ rememberSample(c.id, c.sample)
      <4>1. live' = [live EXCEPT ![c.id] = c.sample]
        BY <3>2 DEF rememberSample
      <4>2. c.id \in AllServers /\ c.sample \in Snap /\ c.sample.at \in Nat
        BY <2>1, <3>2 DEF MonitorTyped, CallsTyped, PollCall, Snap
      <4>3. refreshed' = refreshed
        BY <3>1 DEF Polled
      <4>4. live[c.id] # None => live[c.id].at <= c.sample.at
        BY <2>1, <3>2, <4>3 DEF PollingInv, NotOvertaken
      <4>5. CASE s = c.id
        BY <2>1, <3>2, <4>1, <4>2, <4>4, <4>5 DEF MonitorTyped, SamplesTyped
      <4>6. CASE s # c.id
        BY <2>1, <4>1, <4>6 DEF MonitorTyped, SamplesTyped
      <4> QED
        BY <4>5, <4>6
    <3>3. CASE UNCHANGED samples
      BY <2>2, <3>3
    <3> QED
      BY <3>1, <3>2, <3>3 DEF Polled
  <2> QED
    BY <2>3, <2>4, <2>5, <2>6 DEF MonitorNext
<1> QED
  BY <1>1, MonitorIInvariance, PTL DEF MonitorSpec, NeverOlder

-----------------------------------------------------------------------------
(* Sums over a sequence.                                                      *)
SummedTo(s, f, n) == f = [i \in 0..n |-> IF i = 0 THEN 0 ELSE f[i - 1] + s[i]]

LEMMA SumSteps ==
    ASSUME NEW s, NEW f, NEW n \in Nat, SummedTo(s, f, n)
    PROVE  f[0] = 0 /\ \A m \in Nat : m + 1 <= n => f[m + 1] = f[m] + s[m + 1]
<1>1. \A i \in 0..n : f[i] = IF i = 0 THEN 0 ELSE f[i - 1] + s[i]
  BY DEF SummedTo
<1>2. \A m \in Nat : m + 1 <= n => m + 1 \in 0..n /\ m + 1 # 0 /\ m + 1 - 1 = m
  OBVIOUS
<1>3. 0 \in 0..n
  OBVIOUS
<1> QED
  BY <1>1, <1>2, <1>3

LEMMA SumExists == ASSUME NEW s, NEW n \in Nat PROVE \E f : SummedTo(s, f, n)
<1> DEFINE Good == {m \in Nat : \E f : SummedTo(s, f, m)}
<1>1. 0 \in Good
  <2>1. SummedTo(s, [i \in 0..0 |-> 0], 0)
    BY DEF SummedTo
  <2> QED
    BY <2>1
<1>2. ASSUME NEW m \in Nat, m \in Good PROVE m + 1 \in Good
  <2>1. PICK f : SummedTo(s, f, m)
    BY <1>2
  <2> DEFINE g == [i \in 0..(m + 1) |-> IF i = m + 1 THEN f[m] + s[m + 1] ELSE f[i]]
  <2>2. ASSUME NEW i \in 0..(m + 1) PROVE g[i] = IF i = 0 THEN 0 ELSE g[i - 1] + s[i]
    <3>1. CASE i = m + 1
      BY <3>1
    <3>2. CASE i # m + 1
      <4>1. i \in 0..m /\ (i # 0 => i - 1 \in 0..m /\ i - 1 \in 0..(m + 1) /\ i - 1 # m + 1)
        BY <3>2
      <4>2. g[i] = f[i] /\ (i # 0 => g[i - 1] = f[i - 1])
        BY <3>2, <4>1
      <4>3. f[i] = IF i = 0 THEN 0 ELSE f[i - 1] + s[i]
        BY <2>1, <4>1 DEF SummedTo
      <4> QED
        BY <4>2, <4>3
    <3> QED
      BY <3>1, <3>2
  <2>3. g = [i \in 0..(m + 1) |-> g[i]]
    OBVIOUS
  <2> HIDE DEF g
  <2>4. SummedTo(s, g, m + 1)
    BY <2>2, <2>3 DEF SummedTo
  <2> QED
    BY <2>4
<1>3. Nat \subseteq Good
  <2> HIDE DEF Good
  <2> QED
    BY <1>1, <1>2, Inductive
<1> QED
  BY <1>3

LEMMA SumIs ==
    ASSUME NEW T, NEW s \in Seq(T)
    PROVE  \E f : SummedTo(s, f, Len(s)) /\ SumOf(s) = f[Len(s)]
<1> DEFINE f == CHOOSE f : SummedTo(s, f, Len(s))
<1>1. SummedTo(s, f, Len(s))
  BY SumExists, LenProperties
<1>2. SumOf(s) = f[Len(s)]
  BY DEF SumOf, SummedTo
<1> QED
  BY <1>1, <1>2

(* Sums are compared term by term, and are 0 only where there is no term.      *)
LEMMA SumsCompare ==
    ASSUME NEW c \in Nat, NEW x \in Seq(Nat), NEW y \in Seq(Nat), Len(x) = Len(y),
           \A i \in 1..Len(x) : x[i] <= c * y[i]
    PROVE  SumOf(x) \in Nat /\ SumOf(y) \in Nat /\ SumOf(x) <= c * SumOf(y)
<1> DEFINE n == Len(x)
<1>1. PICK f : SummedTo(x, f, n) /\ SumOf(x) = f[n]
  BY SumIs
<1>2. PICK g : SummedTo(y, g, n) /\ SumOf(y) = g[n]
  BY SumIs
<1>3. n \in Nat /\ \A i \in 1..n : x[i] \in Nat /\ y[i] \in Nat /\ x[i] <= c * y[i]
  BY LenProperties, ElementOfSeq
<1> HIDE DEF n
<1> DEFINE Good == {m \in Nat : m <= n => f[m] \in Nat /\ g[m] \in Nat /\ f[m] <= c * g[m]}
<1>4. 0 \in Good
  <2>1. f[0] = 0 /\ g[0] = 0
    BY <1>1, <1>2, <1>3 DEF SummedTo
  <2> QED
    BY <2>1
<1>5. ASSUME NEW m \in Nat, m \in Good PROVE m + 1 \in Good
  <2> SUFFICES ASSUME m + 1 <= n PROVE f[m + 1] \in Nat /\ g[m + 1] \in Nat /\ f[m + 1] <= c * g[m + 1]
    OBVIOUS
  <2>1. m + 1 \in 0..n /\ m + 1 \in 1..n /\ m + 1 # 0 /\ m + 1 - 1 = m
    BY <1>3
  <2>2. f[m + 1] = f[m] + x[m + 1] /\ g[m + 1] = g[m] + y[m + 1]
    BY <1>1, <1>2, <1>3, SumSteps
  <2>3. f[m] \in Nat /\ g[m] \in Nat /\ f[m] <= c * g[m]
    BY <1>3, <1>5, <2>1
  <2>4. x[m + 1] \in Nat /\ y[m + 1] \in Nat /\ x[m + 1] <= c * y[m + 1]
    BY <1>3, <2>1
  <2> DEFINE a == f[m]
             b == g[m]
             d == x[m + 1]
             e == y[m + 1]
  <2>5. a \in Nat /\ b \in Nat /\ d \in Nat /\ e \in Nat /\ a <= c * b /\ d <= c * e
    BY <2>3, <2>4
  <2> HIDE DEF a, b, d, e
  <2>6. c * (b + e) = c * b + c * e /\ c * b \in Nat /\ c * e \in Nat
    BY <2>5
  <2>7. a + d <= c * (b + e) /\ a + d \in Nat /\ b + e \in Nat
    BY <2>5, <2>6
  <2> QED
    BY <2>2, <2>7 DEF a, b, d, e
<1>6. Nat \subseteq Good
  <2> HIDE DEF Good
  <2> QED
    BY <1>4, <1>5, Inductive
<1>7. n \in Good
  BY <1>3, <1>6
<1> QED
  BY <1>1, <1>2, <1>3, <1>7

LEMMA SumOfNone == SumOf(<<>>) = 0
<1>1. <<>> \in Seq(Nat) /\ Len(<<>>) = 0
  BY EmptySeq
<1>2. PICK f : SummedTo(<<>>, f, 0) /\ SumOf(<<>>) = f[0]
  BY <1>1, SumIs
<1> QED
  BY <1>2 DEF SummedTo

LEMMA SumPositive ==
    ASSUME NEW s \in Seq(Nat \ {0}), s # <<>>
    PROVE  SumOf(s) > 0
<1> DEFINE one == [i \in 1..Len(s) |-> 1]
<1>1. Len(s) \in Nat /\ Len(s) # 0 /\ s \in Seq(Nat)
  <2>1. Nat \ {0} \subseteq Nat
    OBVIOUS
  <2> QED
    BY <2>1, EmptySeq, SeqMonotonic
<1>2. PICK f : SummedTo(s, f, Len(s)) /\ SumOf(s) = f[Len(s)]
  BY SumIs
<1>3. \A i \in 1..Len(s) : s[i] \in Nat \ {0}
  BY ElementOfSeq
<1> DEFINE n == Len(s)
<1> HIDE DEF n
<1>4. n \in Nat /\ n # 0
  BY <1>1 DEF n
<1> DEFINE Good == {m \in Nat : m <= n => f[m] \in Nat /\ (m > 0 => f[m] > 0)}
<1>5. 0 \in Good
  BY <1>2, <1>4 DEF SummedTo, n
<1>6. ASSUME NEW m \in Nat, m \in Good PROVE m + 1 \in Good
  <2> SUFFICES ASSUME m + 1 <= n PROVE f[m + 1] \in Nat /\ f[m + 1] > 0
    OBVIOUS
  <2>1. m + 1 \in 0..n /\ m + 1 \in 1..n /\ m + 1 # 0 /\ m + 1 - 1 = m
    BY <1>4
  <2>2. f[m + 1] = f[m] + s[m + 1]
    BY <1>2, <2>1 DEF SummedTo, n
  <2>3. f[m] \in Nat
    BY <1>4, <1>6, <2>1
  <2>4. s[m + 1] \in Nat \ {0}
    BY <1>3, <2>1 DEF n
  <2> QED
    BY <2>2, <2>3, <2>4
<1>7. Nat \subseteq Good
  <2> HIDE DEF Good
  <2> QED
    BY <1>5, <1>6, Inductive
<1>8. n \in Good
  BY <1>4, <1>7
<1> QED
  BY <1>2, <1>4, <1>8 DEF n

(* A filter keeps no more than there is.                                       *)
LEMMA KeepsFewer == ASSUME NEW T, NEW s \in Seq(T), NEW S PROVE Len(Keep(s, S)) \in 0..Len(s)
<1>1. PICK f : KeptOf(s, S, f, Len(s)) /\ Keep(s, S) = f[Len(s)]
  BY KeepIs
<1>2. Len(s) \in Nat
  BY LenProperties
<1> DEFINE Good == {n \in Nat : n <= Len(s) => f[n] \in Seq(T) /\ Len(f[n]) <= n}
<1>3. 0 \in Good
  BY <1>1, <1>2, EmptySeq DEF KeptOf
<1>4. ASSUME NEW n \in Nat, n \in Good PROVE n + 1 \in Good
  <2> SUFFICES ASSUME n + 1 <= Len(s) PROVE f[n + 1] \in Seq(T) /\ Len(f[n + 1]) <= n + 1
    OBVIOUS
  <2>1. n + 1 \in 0..Len(s) /\ n + 1 \in 1..Len(s) /\ n + 1 # 0 /\ n + 1 - 1 = n
    BY <1>2
  <2>2. f[n + 1] = KeptTo(f[n], s[n + 1], S)
    BY <1>1, <2>1 DEF KeptOf
  <2>3. f[n] \in Seq(T) /\ Len(f[n]) <= n /\ Len(f[n]) \in Nat /\ s[n + 1] \in T
    BY <1>2, <1>4, <2>1, LenProperties, ElementOfSeq
  <2>4. Append(f[n], s[n + 1]) \in Seq(T) /\ Len(Append(f[n], s[n + 1])) = Len(f[n]) + 1
    BY <2>3, AppendProperties
  <2> QED
    BY <2>2, <2>3, <2>4 DEF KeptTo
<1>5. Nat \subseteq Good
  <2> HIDE DEF Good
  <2> QED
    BY <1>3, <1>4, Inductive
<1>6. Len(s) \in Good
  BY <1>2, <1>5
<1> QED
  BY <1>1, <1>2, <1>6, LenProperties

(* Of finitely many numbers one is the first of the highest.                   *)
LEMMA FirstHighest ==
    ASSUME NEW n \in Nat \ {0}, NEW f, \A i \in 1..n : f[i] \in Int
    PROVE  \E i \in 1..n : \A j \in 1..n : f[i] > f[j] \/ (f[i] = f[j] /\ i <= j)
<1> DEFINE First(m, i) == \A j \in 1..m : f[i] > f[j] \/ (f[i] = f[j] /\ i <= j)
           Good == {m \in Nat : m + 1 <= n => \E i \in 1..(m + 1) : First(m + 1, i)}
<1>1. 0 \in Good
  <2>1. First(1, 1) /\ 1 \in 1..(0 + 1) /\ 0 + 1 = 1
    OBVIOUS
  <2> HIDE DEF First
  <2> QED
    BY <2>1
<1>2. ASSUME NEW m \in Nat, m \in Good PROVE m + 1 \in Good
  <2> SUFFICES ASSUME m + 1 + 1 <= n PROVE \E i \in 1..(m + 1 + 1) : First(m + 1 + 1, i)
    OBVIOUS
  <2>1. PICK i \in 1..(m + 1) : First(m + 1, i)
    BY <1>2
  <2>2. f[i] \in Int /\ f[m + 1 + 1] \in Int /\ i \in 1..(m + 1 + 1) /\ m + 1 + 1 \in 1..(m + 1 + 1)
    BY <2>1
  <2>3. \A j \in 1..(m + 1 + 1) : j \in 1..(m + 1) \/ j = m + 1 + 1
    OBVIOUS
  <2>4. CASE f[m + 1 + 1] > f[i]
    <3>1. First(m + 1 + 1, m + 1 + 1)
      <4> SUFFICES ASSUME NEW j \in 1..(m + 1), j # m + 1 + 1 PROVE f[m + 1 + 1] > f[j]
        BY <2>3
      <4>1. f[j] \in Int /\ (f[i] > f[j] \/ f[i] = f[j])
        BY <2>1
      <4> QED
        BY <2>2, <2>4, <4>1
    <3> QED
      BY <2>2, <3>1
  <2>5. CASE ~(f[m + 1 + 1] > f[i])
    <3>1. First(m + 1 + 1, i)
      BY <2>1, <2>2, <2>3, <2>5
    <3> QED
      BY <2>2, <3>1
  <2> QED
    BY <2>4, <2>5
<1>3. Nat \subseteq Good
  <2> HIDE DEF Good
  <2> QED
    BY <1>1, <1>2, Inductive
<1>4. n - 1 \in Good /\ n - 1 + 1 = n
  BY <1>3
<1> QED
  BY <1>4

(* What the totals are made of: the capacities are positive where they are known. *)
Capacity == (Nat \ {0}) \cup {None}
Samples == {m \in Infos : m.cpus \in Capacity /\ m.bytes \in Capacity}

(* CPU: between the lowest and the highest reading of the servers that count.   *)
LEMMA CpuTotal ==
    ASSUME NEW s \in Seq(Samples)
    PROVE  LET a == aggregateCpu(s)
           IN /\ a.used \in Nat /\ a.total \in Nat /\ a.used <= 100 * a.total
              /\ a.reporting \in 0..Len(s) /\ (a.reporting = 0 <=> a.total = 0)
              /\ a.reporting > 0 => \E m \in Of(s) : m.cpu \in 0..100
              /\ \A c \in Nat : (\A m \in Of(s) : m.cpu \in 0..100 => m.cpu <= c) => a.used <= c * a.total
<1> DEFINE S == {m \in ToSet(s) : m.cpu # None /\ m.cpus # None /\ m.cpu \in 0..100}
           good == Keep(s, S)
           use == [i \in DOMAIN good |-> good[i].cpu * good[i].cpus]
           all == [i \in DOMAIN good |-> good[i].cpus]
<1>1. aggregateCpu(s) = [used |-> SumOf(use), total |-> SumOf(all), reporting |-> Len(good)]
  BY DEF aggregateCpu, Field
<1>2. good \in Seq(Samples) /\ Of(good) = Of(s) \cap S /\ Len(good) \in 0..Len(s)
  <2> HIDE DEF S
  <2> QED
    BY Keeps, KeepsFewer
<1>3. \A m \in Of(good) : m \in Of(s) /\ m.cpu \in 0..100 /\ m.cpus \in Nat \ {0}
  <2>1. Of(s) \subseteq Samples
    BY ElementOfSeq DEF Of
  <2> HIDE DEF good
  <2> QED
    BY <1>2, <2>1 DEF Samples, Capacity
<1> HIDE DEF good, S
<1> DEFINE n == Len(good)
<1>4. n \in Nat /\ DOMAIN good = 1..n
  BY <1>2
<1> HIDE DEF n
<1> DEFINE cpu(i) == good[i].cpu
           cap(i) == good[i].cpus
<1>5. \A i \in 1..n : good[i] \in Of(good) /\ cpu(i) \in 0..100 /\ cap(i) \in Nat \ {0}
  BY <1>3, <1>4 DEF Of
<1>u. use = [i \in 1..n |-> cpu(i) * cap(i)] /\ all = [i \in 1..n |-> cap(i)]
  BY <1>4
<1>m. \A m \in Of(good) : m \in Of(s) /\ \A i \in 1..n : good[i] = m => cpu(i) = m.cpu
  BY <1>3
<1> HIDE DEF use, all, cpu, cap
<1>6. /\ \A a \in 0..100 : a \in Nat /\ a <= 100
      /\ \A a \in 0..100, b \in Nat \ {0} : a * b \in Nat
  OBVIOUS
<1> DEFINE prod(i) == cpu(i) * cap(i)
<1>p. \A i \in 1..n : prod(i) \in Nat
  <2> SUFFICES ASSUME NEW i \in 1..n PROVE cpu(i) * cap(i) \in Nat
    OBVIOUS
  <2>1. cpu(i) \in 0..100 /\ cap(i) \in Nat \ {0}
    BY <1>5
  <2> QED
    BY <1>6, <2>1
<1>q. use = [i \in 1..n |-> prod(i)]
  BY <1>u
<1>7. use \in Seq(Nat) /\ Len(use) = n /\ \A i \in 1..n : use[i] = cpu(i) * cap(i)
  <2>1. \A i \in 1..n : prod(i) = cpu(i) * cap(i)
    OBVIOUS
  <2> HIDE DEF prod
  <2> QED
    BY <1>4, <1>p, <1>q, <2>1
<1> HIDE DEF prod
<1>8. all \in Seq(Nat \ {0}) /\ all \in Seq(Nat) /\ Len(all) = n /\ \A i \in 1..n : all[i] = cap(i)
  BY <1>4, <1>5, <1>u
<1>9. ASSUME NEW c \in Nat, \A i \in 1..n : cpu(i) <= c
      PROVE  SumOf(use) \in Nat /\ SumOf(all) \in Nat /\ SumOf(use) <= c * SumOf(all)
  <2>1. \A a \in 0..100, b \in Nat \ {0} : a <= c => a * b <= c * b
    OBVIOUS
  <2>2. \A i \in 1..n : use[i] <= c * all[i]
    BY <1>5, <1>7, <1>8, <1>9, <2>1
  <2> QED
    BY <1>7, <1>8, <2>2, SumsCompare
<1>10. SumOf(use) \in Nat /\ SumOf(all) \in Nat /\ SumOf(use) <= 100 * SumOf(all)
  <2>1. \A i \in 1..n : cpu(i) <= 100
    <3> SUFFICES ASSUME NEW i \in 1..n PROVE cpu(i) <= 100
      OBVIOUS
    <3>1. cpu(i) \in 0..100
      BY <1>5
    <3> QED
      BY <1>6, <3>1
  <2>2. 100 \in Nat
    OBVIOUS
  <2> QED
    BY <1>9, <2>1, <2>2
<1>11. n = 0 <=> SumOf(all) = 0
  <2>1. CASE n = 0
    <3>1. all = <<>>
      BY <1>8, <2>1, EmptySeq
    <3> QED
      BY <2>1, <3>1, SumOfNone
  <2>2. CASE n # 0
    <3>1. all # <<>>
      BY <1>8, <2>2
    <3>2. SumOf(all) > 0
      BY <1>8, <3>1, SumPositive
    <3> QED
      BY <1>10, <2>2, <3>2
  <2> QED
    BY <2>1, <2>2
<1>12. n > 0 => \E m \in Of(s) : m.cpu \in 0..100
  <2> SUFFICES ASSUME n > 0 PROVE \E m \in Of(s) : m.cpu \in 0..100
    OBVIOUS
  <2>1. 1 \in 1..n
    BY <1>4
  <2> QED
    BY <1>5, <1>m, <2>1
<1>13. ASSUME NEW c \in Nat, \A m \in Of(s) : m.cpu \in 0..100 => m.cpu <= c
       PROVE  SumOf(use) <= c * SumOf(all)
  <2>1. \A i \in 1..n : cpu(i) <= c
    BY <1>5, <1>m, <1>13
  <2> QED
    BY <1>9, <2>1
<1> QED
  BY <1>1, <1>2, <1>10, <1>11, <1>12, <1>13 DEF n

LEMMA BytesTotal ==
    ASSUME NEW s \in Seq(Samples)
    PROVE  LET a == aggregateBytes(s)
           IN a.used \in Nat /\ a.total \in Nat /\ a.used <= a.total
<1> DEFINE S == {m \in ToSet(s) : m.used # None /\ m.bytes # None /\ m.used \in 0..m.bytes}
           good == Keep(s, S)
           use == [i \in DOMAIN good |-> good[i].used]
           all == [i \in DOMAIN good |-> good[i].bytes]
<1>1. aggregateBytes(s) = [used |-> SumOf(use), total |-> SumOf(all), reporting |-> Len(good)]
  BY DEF aggregateBytes, Field
<1>2. good \in Seq(Samples) /\ Of(good) = Of(s) \cap S
  <2> HIDE DEF S
  <2> QED
    BY Keeps
<1>3. \A m \in Of(good) : m.bytes \in Nat /\ m.used \in Nat /\ m.used <= m.bytes
  <2>1. Of(s) \subseteq Samples
    BY ElementOfSeq DEF Of
  <2> HIDE DEF good
  <2> QED
    BY <1>2, <2>1 DEF Samples, Capacity
<1> HIDE DEF good, S
<1> DEFINE n == Len(good)
<1>4. n \in Nat /\ DOMAIN good = 1..n
  BY <1>2
<1> HIDE DEF n
<1> DEFINE part(i) == good[i].used
           cap(i) == good[i].bytes
<1>5. \A i \in 1..n : cap(i) \in Nat /\ part(i) \in Nat /\ part(i) <= cap(i)
  BY <1>3, <1>4 DEF Of
<1>u. use = [i \in 1..n |-> part(i)] /\ all = [i \in 1..n |-> cap(i)]
  BY <1>4
<1> HIDE DEF use, all, part, cap
<1>6. use \in Seq(Nat) /\ Len(use) = n /\ \A i \in 1..n : use[i] = part(i)
  BY <1>4, <1>5, <1>u
<1>7. all \in Seq(Nat) /\ Len(all) = n /\ \A i \in 1..n : all[i] = cap(i)
  BY <1>4, <1>5, <1>u
<1>8. \A i \in 1..n : use[i] <= 1 * all[i]
  BY <1>5, <1>6, <1>7
<1>9. SumOf(use) \in Nat /\ SumOf(all) \in Nat /\ SumOf(use) <= 1 * SumOf(all)
  BY <1>6, <1>7, <1>8, SumsCompare
<1> QED
  BY <1>1, <1>9

LEMMA NetworkTotal ==
    ASSUME NEW s \in Seq(Samples)
    PROVE  aggregateNetwork(s).reporting \in 0..Len(s)
<1> DEFINE S == {m \in ToSet(s) : m.rx # None /\ m.tx # None /\ m.rx >= 0 /\ m.tx >= 0}
<1>1. aggregateNetwork(s).reporting = Len(Keep(s, S))
  BY DEF aggregateNetwork
<1> HIDE DEF S
<1> QED
  BY <1>1, KeepsFewer

(* A sample, field by field.                                                   *)
LEMMA FieldsSet ==
    ASSUME NEW r \in Infos, NEW v \in Reading
    PROVE  /\ [r EXCEPT !.cpu = v] \in Infos /\ [r EXCEPT !.used = v] \in Infos
           /\ [r EXCEPT !.rx = v] \in Infos /\ [r EXCEPT !.tx = v] \in Infos
           /\ [r EXCEPT !.cpus = v] \in Infos /\ [r EXCEPT !.cpus = v].cpus = v
           /\ [r EXCEPT !.bytes = v] \in Infos /\ [r EXCEPT !.bytes = v].bytes = v
           /\ [r EXCEPT !.bytes = v].cpus = r.cpus /\ [r EXCEPT !.bytes = v].cpu = r.cpu
           /\ [r EXCEPT !.cpus = v].cpu = r.cpu /\ [r EXCEPT !.cpus = v].bytes = r.bytes
<1>1. [r EXCEPT !.cpu = v] \in Infos /\ [r EXCEPT !.used = v] \in Infos
  BY DEF Infos
<1>2. [r EXCEPT !.rx = v] \in Infos /\ [r EXCEPT !.tx = v] \in Infos
  BY DEF Infos
<1>3. [r EXCEPT !.cpus = v] \in Infos /\ [r EXCEPT !.bytes = v] \in Infos
  BY DEF Infos
<1>4. [r EXCEPT !.cpus = v].cpus = v /\ [r EXCEPT !.cpus = v].cpu = r.cpu /\ [r EXCEPT !.cpus = v].bytes = r.bytes
  BY DEF Infos
<1>5. [r EXCEPT !.bytes = v].bytes = v /\ [r EXCEPT !.bytes = v].cpus = r.cpus /\ [r EXCEPT !.bytes = v].cpu = r.cpu
  BY DEF Infos
<1> QED
  BY <1>1, <1>2, <1>3, <1>4, <1>5

LEMMA PositiveIs == ASSUME NEW v \in Reading PROVE positive(v) \in Capacity /\ positive(v) \in Reading
BY DEF positive, Reading, Capacity

LEMMA SampleFits ==
    ASSUME NEW r \in Infos, NEW x \in Capacity \cap Reading, NEW y \in Capacity \cap Reading
    PROVE  [r EXCEPT !.cpus = x, !.bytes = y] \in Samples /\ [r EXCEPT !.cpus = x, !.bytes = y].cpu = r.cpu
<1> DEFINE one == [r EXCEPT !.cpus = x]
           two == [one EXCEPT !.bytes = y]
<1>1. one \in Infos /\ one.cpus = x /\ one.cpu = r.cpu
  BY FieldsSet
<1>2. [r EXCEPT !.cpus = x, !.bytes = y] = two
  OBVIOUS
<1> HIDE DEF one
<1>3. two \in Infos /\ two.bytes = y /\ two.cpus = one.cpus /\ two.cpu = one.cpu
  BY <1>1, FieldsSet
<1> HIDE DEF two
<1> QED
  BY <1>1, <1>2, <1>3 DEF Samples

LEMMA InfoFits ==
    ASSUME NEW info \in Infos
    PROVE  sampleFromInfo(info) \in Samples /\ sampleFromInfo(info).cpu = info.cpu
<1> DEFINE x == positive(info.cpus)
           y == positive(info.bytes)
<1>1. info.cpus \in Reading /\ info.bytes \in Reading
  BY DEF Infos
<1>2. x \in Capacity \cap Reading /\ y \in Capacity \cap Reading
  BY <1>1, PositiveIs
<1>3. sampleFromInfo(info) = [info EXCEPT !.cpus = x, !.bytes = y]
  BY DEF sampleFromInfo
<1> HIDE DEF x, y
<1>4. [info EXCEPT !.cpus = x, !.bytes = y] \in Samples /\ [info EXCEPT !.cpus = x, !.bytes = y].cpu = info.cpu
  BY <1>2, SampleFits
<1> QED
  BY <1>3, <1>4, Zenon

LEMMA PointFits ==
    ASSUME NEW point, point.info \in Infos, NEW series, series.cpus \in Reading, series.bytes \in Reading
    PROVE  sampleFromPoint(point, series) \in Samples
<1> DEFINE info == point.info
           Own(v, w) == IF positive(v) # None THEN v ELSE positive(w)
           x == Own(info.cpus, series.cpus)
           y == Own(info.bytes, series.bytes)
<1>1. info.cpus \in Reading /\ info.bytes \in Reading
  BY DEF Infos
<1>2. \A v, w \in Reading : Own(v, w) \in Capacity \cap Reading
  BY PositiveIs DEF positive, Reading, Capacity
<1>3. x \in Capacity \cap Reading /\ y \in Capacity \cap Reading
  BY <1>1, <1>2
<1>4. sampleFromPoint(point, series) = [info EXCEPT !.cpus = x, !.bytes = y]
  BY DEF sampleFromPoint
<1> HIDE DEF x, y, info
<1>5. info \in Infos
  BY DEF info
<1>6. [info EXCEPT !.cpus = x, !.bytes = y] \in Samples
  BY <1>3, <1>5, SampleFits
<1> QED
  BY <1>4, <1>6, Zenon

(* A sequence, index by index.                                                 *)
LEMMA Indexed ==
    ASSUME NEW T, NEW s \in Seq(T)
    PROVE  /\ Len(s) \in Nat /\ DOMAIN s = 1..Len(s)
           /\ \A i \in 1..Len(s) : s[i] \in T /\ s[i] \in Of(s)
<1>1. Len(s) \in Nat /\ DOMAIN s = 1..Len(s)
  BY LenProperties
<1>2. \A i \in 1..Len(s) : s[i] \in T
  BY ElementOfSeq
<1> QED
  BY <1>1, <1>2 DEF Of

(* What a server measured when its sample was taken.                           *)
LEMMA Measured ==
    ASSUME MonitorTyped, NEW s \in AllServers, live[s] # None
    PROVE  Info(s, live[s].at) \in Infos
<1>1. live[s].at \in 0..MaxTime
  <2>1. live[s] \in Snap /\ live[s].at <= now /\ now \in 0..MaxTime
    BY DEF MonitorTyped, SamplesTyped
  <2> QED
    BY <2>1, MonitorAssumption DEF Snap
<1> QED
  BY <1>1, MonitorAssumption

(* The samples the cards add up.                                               *)
LEMMA ReportingFits ==
    ASSUME MonitorTyped
    PROVE  /\ reporting \in Seq(Samples) /\ Len(reporting) <= Len(visible)
           /\ \A m \in Of(reporting) : \E s \in Of(visible) :
                s \in AllServers /\ live[s] # None /\ m.cpu = Info(s, live[s].at).cpu
<1> DEFINE S == {s \in AllServers : live[s] # None}
           got == Keep(visible, S)
           n == Len(got)
           Card(s) == sampleFromInfo(Info(s, live[s].at))
<1>1. reporting = [i \in DOMAIN got |-> Card(got[i])]
  BY DEF reporting
<1>2. visible \in Seq(AllServers) /\ Len(visible) \in Nat
  BY ShownOnce, LenProperties
<1>3. got \in Seq(AllServers) /\ Of(got) = Of(visible) \cap S /\ n \in 0..Len(visible)
  <2> HIDE DEF S
  <2> QED
    BY <1>2, ShownOnce, Keeps, KeepsFewer
<1>4. \A s \in S : s \in AllServers /\ Card(s) \in Samples /\ Card(s).cpu = Info(s, live[s].at).cpu
  <2> SUFFICES ASSUME NEW s \in AllServers, live[s] # None
               PROVE  Card(s) \in Samples /\ Card(s).cpu = Info(s, live[s].at).cpu
    OBVIOUS
  <2>1. Info(s, live[s].at) \in Infos
    BY Measured
  <2> QED
    BY <2>1, InfoFits
<1>5. DOMAIN got = 1..n /\ \A i \in 1..n : got[i] \in Of(got)
  <2> HIDE DEF got
  <2> QED
    BY <1>3, Indexed
<1>6. \A i \in 1..n : got[i] \in S /\ got[i] \in Of(visible)
  BY <1>3, <1>5
<1> HIDE DEF got, n, Card
<1>n. n \in Nat /\ n <= Len(visible)
  BY <1>2, <1>3
<1>7. \A i \in 1..n : Card(got[i]) \in Samples
  BY <1>4, <1>6
<1> DEFINE cards == [i \in 1..n |-> Card(got[i])]
<1>8. reporting = cards
  BY <1>1, <1>5
<1>9. cards \in Seq(Samples) /\ Len(cards) = n /\ DOMAIN cards = 1..n
  <2> DEFINE card(i) == Card(got[i])
  <2>1. \A i \in 1..n : card(i) \in Samples
    BY <1>7
  <2>2. cards = [i \in 1..n |-> card(i)]
    OBVIOUS
  <2> HIDE DEF card, cards, Samples
  <2> QED
    BY <1>n, <2>1, <2>2
<1>10. ASSUME NEW m \in Of(cards)
       PROVE  \E s \in Of(visible) : s \in AllServers /\ live[s] # None /\ m.cpu = Info(s, live[s].at).cpu
  <2>1. PICK i \in 1..n : m = cards[i]
    BY <1>9, <1>10 DEF Of
  <2>2. m = Card(got[i])
    BY <2>1
  <2> HIDE DEF cards
  <2> QED
    BY <1>4, <1>6, <2>2
<1> HIDE DEF cards
<1> QED
  BY <1>n, <1>8, <1>9, <1>10

(* The busiest server is one that is shown, and none is above it.              *)
LEMMA Busiest ==
    ASSUME MonitorTyped, NEW s \in Of(visible), rowReading(s) # None
    PROVE  /\ busiestServer # None /\ rowReading(busiestServer) \in Int
           /\ \A r \in Of(visible) : rowReading(r) # None =>
                rowReading(r) \in Int /\ rowReading(r) <= rowReading(busiestServer)
<1> DEFINE S == {x \in AllServers : rowReading(x) # None}
           read == Keep(visible, S)
           n == Len(read)
           Busier(i, j) == \/ rowReading(read[i]) > rowReading(read[j])
                           \/ rowReading(read[i]) = rowReading(read[j]) /\ i <= j
<1>1. busiestServer = IF read = <<>> THEN None
                      ELSE read[CHOOSE i \in DOMAIN read : \A j \in DOMAIN read : Busier(i, j)]
  BY DEF busiestServer
<1>2. visible \in Seq(AllServers)
  BY ShownOnce
<1>3. read \in Seq(AllServers) /\ Of(read) = Of(visible) \cap S
  <2> HIDE DEF S
  <2> QED
    BY <1>2, Keeps
<1>4. ASSUME NEW x \in AllServers, rowReading(x) # None PROVE rowReading(x) \in Int
  <2>1. live[x] # None /\ rowReading(x) = Info(x, live[x].at).cpu
    BY <1>4 DEF rowReading
  <2>2. Info(x, live[x].at) \in Infos
    BY <2>1, Measured
  <2> QED
    BY <1>4, <2>1, <2>2 DEF Infos, Reading
<1>5. Of(visible) \subseteq AllServers
  BY <1>2, ElementOfSeq DEF Of
<1>6. DOMAIN read = 1..n /\ n \in Nat /\ \A i \in 1..n : read[i] \in Of(read) /\ read[i] \in AllServers
  <2> HIDE DEF read
  <2> QED
    BY <1>3, Indexed
<1>7. read # <<>> /\ n # 0
  <2>1. s \in Of(read)
    BY <1>3, <1>5
  <2>2. DOMAIN read # {}
    BY <2>1 DEF Of
  <2> HIDE DEF read
  <2> QED
    BY <1>6, <2>2
<1>8. \A i \in 1..n : rowReading(read[i]) \in Int
  <2> SUFFICES ASSUME NEW i \in 1..n PROVE rowReading(read[i]) \in Int
    OBVIOUS
  <2>1. read[i] \in S
    BY <1>3, <1>6
  <2> QED
    BY <1>4, <2>1
<1>o. \A r \in Of(visible) : rowReading(r) # None => \E j \in 1..n : r = read[j]
  <2> SUFFICES ASSUME NEW r \in Of(visible), rowReading(r) # None PROVE \E j \in 1..n : r = read[j]
    OBVIOUS
  <2>1. r \in Of(read)
    BY <1>3, <1>5
  <2> QED
    BY <1>6, <2>1 DEF Of
<1> HIDE DEF read, n, S
<1> DEFINE f == [i \in 1..n |-> rowReading(read[i])]
<1>9. \E i \in 1..n : \A j \in 1..n : f[i] > f[j] \/ (f[i] = f[j] /\ i <= j)
  <2>1. \A i \in 1..n : f[i] \in Int
    BY <1>8
  <2>2. n \in Nat \ {0}
    BY <1>6, <1>7
  <2> HIDE DEF f
  <2> QED
    BY <2>1, <2>2, FirstHighest
<1>10. \E i \in DOMAIN read : \A j \in DOMAIN read : Busier(i, j)
  <2>1. \A i, j \in 1..n : (f[i] > f[j] \/ (f[i] = f[j] /\ i <= j)) => Busier(i, j)
    BY DEF f
  <2> HIDE DEF f, Busier
  <2> QED
    BY <1>6, <1>9, <2>1
<1> DEFINE b == CHOOSE i \in DOMAIN read : \A j \in DOMAIN read : Busier(i, j)
<1>11. b \in 1..n /\ \A j \in 1..n : Busier(b, j)
  <2> HIDE DEF Busier
  <2> QED
    BY <1>6, <1>10
<1>12. busiestServer = read[b]
  BY <1>1, <1>7
<1> HIDE DEF b
<1>13. read[b] \in AllServers /\ rowReading(read[b]) \in Int /\ None \notin AllServers
  BY <1>6, <1>8, <1>11, MonitorAssumption
<1>14. \A j \in 1..n : rowReading(read[j]) \in Int /\ rowReading(read[j]) <= rowReading(read[b])
  BY <1>8, <1>11, <1>13
<1> QED
  BY <1>o, <1>12, <1>13, <1>14

(* The cards tell the truth.                                                   *)
Between(a) == a.used <= 100 * a.total /\ a.used >= 0 /\ (a.reporting = 0 <=> a.total = 0)

LEMMA CardsTrue ==
    ASSUME MonitorTyped
    PROVE  LET cards == MetricCards
           IN /\ Between(cards.cpu) /\ cards.cpu.reporting <= Len(visible)
              /\ (cards.cpu.reporting > 0 /\ \A i \in DOMAIN visible : live[visible[i]] # None => visible[i] \in up)
                   => cards.busiest # None /\ cards.cpu.used <= cards.cpu.total * rowReading(cards.busiest)
<1> DEFINE a == aggregateCpu(reporting)
           high == rowReading(busiestServer)
<1>1. MetricCards.cpu = a /\ MetricCards.busiest = busiestServer
  BY DEF MetricCards
<1>2. reporting \in Seq(Samples) /\ Len(reporting) <= Len(visible) /\ Len(reporting) \in Nat /\ Len(visible) \in Nat
  BY ReportingFits, ShownOnce, LenProperties
<1>3. /\ a.used \in Nat /\ a.total \in Nat /\ a.used <= 100 * a.total
      /\ a.reporting \in 0..Len(reporting) /\ (a.reporting = 0 <=> a.total = 0)
      /\ a.reporting > 0 => \E m \in Of(reporting) : m.cpu \in 0..100
      /\ \A c \in Nat : (\A m \in Of(reporting) : m.cpu \in 0..100 => m.cpu <= c) => a.used <= c * a.total
  BY <1>2, CpuTotal
<1> HIDE DEF a
<1>4. Between(a) /\ a.reporting <= Len(visible)
  BY <1>2, <1>3 DEF Between
<1>5. ASSUME a.reporting > 0, \A i \in DOMAIN visible : live[visible[i]] # None => visible[i] \in up
      PROVE  busiestServer # None /\ a.used <= a.total * high
  <2>1. ASSUME NEW m \in Of(reporting), m.cpu \in 0..100
        PROVE  m.cpu \in Nat /\ \E s \in Of(visible) : rowReading(s) # None /\ rowReading(s) = m.cpu
    <3>1. PICK s \in Of(visible) : s \in AllServers /\ live[s] # None /\ m.cpu = Info(s, live[s].at).cpu
      BY <2>1, ReportingFits
    <3>2. s \in up
      BY <1>5, <3>1 DEF Of
    <3>3. rowReading(s) = m.cpu
      BY <3>1, <3>2 DEF rowReading
    <3>4. m.cpu # None /\ m.cpu \in Nat
      <4>1. \A v \in 0..100 : v \in Nat /\ v \in Int
        OBVIOUS
      <4>2. m.cpu \in Nat /\ m.cpu \in Int
        BY <2>1, <4>1
      <4> QED
        BY <4>2, MonitorAssumption
    <3> QED
      BY <3>3, <3>4
  <2>2. PICK m \in Of(reporting) : m.cpu \in 0..100
    BY <1>3, <1>5
  <2>3. PICK s \in Of(visible) : rowReading(s) # None /\ rowReading(s) = m.cpu
    BY <2>1, <2>2
  <2>4. /\ busiestServer # None /\ high \in Int
        /\ \A r \in Of(visible) : rowReading(r) # None => rowReading(r) \in Int /\ rowReading(r) <= high
    BY <2>3, Busiest
  <2> HIDE DEF high
  <2>5. high \in Nat
    <3>1. m.cpu \in Nat /\ m.cpu <= high
      BY <2>1, <2>2, <2>3, <2>4
    <3> DEFINE x == m.cpu
    <3>2. x \in Nat /\ x <= high
      BY <3>1
    <3> HIDE DEF x
    <3> QED
      BY <2>4, <3>2
  <2>6. \A r \in Of(reporting) : r.cpu \in 0..100 => r.cpu <= high
    BY <2>1, <2>4
  <2>7. a.used <= high * a.total
    BY <1>3, <2>5, <2>6
  <2> DEFINE used == a.used
             total == a.total
  <2>8. used \in Nat /\ total \in Nat /\ used <= high * total
    BY <1>3, <2>7
  <2> HIDE DEF used, total
  <2>9. used <= total * high
    BY <2>5, <2>8
  <2> QED
    BY <2>4, <2>9 DEF used, total
<1> QED
  BY <1>1, <1>4, <1>5

(* A point of a chart.                                                         *)
Spot == [t : Int, info : Infos]
Series == [points : Seq(Spot), cpus : Reading, bytes : Reading]

LEMMA ZeroedFits == ASSUME NEW info \in Infos PROVE Zeroed(info) \in Infos
<1> DEFINE z(v) == IF v = None THEN 0 ELSE v
           a == z(info.cpu)
           b == z(info.used)
           c == z(info.rx)
           d == z(info.tx)
           one == [info EXCEPT !.cpu = a]
           two == [one EXCEPT !.used = b]
           three == [two EXCEPT !.rx = c]
           four == [three EXCEPT !.tx = d]
<1>1. a \in Reading /\ b \in Reading /\ c \in Reading /\ d \in Reading
  <2>1. info.cpu \in Reading /\ info.used \in Reading /\ info.rx \in Reading /\ info.tx \in Reading
    BY DEF Infos
  <2>2. \A v \in Reading : z(v) \in Reading
    BY DEF Reading
  <2> HIDE DEF z
  <2> QED
    BY <2>1, <2>2
<1>2. Zeroed(info) = [info EXCEPT !.cpu = a, !.used = b, !.rx = c, !.tx = d]
  BY DEF Zeroed
<1> HIDE DEF a, b, c, d
<1>3. [info EXCEPT !.cpu = a, !.used = b, !.rx = c, !.tx = d] = four
  OBVIOUS
<1>4. one \in Infos
  BY <1>1, FieldsSet
<1> HIDE DEF one
<1>5. two \in Infos
  BY <1>1, <1>4, FieldsSet
<1> HIDE DEF two
<1>6. three \in Infos
  BY <1>1, <1>5, FieldsSet
<1> HIDE DEF three
<1>7. four \in Infos
  BY <1>1, <1>6, FieldsSet
<1> QED
  BY <1>2, <1>3, <1>7, Zenon

LEMMA DrawnFits ==
    ASSUME NEW info \in Infos, NEW at \in Int
    PROVE  /\ mapHistory([t |-> at, info |-> info]) \in Spot
           /\ liveSample(info, at) \in Spot
<1> DEFINE zero == Zeroed(info)
           x == positive(zero.cpus)
           y == positive(zero.bytes)
           bare == [zero EXCEPT !.cpus = None, !.bytes = None]
           full == [zero EXCEPT !.cpus = x, !.bytes = y]
<1>1. mapHistory([t |-> at, info |-> info]) = [t |-> at, info |-> bare]
  BY DEF mapHistory
<1>2. liveSample(info, at) = [t |-> at, info |-> full]
  BY DEF liveSample
<1>3. zero \in Infos
  BY ZeroedFits
<1> HIDE DEF zero
<1>4. x \in Capacity \cap Reading /\ y \in Capacity \cap Reading /\ None \in Capacity \cap Reading
  <2>1. zero.cpus \in Reading /\ zero.bytes \in Reading
    BY <1>3 DEF Infos
  <2>2. None \in Capacity \cap Reading
    BY DEF Capacity, Reading
  <2> QED
    BY <2>1, <2>2, PositiveIs
<1> HIDE DEF x, y
<1>5. bare \in Infos
  BY <1>3, <1>4, SampleFits DEF Samples
<1>6. full \in Infos
  BY <1>3, <1>4, SampleFits DEF Samples
<1> HIDE DEF bare, full
<1> QED
  BY <1>1, <1>2, <1>5, <1>6 DEF Spot

(* The last of a sequence.                                                     *)
LEMMA LatestOf ==
    ASSUME NEW T, NEW s \in Seq(T), NEW n \in Nat \ {0}
    PROVE  Latest(s, n) \in Seq(T)
<1> DEFINE from == IF Len(s) > n THEN Len(s) - n + 1 ELSE 1
<1>1. Len(s) \in Nat /\ DOMAIN s = 1..Len(s) /\ from \in Nat /\ from >= 1 /\ from <= Len(s) + 1
  OBVIOUS
<1>2. Latest(s, n) = SubSeq(s, from, Len(s))
  BY DEF Latest
<1> HIDE DEF from
<1> QED
  BY <1>1, <1>2

(* The chart of a server.                                                      *)
LEMMA ChartFits == ASSUME MonitorTyped, NEW s \in AllServers PROVE chartFor(s) \in Seq(Spot)
<1> DEFINE h == history[s]
           n == Len(h)
           Drawn(p) == IF p.own THEN liveSample(Info(s, p.at), p.t)
                       ELSE mapHistory([t |-> p.t, info |-> Info(s, p.at)])
           drawn(i) == Drawn(h[i])
           points == [i \in DOMAIN h |-> drawn(i)]
           clock == now + Skew
           S == {p \in ToSet(points) : p.t >= clock - Window}
           good == Keep(points, S)
<1>1. chartFor(s) = IF Len(good) > 1 THEN good ELSE Latest(points, 2)
  BY DEF chartFor, filterHistory
<1>2. Past(h)
  BY DEF MonitorTyped, SamplesTyped
<1>3. n \in Nat /\ DOMAIN h = 1..n /\ \A i \in 1..n : h[i] \in Point /\ h[i].at <= now
  BY <1>2, Indexed DEF Past, Dated
<1>4. ASSUME NEW i \in 1..n PROVE drawn(i) \in Spot
  <2> DEFINE p == h[i]
             info == Info(s, p.at)
  <2>1. p.t \in Int /\ p.at \in 0..MaxTime
    <3>1. p \in Point /\ p.at <= now /\ now \in 0..MaxTime /\ MaxTime \in Nat
      BY <1>3, <1>4, MonitorAssumption DEF MonitorTyped
    <3> HIDE DEF p
    <3> QED
      BY <3>1 DEF Point
  <2>2. info \in Infos
    BY <2>1, MonitorAssumption
  <2> HIDE DEF p
  <2>3. drawn(i) = IF p.own THEN liveSample(info, p.t) ELSE mapHistory([t |-> p.t, info |-> info])
    BY DEF p
  <2> HIDE DEF info, drawn
  <2> QED
    BY <2>1, <2>2, <2>3, DrawnFits
<1> HIDE DEF h, n, drawn
<1>5. points \in Seq(Spot)
  <2>1. points = [i \in 1..n |-> drawn(i)]
    BY <1>3
  <2> HIDE DEF points
  <2> QED
    BY <1>3, <1>4, <2>1
<1> HIDE DEF points
<1>6. good \in Seq(Spot)
  <2> HIDE DEF S
  <2> QED
    BY <1>5, Keeps
<1>7. Latest(points, 2) \in Seq(Spot)
  BY <1>5, LatestOf
<1> QED
  BY <1>1, <1>6, <1>7

(* The reading of a series under a point of the combined one is there.         *)
LEMMA AtIs ==
    ASSUME NEW series, NEW l \in Nat, Len(series.points) = l + 1,
           NEW count \in Nat, NEW index \in 1..count
    PROVE  At(series, index, count) \in 1..(l + 1)
<1> DEFINE d == IF count > 2 THEN count - 1 ELSE 1
           k == index - 1
           at(i) == (2 * i + d) \div (2 * d)
<1>1. At(series, index, count) = 1 + at(k * l)
  <2>1. l + 1 - 1 = l
    OBVIOUS
  <2> QED
    BY <2>1 DEF At, Rounded
<1>2. d \in Nat \ {0} /\ k \in Nat /\ k <= d
  OBVIOUS
<1> HIDE DEF d, k
<1> DEFINE a == k * l
           b == d * l
<1>3. a \in Nat /\ b \in Nat /\ a <= b
  BY <1>2
<1>4. at(b) = l
  BY <1>2, RoundsMultiple
<1> HIDE DEF a, b
<1>5. at(a) \in Nat /\ at(a) <= at(b)
  BY <1>2, <1>3, RoundsUp
<1> DEFINE v == at(a)
<1>6. v \in Nat /\ v <= l
  BY <1>4, <1>5
<1>7. At(series, index, count) = 1 + v
  BY <1>1 DEF a
<1> HIDE DEF v
<1> QED
  BY <1>6, <1>7

(* The longest series.                                                         *)
LEMMA LongestIs ==
    ASSUME NEW all \in Seq(Series)
    PROVE  LET count == Max({0} \cup {Len(all[k].points) : k \in DOMAIN all})
           IN count \in Nat
<1> DEFINE n == Len(all)
           size(k) == Len(all[k].points)
           sizes == {0} \cup {size(k) : k \in DOMAIN all}
           f == [i \in 1..(n + 1) |-> IF i = n + 1 THEN 0 ELSE size(i)]
<1>1. n \in Nat /\ DOMAIN all = 1..n /\ \A k \in 1..n : all[k] \in Series
  BY Indexed
<1>2. \A k \in 1..n : size(k) \in Nat
  <2> SUFFICES ASSUME NEW k \in 1..n PROVE Len(all[k].points) \in Nat
    OBVIOUS
  <2>1. all[k].points \in Seq(Spot)
    BY <1>1 DEF Series
  <2> QED
    BY <2>1, LenProperties
<1> HIDE DEF n, size
<1>3. \A i \in 1..(n + 1) : f[i] \in Int /\ f[i] \in sizes
  <2> SUFFICES ASSUME NEW i \in 1..(n + 1) PROVE f[i] \in Int /\ f[i] \in sizes
    OBVIOUS
  <2>1. CASE i = n + 1
    BY <2>1
  <2>2. CASE i # n + 1
    <3>1. i \in 1..n /\ f[i] = size(i)
      BY <1>1, <2>2
    <3> QED
      BY <1>1, <1>2, <3>1
  <2> QED
    BY <2>1, <2>2
<1>4. \A x \in sizes : x \in Nat /\ \E i \in 1..(n + 1) : f[i] = x
  <2> SUFFICES ASSUME NEW x \in sizes PROVE x \in Nat /\ \E i \in 1..(n + 1) : f[i] = x
    OBVIOUS
  <2>1. CASE x = 0
    <3>1. n + 1 \in 1..(n + 1) /\ f[n + 1] = 0
      BY <1>1
    <3> QED
      BY <2>1, <3>1
  <2>2. CASE x # 0
    <3>1. PICK k \in 1..n : x = size(k)
      BY <1>1, <2>2
    <3>2. k \in 1..(n + 1) /\ k # n + 1
      BY <1>1
    <3> QED
      BY <1>2, <3>1, <3>2
  <2> QED
    BY <2>1, <2>2
<1> HIDE DEF f, sizes
<1>5. PICK i \in 1..(n + 1) : \A j \in 1..(n + 1) : f[i] > f[j] \/ (f[i] = f[j] /\ i <= j)
  <2>1. n + 1 \in Nat \ {0}
    BY <1>1
  <2> QED
    BY <1>3, <2>1, FirstHighest
<1>6. f[i] \in sizes /\ \A x \in sizes : f[i] >= x
  BY <1>3, <1>4, <1>5
<1>7. Max(sizes) \in sizes
  BY <1>6 DEF Max
<1> QED
  BY <1>4, <1>7 DEF sizes, size

(* Every point of a combined history tells the truth.                          *)
LEMMA CombinedTrue ==
    ASSUME NEW all \in Seq(Series), NEW i \in DOMAIN sparkHistory(all)
    PROVE  LET p == sparkHistory(all)[i]
           IN Between(p.cpu) /\ p.memory.used <= p.memory.total /\ p.net.reporting <= Len(all)
<1> DEFINE count == Max({0} \cup {Len(all[k].points) : k \in DOMAIN all})
           T == {s \in ToSet(all) : s.points # <<>>}
           filled == Keep(all, T)
           n == Len(filled)
           under(k, index) == sampleFromPoint(filled[k].points[At(filled[k], index, count)], filled[k])
           laid(index) == [k \in DOMAIN filled |-> under(k, index)]
           time(index) == Last(filled).points[At(Last(filled), index, count)].t
           joint(index) == [t |-> time(index), cpu |-> aggregateCpu(laid(index)),
                            memory |-> aggregateBytes(laid(index)), net |-> aggregateNetwork(laid(index))]
           points == [index \in 1..count |-> joint(index)]
           S == {p \in ToSet(points) : p.cpu.total > 0 \/ p.memory.total > 0 \/ p.net.reporting > 0}
<1>1. sparkHistory(all) = Keep(points, S)
  BY DEF sparkHistory
<1>2. count \in Nat
  BY LongestIs
<1> HIDE DEF count
<1>3. filled \in Seq(Series) /\ Of(filled) = Of(all) \cap T /\ n \in 0..Len(all) /\ Len(all) \in Nat
  <2> HIDE DEF T
  <2> QED
    BY Keeps, KeepsFewer, LenProperties
<1>4. n \in Nat /\ DOMAIN filled = 1..n /\ \A k \in 1..n : filled[k] \in Series /\ filled[k] \in Of(filled)
  <2> HIDE DEF filled
  <2> QED
    BY <1>3, Indexed
<1>5. \A k \in 1..n : filled[k].points # <<>>
  <2> HIDE DEF filled, n
  <2> QED
    BY <1>3, <1>4
<1> HIDE DEF filled, n, T
<1>6. ASSUME NEW index \in 1..count, NEW k \in 1..n PROVE under(k, index) \in Samples
  <2> DEFINE one == filled[k]
             row == one.points
             l == Len(row) - 1
             at == At(one, index, count)
  <2>1. row \in Seq(Spot) /\ one.cpus \in Reading /\ one.bytes \in Reading /\ row # <<>>
    BY <1>4, <1>5 DEF Series
  <2>2. l \in Nat /\ Len(row) = l + 1
    <3> HIDE DEF row
    <3>1. Len(row) \in Nat /\ Len(row) # 0
      BY <2>1, EmptySeq, LenProperties
    <3> QED
      BY <3>1
  <2>3. at \in 1..Len(row)
    <3> HIDE DEF one
    <3> QED
      BY <1>2, <2>2, AtIs
  <2>4. row[at] \in Spot
    <3> HIDE DEF row, at
    <3> QED
      BY <2>1, <2>3, ElementOfSeq
  <2>5. row[at].info \in Infos
    BY <2>4 DEF Spot
  <2> DEFINE spot == row[at]
  <2>6. under(k, index) = sampleFromPoint(spot, one)
    OBVIOUS
  <2>7. spot.info \in Infos
    BY <2>5
  <2> HIDE DEF spot, one, under
  <2>8. sampleFromPoint(spot, one) \in Samples
    BY <2>1, <2>7, PointFits DEF row
  <2> QED
    BY <2>6, <2>8
<1> HIDE DEF under
<1>7. ASSUME NEW index \in 1..count PROVE laid(index) \in Seq(Samples) /\ Len(laid(index)) = n
  <2> DEFINE card(k) == under(k, index)
             cards == [k \in 1..n |-> card(k)]
  <2>1. laid(index) = cards
    BY <1>4
  <2>2. \A k \in 1..n : card(k) \in Samples
    BY <1>6
  <2>3. cards \in Seq(Samples) /\ Len(cards) = n
    <3> HIDE DEF card, Samples
    <3> QED
      BY <1>4, <2>2
  <2> QED
    BY <2>1, <2>3
<1> HIDE DEF laid, time
<1>8. ASSUME NEW index \in 1..count
      PROVE  /\ Between(joint(index).cpu) /\ joint(index).memory.used <= joint(index).memory.total
             /\ joint(index).net.reporting <= Len(all)
  <2> DEFINE row == laid(index)
             a == aggregateCpu(row)
             b == aggregateBytes(row)
             c == aggregateNetwork(row)
  <2>1. joint(index).cpu = a /\ joint(index).memory = b /\ joint(index).net = c
    OBVIOUS
  <2>2. row \in Seq(Samples) /\ Len(row) = n
    BY <1>7
  <2> HIDE DEF row
  <2>3. /\ a.used \in Nat /\ a.total \in Nat /\ a.used <= 100 * a.total
        /\ (a.reporting = 0 <=> a.total = 0)
    BY <2>2, CpuTotal
  <2>4. b.used <= b.total
    BY <2>2, BytesTotal
  <2>5. c.reporting \in 0..n
    BY <2>2, NetworkTotal
  <2> HIDE DEF a, b, c
  <2>6. Between(a)
    BY <2>3 DEF Between
  <2>7. c.reporting <= Len(all)
    BY <1>3, <2>5
  <2> HIDE DEF joint
  <2> QED
    BY <2>1, <2>4, <2>6, <2>7
<1> DEFINE J == {joint(index) : index \in 1..count}
<1>9. points \in Seq(J) /\ DOMAIN points = 1..count /\ \A index \in 1..count : points[index] = joint(index)
  <2> HIDE DEF joint
  <2>1. \A index \in 1..count : joint(index) \in J
    OBVIOUS
  <2>2. DOMAIN points = 1..count
    OBVIOUS
  <2>3. \A index \in 1..count : points[index] = joint(index)
    OBVIOUS
  <2> HIDE DEF J
  <2>4. points \in [1..count -> J]
    BY <2>1
  <2> HIDE DEF points
  <2>5. points \in Seq(J)
    BY <1>2, <2>4
  <2> QED
    BY <2>2, <2>3, <2>5
<1> HIDE DEF joint, points, J
<1>10. Keep(points, S) \in Seq(J) /\ Of(Keep(points, S)) = Of(points) \cap S
  <2> HIDE DEF S
  <2> QED
    BY <1>9, Keeps
<1>11. sparkHistory(all)[i] \in Of(Keep(points, S))
  <2> HIDE DEF S
  <2> QED
    BY <1>1 DEF Of
<1>12. \E index \in 1..count : sparkHistory(all)[i] = joint(index)
  <2> HIDE DEF S
  <2> QED
    BY <1>9, <1>10, <1>11 DEF Of
<1> QED
  BY <1>8, <1>12

(* The series of the servers shown.                                            *)
LEMMA SeriesFit ==
    ASSUME MonitorTyped
    PROVE  \E all \in Seq(Series) : combined = sparkHistory(all) /\ Len(all) = Len(visible)
<1> DEFINE cpus(s) == IF live[s] = None THEN None ELSE Info(s, live[s].at).cpus
           bytes(s) == IF live[s] = None THEN None ELSE Info(s, live[s].at).bytes
           series(s) == [points |-> chartFor(s), cpus |-> cpus(s), bytes |-> bytes(s)]
           all == [i \in DOMAIN visible |-> series(visible[i])]
           n == Len(visible)
<1>1. n \in Nat /\ DOMAIN visible = 1..n /\ \A i \in 1..n : visible[i] \in AllServers
  BY ShownOnce, Indexed
<1>2. ASSUME NEW s \in AllServers PROVE series(s) \in Series
  <2>1. None \in Reading
    BY DEF Reading
  <2>2. cpus(s) \in Reading /\ bytes(s) \in Reading
    <3>1. CASE live[s] = None
      BY <2>1, <3>1
    <3>2. CASE live[s] # None
      <4>1. Info(s, live[s].at) \in Infos
        BY <3>2, Measured
      <4> QED
        BY <3>2, <4>1 DEF Infos
    <3> QED
      BY <3>1, <3>2
  <2>3. chartFor(s) \in Seq(Spot)
    BY ChartFits
  <2> HIDE DEF cpus, bytes
  <2> QED
    BY <2>2, <2>3 DEF Series
<1>3. combined = sparkHistory(all)
  BY DEF combined
<1> HIDE DEF n, series
<1> DEFINE row(i) == series(visible[i])
<1>4. \A i \in 1..n : row(i) \in Series
  BY <1>1, <1>2
<1>5. all = [i \in 1..n |-> row(i)]
  BY <1>1
<1> HIDE DEF row, all
<1>6. all \in Seq(Series) /\ Len(all) = n
  <2> HIDE DEF Series
  <2> QED
    BY <1>1, <1>4, <1>5
<1> QED
  BY <1>3, <1>6 DEF n

(* In every state of the window a history is what the collector took, in the    *)
(* order of its clock, and then the window's own points, in the order of the   *)
(* browser's, whatever the two clocks differ by, no more than are kept; and the *)
(* totals over the servers shown, of the cards and of the combined history, lie between what   *)
(* the servers that count report: aggregate.ts, format.ts mergeHistory.        *)
THEOREM MonitorInvariance == MonitorSpec => []MonitorInv
<1>1. MonitorIInv => HistoryOrdered
  <2> SUFFICES ASSUME MonitorIInv, NEW s \in AllServers
               PROVE  /\ \A i \in 2..Len(history[s]) : Follows(history[s][i - 1], history[s][i])
                      /\ Len(history[s]) <= MaxPoints
    BY DEF HistoryOrdered
  <2> DEFINE h == history[s]
  <2>1. Past(h)
    BY DEF MonitorIInv, PollingInv, MonitorTyped, SamplesTyped
  <2> HIDE DEF h
  <2>2. Len(h) \in Nat /\ DOMAIN h = 1..Len(h) /\ Len(h) <= MaxPoints /\ InTurn(h)
    BY <2>1, LenProperties DEF Past
  <2>3. ASSUME NEW i \in 2..Len(h) PROVE Follows(h[i - 1], h[i])
    <3>1. i - 1 \in DOMAIN h /\ i \in DOMAIN h /\ i - 1 < i
      BY <2>2
    <3> QED
      BY <2>2, <3>1 DEF InTurn
  <2> QED
    BY <2>2, <2>3 DEF h
<1>2. MonitorIInv => TotalsTrue
  <2> SUFFICES ASSUME MonitorTyped PROVE TotalsTrue
    BY DEF MonitorIInv, PollingInv
  <2>1. PICK all \in Seq(Series) : combined = sparkHistory(all) /\ Len(all) = Len(visible)
    BY SeriesFit
  <2>2. \A i \in DOMAIN combined :
          /\ Between(combined[i].cpu) /\ combined[i].memory.used <= combined[i].memory.total
          /\ combined[i].net.reporting <= Len(visible)
    BY <2>1, CombinedTrue
  <2> QED
    BY <2>2, CardsTrue DEF TotalsTrue, Between
<1> QED
  BY <1>1, <1>2, MonitorIInvariance, PTL DEF MonitorInv

-----------------------------------------------------------------------------
(* The extraction banner.  As long as the user stays on a server, calls, polls  *)
(* and the banner's job are of that server; a job that has ended stays as it    *)
(* is, and the service finds every job it has accepted until it ended.          *)

Tells(j, state) ==
    isExtractFinished(state) =>
       shown[j] = state \/ (state = "failed" /\ (switches > 0 \/ Forgotten(j)))

(* A job the window knows of.                                                   *)
Ours(j) == j \in Jobs /\ shown[j] # "none" /\ (switches = 0 => server[j] = serverId)

BannerTells ==
    /\ banner = [id |-> banner.id, state |-> banner.state, cancelling |-> banner.cancelling]
    /\ Ours(banner.id) /\ Tells(banner.id, banner.state)

CallsTell ==
    \A c \in requests :
       /\ c = [kind |-> c.kind, srv |-> c.srv, id |-> c.id, said |-> c.said]
       /\ Ours(c.id) /\ (c.said # None => Tells(c.id, c.said))

ServiceKnows ==
    /\ DOMAIN shown = Jobs /\ DOMAIN server = Jobs /\ found \subseteq Jobs
    /\ \A j \in found : shown[j] # "none"
    /\ \A j \in Jobs : shown[j] # "none" => j \in found \/ isExtractFinished(shown[j])

BannerIInv ==
    /\ ServiceKnows /\ switches \in Nat
    /\ banner # None => BannerTells
    /\ poll # None => banner # None /\ Tells(banner.id, poll)
    /\ CallsTell

LEMMA BannerImplies == BannerIInv => BannerTrue
BY DEF BannerIInv, BannerTells, Tells, BannerTrue

LEMMA BannerInit == TransfersInit => BannerIInv
BY DEF TransfersInit, Service!Init, BannerIInv, ServiceKnows, CallsTell

(* Whatever the service does, it keeps the jobs it knows, until they end, and   *)
(* how they ended, and does not find again what it has dropped.                 *)
ServiceGoesOn ==
    /\ ServiceKnows'
    /\ \A j \in Jobs : shown[j] # "none" =>
          /\ shown'[j] # "none" /\ server'[j] = server[j]
          /\ isExtractFinished(shown[j]) => shown'[j] = shown[j]
          /\ j \in found' => j \in found

LEMMA ServiceStays == ASSUME ServiceKnows, UNCHANGED <<shown, found, server>> PROVE ServiceGoesOn
BY DEF ServiceKnows, ServiceGoesOn

LEMMA ServiceShows ==
    ASSUME ServiceKnows, NEW j, NEW st, Service!Show(j, st), st # "none",
           shown[j] \in Service!Unfinished, j \in found
    PROVE  ServiceGoesOn
BY DEF ServiceKnows, ServiceGoesOn, Service!Show, Service!Unfinished, isExtractFinished

LEMMA ServiceRefuses ==
    ASSUME ServiceKnows, NEW old \in SUBSET Prunable, Service!Refuse(old)
    PROVE  ServiceGoesOn
BY DEF ServiceKnows, ServiceGoesOn, Service!Refuse, Prunable

LEMMA ServiceAccepts ==
    ASSUME ServiceKnows, NEW j \in Jobs, NEW s, NEW old \in SUBSET Prunable,
           Service!Accept(j, s, old)
    PROVE  /\ ServiceGoesOn /\ server'[j] = s /\ shown'[j] = "scanning"
BY DEF ServiceKnows, ServiceGoesOn, Service!Accept, Prunable, isExtractFinished

(* What was true of a job stays so.                                             *)
LEMMA TellsOn ==
    ASSUME ServiceGoesOn, UNCHANGED <<switches, serverId>>, NEW j, Ours(j), NEW st
    PROVE  Ours(j)' /\ (Tells(j, st) => Tells(j, st)')
BY DEF ServiceGoesOn, Ours, Tells, Forgotten

LEMMA CallsTellOn ==
    ASSUME ServiceGoesOn, UNCHANGED <<switches, serverId>>, CallsTell,
           requests' \subseteq requests
    PROVE  CallsTell'
<1> SUFFICES ASSUME NEW c \in requests'
             PROVE  /\ c = [kind |-> c.kind, srv |-> c.srv, id |-> c.id, said |-> c.said]
                    /\ Ours(c.id)' /\ (c.said # None => Tells(c.id, c.said)')
  BY DEF CallsTell
<1>1. c \in requests
  OBVIOUS
<1> QED
  BY <1>1, TellsOn DEF CallsTell

LEMMA BannerStays ==
    ASSUME BannerIInv, ServiceGoesOn, UNCHANGED <<switches, serverId, banner>>,
           poll' = poll \/ poll' = None, CallsTell'
    PROVE  BannerIInv'
<1>1. ServiceKnows' /\ switches' \in Nat
  BY DEF BannerIInv, ServiceGoesOn
<1>2. banner' # None => BannerTells'
  BY TellsOn DEF BannerIInv, BannerTells
<1>3. poll' # None => banner' # None /\ Tells(banner.id, poll)' 
  BY TellsOn DEF BannerIInv, BannerTells
<1> QED
  BY <1>1, <1>2, <1>3 DEF BannerIInv

(* The banner takes a state that the service told.                              *)
LEMMA BannerTakes ==
    ASSUME BannerIInv, UNCHANGED <<shown, found, server, switches, serverId>>,
           requests' \subseteq requests, banner # None, poll' = None,
           NEW st, Tells(banner.id, st), banner' = [banner EXCEPT !.state = st]
    PROVE  BannerIInv'
<1>1. ServiceKnows' /\ switches' \in Nat /\ CallsTell' /\ BannerTells
  BY ServiceStays, CallsTellOn DEF BannerIInv, ServiceGoesOn
<1>2. banner'.id = banner.id /\ banner'.state = st
      /\ banner' = [id |-> banner'.id, state |-> banner'.state, cancelling |-> banner'.cancelling]
  BY <1>1 DEF BannerTells
<1>3. Ours(banner.id)' /\ Tells(banner.id, st)'
  BY <1>1, <1>2 DEF BannerTells, Ours, Tells, Forgotten
<1> QED
  BY <1>1, <1>2, <1>3 DEF BannerIInv, BannerTells

LEMMA BannerNext == ASSUME BannerIInv, [TransfersNext]_transferVars PROVE BannerIInv'
<1>1. CASE ServiceStep
  <2>1. UNCHANGED <<banner, poll, requests, switches, serverId>>
    BY <1>1 DEF ServiceStep, extraction
  <2>2. CASE \E j \in Jobs : Service!Scanned(j) \/ \E st \in Service!Ended : Service!End(j, st)
    <3>1. PICK j, st : j \in Jobs /\ Service!Show(j, st) /\ st # "none" /\ shown[j] \in Service!Unfinished
      BY <2>2 DEF Service!Scanned, Service!End, Service!Unfinished, Service!Ended
    <3>2. j \in found
      BY <3>1 DEF BannerIInv, ServiceKnows, Service!Unfinished, isExtractFinished
    <3> QED
      BY <2>1, <3>1, <3>2, ServiceShows, CallsTellOn, BannerStays DEF BannerIInv
  <2>3. CASE \E old \in SUBSET Prunable : Service!Refuse(old)
    BY <2>1, <2>3, ServiceRefuses, CallsTellOn, BannerStays DEF BannerIInv
  <2> QED
    BY <1>1, <2>2, <2>3 DEF ServiceStep, Service!Ended
<1>2. CASE onExtract
  <2>1. UNCHANGED <<banner, poll, switches, serverId>>
    BY <1>2 DEF onExtract
  <2>2. PICK old \in SUBSET Prunable :
           \/ /\ \E j \in Jobs : shown[j] = "none"
              /\ Service!Accept(Fresh, serverId, old)
              /\ requests' = requests \cup
                   {[kind |-> "start", srv |-> serverId, id |-> Fresh, said |-> "scanning"]}
           \/ Service!Refuse(old) /\ UNCHANGED requests
    BY <1>2 DEF onExtract
  <2>3. CASE Service!Refuse(old) /\ UNCHANGED requests
    BY <2>1, <2>3, ServiceRefuses, CallsTellOn, BannerStays DEF BannerIInv
  <2>4. ASSUME \E j \in Jobs : shown[j] = "none", Service!Accept(Fresh, serverId, old),
               requests' = requests \cup
                 {[kind |-> "start", srv |-> serverId, id |-> Fresh, said |-> "scanning"]}
        PROVE  BannerIInv'
    <3>1. Fresh \in Jobs
      BY <2>4 DEF Fresh
    <3>2. PICK j \in Jobs :
             Service!Accept(j, serverId, old)
             /\ requests' = requests \cup
                   {[kind |-> "start", srv |-> serverId, id |-> j, said |-> "scanning"]}
      BY <2>4, <3>1
    <3>3. ServiceGoesOn /\ server'[j] = serverId /\ shown'[j] = "scanning"
      BY <3>2, ServiceAccepts DEF BannerIInv
    <3>4. Ours(j)' /\ Tells(j, "scanning")'
      BY <2>1, <3>2, <3>3 DEF Ours, Tells, isExtractFinished
    <3>5. CallsTell'
      <4> SUFFICES ASSUME NEW c \in requests'
                   PROVE  /\ c = [kind |-> c.kind, srv |-> c.srv, id |-> c.id, said |-> c.said]
                          /\ Ours(c.id)' /\ (c.said # None => Tells(c.id, c.said)')
        BY DEF CallsTell
      <4>1. CASE c \in requests
        BY <2>1, <3>3, <4>1, TellsOn DEF BannerIInv, CallsTell
      <4>2. CASE c = [kind |-> "start", srv |-> serverId, id |-> j, said |-> "scanning"]
        BY <3>4, <4>2
      <4> QED
        BY <3>2, <4>1, <4>2
    <3> QED
      BY <2>1, <3>3, <3>5, BannerStays
  <2> QED
    BY <2>2, <2>3, <2>4
<1>3. CASE PollJob
  <2>1. /\ UNCHANGED <<shown, found, server, banner, requests, switches, serverId>>
        /\ banner # None
        /\ poll' = IF Finds(serverId, banner.id) THEN shown[banner.id] ELSE "failed"
    BY <1>3 DEF PollJob, pollDue, service
  <2>2. BannerTells /\ ServiceKnows /\ switches \in Nat
    BY <2>1 DEF BannerIInv
  <2>3. Tells(banner.id, poll')
    <3>1. CASE Finds(serverId, banner.id)
      BY <2>1, <3>1 DEF Tells
    <3>2. CASE ~Finds(serverId, banner.id)
      BY <2>1, <2>2, <3>2 DEF Tells, Finds, BannerTells, Ours, ServiceKnows, Forgotten
    <3> QED
      BY <3>1, <3>2
  <2>4. Tells(banner.id, poll)' /\ CallsTell' /\ BannerTells' /\ ServiceKnows'
    BY <2>1, <2>2, <2>3 DEF BannerIInv, Tells, Forgotten, CallsTell, BannerTells, Ours, ServiceKnows
  <2> QED
    BY <2>1, <2>2, <2>4 DEF BannerIInv
<1>4. CASE JobPolled
  <2>1. UNCHANGED <<shown, found, server, switches, serverId, requests>> /\ poll' = None
        /\ poll # None
    BY <1>4 DEF JobPolled, service
  <2>2. CASE UNCHANGED banner
    BY <2>1, <2>2, ServiceStays, CallsTellOn, BannerStays DEF BannerIInv
  <2>3. CASE banner' = [banner EXCEPT !.state = poll]
    BY <2>1, <2>3, BannerTakes DEF BannerIInv
  <2> QED
    BY <1>4, <2>2, <2>3 DEF JobPolled
<1>5. CASE onResolve
  <2>1. /\ UNCHANGED <<shown, found, server, banner, poll, switches, serverId>> /\ banner # None
        /\ requests' = requests \cup
             {[kind |-> "resolve", srv |-> serverId, id |-> banner.id, said |-> None]}
    BY <1>5 DEF onResolve, service
  <2>2. CallsTell'
    BY <2>1 DEF BannerIInv, BannerTells, CallsTell, Ours, Tells, Forgotten
  <2> QED
    BY <2>1, <2>2, ServiceStays, BannerStays DEF BannerIInv
<1>6. CASE onCancel
  <2>1. /\ UNCHANGED <<shown, found, server, switches, serverId>>
        /\ poll' = None /\ banner' = [banner EXCEPT !.cancelling = TRUE] /\ banner # None
        /\ requests' = requests \cup
             {[kind |-> "cancel", srv |-> serverId, id |-> banner.id, said |-> None]}
    BY <1>6 DEF onCancel, service
  <2>2. CallsTell'
    BY <2>1 DEF BannerIInv, BannerTells, CallsTell, Ours, Tells, Forgotten
  <2>3. BannerTells'
    BY <2>1 DEF BannerIInv, BannerTells, Ours, Tells, Forgotten
  <2> QED
    BY <2>1, <2>2, <2>3 DEF BannerIInv, ServiceKnows
<1>7. ASSUME NEW c \in requests, Served(c) PROVE BannerIInv'
  <2>1. UNCHANGED <<banner, poll, switches, serverId>>
    BY <1>7 DEF Served
  <2>2. Ours(c.id) /\ c = [kind |-> c.kind, srv |-> c.srv, id |-> c.id, said |-> c.said]
    BY DEF BannerIInv, CallsTell
  <2>3. CASE Finds(c.srv, c.id) /\ Service!Answered(c.id) /\ Replied(c, "extracting")
    <3>1. ServiceGoesOn
      BY <2>3, ServiceShows DEF Service!Answered, Service!Unfinished, Finds, BannerIInv
    <3>2. CallsTell'
      <4> SUFFICES ASSUME NEW d \in requests'
                   PROVE  /\ d = [kind |-> d.kind, srv |-> d.srv, id |-> d.id, said |-> d.said]
                          /\ Ours(d.id)' /\ (d.said # None => Tells(d.id, d.said)')
        BY DEF CallsTell
      <4>1. CASE d \in requests
        BY <2>1, <3>1, <4>1, TellsOn DEF BannerIInv, CallsTell
      <4>2. CASE d = [c EXCEPT !.said = "extracting"]
        <5>1. d.id = c.id /\ d.said = "extracting"
              /\ d = [kind |-> d.kind, srv |-> d.srv, id |-> d.id, said |-> d.said]
          BY <2>2, <4>2
        <5> QED
          BY <2>1, <2>2, <3>1, <5>1, TellsOn DEF Tells, isExtractFinished
      <4> QED
        BY <2>3, <4>1, <4>2 DEF Replied
    <3> QED
      BY <2>1, <3>1, <3>2, BannerStays
  <2>4. CASE Replied(c, shown[c.id]) /\ UNCHANGED <<shown, found, server>>
    <3>1. ServiceGoesOn
      BY <2>4, ServiceStays DEF BannerIInv
    <3>2. CallsTell'
      <4> SUFFICES ASSUME NEW d \in requests'
                   PROVE  /\ d = [kind |-> d.kind, srv |-> d.srv, id |-> d.id, said |-> d.said]
                          /\ Ours(d.id)' /\ (d.said # None => Tells(d.id, d.said)')
        BY DEF CallsTell
      <4>1. CASE d \in requests
        BY <2>1, <3>1, <4>1, TellsOn DEF BannerIInv, CallsTell
      <4>2. CASE d = [c EXCEPT !.said = shown[c.id]]
        <5>1. d.id = c.id /\ d.said = shown[c.id]
              /\ d = [kind |-> d.kind, srv |-> d.srv, id |-> d.id, said |-> d.said]
          BY <2>2, <4>2
        <5> QED
          BY <2>1, <2>2, <3>1, <5>1, TellsOn DEF Tells
      <4> QED
        BY <2>4, <4>1, <4>2 DEF Replied
    <3> QED
      BY <2>1, <3>1, <3>2, BannerStays
  <2>5. CASE requests' = requests \ {c} /\ UNCHANGED <<shown, found, server>>
    BY <2>1, <2>5, ServiceStays, CallsTellOn, BannerStays DEF BannerIInv
  <2> QED
    BY <1>7, <2>3, <2>4, <2>5 DEF Served, service
<1>8. ASSUME NEW c \in requests, Arrived(c) PROVE BannerIInv'
  <2>1. UNCHANGED <<shown, found, server, switches, serverId>> /\ requests' \subseteq requests
    BY <1>8 DEF Arrived, service
  <2>2. Ours(c.id) /\ (c.said # None => Tells(c.id, c.said))
    BY DEF BannerIInv, CallsTell
  <2>3. CASE UNCHANGED <<banner, poll>>
    BY <2>1, <2>3, ServiceStays, CallsTellOn, BannerStays DEF BannerIInv
  <2>4. CASE c.said # None /\ Started(c)
    <3>1. banner' = [id |-> c.id, state |-> c.said, cancelling |-> FALSE] /\ poll' = None
      BY <2>4 DEF Started
    <3>2. ServiceKnows' /\ CallsTell' /\ switches' \in Nat
      BY <2>1, ServiceStays, CallsTellOn DEF BannerIInv, ServiceGoesOn
    <3>3. BannerTells'
      BY <2>1, <2>2, <2>4, <3>1 DEF BannerTells, Ours, Tells, Forgotten
    <3> QED
      BY <3>1, <3>2, <3>3 DEF BannerIInv
  <2>5. CASE c.said # None /\ banner # None /\ banner.id = c.id /\ poll' = None
             /\ banner' = [banner EXCEPT !.state = c.said]
    BY <2>1, <2>2, <2>5, BannerTakes
  <2> QED
    BY <1>8, <2>3, <2>4, <2>5 DEF Arrived, Told
<1>9. CASE onDismiss
  BY <1>9, ServiceStays, CallsTellOn DEF onDismiss, service, BannerIInv, ServiceGoesOn
<1>10. CASE ShowDialog \/ start \/ Fetched \/ Stall \/ retryFailed \/ dismiss
            \/ UNCHANGED transferVars
  <2>1. UNCHANGED <<shown, found, server, banner, poll, requests, switches, serverId>>
    BY <1>10 DEF ShowDialog, start, Fetched, Stall, retryFailed, dismiss,
       transferVars, service, extraction
  <2> QED
    BY <2>1, ServiceStays, CallsTellOn, BannerStays DEF BannerIInv
<1>11. CASE SwitchServer
  <2>1. UNCHANGED <<shown, found, server, banner, requests>> /\ switches' = switches + 1
        /\ poll' = None
    BY <1>11 DEF SwitchServer, service
  <2>2. switches' \in Nat /\ switches' > 0
    BY <2>1 DEF BannerIInv
  <2>3. (BannerTells => BannerTells') /\ CallsTell'
    BY <2>1, <2>2 DEF BannerIInv, BannerTells, CallsTell, Ours, Tells
  <2> QED
    BY <2>1, <2>2, <2>3 DEF BannerIInv, ServiceKnows
<1> QED
  BY <1>1, <1>2, <1>3, <1>4, <1>5, <1>6, <1>7, <1>8, <1>9, <1>10, <1>11 DEF TransfersNext

(* The banner never says that a job is over when it is not, whatever order polls, *)
(* starts, the answers of Cancel and of decisions, and the service's pruning come *)
(* in and however many extractions there are.  Failed it may call one, whatever   *)
(* became of it, after the user has gone to another server or the service has     *)
(* dropped the job, which it does only after its end (ExtractStatus).             *)
THEOREM BannerTellsTheTruth == TransfersSpec => []BannerTrue
BY BannerInit, BannerImplies, BannerNext, PTL DEF TransfersSpec

=============================================================================
