----------------------------- MODULE Shortcuts -----------------------------
(***************************************************************************)
(* The folder icons of the desktop (desktop-shortcuts.ts and                *)
(* DesktopShortcuts.tsx): where the stored shortcuts are laid out on the    *)
(* grid, how one is dragged, opened, removed and added.                     *)
(*                                                                         *)
(* The list is in the browser's localStorage, which its tabs share: another  *)
(* tab's change is seen here at the storage event.  Pixels are cells, and    *)
(* the window a shortcut opens is in module Windows.                        *)
(***************************************************************************)
EXTENDS Integers, Sequences, FiniteSets, SequencesExt, Filters

CONSTANTS
  Folders,  \* the folders put on the desktop: [path, serverId]
  Grids,    \* the sizes of the grid: [cols, rows]
  Stored,   \* what localStorage may hold at first: sequences of shortcuts
  None

VARIABLES
  stored,     \* localStorage: a sequence of [path, serverId, cell]
  shortcuts,  \* this tab's snapshot of it
  grid,       \* cols and rows, from the size of the area
  drag,       \* [path, to, moved], or None
  menu,       \* the path its menu is open for, or None
  dropped,    \* ghost: of the step that dropped an icon, [path, target, before], else None
  asks

vars == <<stored, shortcuts, grid, drag, menu, dropped, asks>>

Cells(g) == [col : 0..(g.cols - 1), row : 0..(g.rows - 1)]
Paths(its) == {its[i].path : i \in DOMAIN its}
Least(a, b) == IF a <= b THEN a ELSE b

(* What is stored for a folder, its cell once it was moved.                   *)
Cell == [col : Nat, row : Nat]
Shortcut ==
  [path : {f.path : f \in Folders}, serverId : {f.serverId : f \in Folders}, cell : Cell \cup {None}]

(* A list as it is read: each folder once.                                   *)
parseShortcuts(raw) ==
  FirstOf(raw, [i \in DOMAIN raw |-> [path |-> raw[i].path, serverId |-> raw[i].serverId]])

----------------------------------------------------------------------------
(* layoutShortcuts: the cells of the paths.  A stored cell is pulled into the *)
(* grid and goes to the first that asks for it.                              *)
Pulled(cell, g) ==
  [col |-> Least(cell.col, g.cols - 1), row |-> Least(cell.row, g.rows - 1)]

Nowhere == [at |-> [p \in {} |-> None], taken |-> {}]
Give(l, path, cell) ==
  [at |-> [p \in DOMAIN l.at \cup {path} |-> IF p = path THEN cell ELSE l.at[p]],
   taken |-> l.taken \cup {cell}]

PlaceStored(l, s, g) ==
  IF s.cell = None \/ Pulled(s.cell, g) \in l.taken THEN l ELSE Give(l, s.path, Pulled(s.cell, g))
placed(its, g) ==
  LET after[i \in 0..Len(its)] ==
        IF i = 0 THEN Nowhere ELSE PlaceStored(after[i - 1], its[i], g)
  IN after[Len(its)]

(* The others fill the grid from its right column, top to bottom; past a full *)
(* grid they pile up on one cell.                                            *)
Before(a, b) == a.col > b.col \/ (a.col = b.col /\ a.row < b.row)
FreeCell(taken, g) ==
  LET free == Cells(g) \ taken
  IN IF free = {} THEN [col |-> 0, row |-> g.rows - 1]
     ELSE CHOOSE c \in free : \A o \in free : o = c \/ Before(c, o)

PlaceFree(l, s, g) ==
  IF s.path \in DOMAIN l.at THEN l ELSE Give(l, s.path, FreeCell(l.taken, g))
layoutShortcuts(its, g) ==
  LET after[i \in 0..Len(its)] ==
        IF i = 0 THEN placed(its, g) ELSE PlaceFree(after[i - 1], its[i], g)
  IN after[Len(its)].at

cells == layoutShortcuts(shortcuts, grid)
OnCells == {cells[p] : p \in DOMAIN cells}

(* The dragged icon goes to the target; who sat there gets its old cell; all   *)
(* the others are stored where they are shown.                               *)
\* mutant: what is stored is only where the dragged icon went
moveOne(its, at, path, target) ==
  [i \in DOMAIN its |-> IF its[i].path = path THEN [its[i] EXCEPT !.cell = target] ELSE its[i]]
moveShortcut(its, at, path, target) ==
  [i \in DOMAIN its |->
     CASE its[i].path = path -> [its[i] EXCEPT !.cell = target]
       [] its[i].path # path /\ at[its[i].path] = target -> [its[i] EXCEPT !.cell = at[path]]
       [] OTHER -> [its[i] EXCEPT !.cell = at[its[i].path]]]

saveDesktopShortcuts(its) == stored' = its /\ shortcuts' = parseShortcuts(its)

----------------------------------------------------------------------------
Asked == asks > 0 /\ asks' = asks - 1

(* "Add to Desktop" in Files, of this tab or another: it reads what is stored. *)
addDesktopShortcut(f) ==
  LET now == parseShortcuts(stored)
  IN /\ \A i \in DOMAIN now : [path |-> now[i].path, serverId |-> now[i].serverId] # f
     /\ stored' = Append(now, [path |-> f.path, serverId |-> f.serverId, cell |-> None])

Add ==
  /\ Asked
  /\ \E f \in Folders : addDesktopShortcut(f)
  /\ shortcuts' \in {shortcuts, parseShortcuts(stored')}
  /\ dropped' = None
  /\ UNCHANGED <<grid, drag, menu>>

(* The storage event.                                                        *)
Synced ==
  /\ shortcuts # parseShortcuts(stored)
  /\ shortcuts' = parseShortcuts(stored)
  /\ dropped' = None
  /\ UNCHANGED <<stored, grid, drag, menu, asks>>

Resize ==
  /\ Asked
  /\ grid' \in Grids \ {grid}
  /\ dropped' = None
  /\ UNCHANGED <<stored, shortcuts, drag, menu>>

onPointerDown(path) ==
  /\ Asked
  /\ drag' = [path |-> path, to |-> cells[path], moved |-> FALSE]
  /\ menu' = None /\ dropped' = None
  /\ UNCHANGED <<stored, shortcuts, grid>>

(* The icon is over another place; a render reads the store again.           *)
onPointerMove(cell) ==
  /\ Asked /\ drag # None
  /\ drag' = [drag EXCEPT !.to = cell, !.moved = TRUE]
  /\ drag' # drag
  /\ shortcuts' = parseShortcuts(stored)
  /\ dropped' = None
  /\ UNCHANGED <<stored, grid, menu>>

(* The pointer is released: the icon's cell is clamped to the grid of now.    *)
onPointerUp ==
  /\ Asked /\ drag # None
  /\ drag' = None
  /\ IF drag.moved /\ drag.path \in Paths(shortcuts)
     THEN LET target == Pulled(drag.to, grid)
          IN /\ saveDesktopShortcuts(moveShortcut(shortcuts, cells, drag.path, target))
             /\ dropped' = [path |-> drag.path, target |-> target, before |-> cells,
                            distinct |-> Cardinality(OnCells) = Len(shortcuts)]
     ELSE dropped' = None /\ UNCHANGED <<stored, shortcuts>>
  /\ UNCHANGED <<grid, menu>>

onPointerCancel ==
  /\ Asked /\ drag # None
  /\ drag' = None /\ dropped' = None
  /\ UNCHANGED <<stored, shortcuts, grid, menu>>

(* The context menu, which closes at the next press.                         *)
onContextMenu(path) ==
  /\ Asked /\ menu' = path /\ dropped' = None
  /\ UNCHANGED <<stored, shortcuts, grid, drag>>

removeDesktopShortcut(path) ==
  LET now == parseShortcuts(stored)
  IN saveDesktopShortcuts(Keep(now, {s \in ToSet(now) : s.path # path}))

(* "Remove from Desktop": every shortcut with the path.                      *)
RemoveItem ==
  /\ Asked /\ menu # None
  /\ removeDesktopShortcut(menu)
  /\ menu' = None /\ dropped' = None
  /\ UNCHANGED <<grid, drag>>

(* The other appearance has icons of its own on the same list.               *)
Remount ==
  /\ shortcuts' = parseShortcuts(stored)
  /\ drag' = None /\ menu' = None /\ dropped' = None
  /\ UNCHANGED <<stored, grid>>

----------------------------------------------------------------------------
Init ==
  /\ stored \in Stored /\ shortcuts = parseShortcuts(stored)
  /\ grid \in Grids
  /\ drag = None /\ menu = None /\ dropped = None

(* What the icons listen to.                                                 *)
Icons ==
  \/ \E p \in Paths(shortcuts) : onPointerDown(p) \/ onContextMenu(p)
  \/ \E g \in Grids : \E c \in Cells(g) : onPointerMove(c)
  \/ onPointerUp \/ onPointerCancel

Next ==
  \/ Add \/ Synced \/ Resize
  \/ Icons \/ RemoveItem

----------------------------------------------------------------------------
Distinct(its) == \A i, j \in DOMAIN its : its[i].path = its[j].path => i = j

(* Every shortcut has a cell of the grid, and while there is room no two       *)
(* paths share one.                                                          *)
CellsApart ==
  /\ DOMAIN cells = Paths(shortcuts)
  /\ OnCells \subseteq Cells(grid)
  /\ Len(shortcuts) <= Cardinality(Cells(grid)) =>
       \A p, q \in DOMAIN cells : cells[p] = cells[q] => p = q

(* A drop puts the icon where it was let go and the icon that sat there where  *)
(* it came from, and every other icon stays where it was shown.  Of lists that *)
(* hold one path twice, as of two servers, it says nothing: their icons share  *)
(* one cell (desktop-shortcuts.ts keys the cells by the path alone).           *)
DropPlaces ==
  (dropped # None /\ dropped.distinct) =>
    LET at == dropped.before
    IN \A p \in DOMAIN at :
         cells[p] = CASE p = dropped.path -> dropped.target
                      [] p # dropped.path /\ at[p] = dropped.target -> at[dropped.path]
                      [] OTHER -> at[p]

ShortcutsInv == CellsApart /\ DropPlaces
=============================================================================
