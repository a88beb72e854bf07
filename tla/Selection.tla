----------------------------- MODULE Selection ------------------------------
(***************************************************************************)
(* The rows of a Files window under the mouse: clicks, modifier clicks and  *)
(* the rubber band (use-marquee-selection.ts), the drag that moves a row    *)
(* (use-file-move-drag.ts), the selection they change and the context menu   *)
(* that acts on it (FilesApp.tsx, FileList.tsx, FileContextMenu.tsx).        *)
(*                                                                         *)
(* Both hooks hear every press: one press is followed until its release, and *)
(* a pointer less than five pixels away is still on the row it pressed.      *)
(* What a rubber band crosses is an interval of the rows.  The operations    *)
(* themselves are in module Files.                                          *)
(***************************************************************************)
EXTENDS Integers, Sequences, SequencesExt, FiniteSets

CONSTANTS
  RowsOf,    \* the rows a folder may have, in the order the page sorts them
  Home,      \* the folder the window opens in
  Queries,   \* what a search matches: sets of rows
  None

VARIABLES
  appearance, asks,
  folder, entries,   \* the path shown, the rows of the last listing
  query,             \* None, or the rows the search matches
  selectedPaths, lastSelectedPath,
  context,           \* the context menu: None, or its row and whether it was overtaken
  move,              \* use-file-move-drag: the pressed row, what is dragged where
  band               \* use-marquee-selection: the press under way, with what it captured

vars == <<appearance, asks, folder, entries, query, selectedPaths, lastSelectedPath, context,
          move, band>>
shownVars == <<appearance, folder, entries, query>>

IsDir(row) == row \in DOMAIN RowsOf
Listings(f) == {SelectSeq(RowsOf[f], LAMBDA r : r \in s) : s \in SUBSET ToSet(RowsOf[f])}

visible == IF query = None THEN entries ELSE SelectSeq(entries, LAMBDA r : r \in query)
Shown == IF query = None THEN ToSet(entries) ELSE ToSet(entries) \cap query
selectedEntries == ToSet(entries) \cap selectedPaths
menuTargets(row) ==
  IF Cardinality(selectedEntries) > 1 THEN selectedEntries ELSE {row} \ {None}
deleteTargets(row) == IF selectedEntries # {} THEN selectedEntries ELSE {row} \ {None}

Mods == {"plain", "ctrl", "shift"}
Idle == [press |-> None, dragging |-> FALSE, skipClick |-> FALSE, ghost |-> None]
NoPress == [on |-> None, mods |-> "plain", rows |-> <<>>, last |-> None, base |-> {}, stage |-> "up"]
Pressed == band.stage # "up"
started == band.stage = "moved"
Asked == asks > 0 /\ asks' = asks - 1

----------------------------------------------------------------------------
(* The selection.                                                            *)
Select(paths, last) == selectedPaths' = paths /\ lastSelectedPath' = last
selectSingle(row) == Select({row}, row)
toggleSelect(row) == Select((selectedPaths \ {row}) \cup ({row} \ selectedPaths), row)
clearSelection == Select({}, None)

(* From the last selected row to `row`, among the rows and with the anchor   *)
(* of the page the press was made on - which has `row`.                        *)
selectRange(row, rows, last) ==
  LET t == SelectInSeq(rows, LAMBDA r : r = row)
      l == SelectInSeq(rows, LAMBDA r : r = last)
      between == {rows[i] : i \in (IF l < t THEN l..t ELSE t..l)}
  IN Select(IF l = 0 THEN {row} ELSE selectedPaths \cup between, row)

handleSelectionChange(paths, rows) ==
  LET hit == SelectSeq(rows, LAMBDA r : r \in paths)
  IN Select(paths, IF hit = <<>> THEN lastSelectedPath ELSE Last(hit))

----------------------------------------------------------------------------
(* A press.  Only a plain one on a row can become a drag; startPress leaves   *)
(* skipClick as it is.                                                       *)
\* mutant: the modifiers are not looked at
pressAnyway(on, mods) == [move EXCEPT !.press = on, !.dragging = FALSE]
startPress(on, mods) ==
  IF on = None \/ mods # "plain" THEN move
  ELSE [move EXCEPT !.press = on, !.dragging = FALSE]

handleMouseDown(on, mods) ==
  /\ Asked /\ ~Pressed
  /\ move' = startPress(on, mods)
  /\ band' = [on |-> on, mods |-> mods, rows |-> visible, last |-> lastSelectedPath,
              base |-> selectedPaths, stage |-> "down"]
  /\ UNCHANGED <<shownVars, selectedPaths, lastSelectedPath, context>>

itemDragMovesFile == band.on # None /\ band.mods = "plain"

(* Where a dragged row can be let go: a folder among the rows, the parent row, *)
(* the sidebar and the path bar, another server, anywhere else.               *)
Places == DOMAIN RowsOf \cup {"server", "nowhere"}
destAtPoint(at, source) == IF at \in DOMAIN RowsOf \ {source, folder} THEN at ELSE None

onMovePointer(at) ==
  /\ Pressed /\ move.press # None
  /\ move' = [move EXCEPT !.dragging = TRUE, !.ghost = destAtPoint(at, move.press)]
  /\ move' # move
  /\ UNCHANGED <<shownVars, asks, selectedPaths, lastSelectedPath, context, band>>

Crossed ==
  {box \in {ToSet(SubSeq(visible, i, j)) : i, j \in DOMAIN visible} \cup {{}} :
     band.on \in Shown => band.on \in box}

handleMouseMove(box) ==
  /\ Asked /\ Pressed /\ ~itemDragMovesFile
  /\ handleSelectionChange(
       IF band.mods = "ctrl" THEN (band.base \ box) \cup (box \ band.base) ELSE box, band.rows)
  /\ band' = [band EXCEPT !.stage = "moved"]
  /\ context' = IF context = None THEN None ELSE [context EXCEPT !.overtaken = TRUE]
  /\ UNCHANGED <<shownVars, move>>

(* The release.  A click in the window closes the menu; a drag that ends       *)
(* outside of it makes none.  onUp is asked first, then handleMouseUp.  A      *)
(* plain press is a click with the modifiers of its release.                  *)
onUp == [Idle EXCEPT !.skipClick = move.skipClick \/ move.dragging]

Clicked(upMods) ==
  LET mods == IF band.mods = "plain" THEN upMods ELSE band.mods
  IN IF band.on = None THEN clearSelection
     ELSE CASE mods = "shift" -> selectRange(band.on, band.rows, band.last)
            [] mods = "ctrl" -> toggleSelect(band.on)
            [] OTHER -> selectSingle(band.on)

handleMouseUp(far, upMods) ==
  /\ Pressed
  /\ far => started \/ move.dragging
  /\ IF started \/ (itemDragMovesFile /\ far)
     THEN UNCHANGED <<selectedPaths, lastSelectedPath>> ELSE Clicked(upMods)
  /\ context' \in {None} \cup IF far THEN {context} ELSE {}
  /\ move' = onUp /\ band' = NoPress
  /\ UNCHANGED <<shownVars, asks>>

----------------------------------------------------------------------------
(* Opening, navigating, listing.  A new listing keeps the selection.          *)
goTo(f) ==
  /\ folder' = f /\ query' = None /\ context' = None
  /\ clearSelection
  /\ UNCHANGED <<appearance, entries, move, band>>

openEntry(row) == IF IsDir(row) THEN goTo(row) ELSE UNCHANGED <<folder, entries, query,
  selectedPaths, lastSelectedPath, context, move, band, appearance>>

(* After a drag the next double click, wherever it is, opens nothing.         *)
onDoubleClick(row) ==
  /\ Asked /\ ~Pressed /\ context = None /\ selectedPaths = {row}
  /\ IF move.skipClick
     THEN move' = [move EXCEPT !.skipClick = FALSE]
          /\ UNCHANGED <<shownVars, selectedPaths, lastSelectedPath, context, band>>
     ELSE openEntry(row)

(* Back and forward keep the search.                                         *)
travel(f) ==
  /\ folder' = f /\ context' = None
  /\ clearSelection
  /\ UNCHANGED <<appearance, entries, query, move, band>>

Navigate == Asked /\ ~Pressed /\ \E f \in DOMAIN RowsOf \ {folder} : goTo(f) \/ travel(f)

Listed ==
  /\ Asked /\ entries' \in Listings(folder) \ {entries}
  /\ context' = IF context = None THEN None
                ELSE [context EXCEPT !.overtaken = @ \/ context.entry \notin ToSet(entries')]
  /\ UNCHANGED <<appearance, folder, query, selectedPaths, lastSelectedPath, move, band>>

(* An extraction into the folder on show is done: its items are selected.     *)
showExtracted ==
  /\ Asked /\ entries' \in Listings(folder)
  /\ \E i \in DOMAIN entries' : Select({entries'[i]}, entries'[i])
  /\ context' = IF context = None THEN None ELSE [context EXCEPT !.overtaken = TRUE]
  /\ UNCHANGED <<appearance, folder, query, move, band>>

(* The search field is reached by a click, which closes the menu.             *)
setQuery ==
  /\ Asked /\ ~Pressed
  /\ query' \in (Queries \cup {None}) \ {query}
  /\ context' = None
  /\ UNCHANGED <<appearance, folder, entries, selectedPaths, lastSelectedPath, move, band>>

----------------------------------------------------------------------------
(* The context menu, on a row or on the empty space.                          *)
\* mutant: the menu opens without a look at the selection
selectedAnyway(row) == UNCHANGED <<selectedPaths, lastSelectedPath>>
menuSelects(row) ==
  IF row = None \/ row \in selectedPaths THEN UNCHANGED <<selectedPaths, lastSelectedPath>>
  ELSE selectSingle(row)

openContextMenu(row) ==
  /\ Asked /\ ~Pressed
  /\ menuSelects(row)
  /\ context' = [entry |-> row, overtaken |-> FALSE]
  /\ UNCHANGED <<shownVars, move, band>>

(* Open, of a menu for one row; every item closes the menu.                   *)
menuItems ==
  /\ Asked /\ context # None
  /\ IF context.entry # None /\ Cardinality(selectedEntries) <= 1 /\ IsDir(context.entry)
     THEN goTo(context.entry)
     ELSE context' = None
          /\ UNCHANGED <<shownVars, selectedPaths, lastSelectedPath, move, band>>

onKeyDown ==
  /\ Asked
  /\ \/ Select(Shown, lastSelectedPath) /\ UNCHANGED <<shownVars, context, move, band>>
     \/ clearSelection /\ UNCHANGED <<shownVars, context, move, band>>
     \/ Cardinality(selectedEntries) = 1 /\ \E row \in selectedEntries : openEntry(row)

(* The other appearance: the window's page is mounted anew.                   *)
Remount ==
  /\ folder' = Home /\ entries' = <<>> /\ query' = None
  /\ selectedPaths' = {} /\ lastSelectedPath' = None
  /\ context' = None /\ move' = Idle /\ band' = NoPress

----------------------------------------------------------------------------
Init ==
  /\ folder = Home /\ entries = RowsOf[Home] /\ query = None
  /\ selectedPaths = {} /\ lastSelectedPath = None
  /\ context = None /\ move = Idle /\ band = NoPress

Press == \E on \in Shown \cup {None}, mods \in Mods : handleMouseDown(on, mods)
Drag == \/ \E at \in Places : onMovePointer(at)
        \/ Pressed /\ \E box \in Crossed : handleMouseMove(box)
Release == \E far \in BOOLEAN, upMods \in Mods : handleMouseUp(far, upMods)
OpenMenu == \E row \in Shown \cup {None} : openContextMenu(row)

Next ==
  \/ Press \/ Drag \/ Release
  \/ \E row \in Shown : onDoubleClick(row)
  \/ Navigate \/ Listed \/ showExtracted \/ setQuery
  \/ OpenMenu \/ menuItems \/ onKeyDown

----------------------------------------------------------------------------
(* One press is a drag of a row or a rubber band, never both, and what is      *)
(* dragged has a label only while it is.                                      *)
OneGesture ==
  /\ ~(move.dragging /\ started)
  /\ (move.dragging \/ move.ghost # None) => Pressed /\ move.press = band.on

(* Copy, Cut, Compress and Delete of a menu opened on a row act on that row,   *)
(* whatever the keys and the listings did while it was open - unless the row   *)
(* was gone meanwhile, or a rubber band or an extraction replaced the          *)
(* selection.                                                                *)
MenuActsOnRow ==
  (context # None /\ context.entry \in ToSet(entries) \ {None} /\ ~context.overtaken) =>
    context.entry \in menuTargets(context.entry) \cap deleteTargets(context.entry)

SelectionInv == OneGesture /\ MenuActsOnRow
=============================================================================
