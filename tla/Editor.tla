------------------------------- MODULE Editor -------------------------------
(***************************************************************************)
(* The text editor (TextEditor.tsx, EditorApp.tsx) on one file: it loads    *)
(* the file, keeps what the user types and writes it back; the window is    *)
(* not closed over unsaved text without a question.                         *)
(*                                                                         *)
(* The file is a text with its line ends, or something that is no text.     *)
(* apiRequest gives a write up after 5 s, but the server may still serve    *)
(* it, late and in any order; a write that fails half-way leaves a part of   *)
(* the text; another program may write the file.  A read, or a write that is  *)
(* answered, is one step, the one in which the server does it: what the page  *)
(* does until the answer comes could as well be done after it.  Keys, gutter, *)
(* messages and the px0 placeholder are left out.                            *)
(***************************************************************************)
EXTENDS Integers, FiniteSets

CONSTANTS
  Texts,      \* the texts in use
  MaxWrites,  \* bound on writes in flight
  None

Eols == {"lf", "crlf", "mixed"}
Contents == [is : {"text"}, text : Texts, eol : Eols]
NotText == [is : {"binary", "truncated", "missing"}, text : {None}, eol : {"lf"}]

VARIABLES
  disk,     \* the file: one of Contents or NotText
  mode,     \* its permission: can the SSH user write it?
  page,     \* the mounted editor, or None
  writes,   \* writes in flight: [content, heard], heard: someone waits for the answer
  writer,   \* ghost: whose text the file holds - the page's (read or saved by it), or one of
            \* a "lost" save that the page does not know of, or some "other" program's
  asks

vars == <<disk, mode, page, writes, writer, asks>>

(* A textarea knows only "\n"; a file that had any "\r\n" gets it everywhere. *)
toDisk(text, crlf) ==
  [is |-> "text", text |-> text, eol |-> IF crlf THEN "crlf" ELSE "lf"]
fromDisk(content) == [text |-> content.text, crlf |-> content.eol # "lf"]

Mounted == [loaded |-> None, value |-> None, refused |-> FALSE, loadError |-> FALSE,
            reading |-> TRUE, saving |-> None]

Loaded == [text : Texts, crlf : BOOLEAN, writable : BOOLEAN]
Page == [loaded : {None} \cup Loaded, value : {None} \cup Texts, refused : BOOLEAN,
         loadError : BOOLEAN, reading : BOOLEAN, saving : {None} \cup Texts]
Write == [content : Contents, heard : BOOLEAN]

dirty == page.loaded # None /\ page.value # page.loaded.text
Editing == page # None /\ page.loaded # None /\ ~page.refused /\ ~page.loadError

----------------------------------------------------------------------------
(* The window opens on the file, and the effect reads it.                    *)
Open ==
  /\ asks > 0 /\ asks' = asks - 1
  /\ page = None
  /\ page' = Mounted
  /\ UNCHANGED <<disk, mode, writes, writer>>

(* The answer of the read: refused when it is no text or was cut at 512 KB.  *)
Load ==
  /\ page # None /\ page.reading
  /\ page' = CASE disk.is \in {"binary", "truncated"} ->
                    [page EXCEPT !.reading = FALSE, !.refused = TRUE]
               [] disk.is = "missing" ->
                    [page EXCEPT !.reading = FALSE, !.loadError = TRUE]
               [] OTHER ->
                    LET f == fromDisk(disk)
                    IN [page EXCEPT !.reading = FALSE, !.value = f.text,
                          !.loaded = [text |-> f.text, crlf |-> f.crlf, writable |-> mode]]
  /\ writer' = "page"
  /\ UNCHANGED <<disk, mode, writes, asks>>

(* The read fails or takes 5 s.                                              *)
LoadFails ==
  /\ page # None /\ page.reading
  /\ page' = [page EXCEPT !.reading = FALSE, !.loadError = TRUE]
  /\ UNCHANGED <<disk, mode, writes, writer, asks>>

Retry ==
  /\ asks > 0 /\ asks' = asks - 1
  /\ page # None /\ page.loadError
  /\ page' = [page EXCEPT !.loadError = FALSE, !.reading = TRUE]
  /\ UNCHANGED <<disk, mode, writes, writer>>

(* The textarea, which is read-only on a file the user cannot write.         *)
Type(text) ==
  /\ asks > 0 /\ asks' = asks - 1
  /\ Editing /\ page.loaded.writable
  /\ text # page.value
  /\ page' = [page EXCEPT !.value = text]
  /\ UNCHANGED <<disk, mode, writes, writer>>

----------------------------------------------------------------------------
(* The Save button is enabled, and Cmd+S or Ctrl+S works.                    *)
savable == Editing /\ dirty /\ page.saving = None /\ page.loaded.writable

(* save: what is saved is the text of this moment, the snapshot.             *)
save ==
  /\ asks > 0 /\ asks' = asks - 1
  /\ savable
  /\ Cardinality(writes) < MaxWrites
  /\ page' = [page EXCEPT !.saving = page.value]
  /\ writes' = writes \cup {[content |-> toDisk(page.value, page.loaded.crlf), heard |-> TRUE]}
  /\ UNCHANGED <<disk, mode, writer>>

Heard == {w \in writes : w.heard}

\* mutant: what is marked saved is the text at the time of the answer
savedValue(p) == [p EXCEPT !.saving = None, !.loaded.text = p.value]
saved(p) == [p EXCEPT !.saving = None, !.loaded.text = p.saving]

(* The server writes the file and the answer arrives.                        *)
Saved ==
  \E w \in Heard :
    /\ page # None
    /\ disk' = w.content /\ writer' = "page"
    /\ writes' = writes \ {w}
    /\ page' = saved(page)
    /\ UNCHANGED <<mode, asks>>

(* The file is emptied and then written: what a write leaves that does not    *)
(* come to its end is a part of the text, which may be any text.             *)
Leaves(w) == {toDisk(text, w.content.eol = "crlf") : text \in Texts}
Overwrites(w) == disk' \in Leaves(w) /\ writer' = "lost"

(* The server refuses the write, fails in it, its answer is lost, or it takes  *)
(* 5 s and may still be served: "Not saved".                                 *)
NotSaved ==
  \E w \in Heard :
    /\ page # None
    /\ page' = [page EXCEPT !.saving = None]
    /\ \/ writes' = writes \ {w} /\ (Overwrites(w) \/ UNCHANGED <<disk, writer>>)
       \/ writes' = (writes \ {w}) \cup {[w EXCEPT !.heard = FALSE]} /\ UNCHANGED <<disk, writer>>
    /\ UNCHANGED <<mode, asks>>

(* A write nobody waits for is served, or begun, or never.                   *)
Late ==
  \E w \in writes \ Heard :
    /\ \/ writes' = writes \ {w} /\ UNCHANGED <<disk, writer>>
       \/ writes' \in {writes, writes \ {w}} /\ Overwrites(w)
    /\ UNCHANGED <<mode, page, asks>>

(* Another program changes the file, its permission, or removes it.          *)
OtherWrites ==
  /\ asks > 0 /\ asks' = asks - 1
  /\ disk' \in Contents \cup NotText /\ mode' \in BOOLEAN
  /\ writer' = "other"
  /\ UNCHANGED <<page, writes>>

----------------------------------------------------------------------------
Unheard == {[w EXCEPT !.heard = FALSE] : w \in writes}

Unmounted == page' = None /\ writes' = Unheard

(* closeWindow: the guard asks when there is unsaved text; only a yes closes. *)
Close(yes) ==
  /\ asks > 0 /\ asks' = asks - 1
  /\ page # None
  /\ IF dirty => yes THEN Unmounted ELSE UNCHANGED <<page, writes>>
  /\ UNCHANGED <<disk, mode, writer>>

(* The other appearance mounts the editor anew, without asking.              *)
Remount ==
  /\ page' = IF page = None THEN None ELSE Mounted
  /\ writes' = Unheard
  /\ UNCHANGED <<disk, mode, writer>>

----------------------------------------------------------------------------
Init ==
  /\ disk \in Contents \cup NotText /\ mode \in BOOLEAN
  /\ page = None /\ writes = {} /\ writer = "other"

(* The keys of the textarea: save, and a tab or any other text.              *)
onKeyDown == save \/ \E text \in Texts : Type(text)

Next ==
  \/ Open \/ Retry \/ onKeyDown
  \/ \E yes \in BOOLEAN : Close(yes)
  \/ OtherWrites
  \/ Load \/ LoadFails \/ Saved \/ NotSaved \/ Late

----------------------------------------------------------------------------
TypeOK ==
  /\ disk \in Contents \cup NotText /\ mode \in BOOLEAN
  /\ writer \in {"page", "lost", "other"}
  /\ page \in {None} \cup Page /\ writes \subseteq Write

(* A text without the mark of unsaved changes is what the file holds, line    *)
(* ends included unless they were mixed - while no save is under way, and       *)
(* unless the last to write the file was another program or a save the page     *)
(* does not know of: one it called "Not saved", or one of an editor since       *)
(* closed or mounted anew.  A good save of this page makes it hold again.      *)
CleanMeansSaved ==
  (Editing /\ ~dirty /\ page.saving = None /\ writer = "page") =>
    /\ disk \in Contents /\ disk.text = page.value
    /\ disk.eol = "mixed" \/ disk = toDisk(page.value, page.loaded.crlf)

(* A file that was not wholly loaded as text is never written: what the       *)
(* editor sends is for a file it has loaded, and may write.                   *)
WritesWhatItLoaded ==
  \A w \in Heard : Editing /\ page.loaded.writable /\ page.saving = w.content.text

EditorInv == TypeOK /\ CleanMeansSaved /\ WritesWhatItLoaded
=============================================================================
