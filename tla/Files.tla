-------------------------------- MODULE Files --------------------------------
(***************************************************************************)
(* One Files window (FilesApp.tsx): which server it shows, how it lists a   *)
(* folder, and everything it does to the files of the servers.              *)
(*                                                                         *)
(* A handler that awaits is an operation of `ops` that goes on, call after  *)
(* call, with what it captured when it began: the server, the folder, the   *)
(* names it saw.  A listing is a load of `loads`.  Between two of their     *)
(* steps anything else may happen.                                          *)
(*                                                                         *)
(* A path is a sequence of names ("/" is <<>>), a name a sequence too:      *)
(* "x (1)" is <<"x", 1>>.  A selection is any set of rows, chosen when it   *)
(* is acted upon.  Left out: notices, progress, the search field, the       *)
(* download queue and the extraction banner (module Transfers), and an item *)
(* that is opened in a window of its own.                                   *)
(***************************************************************************)
EXTENDS Integers, FiniteSets, SequencesExt

CONSTANTS
  Servers,
  Bound,       \* the server the window was opened for
  Start,       \* payload.cwd
  Home,        \* the folder "~" is
  Disk,        \* what is on the servers at first: server -> path -> content
  NewNames, ArchiveNames, \* what a user types
  Loads,       \* names for listings under way: bounds how many there are
  Ops,         \* names for operations under way: bounds how many there are
  MaxAsks,     \* bound on what the user does
  MaxFlips,    \* bound on the servers' comings and goings
  None

VARIABLES
  fs,          \* the servers' files: server -> path -> content, "dir" for a folder
  connected,   \* the servers the session shows as connected
  pickedId,    \* the server chosen in the sidebar, or None
  folderByServer, \* the folder last shown of a server
  path, history, historyIndex,
  entries,     \* the paths of the rows shown
  loading, error,
  dialogs,     \* the questions open in the window, one at most of a kind
  clipboard,   \* None, or [mode, srv, items]
  loads,       \* listings under way: name -> [srv, path, first, live]
  ops,         \* operations under way
  asks, flips,
  agreed,      \* what a press on Delete or Replace gave up: [srv, path]
  listed,      \* the server whose rows are shown
  crossed      \* a listing of one server was under way as another was chosen

rows == <<path, history, historyIndex, entries, listed>>
view == <<path, history, historyIndex, entries, listed, error>>
vars == <<fs, connected, pickedId, folderByServer, path, history, historyIndex, entries,
          loading, error, dialogs, clipboard, loads, ops, asks, flips, agreed, listed, crossed>>

----------------------------------------------------------------------------
(* Paths and names (api/files.ts).                                           *)
parentPath(p) == IF p = <<>> THEN <<>> ELSE Front(p)
baseName(p) == Last(p)
joinPath(dir, name) == Append(dir, name)

isValidMove(p, destDir) ==
  p # <<>> /\ p # destDir /\ parentPath(p) # destDir /\ ~IsPrefix(p, destDir)

suggestUniqueName(existing, desired) ==
  IF desired \notin existing THEN desired
  ELSE Append(desired,
         CHOOSE i \in 1..Cardinality(existing) :
           /\ Append(desired, i) \notin existing
           /\ \A j \in 1..(i - 1) : Append(desired, j) \in existing)

Names(paths) == {baseName(p) : p \in paths}

----------------------------------------------------------------------------
(* The files of the servers, as preview-files.ts has them and as the SFTP    *)
(* service keeps them.                                                       *)
IsDir(s, p) == p = <<>> \/ (p \in DOMAIN fs[s] /\ fs[s][p] = "dir")
Children(s, p) == {q \in DOMAIN fs[s] : q # <<>> /\ parentPath(q) = p}
Tree(s, p) == {q \in DOMAIN fs[s] : IsPrefix(p, q)}

CanInsert(s, p, overwrite) ==
  /\ p # <<>> /\ IsDir(s, parentPath(p))
  /\ p \in DOMAIN fs[s] => overwrite

insert(s, p, content) ==
  [fs EXCEPT ![s] = [q \in (DOMAIN @ \ Tree(s, p)) \cup {p} |->
                       IF q = p THEN content ELSE fs[s][q]]]

CanPlace(a, from, b, to, overwrite) ==
  /\ from # <<>> /\ from \in DOMAIN fs[a]
  /\ ~(a = b /\ IsPrefix(from, to))
  /\ CanInsert(b, to, overwrite)

(* A copy of the tree at `from` in place of what was at `to`; `cut` removes  *)
(* the original.                                                             *)
place(a, from, b, to, cut) ==
  LET Moved(q) == to \o SubSeq(q, Len(from) + 1, Len(q))
      Origin(q) == from \o SubSeq(q, Len(to) + 1, Len(q))
      new == {Moved(q) : q \in Tree(a, from)}
      old == {q \in DOMAIN fs[b] : ~IsPrefix(to, q)}
      gone == IF cut THEN Tree(a, from) ELSE {}
      onto == [q \in (old \cup new) \ (IF a = b THEN gone \ new ELSE {}) |->
                 IF q \in new THEN fs[a][Origin(q)] ELSE fs[b][q]]
  IN IF a = b THEN [fs EXCEPT ![b] = onto]
     ELSE [fs EXCEPT ![b] = onto, ![a] = [q \in DOMAIN @ \ gone |-> @[q]]]

remove(s, p) == [fs EXCEPT ![s] = [q \in DOMAIN @ \ Tree(s, p) |-> @[q]]]

(* A call ends well, is refused with nothing done, or is done with its       *)
(* answer lost (client.ts gives up after its timeout).                       *)
Call(possible, result, ok) ==
  \/ possible /\ fs' = result /\ ok
  \/ possible /\ fs' = result /\ ~ok
  \/ fs' = fs /\ ~ok

----------------------------------------------------------------------------
(* selectedServer: the one chosen if it is connected, else the first that    *)
(* is.                                                                       *)
serverOf(con, picked) ==
  LET wanted == IF picked = None THEN Bound ELSE picked
  IN IF con = {} THEN None
     ELSE IF wanted \in con THEN wanted ELSE CHOOSE s \in con : TRUE

serverId == serverOf(connected, pickedId)

FreeLoad == CHOOSE l \in Loads : l \notin DOMAIN loads
Room == \E l \in Loads : l \notin DOMAIN loads

Begun(all, s, p, first) ==
  [l \in DOMAIN all \cup {FreeLoad} |->
     IF l = FreeLoad THEN [srv |-> s, path |-> p, first |-> first, live |-> TRUE] ELSE all[l]]

(* load(): the listing of a folder, whose answer is shown whenever it comes. *)
load(s, p) ==
  /\ loads' = Begun(loads, s, p, FALSE)
  /\ loading' = TRUE

\* mutant
listEffectKept(con, picked, start) ==
  LET s == serverOf(con, picked)
  IN IF s = serverId THEN UNCHANGED <<loads, crossed>>
     ELSE /\ loads' = IF s = None THEN loads ELSE Begun(loads, s, start, TRUE)
          /\ crossed' = (crossed \/ (\E l \in DOMAIN loads : ~loads[l].first) \/ ops # {})
(* The effect that lists the first folder of a server, whenever the server   *)
(* of the window is another one: the listing before it no longer counts.     *)
listEffect(con, picked, start) ==
  LET s == serverOf(con, picked)
      stale == [l \in DOMAIN loads |->
                  IF loads[l].first THEN [loads[l] EXCEPT !.live = FALSE] ELSE loads[l]]
  IN IF s = serverId THEN UNCHANGED <<loads, crossed>>
     ELSE /\ loads' = IF s = None THEN stale ELSE Begun(stale, s, start, TRUE)
          /\ crossed' = (crossed \/ (\E l \in DOMAIN loads : ~loads[l].first) \/ ops # {})

Init ==
  /\ fs = Disk
  /\ connected = Servers
  /\ pickedId = None
  /\ folderByServer = [s \in Servers |-> None]
  /\ path = <<>> /\ history = <<<<>>>> /\ historyIndex = 1
  /\ entries = {} /\ listed = Bound
  /\ loading = TRUE /\ error = FALSE
  /\ dialogs = {} /\ clipboard = None
  /\ loads = [l \in {CHOOSE l \in Loads : TRUE} |->
                [srv |-> Bound, path |-> Start, first |-> TRUE, live |-> TRUE]]
  /\ ops = {} /\ asks = 0 /\ flips = 0 /\ agreed = {} /\ crossed = FALSE

Ask == asks < MaxAsks /\ asks' = asks + 1 /\ serverId # None
(* A paste that only asks costs nothing.                                     *)
Free == serverId # None /\ UNCHANGED asks

----------------------------------------------------------------------------
(* Answers of listings.                                                      *)
Ended(l) == [k \in DOMAIN loads \ {l} |-> loads[k]]

\* mutant
stillLoadingIfGood(ok) == ~ok
(* finally: whether the listing came or not.                                 *)
stillLoading(ok) == FALSE

(* The rows of an answer: an effect's only when the effect still stands.     *)
Listed(l) ==
  LET a == loads[l] IN
  /\ l \in DOMAIN loads
  /\ loads' = Ended(l)
  /\ IF ~a.live THEN UNCHANGED <<view, loading, folderByServer>>
     ELSE /\ \/ /\ IsDir(a.srv, a.path)
                /\ loading' = stillLoading(TRUE)
                /\ entries' = Children(a.srv, a.path) /\ listed' = a.srv
                /\ path' = a.path
                /\ IF a.first
                   THEN /\ history' = <<a.path>> /\ historyIndex' = 1 /\ error' = FALSE
                        /\ folderByServer' = [folderByServer EXCEPT ![a.srv] = a.path]
                   ELSE UNCHANGED <<history, historyIndex, error, folderByServer>>
             \/ /\ entries' = {} /\ listed' = a.srv /\ error' = TRUE
                /\ loading' = stillLoading(FALSE)
                /\ UNCHANGED <<path, history, historyIndex, folderByServer>>
  /\ UNCHANGED <<fs, connected, pickedId, dialogs, clipboard, ops, asks, flips, agreed, crossed>>

(* Servers connect and disconnect, as the session's next poll finds out; a     *)
(* failed one empties its list.                                              *)
ServersChange(con) ==
  /\ flips < MaxFlips /\ flips' = flips + 1 /\ Room
  /\ con # connected
  /\ connected' = con
  /\ listEffect(con, pickedId, Start)
  /\ UNCHANGED <<fs, pickedId, folderByServer, view, loading, dialogs, clipboard, ops, asks, agreed>>

----------------------------------------------------------------------------
(* Going from folder to folder.                                              *)
selectServer(s) ==
  /\ Ask /\ Room /\ s \in connected /\ s # serverId
  /\ pickedId' = s
  /\ folderByServer' = [folderByServer EXCEPT ![serverId] = path]
  /\ listEffect(connected, s,
       IF folderByServer[s] = None THEN Home[s] ELSE folderByServer[s])
  /\ UNCHANGED <<fs, connected, view, loading, dialogs, clipboard, ops, flips, agreed>>

Unmoved(kind) == {d \in dialogs : d.kind # kind}

goTo(next) ==
  /\ Ask /\ Room
  /\ history' = Append(SubSeq(history, 1, historyIndex), next)
  /\ historyIndex' = historyIndex + 1
  /\ path' = next
  /\ dialogs' = Unmoved("move")
  /\ load(serverId, next) /\ error' = FALSE
  /\ UNCHANGED <<fs, connected, pickedId, folderByServer, entries, listed, clipboard, ops,
                 flips, agreed, crossed>>

(* back() and forward().                                                     *)
Travel(to) ==
  /\ Ask /\ Room /\ to \in DOMAIN history
  /\ historyIndex' = to /\ path' = history[to]
  /\ load(serverId, history[to]) /\ error' = FALSE
  /\ UNCHANGED <<fs, connected, pickedId, folderByServer, history, entries, listed, dialogs,
                 clipboard, ops, flips, agreed, crossed>>

Navigate ==
  \/ \E s \in Servers : selectServer(s)
  \/ \E p \in entries \cup {parentPath(path)} :
       p # path /\ (p \in entries => IsDir(listed, p)) /\ goTo(p)
  \/ Travel(historyIndex - 1)
  \/ Travel(historyIndex + 1)

----------------------------------------------------------------------------
(* Questions.                                                                *)
still == <<connected, pickedId, folderByServer, flips, crossed>>

openDialog(d) == dialogs' = Unmoved(d.kind) \cup {d}
Close(d) == dialogs' = dialogs \ {d}

(* A row, or all of them.                                                    *)
Selections == {items \in SUBSET entries : items = entries \/ Cardinality(items) = 1} \ {{}}

(* Delete, New folder, New file and Rename ask first.                        *)
AskDelete ==
  /\ Ask /\ \E items \in Selections : openDialog([kind |-> "delete", items |-> items])
  /\ UNCHANGED <<fs, still, view, loading, clipboard, loads, ops, agreed>>

AskName ==
  /\ Ask
  /\ \/ openDialog([kind |-> "name", type |-> "new", from |-> None])
     \/ \E p \in entries : openDialog([kind |-> "name", type |-> "rename", from |-> p])
  /\ UNCHANGED <<fs, still, view, loading, clipboard, loads, ops, agreed>>

Cancel ==
  /\ \E d \in dialogs :
       /\ d.kind = "delete" => ~\E o \in ops : o.kind = "delete"
       /\ d.kind = "compress" => ~d.busy
       /\ Close(d)
  /\ UNCHANGED <<fs, still, view, loading, clipboard, loads, ops, asks, agreed>>

copyToClipboard ==
  /\ Ask
  /\ \E items \in Selections, mode \in {"copy", "cut"} :
       clipboard' = [mode |-> mode, srv |-> serverId, items |-> items]
  /\ UNCHANGED <<fs, still, view, loading, dialogs, loads, ops, agreed>>

AskCompress ==
  /\ Ask
  /\ \E items \in Selections :
       openDialog([kind |-> "compress", names |-> Names(items), name |-> None,
                   conflict |-> FALSE, busy |-> FALSE])
  /\ UNCHANGED <<fs, still, view, loading, clipboard, loads, ops, agreed>>

----------------------------------------------------------------------------
(* Operations.  Each has a number, the server and the folder it was begun in,*)
(* and the items it still has to do; what else it captured is in `with`.     *)
Op(kind, todo, with) ==
  [n |-> CHOOSE n \in Ops : \A o \in ops : o.n # n, kind |-> kind, srv |-> serverId, dir |-> path, todo |-> todo,
   failed |-> {}, with |-> with]

Begin(op) == Cardinality(ops) < Cardinality(Ops) /\ ops' = ops \cup {op}
Agree(paths) == agreed' = agreed \cup {[srv |-> serverId, path |-> p] : p \in paths}
Named(n) == joinPath(path, n)

onDelete(d) ==
  /\ d.kind = "delete" /\ ~\E o \in ops : o.kind = "delete"
  /\ Begin(Op("delete", d.items, None)) /\ Agree(d.items)
  /\ error' = FALSE /\ UNCHANGED dialogs

submitDialog(d) ==
  /\ d.kind = "name"
  /\ \E n \in NewNames :
       Begin(Op("name", {IF d.type = "new" THEN Named(n) ELSE joinPath(parentPath(d.from), n)},
                d.from))
  /\ UNCHANGED <<agreed, error, dialogs>>

(* What a paste does is decided with the clipboard there is when it begins.  *)
runPaste(items, res) ==
  /\ Begin(Op("paste", items, [srv |-> clipboard.srv, mode |-> clipboard.mode, res |-> res,
                               taken |-> Names(entries)]))
  /\ dialogs' = Unmoved("paste") /\ error' = FALSE

AnswerPaste(d) ==
  /\ d.kind = "paste" /\ clipboard # None
  /\ \/ runPaste(d.items, "keep") /\ UNCHANGED agreed
     \/ runPaste(d.items, "replace") /\ Agree({Named(n) : n \in Names(d.items)})

resolveMove(d) ==
  /\ d.kind = "move"
  /\ \/ /\ Begin(Op("resolve", {d.from}, [to |-> joinPath(d.destDir, baseName(d.from)), over |-> TRUE]))
        /\ Agree({joinPath(d.destDir, baseName(d.from))})
     \/ /\ Begin(Op("resolve", {d.from},
              [to |-> joinPath(d.destDir, suggestUniqueName(d.names, baseName(d.from))),
               over |-> FALSE]))
        /\ UNCHANGED agreed
  /\ error' = FALSE /\ UNCHANGED dialogs

(* The archive is made of the names asked about, in the folder shown now.    *)
submitCompress(d) ==
  /\ d.kind = "compress" /\ ~d.busy
  /\ \E n \in IF d.conflict THEN {d.name} ELSE ArchiveNames :
       LET busy == [d EXCEPT !.name = n, !.busy = TRUE, !.conflict = FALSE] IN
       /\ Begin(Op("compress", {Named(n)}, [asked |-> busy, over |-> d.conflict]))
       /\ openDialog(busy)
       /\ IF d.conflict THEN Agree({Named(n)}) ELSE UNCHANGED agreed
  /\ error' = FALSE

Confirm ==
  /\ Ask
  /\ \E d \in dialogs :
       onDelete(d) \/ submitDialog(d) \/ AnswerPaste(d) \/ resolveMove(d) \/ submitCompress(d)
  /\ UNCHANGED <<fs, still, rows, loading, clipboard, loads>>

(* ⌘V, or Paste: only a name that is in the way is a question.               *)
paste ==
  LET same == clipboard.srv = serverId
      items == {p \in clipboard.items :
                  ~(same /\ clipboard.mode = "cut" /\ parentPath(p) = path)}
      nested == same /\ \E p \in items : IsPrefix(p, path)
      conflicts == {p \in items : /\ baseName(p) \in Names(entries)
                                  /\ ~same \/ parentPath(p) # path}
  IN /\ clipboard # None /\ items # {} /\ ~nested
     /\ IF conflicts = {} THEN Ask /\ runPaste(items, "keep")
        ELSE /\ Free /\ openDialog([kind |-> "paste", items |-> items])
             /\ UNCHANGED <<error, ops>>
     /\ UNCHANGED <<fs, still, rows, loading, clipboard, loads, agreed>>

(* A row is dropped on a folder.  What is there is known, or looked up first.*)
handleMove ==
  /\ Ask
  /\ \E p \in entries, dir \in entries \cup {parentPath(path), path} :
       /\ isValidMove(p, dir) /\ (dir \in entries => IsDir(listed, dir))
       /\ Begin(Op("look", {p}, [dir |-> dir, seen |-> IF dir = path THEN entries ELSE None]))
  /\ error' = FALSE
  /\ UNCHANGED <<fs, still, rows, loading, dialogs, clipboard, loads, agreed>>

onUpload ==
  /\ Ask
  /\ \E n \in NewNames : Begin(Op("upload", {Named(n)}, None)) /\ Agree({Named(n)})
  /\ UNCHANGED <<fs, still, view, loading, dialogs, clipboard, loads>>

(* Rows are dropped on another server of the sidebar.                        *)
copyOntoServer ==
  /\ Ask
  /\ \E items \in Selections, s \in connected \ {serverId} : Begin(Op("drop", items, s))
  /\ UNCHANGED <<fs, still, view, loading, dialogs, clipboard, loads, agreed>>

----------------------------------------------------------------------------
(* One step of an operation: a call of it is answered.                       *)
Goes(o, next) ==
  /\ ops' = (ops \ {o}) \cup {next}
  /\ UNCHANGED <<dialogs, clipboard, error, loads, loading>>

(* It ends well: the questions of a kind are closed and its folder is listed.*)
EndsWell(o, kind) ==
  /\ Room
  /\ ops' = ops \ {o}
  /\ dialogs' = Unmoved(kind)
  /\ load(o.srv, o.dir) /\ error' = FALSE

(* It ends with its message and its question, as it was.                     *)
EndsBadly(o, left) ==
  /\ ops' = ops \ {o}
  /\ dialogs' = left
  /\ error' = TRUE
  /\ UNCHANGED <<clipboard, loads, loading>>

Counted(o, p, ok) == [o EXCEPT !.todo = @ \ {p}, !.failed = IF ok THEN @ ELSE @ \cup {p}]

\* mutant
deleteShown(o, p, ok) ==
  /\ Call(p \in DOMAIN fs[listed], remove(listed, p), ok)
  /\ IF o.todo # {p} THEN Goes(o, Counted(o, p, ok))
     ELSE EndsWell(o, "delete") /\ UNCHANGED clipboard
(* The error a failed delete sets is gone with load(), which sets none.      *)
deleteNext(o, p, ok) ==
  /\ Call(p \in DOMAIN fs[o.srv], remove(o.srv, p), ok)
  /\ IF o.todo # {p} THEN Goes(o, Counted(o, p, ok))
     ELSE EndsWell(o, "delete") /\ UNCHANGED clipboard

(* The name an item gets, and whether it may replace what has it.            *)
pasteNext(o, p, ok) ==
  LET w == o.with
      same == w.srv = o.srv
      clash == baseName(p) \in w.taken
      over == clash /\ w.res = "replace" /\ (~same \/ parentPath(p) # o.dir)
      name == IF clash /\ ~over THEN suggestUniqueName(w.taken, baseName(p)) ELSE baseName(p)
      to == joinPath(o.dir, name)
      done == [Counted(o, p, ok) EXCEPT !.with.taken = @ \cup {name}]
  IN /\ Call(CanPlace(w.srv, p, o.srv, to, over), place(w.srv, p, o.srv, to, w.mode = "cut"), ok)
     /\ IF done.todo # {} THEN Goes(o, done)
        ELSE /\ EndsWell(o, "paste")
             /\ clipboard' = IF w.mode = "copy" THEN clipboard
                             ELSE IF done.failed = {} THEN None
                             ELSE [mode |-> "cut", srv |-> w.srv, items |-> done.failed]

dropNext(o, p, ok) ==
  LET to == joinPath(Home[o.with], baseName(p)) IN
  /\ Call(CanPlace(o.srv, p, o.with, to, FALSE), place(o.srv, p, o.with, to, FALSE), ok)
  /\ IF o.todo # {p} THEN Goes(o, Counted(o, p, ok))
     ELSE /\ ops' = ops \ {o}
          /\ error' = (error \/ Counted(o, p, ok).failed # {})
          /\ UNCHANGED <<dialogs, clipboard, loads, loading>>

(* A drop is a rename, or a question when its name is taken over there.      *)
lookNext(o, p, ok) ==
  LET seen == IF o.with.seen = None THEN Children(o.srv, o.with.dir) ELSE o.with.seen
      to == joinPath(o.with.dir, baseName(p))
  IN IF ~ok THEN fs' = fs /\ EndsBadly(o, dialogs)
     ELSE IF baseName(p) \in Names(seen \ {p})
     THEN /\ ops' = ops \ {o}
          /\ openDialog([kind |-> "move", from |-> p, destDir |-> o.with.dir, names |-> Names(seen)])
          /\ UNCHANGED <<fs, clipboard, error, loads, loading>>
     ELSE Goes(o, [o EXCEPT !.kind = "rename", !.with = to]) /\ UNCHANGED fs

(* The calls that are one operation each.                                    *)
Single(o, p, ok, possible, result, kind, left) ==
  /\ Call(possible, result, ok)
  /\ IF ok THEN EndsWell(o, kind) /\ UNCHANGED clipboard ELSE EndsBadly(o, left)

compressNext(o, p, ok) ==
  LET again(conflict) ==
        Unmoved("compress") \cup {[o.with.asked EXCEPT !.busy = FALSE, !.conflict = conflict]}
      all == \A n \in o.with.asked.names : joinPath(o.dir, n) \in DOMAIN fs[o.srv]
  IN IF ~ok /\ p \in DOMAIN fs[o.srv] /\ ~o.with.over
     THEN /\ ops' = ops \ {o}
          /\ dialogs' = again(TRUE)
          /\ UNCHANGED <<fs, clipboard, error, loads, loading>>
     ELSE Single(o, p, ok, all /\ CanInsert(o.srv, p, o.with.over), insert(o.srv, p, "new"),
                 "compress", again(FALSE))

Next1(o, p, ok) ==
  CASE o.kind = "delete" -> deleteNext(o, p, ok)
    [] o.kind = "paste" -> pasteNext(o, p, ok)
    [] o.kind = "drop" -> dropNext(o, p, ok)
    [] o.kind = "look" -> lookNext(o, p, ok)
    [] o.kind = "compress" -> compressNext(o, p, ok)
    [] o.kind = "name" /\ o.with = None ->
         Single(o, p, ok, CanInsert(o.srv, p, FALSE), insert(o.srv, p, "new"), "name", dialogs)
    [] o.kind = "name" /\ o.with # None ->
         Single(o, p, ok, CanPlace(o.srv, o.with, o.srv, p, FALSE),
                place(o.srv, o.with, o.srv, p, TRUE), "name", dialogs)
    [] o.kind = "upload" ->
         Single(o, p, ok, CanInsert(o.srv, p, TRUE), insert(o.srv, p, "new"), "none", dialogs)
    [] o.kind = "rename" ->
         Single(o, p, ok, CanPlace(o.srv, p, o.srv, o.with, FALSE),
                place(o.srv, p, o.srv, o.with, TRUE), "none", dialogs)
    [] o.kind = "resolve" ->
         Single(o, p, ok, CanPlace(o.srv, p, o.srv, o.with.to, o.with.over),
                place(o.srv, p, o.srv, o.with.to, TRUE), "move", dialogs)

OpStep ==
  /\ \E o \in ops, ok \in BOOLEAN : \E p \in o.todo : Next1(o, p, ok)
  /\ UNCHANGED <<still, rows, asks, agreed>>

----------------------------------------------------------------------------
UserActs ==
  \/ Navigate \/ AskDelete \/ AskName \/ AskCompress \/ Cancel \/ copyToClipboard
  \/ Confirm \/ paste \/ handleMove \/ onUpload \/ copyOntoServer

Next ==
  \/ UserActs
  \/ OpStep
  \/ \E l \in DOMAIN loads : Listed(l)
  \/ \E con \in SUBSET Servers : ServersChange(con)

Spec == Init /\ [][Next]_vars

(* Every listing is answered, if only by its timeout.                        *)
FairSpec == Spec /\ WF_vars(\E l \in DOMAIN loads : Listed(l))

----------------------------------------------------------------------------
Kept(disk) == (UNION {{disk[s][p] : p \in DOMAIN disk[s]} : s \in Servers}) \ {"dir", "new"}

(* Whatever is pasted, moved, renamed, archived, dropped or deleted, in any   *)
(* order and with any answer lost, a file that was there is lost only where   *)
(* the user pressed Delete or Replace: that item, on the server and in the    *)
(* folder shown at that moment, though the window shows others by the time    *)
(* the call is made (FilesApp.tsx:454, 561, 663, 775).  An upload replaces    *)
(* without a question, and counts as one here (FilesApp.tsx:763).             *)
NothingLost ==
  [][\A s \in Servers : \A p \in DOMAIN fs[s] :
       fs[s][p] \in Kept(fs) \ Kept(fs')
         => \E g \in agreed : g.srv = s /\ IsPrefix(g.path, p)]_vars

(* With no listing under way, the rows are those of the folder the title      *)
(* names, whatever the order the answers came in, after an error and after    *)
(* any change of server too.  They are those of the server the sidebar marks  *)
(* only when no load() and no operation of one server was ever under way as   *)
(* another was chosen: load() shows its answer even then (FilesApp.tsx:200),  *)
(* the folder of one server under the name of the other.                      *)
Coherent ==
  DOMAIN loads = {}
    => /\ \A p \in entries : parentPath(p) = path
       /\ serverId # None /\ ~crossed => listed = serverId

(* The window does not keep saying that it loads (FilesApp.tsx:200, 227).     *)
LoadingEnds == loading /\ serverId # None ~> ~loading \/ serverId = None

(* "Permission / list errors show inline alert" (docs/manual-qa.md:51): an    *)
(* operation that failed, in part or whole, ends with an alert.               *)
FailureShown ==
  [][\A o \in ops : o.failed # {} /\ (\A q \in ops' : q.n # o.n) => error']_vars
=============================================================================
