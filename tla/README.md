# Verification of ServerUI

TLA+ specifications of ServerUI, a control panel for Linux servers: a Go server
that owns server records, SSH connections and the work done over them
(`apps/server`), a Next.js client (`apps/web`) and a Tauri shell that hosts both
on a desktop (`apps/desktop`). TLC checks the specifications on small instances;
TLAPS proves their invariants and refinements for all values of the constants.

Contents: [inventory](#inventory) · [modules](#modules-and-the-code) ·
[runs](#runs) · [fairness](#fairness) · [proofs](#proofs) ·
[disagreements found](#where-the-code-disagrees-with-its-texts) ·
[limits](#what-is-not-modelled) · [plan](#plan)

## Inventory

```
 web client ── HTTP / WebSocket ──> Go server ── SSH ──> target servers
     │                                 ▲  │
     └── IPC: get_runtime_config       │  └── database: servers, server_credentials
            └──> desktop shell ── starts, watches, stops
```

**The Go server and the shell**

| Component | State it keeps | Operations | What is hard | What makes it correct |
| --- | --- | --- | --- | --- |
| **SSH pool** `internal/ssh` | a manager per server id; per manager a configuration, a client, a status, a dial in flight | Manager, Ensure, Run, Stream, Disconnect, Forget, DisconnectAll; watch goroutines | loads and dials outside the locks; clients shared by requests; death and removal at any time | one dial at a time; no connection lost, used after its close, or used for another server; status follows the client; dead clients forgotten |
| **Server registry** `internal/servers` | rows of `servers` and `server_credentials` | Create, Update, Connect, Disconnect, Test, Delete; the pool's loader | several statements per request without a transaction; a row copied at the start and written whole at the end; hung-up clients | a server has its credential; the pool follows the store; each request is answered; statuses mean what they say |
| **Archive jobs** `internal/archive` | jobs per server, a context and a decision channel each; a script and a staging folder on the target | Start, Status, Resolve, Cancel; extract, awaitDecision, the shell script | job goroutine, requests and remote script run on; ten-minute question; time of check and time of use in the destination | limit kept; no answer lost, no send blocks; done means placed; nothing replaced unasked |
| **Desktop shell** `src-tauri` | the child process, the runtime configuration | start, wait_until_ready, watch_child, stop, exit events | slow start, early exit, death and stop in any order | the child is stopped with the application; what is reported as down is down |
| **Remote files** `internal/filesystem` | none but the target's files | List, Read, Write, Copy, Move, Compress, Transfer | several remote steps per operation, any of which may fail | a failed move loses nothing; overwriting is all or nothing |
| **Metrics collector** `internal/metrics` | per server a last snapshot, a history, a refresh in flight | Snapshot, Cached, RefreshAsync, Invalidate | an entry is deleted while its refresh runs | one refresh per server, bounded history, no snapshot of another server |
| **Terminal handler** `internal/terminal` | a web socket, an SSH session and its copiers | ServeHTTP | four goroutines end in any order | all end when one does; nothing is left open |
| **API, security, secrets, storage, migration** | configuration, keys, schema | handlers, checks, encryption, migration | a migration that stops half way | nothing lost, nothing half migrated |

**The web client** (`apps/web/src`)

| Component | State it keeps | Operations | What is hard | What makes it correct |
| --- | --- | --- | --- | --- |
| **Runtime bootstrap** `lib/runtime` | gate phase, copy of the configuration | bootstrap loop, watch loop | answers that outlive a mount; two independent deadlines | no endless "Starting"; a loss is shown |
| **Session** `lib/session.tsx` | the rows of all servers, their numbers | list polls, metrics pulls, connect, disconnect, add, update, delete, test | answers in any order, or never | rows come to agree with the Go server; numbers only of connected servers |
| **Server manager** `servers/ServerManager.tsx`, `AddServerModal.tsx` | form, dialog, tests, busy flags | save, delete, test, read an icon | answers after the form was closed or changed | one save at a time; a result stands beside what was tested |
| **Windows** `window-context.tsx`, `Window.tsx` | windows, layers, focus, a gesture | the reducer, drags, resizes, keys, the dock | long sequences; a browser window that shrinks | distinct layers, focus on a window, title bars within reach |
| **Files** `FilesApp.tsx` | folder, rows, clipboard, operations of several calls | list, create, rename, delete, copy, cut, paste, drag, compress, upload | everything goes on while folder and server change | rows belong to the folder of the title; nothing is lost unasked |
| **Rows under the mouse** `use-marquee-selection.ts`, `use-file-move-drag.ts`, `FileContextMenu.tsx` | selection, a press, a context menu | click, modifiers, rubber band, drag, menu | two hooks hear one press; the selection changes under an open menu | a menu acts on its row; a press is one gesture |
| **Background transfers** `ExtractStatus`, `DownloadQueue.tsx` | an extraction banner, a queue | poll, cancel, resolve, dismiss; download, retry | late answers, another extraction | the banner shows what the service said; no download waits but behind a stalled one |
| **System Monitor** `DashboardApp.tsx`, `monitor/*` | servers shown, last samples, histories, page, range | polls with workers, refresh, totals, table, Kill Process, services | polls and refreshes overtake each other; servers without a sample | samples never go back; totals lie between their parts |
| **Charts** `monitor/charts.tsx`, `chart-path.ts` | pointer index, animation | pick points, read a point, animate | series of different lengths that grow and shrink | every stretch is drawn, the pointer reads what is there |
| **Terminal window** `TerminalApp.tsx` | tabs, sessions, sockets | new tab, close, reconnect | an import, a socket, a timer and a cleanup in any order | a socket belongs to a mounted tab; each session settles |
| **Text editor** `TextEditor.tsx` | text, loaded file, a save in flight | load, type, save, close | saves given up but applied | unmarked text is what this page last saved |
| **Dock** `Dock.tsx`, `dock-prefs.ts` | order, drag, hover, magnification | drag, hide, keys | the order changes under a drag; listeners in two orders | every app once; it hides; no icon stays magnified |
| **Desktop icons** `desktop-shortcuts.ts` | stored list, grid | add, drop, remove | a list two tabs write, a grid that is resized | a drop moves no third icon |
| **Settings** `wallpaper.tsx`, `theme.tsx`, `appearance.tsx` | stored ids, images, preferences | choose, upload, remove, switch | IndexedDB transactions and storage events overlap | the page agrees with the store |

`PROJECT.json` lists every component with its files and state of modelling, and
under `hazards` each place where the code could go wrong in a way a test would
hardly reach.

How they interact: a request handler of the API calls the registry, the pool
(for files, terminals and metrics) or the archive service. The registry and the
pool are coupled both ways: the registry's operations forget or ensure pool
entries, and the pool calls the registry's loader for the row and the secret of
a server it does not have yet. Archive jobs run over `Manager.Stream`. The
desktop shell owns the Go process; the web client learns its address and token
from the shell and everything else from the Go server. Within the page, the
session's rows are what every window reads; windows are opened by the desktop, the
dock, the desktop icons and each other; a change of the appearance (`DesktopSwitch`)
mounts everything on the page anew, with whatever was under way in it.

## Modules and the code

| Module | Stands for | Extends / instantiates |
| --- | --- | --- |
| `SshPool` | `ssh/pool.go`, `ssh/manager.go` | |
| `ServerService` | `servers/service.go`, `servers/store.go`, the loader, as the user of the pool | extends `SshPool` |
| `ServerHistory` | `ServerService` with a history variable, for a property about the pool and the store | extends `ServerService` |
| `Extraction` | what a client that polls an extraction may see (abstract) | |
| `ArchiveJobs` | `archive/service.go`, `archive/script.go`, with the target's folders | instantiates `Extraction`, and implements it |
| `DesktopBackend` | `src-tauri/src/backend.rs`, `lib.rs`; `lib/runtime/bootstrap.ts`, `config.ts`, `RuntimeProvider.tsx` | |
| `WebSession` | `lib/session.tsx`, the time-outs of `lib/api/client.ts` | |
| `ServerManager` | `servers/ServerManager.tsx`, `server-selection/AddServerModal.tsx`, the icon reader, `lib/server-validation.ts` | |
| `Nothing` | `None`, which `Windows`, `MonitorData` and `Transfers` share | |
| `Windows` | `window-context.tsx`, `Window.tsx`, the dispatchers of both desktops, the dock, the title bar | |
| `Files` | `files/FilesApp.tsx`, `lib/api/files.ts` | |
| `Transfers` | the extraction banner of `FilesApp.tsx`, `DownloadQueue.tsx` | instantiates `Extraction` |
| `MonitorData` | `monitor/aggregate.ts`, `monitor/format.ts`: pure functions on samples and histories | |
| `Monitor` | `DashboardApp.tsx`, the actions of `ProcessesTab.tsx` and `ServicesTab.tsx` | extends `MonitorData` |
| `Charts` | `monitor/charts.tsx`, `monitor/chart-path.ts` | extends `MonitorData` |
| `SystemTabs` | `ProcessesTab.tsx`, `ServicesTab.tsx` | |
| `Selection` | `use-marquee-selection.ts`, `use-file-move-drag.ts`, the selection and context menu of a Files window | |
| `Terminal`, `Editor` | `TerminalApp.tsx`; `TextEditor.tsx`, `EditorApp.tsx` | |
| `Dock`, `Shortcuts`, `Settings` | `Dock.tsx`, `dock-prefs.ts`; `desktop-shortcuts.ts`, `DesktopShortcuts.tsx`; `wallpaper.tsx`, `theme.tsx`, `appearance.tsx` | |
| `WebDesktop` | the page: its parts and the switch of the appearance | instantiates the eight modules above from `Charts` to `Settings` |
| `Filters` | `Array.filter`, and the loops of `dock-prefs.ts` and `desktop-shortcuts.ts` that drop repeated entries, as recursive functions | |
| `ServerServiceProofs` (with the pool), `ArchiveJobsProofs`, `WebDesktopProofs`, `DesktopIconsProofs` (the icons in `WebDesktop`) | theorems | extend the module they are about |
| `FilesProofs` | theorems about `Files` | extends it |
| `WebServersProofs` | theorems about `WebSession` and `ServerManager` | extends both |
| `DesktopProofs` | theorems about `Windows`, `DesktopBackend`, `Monitor` and `Transfers`, which share no variable | extends the four |
| `FiltersProofs` | lemmas on filtered, joined and cut sequences, on rounding and on groups | extends `Filters` |
| `MC…` | values for TLC | extend the module they are about |

`PROJECT.json` maps each definition to the lines it stands for. A definition
whose comment is `\* mutant` is a plausible bug of the definition that follows it;
it is used by no specification. `PROJECT.json` lists one for each property of a
run; the others break one conjunct of an invariant each, and are there to see
that the conjunct says something. Modules whose theorems share a proof module give their
`Init`, `Next` and `Spec` their own names (`MonitorSpec`, `TransfersSpec`, `DesktopSpec`).

### The Go server and the shell

**SshPool.** A *call* is one request goroutine: it looks its server up (`Lookup`),
loads outside the lock (`LoadOk`, `LoadFail`), inserts or adopts (`Insert`), and
loops through `EnsureCheck`, `Wake`, `DialOk`, `DialFail`; then it returns the
client or opens a session on it. Or it is a removal (`Remove`, `RemoveAll`,
`CloseManager`). Each action is one critical section of `Pool.mu` or
`Manager.mu`, or one blocking operation outside them. Managers and clients are
named by the call that made them, so "the manager still has *this* client" is an
equality, as the pointer comparison of `watch` and `invalidate` is.
`TransportDies` is the network; `Watch` is the goroutine of `manager.go:114`.

**ServerService.** Each request goes through its statements one at a time, on
the handler's own copy of the row (`copy`), with everything the other requests
do in between. What it does to the pool are `SshPool`'s actions, with the loader
split into the read of the row and the read of the secret. A hung-up request
(`HangUp`) can write nothing more, since the store uses the request's context; it
still finishes its pool call. Host, port and user name are one value; so are
name and icon.

**ArchiveJobs.** Three actors per job: requests (`Start`, `Resolve`, `Cancel`),
the goroutine (`Plan`, `Decide`, `GiveUp`, `TimeOut`, `Launch`, `ScriptEnds`,
`Detach`, `Settle`), and the remote script (`MakeStaging`, `SetTraps`, `Unpack`,
`Look`, `Move`, `AllPlaced`, `Interrupt`, `CleanUp`), which outlives the
goroutine's interest in it. `Look` and `Move` are two steps because they are two
commands in `place`. `content` says who put each entry of a folder there, so
that a property can say whose file was overwritten. `clobbered` is a history
variable.

**DesktopBackend.** The thread of `start()`, the one of `watch_child()`, the main
thread's exit events and the page's event loop, each with a program counter; the
child is in `held` or a local of `start()`. A *view* is one mount of
`RuntimeProvider`: only one is mounted at a time, but loops of earlier mounts go
on in the same page and write the same `injected` configuration. `Read` is the
shell's answer, a copy under the lock; what the page does with it is a later step.

### The web client

JavaScript runs one callback at a time, so an action is what runs from one await,
event or timer to the next, with the render and the effects React flushes after
it where nothing can come between. An *answer* is an action of its own: it uses
what its closure captured and writes what is there when it arrives. Values that
a handler captured are fields of the record that stands for it.

**WebSession.** `rows` is the page's list, `saved` and `live` are the Go server's.
A list (`refreshServers`) is served at one moment and applied at a later one; so
is a call (connect, disconnect, add, delete). A pull is one run of the metrics
effect, with its `queue` and the servers its workers are `busy` with; an effect
that runs again makes the earlier pull a cancelled one, whose answers are dropped.

**ServerManager.** The form (`draft`, `values`), its test, the saves, deletes and tests
that are under way, each in a slot that outlives the form it came from, and the
busy flags they share. `Forms` is a set of contents a user types;
`AddServerModal`'s checks on them are `hostError`, `portError` and the others.

**Windows.** The reducer's cases are the operators `open`, `close`, `focus`,
`minimize`, … on a function from ids; the actions are who dispatches them
(`OpenWindow`, `CloseKey`, `DockClick`, `PressWindow`, …). A gesture is the record of
where it began, and `BrowserResized` changes the viewport under everything.
`clampPosition`, `fitSize` and `Pulled` are the arithmetic of the source, on
integers.

**Files.** The window's server, folder, rows and dialogs; `loads`, the listings
under way; `ops`, the operations of several calls, each with what it captured
(server, folder, the names still to do). `OpStep` makes the next call of one: the
server may carry it out and answer, refuse it, or carry it out with its answer
lost (`Call`). `disk` is the remote files by origin, so that `NothingLost` can tell
which file is gone.

**Transfers.** `shown` is what the archive service shows of each job and `found`
which jobs it still knows, driven by `Extraction`, which `ArchiveJobs` is proved to
implement: what holds here holds over the detailed service. Every start, of this
window or another client, may drop jobs that have ended (`Prunable`). A start, a
Cancel and a decision are calls in `requests`, served at one moment and answered at a
later one, several at once; the poll that counts is in `poll`. The download queue is a
sequence and one loop at most, whose download may stall (`Stall`).

**MonitorData, Monitor, Charts, SystemTabs.** A sample is known by when the server took
it; a history is a sequence of dated points. The collector dates its points by the clock of
the machine the Go server runs on, the window its own by the browser's, which differ by
`Skew`; `mergeHistory` compares them as the source does, and takes a point of less than
`Near` (400 ms) away for the same. `Monitor` has the poll of every server shown, a bounded number of
workers, the effects that restart it, Refresh, and the acts on a process or a
service. `MonitorData` holds the merging, the totals and the sorting as operators
without state, which `Charts` uses again; filters and sums in it are recursive
functions (`Filters!Keep`, `SumOf`), so that they can be reasoned about.

**Terminal, Editor, Selection, Dock, Shortcuts, Settings** follow their component's
state variable by variable; each module's head says what is left out.

**WebDesktop** puts these parts into one page. In a behaviour the user works with one of
them (`inUse`), for `Budget[inUse]` acts; `DesktopSwitch` may unmount and mount all of
them at any time.

## Runs

| Run | Question | States | Time |
| --- | --- | --- | --- |
| `MCSshPool` | Three calls, two ids: is the pool sound under every interleaving? | 84 k (symmetry) | 6 s |
| `MCServerService` | Two requests of any kind on a server, clients hanging up, writes refused: rows and secrets together, pooled what is stored, all answered, the dead forgotten? | 138 k | 45 s |
| `MCArchiveJobs` | Two extractions of up to two items into one folder: promises to the client, to the user's files, of *done*? | 2.6 M (symmetry) | 140 s |
| `MCArchiveJobsLimit` | Two extractions where one is allowed, files appearing meanwhile: limit, no blocked send, every job and script ends? | 330 k | 115 s |
| `MCDesktopBackend` | A page mounted up to twice; start, death, stop and exit at any time: children owned, down is down, losses shown, no endless wait? | 68 k | 60 s |
| `MCWebSession` | Lists, pulls, requests and other clients, answers late or lost: do numbers keep to connected servers, and do rows come to agree with the Go server? | 563 k | 125 s |
| `MCServerManager` | Saves, deletes, tests and icon reads at once while forms close: one at a time, no endless spinner, results beside what was tested? | 686 k | 52 s |
| `MCWindows` | Windows raised four times, dragged and resized by extremes, the browser's size changing: layers, focus and bounds sound, title bars within reach? | 2.9 M | 140 s |
| `MCFiles` | Two listings and two operations under way while folder and server change: rows under the title of their folder, nothing lost unasked, loading ends? | 809 k | 70 s |
| `MCTransfers` | Two extractions and one banner, two downloads, jobs dropped once they ended: is the banner what the service said, and is the end shown? | 929 k | 140 s |
| `MCMonitor` | Two servers, one worker, two clocks, polls and refreshes overtaking each other: each clock's points in order, totals true, samples never older, every server sampled again? | 100 k | 65 s |
| `MCWebDesktop` | Each part of the page at length, with other tabs and changes of the appearance: are the eight invariants kept, does every terminal settle? | 561 k | 160 s |

Deadlock is checked in `MCWindows`, where the user can always do something. The
other systems may come to rest: every call over, every job final, the
application gone, the budgets of asks spent.

The properties worth reading first:

- `HealthyNotKilled` (SshPool): a connection that is up is closed only by a call
  that failed on *that* connection or by a removal of *its* manager. It is what
  the comparison in `invalidate` and `watch` is for, and needs three actors to
  break.
- `PoolFollowsWrites` (ServerHistory): whenever no writing request is under way, the pool
  holds the connection of what is stored - but for the two ways the code leaves open, which
  the history variable `doubtful` names: an entry that was being read while a request had
  still to write something else (disagreement 2), and one that an Update left which stored
  a secret and then could not write the icon. It breaks as soon as Update forgets the entry
  for one reason too few, a request stops half way in a third place, or a write is missed.
- `ShowsExtraction` (ArchiveJobs): the service implements `Extraction`: the state
  a client polls goes through a job's life in order, final states stay, and no
  active job is pruned. `BannerTrue` and `EndShown` (Transfers) go on from there to
  what the user sees.
- `ReplacedOnRequest` (ArchiveJobs): a file that was there before is destroyed only
  by a job that was told to replace.
- `TokenRestored` (DesktopBackend): the late time-out of an earlier mount may wipe
  the token of the page that is ready; its watch loop brings it back.
- `NumbersOnlyLive`, `Converges` (WebSession): pulls are cancelled only after a row
  changed, and lists overtake connects; even so a server that is not connected gains
  no numbers, and once quiet every row is what the Go server has.
- `NothingLost`, `Coherent` (Files): whatever is pasted, moved, renamed, archived,
  dropped or deleted, with any answer lost and folder or server changed, a file is
  lost only where the user pressed Delete or Replace; with no listing under way, the
  rows are of the folder in the title, also after a change of the server - and of the server
  marked, unless a `load()` or an operation was under way when that was changed.
- `BannerTrue` (Transfers): *done* and *cancelled* are shown only over a job that ended so;
  *failed* over one that did not fail only if the service had dropped the job, or the user
  has been to another server.
- `NeverOlder`, `Sampled` (Monitor): no order of answers makes a sample go back
  but a Refresh's, and no failed or restarted poll stops the polling of a server.
- `WithinReach`, `FocusRaises` (Windows): no drag or resize puts a title bar out
  of reach, whatever the browser's size did; what gets the focus is in front.
- `SessionSettles` (WebDesktop): a terminal's session ends up open or says that it
  is disconnected, through imports, time-outs, reconnects and unmounts.
- `SettingsInv`: the id of the wallpaper, the flag of a custom one and the stored
  image agree through reads and writes of the IndexedDB that overlap.

### Bounds

- *SshPool*: three calls give one that dials, one that waits for the dial and one
  that removes the manager; every pairwise race of the code has at most three
  parties, since all a manager knows of others is its client and its `dialWait`.
  Two ids suffice for isolation. Nothing else is bounded: a call runs once. The
  theorems hold for any set of calls and ids.
- *ServerService*: two requests on one server, four forms (first, renamed, other
  address, other secret kind). Two requests show every race of two handlers' statements;
  `ServiceInv` is proved for any number of requests and servers.
- *ArchiveJobs*: two jobs on one folder are what a race in a folder takes; two
  items, one is placed when the other is not; in this run `MaxActive` is 2, no limit at all,
  and refusals are the limit run's; `MaxCopies` 2, two jobs that keep
  both beside a file of the same name; `MaxActive` 1, a job refused because of
  the other. `MayExist` lists the entries that may be there from the start,
  `UserActs` says whether somebody else adds one. The limit run has one item,
  since what it asks is not about items.
- *DesktopBackend*: a backend starts once per launch; two mounts are what React's
  strict mode makes.
- *WebSession*: two servers, one of which may starve the other of the one worker; two
  lists that overtake each other and a request; `MaxOps` requests of this
  page and `MaxFaults` changes by others.
- *ServerManager*: one row and its form with five contents (empty, complete, changed
  in a tested field, changed in an untested one, malformed); room for two saves
  and two tests at once, one more than the buttons should allow.
- *Windows*: `MaxZ` 14 allows four dispatches that raise a window: three windows can be opened
  and one of them raised over the others, or one closed and opened again. Closing,
  minimizing, drags and resizes are free; the pointer goes ±2000 pixels, more than
  either of the two viewports. The theorems hold without these bounds.
- *Files*: two servers and a folder in a folder, names that clash, two listings and
  two operations at once: each race in the component is one of two. `MaxAsks` 3,
  `MaxFlips` 1 change of the server.
- *Transfers*: two jobs, so that one takes the banner over from the other; two things
  asked for, two calls under way at once, one answer that is an error, one change of the
  server. Prunings, polls and stalls are free.
- *Monitor*: two servers and one worker, so that one waits; two moments to sample;
  `MaxEvents` 2 acts of the user or changes of a server, `MaxLost` 1 failed
  poll; `Skew` -1 and `Near` 1: the browser's clock is a moment behind the server's, the
  case in which times go back. The theorem is for every difference. Time, page and server switches are free.
- *WebDesktop*: asks per part: terminal 5, editor 7, files 4, system tabs 4, charts 4,
  dock 4, icons 6, settings 3: each the length of the longest story its invariant is
  about (open, connect, reconnect, close, switch; or load, type, save, type, late
  answer, save, close) and as far as TLC gets in a few minutes.

## Fairness

- *ServerService*: `WF` of each handler's steps and of each watch goroutine. The
  Go scheduler runs goroutines that can run. That a dial or the opening of a
  session ends is an assumption on the peer: `Dial`'s 12 s bound only the TCP
  connect. No session has to end, no client to hang up, no transport to die.
- *ArchiveJobs*: `WF` of each job's goroutine, which includes the timer of
  `awaitDecision`, and of each script: a remote command ends, or a signal ends the
  script. Nobody has to start, answer or cancel.
- *DesktopBackend*: `WF` of the start thread (its health check has a deadline), of
  the watcher, of each page loop, of its 60 s deadline, and of the steps that
  complete an exit that has begun. Nobody has to exit, mount or unmount, and the
  Go process need not ever listen.
- *WebSession*: the 8 s interval fires, React runs the effects it owes, and lists,
  calls and pulls are answered or cut off by the 5 s of `apiRequest`. (A response
  whose body stalls after its headers is not cut off; see below. The fairness here and of
  *Files*, *Transfers* and *Monitor* assumes that none does.)
- *Files*: listings are answered or cut off. No operation of the user has to happen.
- *Transfers*: the banner's timer fires, and its poll is answered or cut off. A download
  ends, well or not, as long as its bytes keep coming (`Flows`). Nothing ends one that
  stalls - the queue's `fetch` has no time-out and the Go server no `WriteTimeout` - so no
  fairness is assumed of it, and `DownloadsEnd` excepts it and what waits behind it. Starts,
  Cancels and decisions need not be answered.
- *Monitor*: the effect runs when its dependencies changed, the timer of the poll
  fires, each poll is answered or fails.
- *WebDesktop*: an import of xterm returns, and a socket that does not open meets
  its 12 s timer. A socket need not open, nobody has to do anything.

All liveness properties (`RequestsAnswered`, `DeadForgotten`, `JobsEnd`,
`LossShown`, `ViewSettles`, `TokenRestored`, `Converges`, `LoadingEnds`, `EndShown`,
`DownloadsEnd`, `Sampled`, `SessionSettles`) hold under weak fairness alone.
They are model-checked only.

## Proofs

Everything below is proved by `tlapm` (SMT, Zenon, PTL) for all values of the
constants that satisfy the modules' assumptions. Each is named, in the module that
declares the constants, and evaluated by TLC in every run:

- `NoneAssumption` (several modules): `None` is none of the values it is told apart from.
- `ServiceAssumption`: the registry's inputs and versions are made of its addresses,
  labels and secrets. `ArchiveAssumption`: `Jobs` is finite, `MaxActive` a positive number,
  `MaxCopies` a number.
- `ManagerAssumption`, `SessionAssumption`: slots and servers are finitely many; the
  bounds are numbers, and there is a worker.
- `ViewportAssumption`, `PointAssumption`, `MetaAssumption`: pointer positions are integers,
  sizes of viewports natural numbers, apps have the sizes their table gives them.
- `TerminalAssumption`: there is an id for a tab. `EditorAssumption`: a text is not `None`.
- `DockAssumption`: no app is listed twice, and stored orders are sequences of anything.
- `ChartsAssumption`: at least one server is viewed; in the histories there are at first each
  clock's points are in the order of time, and none of the window's own is later than its clock;
  at least one point is drawn and kept; `Near` is positive.
- `MonitorAssumption`: no server is listed twice; there is a worker, a row on a page and a
  point in a history; the collector keeps no more points than the page does; time goes on to
  2 at least; `Skew` is a whole number and does not change - neither clock jumps - and `Near` a
  positive one; what a server measures has the shape `Infos` gives it.
- `ShortcutsAssumption`: a grid has a column and a row at least; what is stored at first are lists
  of shortcuts, with a cell of natural numbers or none.
- `SettingsAssumption`: each theme has a built-in image; `None` is not an image; a range has a
  lower and an upper end.

Three theorems have a hypothesis of their own: `ReplacedOnlyOnRequest` is about
`UserActs = FALSE`, for where another program writes to the folder no entry is known
to be from before; `RowsCoherent` needs that the server the window is bound to exists
(`Bound \in Servers`); `LostOnlyWhereAgreed` (`Disks`) that files form trees
with every folder in its parent, and that the window starts in a folder. TLC's instances
satisfy all of them.

| Theorem | Statement |
| --- | --- |
| `Invariance`, `TypeCorrect`, `OneDialAtATime`, `OnlineMeansClient`, `ConnectionsAccountedFor`, `ServersIsolated` | the invariants of `SshPool` |
| `Unreplaced`, `HealthySurvive` | its action properties `NeverReplaced`, `HealthyNotKilled` |
| `ServiceInvariance`, `RowsKeepCredentials`, `RequestsIsolated` | the invariants of `ServerService`; `Isolation` under it |
| `ArchiveInvariance`, `ActiveJobsBounded`, `ResolveNeverBlocks`, `AskedFirst`, `DoneIsDone` | the invariants of `ArchiveJobs` |
| `ReplacedOnlyOnRequest` | its action property `ReplacedOnRequest` |
| `ArchiveImplementsExtraction` | `ArchiveJobs!Spec => Extraction!Spec` under the refinement mapping |
| `DesktopInvariance`, `HeldWhileReady`, `ChildrenOwned`, `DownAndForgotten`, `DownStays` | the invariants of `DesktopBackend` and `DownForGood` |
| `WindowsInvariance`, `FocusInFrontAlways`, `TitleBarsWithinReach` | `WindowsInv`, and the action properties `FocusRaises` and `WithinReach` of `Windows` |
| `SessionInvariance`, `NumbersOnlyOnLive` | `SessionInv`, and the action property `NumbersOnlyLive` of `WebSession` |
| `ManagerInvariance`, `TestBesideItsFields` | `ManagerInv`, `ShownTestMatches` of `ServerManager` |
| `RowsCoherent`, `LostOnlyWhereAgreed` | `Coherent`, and the action property `NothingLost` of `Files` |
| `BannerTellsTheTruth` | `BannerTrue` of `Transfers` |
| `MonitorInvariance`, `SamplesNeverOlder` | `MonitorInv`, and the action property `NeverOlder` of `Monitor` |
| `TerminalInvariance`, `EditorInvariance`, `SelectionInvariance`, `TabsChartsInvariance`, `DockInvariance`, `ShortcutsInvariance`, `SettingsInvariance` | the invariants of the page's parts, through every switch of the appearance |

The arguments:

- **SshPool, `IInv`.** `NoLeak` alone is not inductive: a dial that ends could
  overwrite another client. `DialTracked` says that a dial in flight and its
  manager's `dialWait` name each other, and that the manager has no client then.
  `Born` says that managers in use and clients come from calls that are past
  `Insert`, so that a call's manager and configuration no longer change;
  `HeldDialed` that a held client was dialed for the manager in use; `PoolKeyed`
  and `CallKeyed` that configurations belong to their ids, which gives
  `Isolation`. `HealthyNotKilled` follows from the guards of the two closing
  actions and `NoClosedClient`.
- **ServerService, `ServiceInv`.** `IInv` of the pool, kept because every step is a
  step of the pool or leaves it alone - by construction, so that `IInv` comes for nothing -
  and `HandlerReady`: what a handler holds at each of its places, in particular that
  it writes a credential only with a secret in its form. `CredentialKept` needs
  that row and credential are created and erased in one step and that an update
  of an erased row writes nothing.
- **ArchiveJobs, `ArchiveInv`.** `StateTracks` ties a job's state to the place of
  its goroutine, `ScriptTracks` says what a script's exit status means, and
  `PlacedTracks` that an item not yet reported is still to be placed; with them
  `DoneMeansPlaced` is preserved by `Settle`. `ActiveBounded` needs facts about
  cardinalities: a start adds one job to a set that was smaller than the limit,
  and pruning removes only finished ones. `ReplacedOnRequest`
  needs `Spares` beside it: the place a script has found or made free is still not the
  user's when it moves its item there, and what it moves are items of its own archive.
- **DesktopBackend, `DesktopInv`.** `StartUndisturbed` says that until `start()`
  has stored its outcome nobody else changes the status and the child exists
  exactly from the spawn on; with it `HeldIffReady`, `ChildOwned` and `DownIsDown`
  are inductive, and `DownForGood` follows.
- **Windows, `WInv`.** `Held` adds to the state's part of `WindowsInv` that the open windows are
  finitely many, which "the last one of the array" (`LastOpened`), the one on top
  (`TopOf`) and the cascade of a new window need in order to exist, and that layers
  start at 10; `Captured` says what a gesture keeps from where it began.
  `WithinReach` is then arithmetic on `clampPosition` and `fitSize`, in lemmas of
  their own, for every distance.
- **WebSession, `IInv`.** That no worker is idle while a server waits is a fact about
  cardinalities: a pull begins with `Workers` servers or all there are, and a worker that is done
  takes the next server or leaves an empty queue. `NumbersOnlyLive` is about the moment
  an answer is applied: whoever lost the connection in the meantime also changed the
  key, and the pull of the old key is cancelled.
- **ServerManager, `ManagerIInv`.** One part per group of variables (`ListInv`, `FormInv`,
  `SaveInv`, `DeleteInv`, `TestsInv`). "At most one save" becomes "the slots that save are
  one if the button is disabled and none if not". `FormInv` adds that no test outlives its
  form, which is why a late answer cannot meet another form's fields.
- **Files, `RowsIInv`.** `Coherent` says what holds when no listing is under way. Inductive
  is: rows are those of the folder in the title, or a `load()`, which always counts, will
  bring them (`FolderComing`), for only `goTo`, `back` and `forward` move the title without
  the rows; and every listing that counts and every operation is of the window's server
  (`OfTheServer`), as long as the server was not changed under a `load()` or an operation.
- **Files, `LostIInv`.** What an operation may overwrite or remove was put into `agreed` by the
  press that began it (`Granted`, by kind), on its own server and in its own folder. Then
  each call either leaves what is at a path somewhere (`LosesNothing`) or loses it under a path
  that was agreed (`LosesOnly`). Both rest on lemmas on paths: prefixes, parents, and what becomes
  of a tree when a folder in it is moved into another.
- **Transfers, `BannerIInv`.** As long as the server is not changed, the banner's job and those
  of all calls under way are of the window's server (`Ours`), and the service knows each until
  it has ended (`ServiceKnows`), so that it may be dropped only then. A finished state is final
  and a dropped job is never found again (`Extraction`, `ServiceGoesOn`): what a poll or a
  call was told (`Tells`) stays true until it arrives.
- **Monitor, `MonitorIInv`.** `NeverOlder` is not inductive: what must not get older depends on
  answers still on their way. `AskedOnce` says that in one tick a server is either waiting in the
  queue or asked by one call that counts, and that no such call is left when the timer runs;
  `NotOvertaken`, that until a Refresh no such call brings a sample older than the one shown.
  Each clock's points are in the order of its time, the window's own `Near` apart and none
  later than its clock: a merge puts the collector's points before them or drops them, and ends
  with a point of the browser's now, in place of one less than `Near` away. Where the
  collector's end the time goes back by no more than the clocks differ (`Follows`).
- **Monitor, the totals.** `TotalsTrue` follows from the types of what is shown, by lemmas on
  `MonitorData` for any number of servers: two sums over one sequence compare as their terms do
  (`SumsCompare`), the busiest server is the first of those with the highest reading
  (`FirstHighest`), so that the weighted mean is not above it, and the index `sparkHistory` rounds
  to is one of the server's own points (`AtIs`).
- **Terminal, `TerminalIInv`.** A run that was not disposed belongs to a live session, which
  has no other one; a disposed one is still at its import; and a live session has a run or
  says *disconnected*. Closing a tab shifts the sequence of tabs: `SequenceLess` says what
  is left.
- **Editor, `EditorIInv`.** While the last to write the file was a save this page counts as good
  (`writer`), the disk holds what was loaded or saved last (`EditorKnows`), and a write that is
  waited for is of the text that is being saved.
- **Selection, `SelectionIInv`.** The row of a plain press in the move hook is the row of
  the marquee hook, which then leaves the press alone; the row of an open menu is shown,
  and is selected or nothing is.
- **Processes and Services, `SystemIInv`.** Of the calls for details, the one whose answer
  would be taken is of what the tab wants now, since every change of that makes the earlier
  ones another's (`InspectEffect`); and the calls of the mounted tab are exactly those its buttons are busy with.
- **Charts, `ChartsIInv` and `ChartsTimes`.** An animation is on its way to the newest series. Histories
  are in the order of `Before` - each clock's points by its time, the collector's first - and no
  own point is later than the clock; so are the points in range and those drawn. That the picks are spread over the line is arithmetic on `i * n \div c`
  (`Groups`), and that the pointer ends on the last point is arithmetic on `Math.round`
  (`RoundsUp`, `RoundsMultiple`), for any numbers of points.
- **Dock, `DockIInv` and `DockOrderly`.** An order is `Arranged` if it has every app
  once; whatever list is read comes out `Arranged`, one that is stays as it is, and taking
  one app out and putting it in elsewhere keeps it so (`Moves`). What the dock holds of an icon -
  the drag, the focus - is a place in that order. The dock hides because the move that
  leaves its track either tells it at once or leaves `mouseX` known, and then the next does.
- **Desktop icons, `ShortcutsIInv`.** The layout is two loops over the list. Through both, no two icons
  share a cell, and the cells taken are not more than the entries whose path has one
  (`Placed`): while the list is no longer than the grid has cells, an icon without
  one finds a free cell. That `FreeCell` finds the first is a fact about the grid's order. A drop from a
  layout without shared cells stores a list with a cell of its own for every path, and such
  a list is laid out as it stands (`LayoutKeeps`).
- **Settings, `SettingsIInv`.** Until the read at the head of the queue has run, image and store may
  differ; after it, each transaction changes both.

The proofs about sequences need induction, and the library's induction theorems
take an operator, which none of the installed provers instantiates. Where a *recursive function* defines
the sequence or the sum (`Filters!Keep`, `SumOf` of `MonitorData`), `FiltersProofs` goes around them: a set of numbers that is not all of
`Nat` has a least number outside it (`WFMin` on `<`, `Inductive`). For `SelectSeq` and `FoldLeft`, which take an
operator and whose definitions cannot be expanded, there is no such way, so that where a theorem
is about a filter the model uses `Keep`.

Only model-checked:

- the twelve liveness properties (see Fairness): they rest on fairness and `ENABLED`. Every
  invariant and action property of a run is stated by a theorem, but for one:
- `PoolFollowsWrites`, which speaks of all the requests on a server that are under way at once.

`PROJECT.json` lists the theorems; those whose statement is a conjunct of an
invariant (`CredentialKept`, `Isolation`, `DownForGood`, …) have no run of their own.

## Where the code disagrees with its texts

Each is a property stated in the module named. No run of this project checks it; put it
in place of the properties of that module's configuration (as `INVARIANT`; `FailureShown`
as `PROPERTY`), and TLC shows within half a minute the steps that violate it, named after
the code. `ActsOnShown` takes `MaxEvents = 3`.

1. **A disconnect during a dial leaves a connection nobody can close**
   (`SshPool`, `NoOrphan`). `Manager.Close` has no client to close yet; the dial then
   publishes one on a manager that is no longer in the pool. It lives until the
   peer closes it.
2. **The pool may keep what the store no longer has** (`ServerService`,
   `PoolFollowsStore`). Update and Delete forget the pool entry before they write,
   and a use in between loads the old row.
3. **`connecting` may stay for good** (`ServerService`, `ConnectingMeansStarting`).
   Update reads the row while a Connect is under way, and writes the whole row
   after it has ended.
4. **A cancelled or failed extraction may leave some of its items**
   (`ArchiveJobs`, `NothingPartial`): items are moved out of the staging folder one by one.
5. **"nothing was overwritten" may be false** (`ArchiveJobs`,
   `ChangedOverwritesNothing`): `place` looks and then moves, and another
   extraction's file may arrive in between.
6. **The Go process may survive the application** (`DesktopBackend`,
   `NoOrphanChild`): an exit during the up to 45 s of `wait_until_ready` finds no child to
   stop. In the same window `start()` also stores the token again after `stop()`
   cleared it.
7. **What failed in a delete or a paste is not shown** (`Files`, `FailureShown`): the
   message is set and then wiped by the `load` that follows in the same batch.
8. **The Monitor's tabs act on another server than they show** (`Monitor`,
   `ActsOnShown`): with several servers selected they show the one in focus and
   act on the one the window was opened for.

Observations no text of the repository contradicts, visible in the models:

- *Shell*: when `start()` fails before the spawn the status stays `starting`, and
  the page waits out its 60 s before it says so (`PrepareFails`, `BootTimesOut`).
- *Registry*: a Connect, a Disconnect or an Update of the label alone writes back the whole
  row it has read, and so the old address over that of an Update meanwhile (`Writable`,
  `StoreUpdate`); an Update that stores a secret and then fails to write the icon returns
  before `pool.Forget` (`service.go:172-190`): the pool goes on with the old secret.
- *Session*: a list that was served before a delete brings the row back, one from
  before an add drops the new row, until the next poll; a failed poll empties the
  rows (`session.tsx:145-149`); a response whose body stalls is never given up,
  since `apiRequest` stops its timer at the headers (`client.ts:77-90`).
- *Files*: the answer of a `load()` that was under way when another server was chosen is shown
  (`FilesApp.tsx:198-217`): one server's folder and rows under the name of the other; an open dialog survives a change of folder or server and then acts on
  the other one, on a file of the same path; what is copied while a cut is
  being pasted is wiped from the clipboard when the paste ends; Delete in the
  context menu is about the row, Copy about the selection if it holds the row.
- *Transfers*: a change of the server under the banner makes the next poll a 404,
  and the banner says *failed* while the extraction runs; so it does over one that ended
  well, if the next poll comes after the service has dropped it (`pruneLocked`, ten minutes
  after its end, at any later start; `FilesApp.tsx:1555-1559`); a Cancel that fails leaves
  the banner at *cancelling*, one that is answered with a finished state does not call
  `onFinished`, so that Extract stays disabled until the banner is dismissed; files queued
  after a change of the server are asked of the new one; a download whose body stalls is
  never given up (`DownloadQueue.tsx:35`, `main.go:67-72`), those behind it wait, and neither
  Retry nor Dismiss is offered while they do.
- *Rows*: `pointercancel` during a drag drops the file where the pointer was.
- *Monitor*: after a kill the first process of the next sample is what the next
  Kill would name, and a failed kill shows nothing; the totals count the last sample
  of a server that is no longer connected, while the table and the busiest one do
  not; a missing sample is drawn as 0 in a sparkline; lines of several servers are
  laid over each other by index and not by time; with as many points as are kept,
  the newest is not drawn (`pickPoints`); collector points carry the Go server's time and the
  window's own the browser's (`DashboardApp.tsx:329`), so that with clocks that differ a
  chart's times go back, or leap, where the ones follow the others.
- *Processes*: the details of the process before stay beside a new row until the answer
  comes, and for any row while the window is offline (`ProcessesTab.tsx:69-83` returns before
  it clears them); while another server's rows are shown, the pid in front is asked of the
  window's own server, whose process of that number is then shown as its details.
- *Windows*: after a close the focus may be on a minimized window; restoring a
  maximized one after the browser window shrank may put its title bar out of reach
  (`WithinReach` is about what the user moves).
- *Terminal*: the effect's cleanup closes the socket with `disposed` set, so that `onclose`
  leaves the status (`TerminalApp.tsx:323-327, 349-357`): when the server is back, *Connected*
  stands over a shell that has ended, without Reconnect, for the up to 12 s until the next
  run opens or gives up; a session of a server that disappeared falls back to the first
  connected one; a second "Open Terminal here" on the same folder opens no tab.
- *Appearance*: a switch between the desktops ends terminals, drops unsaved text
  without a question and the Monitor's samples (`Desktop.tsx:39`).
- *Editor*: after a save that was given up at 5 s and is applied later, or cut short, a text
  without the mark may not be what is on disk, if the user types back to what was loaded
  (`TextEditor.tsx:102-117`); a save does not look whether the file changed meanwhile; mixed line ends
  all become CRLF; *Edit* in the text viewer opens the editor without its server.
- *Dock*: with reduced motion an auto-hidden dock stays once shown until the
  pointer comes to it again, and so it does after a drag that ends beside it
  (`Dock.tsx:225-228`); while the pointer rests on the dock frames are asked for all the time.
- *Icons*, *Settings*: shortcuts are known by path only, so two servers' folders of
  one path are one; removing the custom wallpaper resets that of the current theme only.

## What is not modelled

- Formats and wording: the metric parsers, the archive listings' text, error
  messages, remote command output, validation messages.
- Cryptography: a secret is a value; that it decrypts or not is a failure of the
  loader.
- Rendering and layout of the web client: paths, scales and labels of charts, icons and
  art, animations of windows and their WebGL renderer, the top bar and its menus, the
  Finder's sort and view menus. No state of another part depends on them.
- The file viewers: each reads one file when it is mounted, and shows it.
- Code nothing mounts or calls: the boot and log-out screens, `ServerSelection`,
  `ServerCard`, `api/server-context`, `CompareChart`, `aggregateHistory`, `Pool.Test`.
- The API's stateless checks (origin, token) and its routing.
- The remote steps within one file operation, the refreshes of the metrics collector,
  the goroutines of the terminal handler: each is one step or one external actor of a
  client module (`Files`, `Monitor`, `Terminal`); see the plan.
- The database's migration and the desktop's key resolution.
- A `localStorage` that refuses to store, but for the dock's order (`dock-prefs.ts:91-93`): the
  dock's hide mode (`dock-prefs.ts:79`), preferences (`appearance.tsx:105`), shortcuts
  (`desktop-shortcuts.ts:137`) and the wallpaper's id (`writeStoredId`) are lost silently.
- An IndexedDB transaction that aborts without an error event: nothing listens to `onabort`
  (`wallpaper.tsx:160-165`), so that the save is never answered; modelled as an error shown.
- A restart of the Go server under the web client's windows, which forgets its jobs.
- Clocks that jump: the difference of the browser's and the server's is constant.
- A kill of the desktop application itself, and other programs on its port.
- An archive that changes between its listing and its extraction.
- Handshakes and sessions that never end (see Fairness).

## Plan

What is left, most important first.

1. `Transfer`: copy and move, within a server and across two (`ops.go`,
   `remote_copy.go`, `service.go` Write): a failure at any step, and what is left
   of source and destination. Abstract promise: one `Call` of module `Files`.
2. `MetricsCollector`: entries, refreshes and `Invalidate` as users of the pool:
   at most one refresh per entry, a deleted entry is never published to.
3. The terminal handler: socket, session and copiers: all end when one does.
4. `BackendMigration` and the desktop's key resolution: a crash between two steps.
5. Pure operators: the archive listing's `Inspect` and `safeName` over bounded
   listings, against a reference definition.
