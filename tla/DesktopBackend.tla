---------------------------- MODULE DesktopBackend ----------------------------
(***************************************************************************)
(* The desktop application: BackendManager of apps/desktop/src-tauri, which *)
(* starts, watches and stops the Go server as a child process, and the web  *)
(* client's RuntimeProvider, which polls it.                                *)
(*                                                                         *)
(* Threads: the one that runs start(), watch_child(), the main thread with  *)
(* the exit events, and the web view's event loop.  Each action is one      *)
(* critical section of the manager's lock, one step outside it, or one      *)
(* turn of the event loop.                                                  *)
(*                                                                         *)
(*  - Time is left out: a deadline may pass at any moment.                  *)
(*  - The API origin and the error texts are left out.                      *)
(*  - RuntimeProvider is mounted once at a time; React's strict mode and a  *)
(*    remount give one view after another in the same page, with the loops  *)
(*    of the earlier ones still running.                                    *)
(*  - A kill of the application itself is left out.                         *)
(***************************************************************************)
EXTENDS Naturals

CONSTANTS
    Views       \* mounts of RuntimeProvider

VARIABLES
    proc,       \* the Go process
    held,       \* BackendInner.child is Some
    status,     \* config.status
    token,      \* config.local_auth_token is not empty
    starter,    \* where the thread that runs start() is
    watcher,    \* where the thread that runs watch_child() is
    app,        \* how far the application's exit has got
    phase,      \* GateState of each view
    loop,       \* where the bootstrap or watch loop of each view is
    answer,     \* what get_runtime_config returned to that loop
    late,       \* the loop's 60 seconds are over
    injected    \* the page's copy of the configuration has the token

shellVars == <<proc, held, status, token, starter, watcher, app>>
viewVars == <<phase, loop, answer, late, injected>>
desktopVars == <<proc, held, status, token, starter, watcher, app,
                 phase, loop, answer, late, injected>>

Status == {"starting", "ready", "failed", "stopped"}
RuntimeConfig == [status : Status, token : BOOLEAN]
Down == {"failed", "stopped"}
Live == {"booting", "serving"}

\* "prepare": up to the spawn; "publish", "wait": the child is a local of
\* start(); "ready", "kill", "fail": the outcomes of wait_until_ready.
Starter == {"begin", "prepare", "publish", "wait", "ready", "kill", "fail",
            "spawn", "over"}

DesktopTypeOK ==
    /\ proc \in {"none", "dead"} \cup Live
    /\ held \in BOOLEAN
    /\ status \in Status
    /\ token \in BOOLEAN
    /\ starter \in Starter
    /\ watcher \in {"none", "watching", "blind", "over"}
    /\ app \in {"running", "closing", "exited", "gone"}
    /\ phase \in [Views -> {"none", "checking", "ready", "failed", "unmounted"}]
    /\ loop \in [Views -> {"idle", "boot", "booting", "watch", "watching"}]
    /\ answer \in [Views -> RuntimeConfig]
    /\ late \in [Views -> BOOLEAN]
    /\ injected \in BOOLEAN

NoConfig == [status |-> "starting", token |-> FALSE]

DesktopInit ==
    /\ proc = "none"
    /\ held = FALSE
    /\ status = "starting"
    /\ token = FALSE
    /\ starter = "begin"
    /\ watcher = "none"
    /\ app = "running"
    /\ phase = [v \in Views |-> "none"]
    /\ loop = [v \in Views |-> "idle"]
    /\ answer = [v \in Views |-> NoConfig]
    /\ late = [v \in Views |-> FALSE]
    /\ injected = FALSE

-----------------------------------------------------------------------------
(* BackendManager::start                                                    *)

StarterAt(here) == app # "gone" /\ starter = here

Begin ==
    /\ StarterAt("begin")
    /\ status' = "starting"
    /\ starter' = "prepare"
    /\ UNCHANGED <<proc, held, token, watcher, app, viewVars>>

\* A `?`: no data directory, port, binary or key, or the spawn fails.
PrepareFails ==
    /\ StarterAt("prepare")
    /\ starter' = "over"
    /\ UNCHANGED <<proc, held, status, token, watcher, app, viewVars>>

Spawn ==
    /\ StarterAt("prepare")
    /\ proc' = "booting"
    /\ starter' = "publish"
    /\ UNCHANGED <<held, status, token, watcher, app, viewVars>>

Publish ==
    /\ StarterAt("publish")
    /\ token' = TRUE
    /\ starter' = "wait"
    /\ UNCHANGED <<proc, held, status, watcher, app, viewVars>>

HealthOk ==
    /\ StarterAt("wait")
    /\ proc = "serving"
    /\ starter' = "ready"
    /\ UNCHANGED <<proc, held, status, token, watcher, app, viewVars>>

\* The child has exited, or 45 seconds are over.
HealthFails ==
    /\ StarterAt("wait")
    /\ starter' = "kill"
    /\ UNCHANGED <<proc, held, status, token, watcher, app, viewVars>>

\* child.kill() and child.wait()
LeaveRunning == proc                                                \* mutant
AfterKill == "dead"

Kill ==
    /\ StarterAt("kill")
    /\ proc' = AfterKill
    /\ starter' = "fail"
    /\ UNCHANGED <<held, status, token, watcher, app, viewVars>>

StoreReady ==
    /\ StarterAt("ready")
    /\ held' = TRUE
    /\ status' = "ready"
    /\ starter' = "spawn"
    /\ UNCHANGED <<proc, token, watcher, app, viewVars>>

StoreFailed ==
    /\ StarterAt("fail")
    /\ held' = FALSE
    /\ status' = "failed"
    /\ token' = FALSE
    /\ starter' = "over"
    /\ UNCHANGED <<proc, watcher, app, viewVars>>

\* thread::spawn(move || watcher.watch_child())
NeverWatch == "over"                                                \* mutant
NewWatcher == "watching"

SpawnWatcher ==
    /\ StarterAt("spawn")
    /\ watcher' = NewWatcher
    /\ starter' = "over"
    /\ UNCHANGED <<proc, held, status, token, app, viewVars>>

Start ==
    \/ Begin \/ PrepareFails \/ Spawn \/ Publish \/ HealthOk \/ HealthFails
    \/ Kill \/ StoreReady \/ StoreFailed \/ SpawnWatcher

-----------------------------------------------------------------------------
(* watch_child, stop and the child itself                                   *)

Watching == app # "gone" /\ watcher = "watching"

\* stop() has taken the child.
WatchTaken ==
    /\ Watching
    /\ ~held
    /\ watcher' = "over"
    /\ UNCHANGED <<proc, held, status, token, starter, app, viewVars>>

\* What the configuration keeps of the token once the child is gone.
KeepToken == token                                                  \* mutant
TokenAfterExit == IF status = "ready" THEN FALSE ELSE token

WatchExited ==
    /\ Watching
    /\ held
    /\ proc = "dead"
    /\ held' = FALSE
    /\ status' = IF status = "ready" THEN "stopped" ELSE status
    /\ token' = TokenAfterExit
    /\ watcher' = "over"
    /\ UNCHANGED <<proc, starter, app, viewVars>>

\* try_wait fails: the thread ends and nothing else changes.
WatchFails ==
    /\ Watching
    /\ held
    /\ watcher' = "blind"
    /\ UNCHANGED <<proc, held, status, token, starter, app, viewVars>>

KeepStatus == status                                                \* mutant
AlwaysStopped == "stopped"                                          \* mutant
StatusExited == IF status = "ready" THEN "exited" ELSE status       \* mutant
StatusAfterStop == IF status = "ready" THEN "stopped" ELSE status

Stop ==
    /\ held' = FALSE
    /\ proc' = IF held THEN "dead" ELSE proc
    /\ status' = StatusAfterStop
    /\ token' = FALSE
    /\ UNCHANGED <<starter, watcher, viewVars>>

\* RunEvent::ExitRequested, RunEvent::Exit and the end of the application's
\* process with all its threads: nothing prevents or delays an exit.
ExitRequested == app = "running" /\ app' = "closing" /\ Stop
Exit == app = "closing" /\ app' = "exited" /\ Stop

Leave ==
    /\ app = "exited"
    /\ app' = "gone"
    /\ UNCHANGED <<proc, held, status, token, starter, watcher, viewVars>>

\* The Go server listens; it ends by an error, a signal or a failed start.
Boots ==
    /\ proc = "booting"
    /\ proc' = "serving"
    /\ UNCHANGED <<held, status, token, starter, watcher, app, viewVars>>

Dies ==
    /\ proc \in Live
    /\ proc' = "dead"
    /\ UNCHANGED <<held, status, token, starter, watcher, app, viewVars>>

-----------------------------------------------------------------------------
(* RuntimeProvider, bootstrapRuntime and watchDesktopBackend                *)

Mounted(v) == phase[v] \notin {"none", "unmounted"}

Mount(v) ==
    /\ app # "gone"
    /\ phase[v] = "none"
    /\ \A w \in Views : ~Mounted(w)
    /\ phase' = [phase EXCEPT ![v] = "checking"]
    /\ loop' = [loop EXCEPT ![v] = "boot"]
    /\ UNCHANGED <<shellVars, answer, late, injected>>

\* The effect's clean-up: cancelled = true and abort.abort().
Unmount(v) ==
    /\ app # "gone"
    /\ Mounted(v)
    /\ phase' = [phase EXCEPT ![v] = "unmounted"]
    /\ UNCHANGED <<shellVars, loop, answer, late, injected>>

\* setState, unless cancelled.
Show(v, p) == phase' = [phase EXCEPT ![v] = IF Mounted(v) THEN p ELSE @]

LoopAt(v, here) == app # "gone" /\ loop[v] = here
Goto(v, there) == loop' = [loop EXCEPT ![v] = there]

Late(v) ==
    /\ LoopAt(v, "boot") \/ LoopAt(v, "booting")
    /\ ~late[v]
    /\ late' = [late EXCEPT ![v] = TRUE]
    /\ UNCHANGED <<shellVars, phase, loop, answer, injected>>

Untimed(v) == FALSE                                                 \* mutant
TimedOut(v) == late[v]

\* The shell answers get_runtime_config with a copy made under the lock.
Read(v) ==
    /\ answer' = [answer EXCEPT ![v] = [status |-> status, token |-> token]]
    /\ UNCHANGED <<shellVars, phase, late, injected>>

BootAsk(v) ==
    /\ LoopAt(v, "boot")
    /\ ~TimedOut(v)
    /\ Goto(v, "booting")
    /\ Read(v)

Failed == [status |-> "failed", token |-> FALSE]

\* The locals of a loop's turn and of the bootstrap go out of scope.
Forget(v) ==
    /\ answer' = [answer EXCEPT ![v] = NoConfig]
    /\ late' = [late EXCEPT ![v] = FALSE]

\* The bootstrap ends in the page of a failed start.
BootFails(v, config) ==
    /\ injected' = config.token
    /\ Show(v, "failed")
    /\ Goto(v, "idle")
    /\ Forget(v)
    /\ UNCHANGED shellVars

BootTimesOut(v) == LoopAt(v, "boot") /\ TimedOut(v) /\ BootFails(v, Failed)
BootIpcFails(v) == LoopAt(v, "boot") /\ ~TimedOut(v) /\ BootFails(v, Failed)

\* What validateDesktopConfig makes of an answer.
Validated(config) ==
    IF config.status = "ready" /\ ~config.token THEN Failed ELSE config

\* The statuses that end a loop in failure.
EndsFailed(config) == config.status = "failed"                      \* mutant
Ends(config) == config.status \in Down

BootAnswer(v) ==
    LET config == Validated(answer[v]) IN
    /\ LoopAt(v, "booting")
    /\ \/ Ends(config) /\ BootFails(v, config)
       \/ /\ config.status = "ready"
          /\ injected' = config.token
          /\ Show(v, "ready")
          /\ Goto(v, IF Mounted(v) THEN "watch" ELSE "idle")
          /\ Forget(v)
          /\ UNCHANGED shellVars
       \/ /\ ~Ends(config) /\ config.status # "ready"
          /\ injected' = config.token
          /\ Goto(v, "boot")
          /\ answer' = [answer EXCEPT ![v] = NoConfig]
          /\ UNCHANGED <<shellVars, phase, late>>

WatchAsk(v) ==
    /\ LoopAt(v, "watch")
    /\ Mounted(v)
    /\ Goto(v, "watching")
    /\ Read(v)

\* onStopped, unless cancelled.
WatchIpcFails(v) ==
    /\ LoopAt(v, "watch")
    /\ Mounted(v)
    /\ Show(v, "failed")
    /\ Goto(v, "idle")
    /\ UNCHANGED <<shellVars, answer, late, injected>>

Unsynced(config) == injected                                        \* mutant
Synced(config) == ~Ends(config) /\ config.token

WatchAnswer(v) ==
    /\ LoopAt(v, "watching")
    /\ injected' = Synced(answer[v])
    /\ IF Ends(answer[v])
       THEN Show(v, "failed") /\ Goto(v, "idle")
       ELSE phase' = phase /\ Goto(v, "watch")
    /\ Forget(v)
    /\ UNCHANGED shellVars

WatchAborted(v) ==
    /\ LoopAt(v, "watch")
    /\ ~Mounted(v)
    /\ Goto(v, "idle")
    /\ UNCHANGED <<shellVars, phase, answer, late, injected>>

Loop(v) ==
    \/ BootAsk(v) \/ BootTimesOut(v) \/ BootIpcFails(v) \/ BootAnswer(v)
    \/ WatchAsk(v) \/ WatchIpcFails(v) \/ WatchAnswer(v) \/ WatchAborted(v)

-----------------------------------------------------------------------------
Watch == WatchTaken \/ WatchExited \/ WatchFails

DesktopNext ==
    \/ Start \/ Watch \/ ExitRequested \/ Exit \/ Leave \/ Boots \/ Dies
    \/ \E v \in Views : Mount(v) \/ Unmount(v) \/ Late(v) \/ Loop(v)

DesktopSpec == DesktopInit /\ [][DesktopNext]_desktopVars

\* Threads and event loops run, deadlines pass, and an exit that has begun is
\* completed; that anybody exits, unmounts or dies is not assumed.
Fairness ==
    /\ WF_desktopVars(Start) /\ WF_desktopVars(Watch)
    /\ WF_desktopVars(Exit) /\ WF_desktopVars(Leave)
    /\ \A v \in Views : WF_desktopVars(Late(v)) /\ WF_desktopVars(Loop(v))

FairSpec == DesktopSpec /\ Fairness

-----------------------------------------------------------------------------
(* Properties                                                               *)

\* The manager holds the child exactly while it reports the backend as ready,
\* however exits, deaths and a slow start interleave (backend.rs:140-201).
HeldIffReady == held <=> status = "ready"

\* No step lets go of a running child: it is in the manager's hands, where
\* stop() finds it, or in those of the thread that waits for it.
ChildOwned ==
    proc \in Live => held \/ starter \in {"publish", "wait", "ready", "kill"}

\* A backend reported as failed or stopped is dead, and its token is forgotten
\* (docs/desktop.md:54-55), so that no page is given it any more.
DownIsDown == status \in Down => proc = "dead" /\ ~token

\* What start() relies on while others may stop or watch: the configuration
\* is its own until it has stored the outcome.
StartUndisturbed ==
    /\ starter \in {"begin", "prepare"} => proc = "none"
    /\ starter \in {"publish", "wait", "ready", "kill", "fail"} => proc # "none"
    /\ starter = "fail" => proc = "dead"
    /\ starter \notin {"spawn", "over"} => status = "starting"

DesktopInv ==
    /\ DesktopTypeOK
    /\ HeldIffReady
    /\ ChildOwned
    /\ DownIsDown
    /\ StartUndisturbed

\* A failure is for good: nothing brings a backend that was reported as failed
\* or stopped back to ready, least of all a start that was still under way.
DownForGood == [][(status \in Down) => (status' \in Down)]_desktopVars

\* A page that shows the application learns that the backend is down, and the
\* death of its backend is noticed (docs/desktop.md:54) and shown, unless the
\* watcher itself failed.
LossShown ==
    \A v \in Views :
        /\ (phase[v] = "ready" /\ status \in Down) ~> (phase[v] # "ready" \/ app = "gone")
        /\ (phase[v] = "ready" /\ held /\ proc = "dead") ~>
              (phase[v] # "ready" \/ watcher = "blind" \/ app = "gone")

\* No page stays on "Starting ServerUI backend..." (docs/desktop.md:33-34),
\* even when start() has given up without changing the status.
ViewSettles ==
    \A v \in Views :
        phase[v] = "checking" ~> (phase[v] # "checking" \/ app = "gone")

\* The loop of an earlier mount, timing out late, may wipe the token of the
\* page that has meanwhile become ready; the page gets it back.
TokenRestored ==
    \A v \in Views :
        (phase[v] = "ready" /\ ~injected) ~>
            (injected \/ phase[v] # "ready" \/ app = "gone")

\* docs/architecture.md:114, "Stops the Go child on application exit"
NoOrphanChild == app = "gone" => proc \notin Live
=============================================================================
