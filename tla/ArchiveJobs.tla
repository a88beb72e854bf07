----------------------------- MODULE ArchiveJobs -----------------------------
(***************************************************************************)
(* Archive extraction (apps/server/internal/archive): the jobs of the Go   *)
(* service, the shell scripts they run on the remote server, and what the  *)
(* scripts do to the destination folders.                                  *)
(*                                                                         *)
(*  - A job's goroutine, the requests that resolve or cancel it, and its   *)
(*    remote script are three actors; the script goes on for a while after *)
(*    the Go side has let go of it.                                        *)
(*  - An entry of a folder is named by what it is called and the number    *)
(*    keep-both adds to it; its content is who put it there.  Entries are  *)
(*    files: moving one onto another replaces it.                          *)
(*  - An archive is the set of its top-level names.  "Extract here" of     *)
(*    several names is an archive of one name, the wrapping folder.        *)
(*  - The preflight and the listing are one step, which may fail; formats, *)
(*    tools, free space and the progress count are left out.               *)
(***************************************************************************)
EXTENDS Naturals, FiniteSets

CONSTANTS
    Jobs,           \* extractions that are ever asked for
    Servers, Dirs,  \* where to: a directory of a server
    Names,          \* names of top-level items
    MaxCopies,      \* the highest number keep-both adds
    MaxActive,      \* maxActiveJobsPerServer
    MayExist,       \* entries the folders may hold from the start
    UserActs,       \* whether somebody else creates files meanwhile
    None

Policies == {"replace", "keep-both"}
Folders == Servers \X Dirs
Entries == Names \X (0 .. MaxCopies)

ASSUME ArchiveAssumption ==
    /\ MaxActive \in Nat \ {0} /\ MaxCopies \in Nat
    /\ IsFiniteSet(Jobs)
    /\ UserActs \in BOOLEAN /\ MayExist \subseteq Entries
    /\ None \notin Jobs \cup Names \cup Folders \cup Entries \cup Policies \cup {"user"}
    /\ "user" \notin Jobs

VARIABLES
    known,      \* Service.jobs
    state,      \* Job.State
    where,      \* the job's server and Destination
    cancelled,  \* jobs whose context is done
    decision,   \* the decision channel, of capacity one
    at,         \* where the job's goroutine is
    result,     \* what extract is returning
    items,      \* the archive's top-level names, once listed
    policy,     \* extractPlan.policy
    placed,     \* entries the script has reported
    sh,         \* where the remote script is
    code,       \* its exit status
    left,       \* items it has still to place
    target,     \* the entry it is about to place, <<name, number>>
    staging,    \* jobs whose staging folder exists
    content,    \* who put an entry of a folder there
    clobbered   \* history: jobs that have moved a file onto another one

jobVars == <<known, state, where, cancelled, decision>>
runVars == <<at, result, items, policy, placed>>
scriptVars == <<sh, code, left, target, staging>>
folderVars == <<content, clobbered>>
vars == <<known, state, where, cancelled, decision, at, result, items, policy,
          placed, sh, code, left, target, staging, content, clobbered>>

Active == {"scanning", "awaiting", "extracting"}
Final == {"done", "failed", "cancelled"}
\* The script before its traps are set, and after.
Untrapped == {"begin", "made"}
Trapped == {"unpack", "place", "move"}

TypeOK ==
    /\ known \in SUBSET Jobs
    /\ state \in [Jobs -> {"none"} \cup Active \cup Final]
    /\ where \in [Jobs -> Folders \cup {None}]
    /\ cancelled \in SUBSET Jobs
    /\ decision \in [Jobs -> Policies \cup {None}]
    /\ at \in [Jobs -> {"idle", "refused", "scan", "await", "stream", "reading", "settle", "over"}]
    /\ result \in [Jobs -> {"ok", "error", "changed"}]
    /\ items \in [Jobs -> SUBSET Names]
    /\ policy \in [Jobs -> Policies \cup {None}]
    /\ placed \in [Jobs -> SUBSET Entries]
    /\ sh \in [Jobs -> Untrapped \cup Trapped \cup {"none", "exit", "gone"}]
    /\ code \in [Jobs -> {"ok", "error", "changed"}]
    /\ left \in [Jobs -> SUBSET Names]
    /\ target \in [Jobs -> Entries \cup {None}]
    /\ staging \in SUBSET Jobs
    /\ content \in [Folders -> [Entries -> Jobs \cup {"user", None}]]
    /\ clobbered \in SUBSET Jobs

Init ==
    /\ known = {} /\ cancelled = {}
    /\ state = [j \in Jobs |-> "none"]
    /\ where = [j \in Jobs |-> None]
    /\ decision = [j \in Jobs |-> None]
    /\ at = [j \in Jobs |-> "idle"]
    /\ result = [j \in Jobs |-> "ok"]
    /\ items = [j \in Jobs |-> {}]
    /\ policy = [j \in Jobs |-> None]
    /\ placed = [j \in Jobs |-> {}]
    /\ sh = [j \in Jobs |-> "none"]
    /\ code = [j \in Jobs |-> "ok"]
    /\ left = [j \in Jobs |-> {}]
    /\ target = [j \in Jobs |-> None]
    /\ staging = {} /\ clobbered = {}
    /\ \E U \in [Folders -> SUBSET MayExist] :
          content = [f \in Folders |-> [e \in Entries |-> IF e \in U[f] THEN "user" ELSE None]]

-----------------------------------------------------------------------------
(* The job's goroutine                                                      *)

Go(j, place) == at' = [at EXCEPT ![j] = place]

Finished(j) == state[j] \in Final
ActiveOn(s, K) == {j \in K : where[j] # None /\ where[j][1] = s /\ ~Finished(j)}

\* What pruneLocked may drop: finished jobs, once finishedJobTTL is over.
AllPrunable == known                                                \* mutant
Prunable == {j \in known : Finished(j)}

\* activeLocked < maxActiveJobsPerServer
HasOneMore(s) == Cardinality(ActiveOn(s, known)) <= MaxActive       \* mutant
HasRoom(s) == Cardinality(ActiveOn(s, known)) < MaxActive

\* Start: prune the old jobs, refuse with ErrBusy, or register the job and
\* go run.
Start(j, f, old) ==
    /\ at[j] = "idle" /\ old \subseteq Prunable
    /\ IF HasRoom(f[1])
       THEN /\ known' = (known \ old) \cup {j}
            /\ state' = [state EXCEPT ![j] = "scanning"]
            /\ where' = [where EXCEPT ![j] = f]
            /\ Go(j, "scan")
       ELSE /\ known' = known \ old
            /\ Go(j, "refused")
            /\ UNCHANGED <<state, where>>
    /\ UNCHANGED <<cancelled, decision, result, items, policy, placed, scriptVars, folderVars>>

\* extract returns r to run.
Return(j, r) ==
    /\ result' = [result EXCEPT ![j] = r]
    /\ Go(j, "settle")

\* The preflight, the listing, Inspect or the conflict check fails.
ScanFail(j) ==
    /\ at[j] = "scan"
    /\ Return(j, "error")
    /\ UNCHANGED <<jobVars, items, policy, placed, scriptVars, folderVars>>

Taken(f, e) == content[f][e] # None
Conflicts(j, T) == {n \in T : Taken(where[j], <<n, 0>>)}

\* The archive turns out to hold T: ask about conflicts, or go on.
Plan(j, T) ==
    /\ at[j] = "scan" /\ T # {}
    /\ items' = [items EXCEPT ![j] = T]
    /\ IF Conflicts(j, T) # {}
       THEN state' = [state EXCEPT ![j] = "awaiting"] /\ Go(j, "await")
       ELSE state' = [state EXCEPT ![j] = "extracting"] /\ Go(j, "stream")
    /\ UNCHANGED <<known, where, cancelled, decision, result, policy, placed,
                   scriptVars, folderVars>>

\* awaitDecision: the answer, the cancellation or the timer, whichever the
\* select picks.
Decide(j) ==
    /\ at[j] = "await" /\ decision[j] # None
    /\ policy' = [policy EXCEPT ![j] = decision[j]]
    /\ decision' = [decision EXCEPT ![j] = None]
    /\ Go(j, "stream")
    /\ UNCHANGED <<known, state, where, cancelled, result, items, placed, scriptVars, folderVars>>

GoAnyway(j) ==                                                      \* mutant
    /\ at[j] = "await" /\ j \in cancelled
    /\ Go(j, "stream")
    /\ UNCHANGED <<jobVars, result, items, policy, placed, scriptVars, folderVars>>
GiveUp(j) ==
    /\ at[j] = "await" /\ j \in cancelled
    /\ Return(j, "error")
    /\ UNCHANGED <<jobVars, items, policy, placed, scriptVars, folderVars>>

NoTimeOut(j) == FALSE /\ UNCHANGED vars                             \* mutant
TimeOut(j) ==
    /\ at[j] = "await"
    /\ cancelled' = cancelled \cup {j}
    /\ Return(j, "error")
    /\ UNCHANGED <<known, state, where, decision, items, policy, placed, scriptVars, folderVars>>

\* Stream gets no session.
NoSession(j) ==
    /\ at[j] = "stream"
    /\ Return(j, "error")
    /\ UNCHANGED <<jobVars, items, policy, placed, scriptVars, folderVars>>

Launch(j) ==
    /\ at[j] = "stream"
    /\ sh' = [sh EXCEPT ![j] = "begin"]
    /\ left' = [left EXCEPT ![j] = items[j]]
    /\ Go(j, "reading")
    /\ UNCHANGED <<jobVars, result, items, policy, placed, code, target, staging, folderVars>>

\* The script has exited and its status arrives.
ScriptEnds(j) ==
    /\ at[j] = "reading" /\ sh[j] = "gone"
    /\ Return(j, code[j])
    /\ UNCHANGED <<jobVars, items, policy, placed, scriptVars, folderVars>>

\* The session is closed by Cancel, or the connection is lost: Stream returns
\* and the script is on its own.
Detach(j) ==
    /\ at[j] = "reading"
    /\ Return(j, "error")
    /\ UNCHANGED <<jobVars, items, policy, placed, scriptVars, folderVars>>

\* run's last word: a cancelled context comes first, then the error.  Its
\* deferred cancel no longer matters to anyone.
RawOutcome(j) == IF j \in cancelled THEN "cancelled" ELSE result[j] \* mutant
BestOutcome(j) == IF j \in cancelled THEN "cancelled" ELSE "done"   \* mutant
Outcome(j) ==
    IF j \in cancelled THEN "cancelled" ELSE IF result[j] # "ok" THEN "failed" ELSE "done"

Settle(j) ==
    /\ at[j] = "settle"
    /\ state' = [state EXCEPT ![j] = Outcome(j)]
    /\ Go(j, "over")
    /\ UNCHANGED <<known, where, cancelled, decision, result, items, policy, placed, scriptVars, folderVars>>

-----------------------------------------------------------------------------
(* Requests about a job                                                     *)

ResolveAgain(j, p) ==                                               \* mutant
    /\ j \in known /\ state[j] = "awaiting"
    /\ decision' = [decision EXCEPT ![j] = p]
    /\ UNCHANGED <<known, state, where, cancelled, runVars, scriptVars, folderVars>>
Resolve(j, p) ==
    /\ j \in known /\ state[j] = "awaiting"
    /\ state' = [state EXCEPT ![j] = "extracting"]
    /\ decision' = [decision EXCEPT ![j] = p]
    /\ UNCHANGED <<known, where, cancelled, runVars, scriptVars, folderVars>>

Cancel(j) ==
    /\ j \in known /\ ~Finished(j) /\ j \notin cancelled
    /\ cancelled' = cancelled \cup {j}
    /\ UNCHANGED <<known, state, where, decision, runVars, scriptVars, folderVars>>

-----------------------------------------------------------------------------
(* The remote script                                                        *)

Shell(j, step) == sh' = [sh EXCEPT ![j] = step]

\* The shell exits with status c: by its exit trap once that is set.
Exit(j, c) ==
    /\ code' = [code EXCEPT ![j] = c]
    /\ Shell(j, IF sh[j] \in Trapped THEN "exit" ELSE "gone")

\* A command fails under set -e.
CommandFails(j) ==
    /\ sh[j] \in {"begin", "unpack", "move"}
    /\ Exit(j, "error")
    /\ UNCHANGED <<jobVars, runVars, left, target, staging, folderVars>>

\* S=$(mktemp -d ...)
MakeStaging(j) ==
    /\ sh[j] = "begin"
    /\ staging' = staging \cup {j}
    /\ Shell(j, "made")
    /\ UNCHANGED <<jobVars, runVars, code, left, target, folderVars>>

SetTraps(j) ==
    /\ sh[j] = "made"
    /\ Shell(j, "unpack")
    /\ UNCHANGED <<jobVars, runVars, code, left, target, staging, folderVars>>

Unpack(j) ==
    /\ sh[j] = "unpack"
    /\ Shell(j, "place")
    /\ UNCHANGED <<jobVars, runVars, code, left, target, staging, folderVars>>

\* unique: the first free number.
SameName(f, n) == {0}                                               \* mutant
FirstFree(f, n) ==
    {i \in 1 .. MaxCopies : /\ ~Taken(f, <<n, i>>)
                            /\ \A h \in 1 .. i - 1 : Taken(f, <<n, h>>)}

\* case $P in replace)
Replaces(j) == policy[j] = "replace"

\* place up to its mv: look whether the name is taken, and make room.
Look(j, n) ==
    LET f == where[j] IN
    /\ sh[j] = "place" /\ n \in left[j]
    /\ \/ /\ ~Taken(f, <<n, 0>>)
          /\ target' = [target EXCEPT ![j] = <<n, 0>>]
          /\ Shell(j, "move") /\ UNCHANGED <<code, content>>
       \/ /\ Taken(f, <<n, 0>>) /\ Replaces(j)
          /\ content' = [content EXCEPT ![f][<<n, 0>>] = None]
          /\ target' = [target EXCEPT ![j] = <<n, 0>>]
          /\ Shell(j, "move") /\ code' = code
       \/ /\ Taken(f, <<n, 0>>) /\ policy[j] = "keep-both"
          /\ \E i \in FirstFree(f, n) : target' = [target EXCEPT ![j] = <<n, i>>]
          /\ Shell(j, "move") /\ UNCHANGED <<code, content>>
       \/ /\ Taken(f, <<n, 0>>) /\ policy[j] = None
          /\ Exit(j, "changed") /\ UNCHANGED <<target, content>>
    /\ UNCHANGED <<jobVars, runVars, left, staging, clobbered>>

\* mv, and the line that reports it.
Move(j) ==
    LET f == where[j] IN
    /\ sh[j] = "move"
    /\ content' = [content EXCEPT ![f][target[j]] = j]
    /\ clobbered' = IF Taken(f, target[j]) THEN clobbered \cup {j} ELSE clobbered
    /\ left' = [left EXCEPT ![j] = @ \ {target[j][1]}]
    /\ placed' = IF at[j] = "reading" THEN [placed EXCEPT ![j] = @ \cup {target[j]}] ELSE placed
    /\ target' = [target EXCEPT ![j] = None]
    /\ Shell(j, "place")
    /\ UNCHANGED <<jobVars, at, result, items, policy, code, staging>>

AllPlaced(j) ==
    /\ sh[j] = "place" /\ left[j] = {}
    /\ Exit(j, "ok")
    /\ UNCHANGED <<jobVars, runVars, left, target, staging, folderVars>>

\* SIGTERM from a cancelled Stream, or SIGPIPE when the script writes to a
\* session that is gone.
Interrupt(j) ==
    /\ \/ sh[j] \in Untrapped /\ j \in cancelled
       \/ sh[j] \in Trapped /\ (j \in cancelled \/ at[j] # "reading")
    /\ Exit(j, "error")
    /\ UNCHANGED <<jobVars, runVars, left, target, staging, folderVars>>

\* trap 'rm -rf -- "$S"' EXIT
LeaveStaging(j) ==                                                  \* mutant
    /\ sh[j] = "exit"
    /\ Shell(j, "gone")
    /\ UNCHANGED <<jobVars, runVars, code, left, target, staging, folderVars>>
CleanUp(j) ==
    /\ sh[j] = "exit"
    /\ staging' = staging \ {j}
    /\ Shell(j, "gone")
    /\ UNCHANGED <<jobVars, runVars, code, left, target, folderVars>>

\* Somebody else saves a file in the folder.
UserCreates(f, n) ==
    /\ UserActs /\ ~Taken(f, <<n, 0>>)
    /\ content' = [content EXCEPT ![f][<<n, 0>>] = "user"]
    /\ UNCHANGED <<jobVars, runVars, scriptVars, clobbered>>

-----------------------------------------------------------------------------
Job(j) ==
    \/ ScanFail(j)
    \/ \E T \in SUBSET Names : Plan(j, T)
    \/ Decide(j) \/ GiveUp(j) \/ TimeOut(j)
    \/ NoSession(j) \/ Launch(j)
    \/ ScriptEnds(j) \/ Detach(j)
    \/ Settle(j)

Script(j) ==
    \/ CommandFails(j) \/ MakeStaging(j) \/ SetTraps(j) \/ Unpack(j)
    \/ \E n \in Names : Look(j, n)
    \/ Move(j) \/ AllPlaced(j)
    \/ Interrupt(j) \/ CleanUp(j)

Request(j) ==
    \/ \E f \in Folders, old \in SUBSET Prunable : Start(j, f, old)
    \/ \E p \in Policies : Resolve(j, p)
    \/ Cancel(j)

Next ==
    \/ \E j \in Jobs : Request(j) \/ Job(j) \/ Script(j)
    \/ \E f \in Folders, n \in Names : UserCreates(f, n)

Spec == Init /\ [][Next]_vars

(***************************************************************************)
(* Goroutines are scheduled, the decision timer fires, and a remote script *)
(* goes on: a command of it ends, or a signal ends the script.  Nobody has *)
(* to resolve, to cancel or to start anything.                             *)
(***************************************************************************)
FairSpec ==
    /\ Spec
    /\ \A j \in Jobs : WF_vars(Job(j)) /\ WF_vars(Script(j))

-----------------------------------------------------------------------------
\* The service shows its clients the life of a job that Extraction describes.
Shown == INSTANCE Extraction WITH
    shown <- state,
    found <- known,
    server <- [j \in Jobs |-> IF where[j] = None THEN None ELSE where[j][1]]
ShowsExtraction == Shown!Spec

\* A job's state, and where its goroutine is.
StateTracks ==
    \A j \in Jobs :
        /\ state[j] = "none" <=> at[j] \in {"idle", "refused"}
        /\ state[j] = "none" <=> where[j] = None
        /\ Finished(j) <=> at[j] = "over"
        /\ at[j] = "scan" => state[j] = "scanning"
        /\ at[j] = "await" => state[j] = (IF decision[j] = None THEN "awaiting" ELSE "extracting")
        /\ at[j] \in {"stream", "reading"} => state[j] = "extracting"
        /\ state[j] \in {"none", "scanning"} => decision[j] = None

\* A script: when it exists, what it is about to place, what it has created
\* and what a zero exit status means.
ScriptTracks ==
    \A j \in Jobs :
        /\ at[j] \in {"idle", "refused", "scan", "await", "stream"} => sh[j] = "none"
        /\ at[j] = "reading" => sh[j] # "none"
        /\ at[j] \in {"await", "stream", "reading"} => items[j] # {}
        /\ sh[j] # "none" => where[j] # None
        /\ sh[j] = "move" => target[j] # None
        /\ sh[j] \in {"none", "begin"} => j \notin staging
        /\ sh[j] \in {"exit", "gone"} /\ code[j] = "ok" => left[j] = {}
        /\ sh[j] = "gone" /\ code[j] = "ok" => j \notin staging

\* The script has placed all items of the job and removed its staging folder.
Reported(j, n) == \E i \in 0 .. MaxCopies : <<n, i>> \in placed[j]
Complete(j) ==
    /\ items[j] # {}
    /\ \A n \in items[j] : Reported(j, n)
    /\ sh[j] = "gone" /\ j \notin staging

\* While its goroutine reads, an item is still to be placed or is reported.
PlacedTracks ==
    \A j \in Jobs :
        /\ at[j] = "reading" => \A n \in items[j] : n \in left[j] \/ Reported(j, n)
        /\ at[j] = "settle" /\ result[j] = "ok" => state[j] = "extracting" /\ Complete(j)

\* No job that is still at work is ever pruned, and no server has more of
\* them than it may (service.go:147-152, 363-380).
ActiveBounded ==
    /\ \A j \in Jobs : state[j] \in Active => j \in known
    /\ \A s \in Servers : Cardinality(ActiveOn(s, known)) <= MaxActive

\* Resolve sends while it holds the service's lock: the channel always has
\* room, so the send never blocks every other request (service.go:175-186).
SendNeverBlocks == \A j \in Jobs : state[j] = "awaiting" => decision[j] = None

\* The script runs only after the archive was listed and, if there was a
\* question, answered (service.go:274-291).
NoScriptUnasked ==
    \A j \in Jobs : sh[j] # "none" => state[j] \notin {"none", "scanning", "awaiting"}

\* A job reported done has placed each of its items, under some name, and has
\* removed its staging folder (service.go:217-220, 304-307).
DoneMeansPlaced == \A j \in Jobs : state[j] = "done" => Complete(j)

\* What was in a folder before any job began is destroyed only by a job that
\* was told to replace it (script.go:212-222).
ReplacedOnRequest ==
    [][\A f \in Folders, e \in Entries :
          content[f][e] = "user" /\ content'[f][e] # "user" =>
              \E j \in Jobs : where[j] = f /\ policy[j] = "replace" /\ e[1] \in items[j]]_vars

ArchiveInv ==
    /\ TypeOK /\ StateTracks /\ ScriptTracks /\ PlacedTracks
    /\ ActiveBounded /\ SendNeverBlocks /\ NoScriptUnasked /\ DoneMeansPlaced

\* Every extraction ends, answered or not, and so does its script.
JobsEnd ==
    \A j \in Jobs : /\ at[j] # "idle" ~> at[j] \in {"refused", "over"}
                    /\ sh[j] # "none" ~> sh[j] = "gone"

\* script.go:226-228, "extracts into a private staging folder inside the
\* destination, so a failure or cancel never leaves partial files behind".
NothingPartial ==
    \A j \in Jobs : state[j] \in {"failed", "cancelled"} /\ sh[j] = "gone" /\ left[j] # {} =>
        \A f \in Folders, e \in Entries : content[f][e] # j

\* script.go:33, "the destination changed during extraction; nothing was
\* overwritten".
ChangedOverwritesNothing ==
    \A j \in Jobs : state[j] = "failed" /\ result[j] = "changed" => j \notin clobbered
=============================================================================
