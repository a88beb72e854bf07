------------------------------ MODULE Transfers ------------------------------
(***************************************************************************)
(* What goes on in the background of a Files window: the extraction banner  *)
(* (ExtractStatus, onExtract in FilesApp.tsx), which polls a job of the     *)
(* archive service, and the download queue (DownloadQueue.tsx).  Both work  *)
(* for the window's server, which the user may change at any time.          *)
(*                                                                         *)
(* The service is the abstract one, module Extraction, which ArchiveJobs    *)
(* implements.  A file is its path.  Left out: how far a job or a download  *)
(* has come, and the browser's own download manager for large files.        *)
(***************************************************************************)
EXTENDS Naturals, Sequences, FiniteSets, Nothing

CONSTANTS
  Servers, Jobs, Files,
  MaxFaults,  \* bound on calls whose answer is an error
  MaxSwitch,  \* bound on changes of the server
  MaxAsks,    \* bound on the extractions and downloads asked for
  MaxCalls    \* bound on starts, decisions and Cancels under way at once

VARIABLES
  shown, found, server, \* the archive service's
  serverId,   \* the window's server
  dialog,     \* the dialog of Extract To… is open
  banner,     \* None, or [id, state, cancelling]
  extractBusy,\* Extract is disabled in the menu
  poll,       \* None, or the answer of the poll that counts, on its way
  requests,   \* the other calls under way: [kind, srv, id, said]
  cancelled,  \* jobs the service was told to cancel
  items,      \* rows of the download panel: path -> state
  queued,     \* paths to be downloaded
  running,    \* the download loop: None, or [srv, path, stalled] of its download
  faults, switches, asks

service == <<shown, found, server, cancelled>>
extraction == <<dialog, banner, extractBusy, poll, requests>>
downloads == <<items, queued, running>>
transferVars == <<service, serverId, extraction, downloads, faults, switches, asks>>

Service == INSTANCE Extraction WITH MaxActive <- 2

isExtractFinished(state) == state \in {"done", "failed", "cancelled"}

TransfersInit ==
  /\ Service!Init
  /\ serverId = CHOOSE s \in Servers : TRUE
  /\ dialog = FALSE /\ banner = None /\ extractBusy = FALSE /\ poll = None
  /\ requests = {} /\ cancelled = {}
  /\ items = [f \in {} |-> None] /\ queued = <<>> /\ running = None
  /\ faults = 0 /\ switches = 0 /\ asks = 0

Fault == faults < MaxFaults /\ faults' = faults + 1
RoomForCall == Cardinality(requests) < MaxCalls
Asked == asks < MaxAsks /\ asks' = asks + 1
(* Ids are random: which one a job gets does not matter.                     *)
Fresh == CHOOSE j \in Jobs : shown[j] = "none"
(* Every start drops jobs that ended ten minutes ago; how long ago one ended  *)
(* is left open.                                                             *)
Prunable == {j \in found : isExtractFinished(shown[j])}

----------------------------------------------------------------------------
(* The service goes on by itself: jobs run on, a cancelled one to its end, and*)
(* other clients start theirs.                                               *)
ServiceStep ==
  /\ \/ \E j \in Jobs :
          \/ Service!Scanned(j)
          \/ j \notin cancelled /\ \E st \in {"done", "failed"} : Service!End(j, st)
          \/ j \in cancelled /\ Service!End(j, "cancelled")
     \/ \E old \in SUBSET Prunable : Service!Refuse(old)
  /\ UNCHANGED <<cancelled, serverId, extraction, downloads, faults, switches, asks>>

(* What the service finds of a job: on another server, nothing.              *)
Finds(s, j) == j \in found /\ server[j] = s

ShowDialog ==
  /\ dialog' = (~dialog /\ ~extractBusy)
  /\ dialog' # dialog
  /\ UNCHANGED <<service, serverId, banner, extractBusy, poll, requests, downloads, faults, switches, asks>>

(* Extract Here of the menu, or the dialog of Extract To….  The service starts *)
(* the job or refuses to, for the jobs of other clients too; in both cases it *)
(* prunes.  The answer comes later, and several may be on their way.         *)
onExtract ==
  /\ dialog \/ ~extractBusy
  /\ dialog' = FALSE
  /\ Asked /\ RoomForCall
  /\ \E old \in SUBSET Prunable :
       \/ /\ \E j \in Jobs : shown[j] = "none"
          /\ Service!Accept(Fresh, serverId, old)
          /\ requests' = requests \cup
               {[kind |-> "start", srv |-> serverId, id |-> Fresh, said |-> "scanning"]}
       \/ Service!Refuse(old) /\ UNCHANGED requests
  /\ UNCHANGED <<cancelled, serverId, banner, extractBusy, poll, downloads, faults, switches>>

\* mutant
pollDueUnlessAsked ==
  banner # None /\ ~isExtractFinished(banner.state) /\ banner.state # "awaiting"
(* The effect's early returns.                                               *)
pollDue ==
  /\ banner # None /\ ~isExtractFinished(banner.state)
  /\ ~(banner.state = "awaiting" /\ ~banner.cancelling)

(* The timer fires and the service answers, which is all one as long as the   *)
(* poll counts; what the service says of a job it does not find, the banner   *)
(* takes for its failure.                                                    *)
PollJob ==
  /\ pollDue /\ poll = None
  /\ poll' = IF Finds(serverId, banner.id) THEN shown[banner.id] ELSE "failed"
  /\ UNCHANGED <<service, serverId, dialog, banner, extractBusy, requests, downloads, faults, switches, asks>>

(* The answer arrives; an error other than 404 is tried again.  A poll that   *)
(* the banner, Cancel or the server overtook is no longer in `poll`.         *)
JobPolled ==
  /\ poll # None
  /\ poll' = None
  /\ \/ Fault /\ UNCHANGED <<banner, extractBusy>>
     \/ /\ banner' = [banner EXCEPT !.state = poll]
        /\ extractBusy' = (extractBusy /\ ~isExtractFinished(poll))
        /\ UNCHANGED faults
  /\ UNCHANGED <<service, serverId, dialog, requests, downloads, switches, asks>>

(* Replace or Keep both.                                                     *)
onResolve ==
  /\ banner # None /\ banner.state = "awaiting" /\ ~banner.cancelling
  /\ RoomForCall
  /\ requests' = requests \cup
       {[kind |-> "resolve", srv |-> serverId, id |-> banner.id, said |-> None]}
  /\ UNCHANGED <<service, serverId, dialog, banner, extractBusy, poll, downloads, faults, switches, asks>>

\* mutant
onCancelShown ==
  /\ banner # None /\ ~isExtractFinished(banner.state) /\ ~banner.cancelling
  /\ RoomForCall
  /\ banner' = [banner EXCEPT !.cancelling = TRUE, !.state = "cancelled"]
  /\ poll' = None
  /\ requests' = requests \cup
       {[kind |-> "cancel", srv |-> serverId, id |-> banner.id, said |-> None]}
  /\ UNCHANGED <<service, serverId, dialog, extractBusy, downloads, faults, switches, asks>>
(* Cancel: the banner says so, and polls on past a question.                 *)
onCancel ==
  /\ banner # None /\ ~isExtractFinished(banner.state) /\ ~banner.cancelling
  /\ RoomForCall
  /\ banner' = [banner EXCEPT !.cancelling = TRUE]
  /\ poll' = None
  /\ requests' = requests \cup
       {[kind |-> "cancel", srv |-> serverId, id |-> banner.id, said |-> None]}
  /\ UNCHANGED <<service, serverId, dialog, extractBusy, downloads, faults, switches, asks>>

(* The service serves a decision or a Cancel.  A refusal only shows a message, *)
(* and is not followed to the window.                                        *)
Replied(c, said) == requests' = (requests \ {c}) \cup {[c EXCEPT !.said = said]}

Served(c) ==
  /\ c.said = None
  /\ \/ /\ c.kind = "resolve" /\ Finds(c.srv, c.id)
        /\ Service!Answered(c.id) /\ Replied(c, "extracting") /\ UNCHANGED cancelled
     \/ /\ c.kind = "cancel" /\ Finds(c.srv, c.id)
        /\ cancelled' = IF isExtractFinished(shown[c.id]) THEN cancelled ELSE cancelled \cup {c.id}
        /\ Replied(c, shown[c.id]) /\ UNCHANGED <<shown, found, server>>
     \/ /\ Finds(c.srv, c.id) => c.kind = "resolve" /\ shown[c.id] # "awaiting"
        /\ requests' = requests \ {c} /\ UNCHANGED service
  /\ UNCHANGED <<serverId, dialog, banner, extractBusy, poll, downloads, faults, switches, asks>>

(* The answer of a start: its job takes the banner, whatever it showed.      *)
Started(c) ==
  /\ c.kind = "start"
  /\ banner' = [id |-> c.id, state |-> c.said, cancelling |-> FALSE]
  /\ extractBusy' = TRUE /\ poll' = None

(* The answer of Cancel or of a decision is for the banner that asked.       *)
Told(c) ==
  /\ c.kind # "start"
  /\ IF banner # None /\ banner.id = c.id
     THEN banner' = [banner EXCEPT !.state = c.said] /\ poll' = None
     ELSE UNCHANGED <<banner, poll>>
  /\ UNCHANGED extractBusy

(* An answer arrives, or an error in its place, which only shows a message.  A *)
(* call that was given up and is served yet is one whose answer never comes.  *)
Arrived(c) ==
  /\ requests' = requests \ {c}
  /\ \/ c.said # None /\ (Started(c) \/ Told(c)) /\ UNCHANGED faults
     \/ Fault /\ UNCHANGED <<banner, extractBusy, poll>>
  /\ UNCHANGED <<service, serverId, dialog, downloads, switches, asks>>

onDismiss ==
  /\ banner # None /\ isExtractFinished(banner.state)
  /\ banner' = None /\ extractBusy' = FALSE /\ poll' = None
  /\ UNCHANGED <<service, serverId, dialog, requests, downloads, faults, switches, asks>>

----------------------------------------------------------------------------
(* The download queue: a loop that runs while there is something to download.*)
Patched(rows, f, state) == [g \in DOMAIN rows |-> IF g = f THEN state ELSE rows[g]]

(* The loop takes the next item, from the server it was started for, or ends.*)
Taken(rows, all, s) ==
  IF all = <<>> THEN items' = rows /\ queued' = <<>> /\ running' = None
  ELSE /\ items' = Patched(rows, Head(all), "active")
       /\ queued' = Tail(all)
       /\ running' = [srv |-> s, path |-> Head(all), stalled |-> FALSE]

run(rows, all) ==
  IF running # None THEN items' = rows /\ queued' = all /\ UNCHANGED running
  ELSE Taken(rows, all, serverId)

start ==
  /\ Asked
  /\ \E f \in Files :
       run([g \in DOMAIN items \cup {f} |-> IF g = f THEN "pending" ELSE items[g]],
           Append(queued, f))
  /\ UNCHANGED <<service, serverId, extraction, faults, switches>>

\* mutant
FetchedThenStops ==
  /\ running # None
  /\ \/ /\ Fault
        /\ items' = Patched(items, running.path, "failed")
        /\ running' = None /\ UNCHANGED queued
     \/ Taken(Patched(items, running.path, "done"), queued, running.srv) /\ UNCHANGED faults
  /\ UNCHANGED <<service, serverId, extraction, switches, asks>>
(* A download ends, and the loop goes on.                                    *)
Fetched ==
  /\ running # None
  /\ \/ Fault /\ Taken(Patched(items, running.path, "failed"), queued, running.srv)
     \/ Taken(Patched(items, running.path, "done"), queued, running.srv) /\ UNCHANGED faults
  /\ UNCHANGED <<service, serverId, extraction, switches, asks>>

(* The bytes stop coming: there is no time-out on either side.               *)
Stall ==
  /\ running # None /\ ~running.stalled
  /\ running' = [running EXCEPT !.stalled = TRUE]
  /\ UNCHANGED <<service, serverId, extraction, items, queued, faults, switches, asks>>

Busy == \E f \in DOMAIN items : items[f] \in {"active", "pending"}

Orders(S) == {q \in [1..Cardinality(S) -> S] : \A i, j \in DOMAIN q : q[i] = q[j] => i = j}

(* Offered when nothing is being downloaded, as Dismiss is.                  *)
retryFailed ==
  LET failed == {f \in DOMAIN items : items[f] = "failed"} IN
  /\ ~Busy /\ failed # {}
  /\ \E order \in Orders(failed) :
       run([f \in DOMAIN items |-> IF f \in failed THEN "pending" ELSE items[f]], queued \o order)
  /\ UNCHANGED <<service, serverId, extraction, faults, switches, asks>>

dismiss ==
  /\ ~Busy /\ DOMAIN items # {}
  /\ items' = [f \in {g \in DOMAIN items : items[g] \in {"active", "pending"}} |-> items[f]]
  /\ UNCHANGED <<service, serverId, extraction, queued, running, faults, switches, asks>>

----------------------------------------------------------------------------
(* Another server is chosen: the banner stays, and polls that one.           *)
SwitchServer ==
  /\ switches < MaxSwitch /\ switches' = switches + 1
  /\ \E s \in Servers \ {serverId} : serverId' = s
  /\ poll' = None
  /\ UNCHANGED <<service, dialog, banner, extractBusy, requests, downloads, faults, asks>>

TransfersNext ==
  \/ ServiceStep \/ ShowDialog \/ onExtract \/ PollJob \/ JobPolled
  \/ onResolve \/ onCancel \/ (\E c \in requests : Served(c) \/ Arrived(c)) \/ onDismiss
  \/ start \/ Fetched \/ Stall \/ retryFailed \/ dismiss \/ SwitchServer

TransfersSpec == TransfersInit /\ [][TransfersNext]_transferVars

(* The timer fires, a poll is served and answered, and a download whose bytes *)
(* keep coming ends.  Nothing ends one that stalls.                          *)
Flows == running # None /\ ~running.stalled /\ Fetched

TransfersFairSpec ==
  /\ TransfersSpec
  /\ WF_transferVars(PollJob) /\ WF_transferVars(JobPolled)
  /\ WF_transferVars(Flows)

----------------------------------------------------------------------------
(* The banner says that a job is done or cancelled only when it is, and that  *)
(* it failed only when it did, when the user went to another server, or when  *)
(* the service has dropped the job after its end, however it ended.  Polls,   *)
(* the answers of Cancel and of a decision, several starts and the service's  *)
(* pruning come in any order (FilesApp.tsx ExtractStatus).                    *)
Forgotten(j) == j \notin found /\ isExtractFinished(shown[j])

BannerTrue ==
  banner # None /\ isExtractFinished(banner.state)
    => \/ shown[banner.id] = banner.state
       \/ banner.state = "failed" /\ (switches > 0 \/ Forgotten(banner.id))

(* A job that is over is shown to be, unless the banner shows another or asks *)
(* a question: it is polled while it runs, and on past a question when it is  *)
(* being cancelled, though calls fail.  A banner that asks does not poll: it  *)
(* asks on about a job that has ended meanwhile.                              *)
EndShown ==
  \A j \in Jobs :
    banner # None /\ banner.id = j /\ isExtractFinished(shown[j])
      ~> \/ banner = None \/ banner.id # j \/ isExtractFinished(banner.state)
         \/ banner.state = "awaiting" /\ ~banner.cancelling

(* Every download in the panel ends or fails, also one that was asked for     *)
(* while the loop was at another, unless the one it is at has stalled, which  *)
(* nothing gives up (DownloadQueue.tsx).                                      *)
DownloadsEnd ==
  \A f \in Files :
    f \in DOMAIN items /\ items[f] \in {"pending", "active"}
      ~> \/ f \notin DOMAIN items \/ items[f] \in {"done", "failed"}
         \/ running # None /\ running.stalled
=============================================================================
