------------------------------ MODULE Extraction ------------------------------
(***************************************************************************)
(* What the archive service promises the browser that polls it: the life   *)
(* of an extraction job as GET /api/files/extract/{job} shows it.          *)
(* Goroutines, contexts, scripts and folders do not appear; ArchiveJobs    *)
(* implements it.                                                          *)
(***************************************************************************)
EXTENDS Naturals, FiniteSets

CONSTANTS Jobs, Servers, MaxActive, None

VARIABLES
    shown,      \* the state of a job
    found,      \* the jobs a request can still find
    server      \* the server a job belongs to

View == <<shown, found, server>>

Unfinished == {"scanning", "awaiting", "extracting"}
Ended == {"done", "failed", "cancelled"}
Busy(s) == {j \in found : server[j] = s /\ shown[j] \in Unfinished}

Init ==
    /\ shown = [j \in Jobs |-> "none"]
    /\ found = {}
    /\ server = [j \in Jobs |-> None]

\* A new job; finished ones may be dropped on the occasion.
Accept(j, s, old) ==
    /\ shown[j] = "none"
    /\ Cardinality(Busy(s)) < MaxActive
    /\ \A k \in old : shown[k] \in Ended
    /\ shown' = [shown EXCEPT ![j] = "scanning"]
    /\ server' = [server EXCEPT ![j] = s]
    /\ found' = (found \ old) \cup {j}

Refuse(old) ==
    /\ \A k \in old : shown[k] \in Ended
    /\ found' = found \ old
    /\ UNCHANGED <<shown, server>>

Show(j, st) ==
    /\ shown' = [shown EXCEPT ![j] = st]
    /\ UNCHANGED <<found, server>>

\* The scan is over: the user is asked, or extraction begins.
Scanned(j) == shown[j] = "scanning" /\ \E st \in {"awaiting", "extracting"} : Show(j, st)

Answered(j) == shown[j] = "awaiting" /\ Show(j, "extracting")

\* Only a job that was extracting can be done.
End(j, st) ==
    /\ shown[j] \in Unfinished
    /\ st = "done" => shown[j] = "extracting"
    /\ Show(j, st)

Next ==
    \/ \E j \in Jobs, s \in Servers, old \in SUBSET found : Accept(j, s, old)
    \/ \E old \in SUBSET found : Refuse(old)
    \/ \E j \in Jobs : Scanned(j) \/ Answered(j) \/ \E st \in Ended : End(j, st)

Spec == Init /\ [][Next]_View
=============================================================================
