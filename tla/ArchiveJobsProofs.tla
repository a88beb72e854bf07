-------------------------- MODULE ArchiveJobsProofs --------------------------
(***************************************************************************)
(* ArchiveInv is an inductive invariant of the archive service, for any    *)
(* number of jobs, folders, names and any limit.                           *)
(***************************************************************************)
EXTENDS ArchiveJobs, TLAPS, FiniteSetTheorems

\* The parts of ArchiveInv that do not count.
Core ==
    /\ TypeOK /\ StateTracks /\ ScriptTracks /\ PlacedTracks
    /\ SendNeverBlocks /\ NoScriptUnasked /\ DoneMeansPlaced

LEMMA InitInv == Init => ArchiveInv
<1> SUFFICES ASSUME Init PROVE ArchiveInv
  OBVIOUS
<1> USE ArchiveAssumption DEF Init
<1>1. TypeOK
  BY DEF TypeOK
<1>2. StateTracks /\ ScriptTracks /\ PlacedTracks
  BY DEF StateTracks, ScriptTracks, PlacedTracks, Finished, Final
<1>3. SendNeverBlocks /\ NoScriptUnasked /\ DoneMeansPlaced
  BY DEF SendNeverBlocks, NoScriptUnasked, DoneMeansPlaced
<1>4. \A s \in Servers : ActiveOn(s, known) = {}
  BY DEF ActiveOn
<1>5. ActiveBounded
  <2>1. \A s \in Servers : Cardinality(ActiveOn(s, known)) = 0
    BY <1>4, FS_EmptySet
  <2> QED
    BY <2>1 DEF ActiveBounded, Active
<1> QED
  BY <1>1, <1>2, <1>3, <1>5 DEF ArchiveInv

LEMMA PutTyped ==
    ASSUME NEW V, NEW C \in [Folders -> [Entries -> V]], NEW f \in Folders,
           NEW e \in Entries, NEW v \in V
    PROVE  [C EXCEPT ![f][e] = v] \in [Folders -> [Entries -> V]]
<1>1. [C[f] EXCEPT ![e] = v] \in [Entries -> V]
  OBVIOUS
<1> QED
  BY <1>1

\* What Look does: it makes ready to move the item to an entry, or the script
\* gives up.
Looked(j, n) ==
    /\ sh[j] = "place"
    /\ \/ /\ \E e \in Entries : target' = [target EXCEPT ![j] = e]
          /\ sh' = [sh EXCEPT ![j] = "move"] /\ code' = code
          /\ \/ content' = content
             \/ /\ where[j] \in Folders /\ <<n, 0>> \in Entries
                /\ content' = [content EXCEPT ![where[j]][<<n, 0>>] = None]
       \/ /\ sh' = [sh EXCEPT ![j] = "exit"] /\ code' = [code EXCEPT ![j] = "changed"]
          /\ UNCHANGED <<target, content>>
    /\ UNCHANGED <<jobVars, runVars, left, staging, clobbered>>

LEMMA LookLooks ==
    ASSUME Core, NEW j \in Jobs, NEW n \in Names, Look(j, n) PROVE Looked(j, n)
<1>1. where[j] \in Folders
  BY DEF Core, TypeOK, ScriptTracks, Look
<1>2. \A i \in 0 .. MaxCopies : <<n, i>> \in Entries
  BY DEF Entries
<1>3. <<n, 0>> \in Entries
  BY <1>2, ArchiveAssumption
<1>4. \A i \in FirstFree(where[j], n) : <<n, i>> \in Entries
  BY <1>2, ArchiveAssumption DEF FirstFree
<1> QED
  BY <1>1, <1>3, <1>4 DEF Look, Looked, Exit, Shell, Trapped

LEMMA ScanFailInv == ASSUME Core, NEW j \in Jobs, ScanFail(j) PROVE Core'
<1> USE ArchiveAssumption DEF Core, TypeOK, ScanFail, Go, Return, jobVars, runVars, scriptVars, folderVars
<1>1. TypeOK'
  BY DEF Active, Final, Trapped, Untrapped
<1>2. StateTracks'
  BY DEF StateTracks, NoScriptUnasked, PlacedTracks, Finished, Final, Active
<1>3. ScriptTracks'
  BY DEF ScriptTracks, StateTracks, Trapped, Untrapped
<1>4. PlacedTracks'
  <2>1. ASSUME NEW k \in Jobs, at'[k] = "reading", NEW x \in items'[k]
        PROVE  x \in left'[k] \/ Reported(k, x)'
    BY <2>1 DEF PlacedTracks, Reported
  <2>2. ASSUME NEW k \in Jobs, at'[k] = "settle", result'[k] = "ok"
        PROVE  state'[k] = "extracting" /\ Complete(k)'
    BY <2>2 DEF PlacedTracks, ScriptTracks, StateTracks, Complete, Reported, Trapped, Untrapped
  <2> QED
    BY <2>1, <2>2 DEF PlacedTracks
<1>5. SendNeverBlocks' /\ NoScriptUnasked'
  BY DEF SendNeverBlocks, NoScriptUnasked, ScriptTracks, StateTracks, Finished, Final, Trapped, Untrapped
<1>6. DoneMeansPlaced'
  BY DEF DoneMeansPlaced, PlacedTracks, StateTracks, Complete, Reported, Finished, Final, ScriptTracks, Trapped, Untrapped
<1> QED
  BY <1>1, <1>2, <1>3, <1>4, <1>5, <1>6

LEMMA PlanInv == ASSUME Core, NEW j \in Jobs, NEW T \in SUBSET Names, Plan(j, T) PROVE Core'
<1> USE ArchiveAssumption DEF Core, TypeOK, Plan, Go, Conflicts, jobVars, runVars, scriptVars, folderVars
<1>1. TypeOK'
  <2>1. items' \in [Jobs -> SUBSET Names]
    OBVIOUS
  <2>2. state' \in [Jobs -> {"none"} \cup Active \cup Final]
    <3>1. {"awaiting", "extracting"} \subseteq Active
      BY DEF Active
    <3>2. state \in [Jobs -> {"none"} \cup Active \cup Final]
      OBVIOUS
    <3>3. \/ state' = [state EXCEPT ![j] = "awaiting"]
          \/ state' = [state EXCEPT ![j] = "extracting"]
      BY ONLY Plan(j, T) DEF Plan
    <3> QED
      BY ONLY <3>1, <3>2, <3>3
  <2>3. at' \in [Jobs -> {"idle", "refused", "scan", "await", "stream", "reading", "settle", "over"}]
    BY ONLY Core, Plan(j, T) DEF Core, TypeOK, Plan, Go
  <2> QED
    BY <2>1, <2>2, <2>3
<1>2. StateTracks'
  BY DEF StateTracks, NoScriptUnasked, PlacedTracks, Finished, Final, Active
<1>3. ScriptTracks'
  BY DEF ScriptTracks, StateTracks, Trapped, Untrapped
<1>4. PlacedTracks'
  <2>1. ASSUME NEW k \in Jobs, at'[k] = "reading", NEW x \in items'[k]
        PROVE  x \in left'[k] \/ Reported(k, x)'
    BY <2>1 DEF PlacedTracks, Reported
  <2>2. ASSUME NEW k \in Jobs, at'[k] = "settle", result'[k] = "ok"
        PROVE  state'[k] = "extracting" /\ Complete(k)'
    BY <2>2 DEF PlacedTracks, ScriptTracks, StateTracks, Complete, Reported, Trapped, Untrapped
  <2> QED
    BY <2>1, <2>2 DEF PlacedTracks
<1>5. SendNeverBlocks' /\ NoScriptUnasked'
  <2>1. decision[j] = None /\ sh[j] = "none"
    BY DEF ScriptTracks, StateTracks
  <2>2. \A k \in Jobs : k # j => state'[k] = state[k]
    BY ONLY Core, Plan(j, T) DEF Core, TypeOK, Plan
  <2> QED
    BY ONLY <2>1, <2>2, Core, Plan(j, T) DEF Core, Plan, jobVars, runVars, scriptVars, SendNeverBlocks, NoScriptUnasked
<1>6. DoneMeansPlaced'
  <2>1. ASSUME NEW k \in Jobs, state'[k] = "done"
        PROVE  Complete(k)'
    <3>1. k # j /\ state[k] = "done"
      BY <2>1
    <3>2. Complete(k)
      BY <3>1 DEF DoneMeansPlaced
    <3> QED
      BY <3>1, <3>2 DEF Complete, Reported
  <2> QED
    BY <2>1 DEF DoneMeansPlaced
<1> QED
  BY <1>1, <1>2, <1>3, <1>4, <1>5, <1>6

LEMMA DecideInv == ASSUME Core, NEW j \in Jobs, Decide(j) PROVE Core'
<1> USE ArchiveAssumption DEF Core, TypeOK, Decide, Go, jobVars, runVars, scriptVars, folderVars
<1>1. TypeOK'
  BY DEF Active, Final, Trapped, Untrapped
<1>2. StateTracks'
  BY DEF StateTracks, NoScriptUnasked, PlacedTracks, Finished, Final, Active
<1>3. ScriptTracks'
  BY DEF ScriptTracks, StateTracks, Trapped, Untrapped
<1>4. PlacedTracks'
  <2>1. ASSUME NEW k \in Jobs, at'[k] = "reading", NEW x \in items'[k]
        PROVE  x \in left'[k] \/ Reported(k, x)'
    BY <2>1 DEF PlacedTracks, Reported
  <2>2. ASSUME NEW k \in Jobs, at'[k] = "settle", result'[k] = "ok"
        PROVE  state'[k] = "extracting" /\ Complete(k)'
    BY <2>2 DEF PlacedTracks, ScriptTracks, StateTracks, Complete, Reported, Trapped, Untrapped
  <2> QED
    BY <2>1, <2>2 DEF PlacedTracks
<1>5. SendNeverBlocks' /\ NoScriptUnasked'
  BY DEF SendNeverBlocks, NoScriptUnasked, ScriptTracks, StateTracks, Finished, Final, Trapped, Untrapped
<1>6. DoneMeansPlaced'
  BY DEF DoneMeansPlaced, PlacedTracks, StateTracks, Complete, Reported, Finished, Final, ScriptTracks, Trapped, Untrapped
<1> QED
  BY <1>1, <1>2, <1>3, <1>4, <1>5, <1>6

LEMMA GiveUpInv == ASSUME Core, NEW j \in Jobs, GiveUp(j) PROVE Core'
<1> USE ArchiveAssumption DEF Core, TypeOK, GiveUp, Go, Return, jobVars, runVars, scriptVars, folderVars
<1>1. TypeOK'
  BY DEF Active, Final, Trapped, Untrapped
<1>2. StateTracks'
  BY DEF StateTracks, NoScriptUnasked, PlacedTracks, Finished, Final, Active
<1>3. ScriptTracks'
  BY DEF ScriptTracks, StateTracks, Trapped, Untrapped
<1>4. PlacedTracks'
  <2>1. ASSUME NEW k \in Jobs, at'[k] = "reading", NEW x \in items'[k]
        PROVE  x \in left'[k] \/ Reported(k, x)'
    BY <2>1 DEF PlacedTracks, Reported
  <2>2. ASSUME NEW k \in Jobs, at'[k] = "settle", result'[k] = "ok"
        PROVE  state'[k] = "extracting" /\ Complete(k)'
    BY <2>2 DEF PlacedTracks, ScriptTracks, StateTracks, Complete, Reported, Trapped, Untrapped
  <2> QED
    BY <2>1, <2>2 DEF PlacedTracks
<1>5. SendNeverBlocks' /\ NoScriptUnasked'
  BY DEF SendNeverBlocks, NoScriptUnasked, ScriptTracks, StateTracks, Finished, Final, Trapped, Untrapped
<1>6. DoneMeansPlaced'
  BY DEF DoneMeansPlaced, PlacedTracks, StateTracks, Complete, Reported, Finished, Final, ScriptTracks, Trapped, Untrapped
<1> QED
  BY <1>1, <1>2, <1>3, <1>4, <1>5, <1>6

LEMMA TimeOutInv == ASSUME Core, NEW j \in Jobs, TimeOut(j) PROVE Core'
<1> USE ArchiveAssumption DEF Core, TypeOK, TimeOut, Go, Return, jobVars, runVars, scriptVars, folderVars
<1>1. TypeOK'
  BY DEF Active, Final, Trapped, Untrapped
<1>2. StateTracks'
  BY DEF StateTracks, NoScriptUnasked, PlacedTracks, Finished, Final, Active
<1>3. ScriptTracks'
  BY DEF ScriptTracks, StateTracks, Trapped, Untrapped
<1>4. PlacedTracks'
  <2>1. ASSUME NEW k \in Jobs, at'[k] = "reading", NEW x \in items'[k]
        PROVE  x \in left'[k] \/ Reported(k, x)'
    BY <2>1 DEF PlacedTracks, Reported, Trapped, Untrapped
  <2>2. ASSUME NEW k \in Jobs, at'[k] = "settle", result'[k] = "ok"
        PROVE  state'[k] = "extracting" /\ Complete(k)'
    BY <2>2 DEF PlacedTracks, ScriptTracks, StateTracks, Complete, Reported, Trapped, Untrapped
  <2> QED
    BY <2>1, <2>2 DEF PlacedTracks
<1>5. SendNeverBlocks' /\ NoScriptUnasked'
  BY DEF SendNeverBlocks, NoScriptUnasked, ScriptTracks, StateTracks, Finished, Final, Trapped, Untrapped
<1>6. DoneMeansPlaced'
  BY DEF DoneMeansPlaced, PlacedTracks, StateTracks, Complete, Reported, Finished, Final, ScriptTracks, Trapped, Untrapped
<1> QED
  BY <1>1, <1>2, <1>3, <1>4, <1>5, <1>6

LEMMA NoSessionInv == ASSUME Core, NEW j \in Jobs, NoSession(j) PROVE Core'
<1> USE ArchiveAssumption DEF Core, TypeOK, NoSession, Go, Return, jobVars, runVars, scriptVars, folderVars
<1>1. TypeOK'
  BY DEF Active, Final, Trapped, Untrapped
<1>2. StateTracks'
  BY DEF StateTracks, NoScriptUnasked, PlacedTracks, Finished, Final, Active
<1>3. ScriptTracks'
  BY DEF ScriptTracks, StateTracks, Trapped, Untrapped
<1>4. PlacedTracks'
  <2>1. ASSUME NEW k \in Jobs, at'[k] = "reading", NEW x \in items'[k]
        PROVE  x \in left'[k] \/ Reported(k, x)'
    BY <2>1 DEF PlacedTracks, Reported, Trapped, Untrapped
  <2>2. ASSUME NEW k \in Jobs, at'[k] = "settle", result'[k] = "ok"
        PROVE  state'[k] = "extracting" /\ Complete(k)'
    BY <2>2 DEF PlacedTracks, ScriptTracks, StateTracks, Complete, Reported, Trapped, Untrapped
  <2> QED
    BY <2>1, <2>2 DEF PlacedTracks
<1>5. SendNeverBlocks' /\ NoScriptUnasked'
  BY DEF SendNeverBlocks, NoScriptUnasked, ScriptTracks, StateTracks, Finished, Final, Trapped, Untrapped
<1>6. DoneMeansPlaced'
  BY DEF DoneMeansPlaced, PlacedTracks, StateTracks, Complete, Reported, Finished, Final, ScriptTracks, Trapped, Untrapped
<1> QED
  BY <1>1, <1>2, <1>3, <1>4, <1>5, <1>6

LEMMA LaunchInv == ASSUME Core, NEW j \in Jobs, Launch(j) PROVE Core'
<1> USE ArchiveAssumption DEF Core, TypeOK, Launch, Go, jobVars, runVars, scriptVars, folderVars
<1>1. TypeOK'
  BY DEF Active, Final, Trapped, Untrapped
<1>2. StateTracks'
  BY DEF StateTracks, NoScriptUnasked, PlacedTracks, Finished, Final, Active
<1>3. ScriptTracks'
  BY DEF ScriptTracks, StateTracks, Trapped, Untrapped
<1>4. PlacedTracks'
  <2>1. ASSUME NEW k \in Jobs, at'[k] = "reading", NEW x \in items'[k]
        PROVE  x \in left'[k] \/ Reported(k, x)'
    BY <2>1 DEF PlacedTracks, Reported
  <2>2. ASSUME NEW k \in Jobs, at'[k] = "settle", result'[k] = "ok"
        PROVE  state'[k] = "extracting" /\ Complete(k)'
    BY <2>2 DEF PlacedTracks, ScriptTracks, StateTracks, Complete, Reported, Trapped, Untrapped
  <2> QED
    BY <2>1, <2>2 DEF PlacedTracks
<1>5. SendNeverBlocks' /\ NoScriptUnasked'
  BY DEF SendNeverBlocks, NoScriptUnasked, ScriptTracks, StateTracks, Finished, Final, Trapped, Untrapped
<1>6. DoneMeansPlaced'
  BY DEF DoneMeansPlaced, PlacedTracks, StateTracks, Complete, Reported, Finished, Final, ScriptTracks, Trapped, Untrapped
<1> QED
  BY <1>1, <1>2, <1>3, <1>4, <1>5, <1>6

LEMMA ScriptEndsInv == ASSUME Core, NEW j \in Jobs, ScriptEnds(j) PROVE Core'
<1> USE ArchiveAssumption DEF Core, TypeOK, ScriptEnds, Go, Return, jobVars, runVars, scriptVars, folderVars
<1>1. TypeOK'
  BY DEF Active, Final, Trapped, Untrapped
<1>2. StateTracks'
  BY DEF StateTracks, NoScriptUnasked, PlacedTracks, Finished, Final, Active
<1>3. ScriptTracks'
  BY DEF ScriptTracks, StateTracks, Trapped, Untrapped
<1>4. PlacedTracks'
  <2>1. ASSUME NEW k \in Jobs, at'[k] = "reading", NEW x \in items'[k]
        PROVE  x \in left'[k] \/ Reported(k, x)'
    BY <2>1 DEF PlacedTracks, Reported
  <2>2. ASSUME NEW k \in Jobs, at'[k] = "settle", result'[k] = "ok"
        PROVE  state'[k] = "extracting" /\ Complete(k)'
    <3>1. \A x \in items[k] : Reported(k, x) => Reported(k, x)'
      BY DEF Reported
    <3>2. CASE k = j
      <4>1. \A x \in items[k] : Reported(k, x)
        BY <2>2, <3>2 DEF PlacedTracks, ScriptTracks
      <4> QED
        BY <2>2, <3>1, <3>2, <4>1 DEF ScriptTracks, StateTracks, Complete
    <3>3. CASE k # j
      BY <2>2, <3>1, <3>3 DEF PlacedTracks, Complete
    <3> QED
      BY <3>2, <3>3
  <2> QED
    BY <2>1, <2>2 DEF PlacedTracks
<1>5. SendNeverBlocks' /\ NoScriptUnasked'
  BY DEF SendNeverBlocks, NoScriptUnasked, ScriptTracks, StateTracks, Finished, Final, Trapped, Untrapped
<1>6. DoneMeansPlaced'
  BY DEF DoneMeansPlaced, PlacedTracks, StateTracks, Complete, Reported, Finished, Final, ScriptTracks, Trapped, Untrapped
<1> QED
  BY <1>1, <1>2, <1>3, <1>4, <1>5, <1>6

LEMMA DetachInv == ASSUME Core, NEW j \in Jobs, Detach(j) PROVE Core'
<1> USE ArchiveAssumption DEF Core, TypeOK, Detach, Go, Return, jobVars, runVars, scriptVars, folderVars
<1>1. TypeOK'
  BY DEF Active, Final, Trapped, Untrapped
<1>2. StateTracks'
  BY DEF StateTracks, NoScriptUnasked, PlacedTracks, Finished, Final, Active
<1>3. ScriptTracks'
  BY DEF ScriptTracks, StateTracks, Trapped, Untrapped
<1>4. PlacedTracks'
  <2>1. ASSUME NEW k \in Jobs, at'[k] = "reading", NEW x \in items'[k]
        PROVE  x \in left'[k] \/ Reported(k, x)'
    BY <2>1 DEF PlacedTracks, Reported
  <2>2. ASSUME NEW k \in Jobs, at'[k] = "settle", result'[k] = "ok"
        PROVE  state'[k] = "extracting" /\ Complete(k)'
    BY <2>2 DEF PlacedTracks, ScriptTracks, StateTracks, Complete, Reported, Trapped, Untrapped
  <2> QED
    BY <2>1, <2>2 DEF PlacedTracks
<1>5. SendNeverBlocks' /\ NoScriptUnasked'
  BY DEF SendNeverBlocks, NoScriptUnasked, ScriptTracks, StateTracks, Finished, Final, Trapped, Untrapped
<1>6. DoneMeansPlaced'
  BY DEF DoneMeansPlaced, PlacedTracks, StateTracks, Complete, Reported, Finished, Final, ScriptTracks, Trapped, Untrapped
<1> QED
  BY <1>1, <1>2, <1>3, <1>4, <1>5, <1>6

LEMMA SettleInv == ASSUME Core, NEW j \in Jobs, Settle(j) PROVE Core'
<1> USE ArchiveAssumption DEF Core, TypeOK, Settle, Go, Outcome, jobVars, runVars, scriptVars, folderVars
<1>1. TypeOK'
  BY DEF Active, Final, Trapped, Untrapped
<1>2. StateTracks'
  BY DEF StateTracks, NoScriptUnasked, PlacedTracks, Finished, Final, Active
<1>3. ScriptTracks'
  BY DEF ScriptTracks, StateTracks, Trapped, Untrapped
<1>4. PlacedTracks'
  <2>1. ASSUME NEW k \in Jobs, at'[k] = "reading", NEW x \in items'[k]
        PROVE  x \in left'[k] \/ Reported(k, x)'
    BY <2>1 DEF PlacedTracks, Reported
  <2>2. ASSUME NEW k \in Jobs, at'[k] = "settle", result'[k] = "ok"
        PROVE  state'[k] = "extracting" /\ Complete(k)'
    BY <2>2 DEF PlacedTracks, ScriptTracks, StateTracks, Complete, Reported, Trapped, Untrapped
  <2> QED
    BY <2>1, <2>2 DEF PlacedTracks
<1>5. SendNeverBlocks' /\ NoScriptUnasked'
  BY DEF SendNeverBlocks, NoScriptUnasked, ScriptTracks, StateTracks, Finished, Final, Trapped, Untrapped
<1>6. DoneMeansPlaced'
  BY DEF DoneMeansPlaced, PlacedTracks, StateTracks, Complete, Reported, Finished, Final, ScriptTracks, Trapped, Untrapped
<1> QED
  BY <1>1, <1>2, <1>3, <1>4, <1>5, <1>6

LEMMA ResolveInv == ASSUME Core, NEW j \in Jobs, NEW p \in Policies, Resolve(j, p) PROVE Core'
<1> USE ArchiveAssumption DEF Core, TypeOK, Resolve, Go, jobVars, runVars, scriptVars, folderVars
<1>1. TypeOK'
  BY DEF Active, Final, Trapped, Untrapped
<1>2. StateTracks'
  BY DEF StateTracks, NoScriptUnasked, PlacedTracks, Finished, Final, Active
<1>3. ScriptTracks'
  BY DEF ScriptTracks, StateTracks, Trapped, Untrapped
<1>4. PlacedTracks'
  BY DEF PlacedTracks, ScriptTracks, StateTracks, Complete, Reported, Trapped, Untrapped
<1>5. SendNeverBlocks' /\ NoScriptUnasked'
  BY DEF SendNeverBlocks, NoScriptUnasked, ScriptTracks, StateTracks, Finished, Final, Trapped, Untrapped
<1>6. DoneMeansPlaced'
  BY DEF DoneMeansPlaced, PlacedTracks, StateTracks, Complete, Reported, Finished, Final, ScriptTracks, Trapped, Untrapped
<1> QED
  BY <1>1, <1>2, <1>3, <1>4, <1>5, <1>6

LEMMA CancelInv == ASSUME Core, NEW j \in Jobs, Cancel(j) PROVE Core'
<1> USE ArchiveAssumption DEF Core, TypeOK, Cancel, Go, jobVars, runVars, scriptVars, folderVars
<1>1. TypeOK'
  BY DEF Active, Final, Trapped, Untrapped
<1>2. StateTracks'
  BY DEF StateTracks, NoScriptUnasked, PlacedTracks, Finished, Final, Active
<1>3. ScriptTracks'
  BY DEF ScriptTracks, StateTracks, Trapped, Untrapped
<1>4. PlacedTracks'
  BY DEF PlacedTracks, ScriptTracks, StateTracks, Complete, Reported, Trapped, Untrapped
<1>5. SendNeverBlocks' /\ NoScriptUnasked'
  BY DEF SendNeverBlocks, NoScriptUnasked, ScriptTracks, StateTracks, Finished, Final, Trapped, Untrapped
<1>6. DoneMeansPlaced'
  BY DEF DoneMeansPlaced, PlacedTracks, StateTracks, Complete, Reported, Finished, Final, ScriptTracks, Trapped, Untrapped
<1> QED
  BY <1>1, <1>2, <1>3, <1>4, <1>5, <1>6

LEMMA CommandFailsInv == ASSUME Core, NEW j \in Jobs, CommandFails(j) PROVE Core'
<1> USE ArchiveAssumption DEF Core, TypeOK, CommandFails, Go, Exit, Shell, jobVars, runVars, scriptVars, folderVars
<1>1. TypeOK'
  BY DEF Active, Final, Trapped, Untrapped
<1>2. StateTracks'
  BY DEF StateTracks, NoScriptUnasked, PlacedTracks, Finished, Final, Active
<1>3. ScriptTracks'
  BY DEF ScriptTracks, StateTracks, Trapped, Untrapped
<1>4. PlacedTracks'
  BY DEF PlacedTracks, ScriptTracks, StateTracks, Complete, Reported, Trapped, Untrapped
<1>5. SendNeverBlocks' /\ NoScriptUnasked'
  BY DEF SendNeverBlocks, NoScriptUnasked, ScriptTracks, StateTracks, Finished, Final, Trapped, Untrapped
<1>6. DoneMeansPlaced'
  BY DEF DoneMeansPlaced, PlacedTracks, StateTracks, Complete, Reported, Finished, Final, ScriptTracks, Trapped, Untrapped
<1> QED
  BY <1>1, <1>2, <1>3, <1>4, <1>5, <1>6

LEMMA MakeStagingInv == ASSUME Core, NEW j \in Jobs, MakeStaging(j) PROVE Core'
<1> USE ArchiveAssumption DEF Core, TypeOK, MakeStaging, Go, Shell, jobVars, runVars, scriptVars, folderVars
<1>1. TypeOK'
  BY DEF Active, Final, Trapped, Untrapped
<1>2. StateTracks'
  BY DEF StateTracks, NoScriptUnasked, PlacedTracks, Finished, Final, Active
<1>3. ScriptTracks'
  BY DEF ScriptTracks, StateTracks, Trapped, Untrapped
<1>4. PlacedTracks'
  BY DEF PlacedTracks, ScriptTracks, StateTracks, Complete, Reported, Trapped, Untrapped
<1>5. SendNeverBlocks' /\ NoScriptUnasked'
  BY DEF SendNeverBlocks, NoScriptUnasked, ScriptTracks, StateTracks, Finished, Final, Trapped, Untrapped
<1>6. DoneMeansPlaced'
  BY DEF DoneMeansPlaced, PlacedTracks, StateTracks, Complete, Reported, Finished, Final, ScriptTracks, Trapped, Untrapped
<1> QED
  BY <1>1, <1>2, <1>3, <1>4, <1>5, <1>6

LEMMA SetTrapsInv == ASSUME Core, NEW j \in Jobs, SetTraps(j) PROVE Core'
<1> USE ArchiveAssumption DEF Core, TypeOK, SetTraps, Go, Shell, jobVars, runVars, scriptVars, folderVars
<1>1. TypeOK'
  BY DEF Active, Final, Trapped, Untrapped
<1>2. StateTracks'
  BY DEF StateTracks, NoScriptUnasked, PlacedTracks, Finished, Final, Active
<1>3. ScriptTracks'
  BY DEF ScriptTracks, StateTracks, Trapped, Untrapped
<1>4. PlacedTracks'
  BY DEF PlacedTracks, ScriptTracks, StateTracks, Complete, Reported, Trapped, Untrapped
<1>5. SendNeverBlocks' /\ NoScriptUnasked'
  BY DEF SendNeverBlocks, NoScriptUnasked, ScriptTracks, StateTracks, Finished, Final, Trapped, Untrapped
<1>6. DoneMeansPlaced'
  BY DEF DoneMeansPlaced, PlacedTracks, StateTracks, Complete, Reported, Finished, Final, ScriptTracks, Trapped, Untrapped
<1> QED
  BY <1>1, <1>2, <1>3, <1>4, <1>5, <1>6

LEMMA UnpackInv == ASSUME Core, NEW j \in Jobs, Unpack(j) PROVE Core'
<1> USE ArchiveAssumption DEF Core, TypeOK, Unpack, Go, Shell, jobVars, runVars, scriptVars, folderVars
<1>1. TypeOK'
  BY DEF Active, Final, Trapped, Untrapped
<1>2. StateTracks'
  BY DEF StateTracks, NoScriptUnasked, PlacedTracks, Finished, Final, Active
<1>3. ScriptTracks'
  BY DEF ScriptTracks, StateTracks, Trapped, Untrapped
<1>4. PlacedTracks'
  BY DEF PlacedTracks, ScriptTracks, StateTracks, Complete, Reported, Trapped, Untrapped
<1>5. SendNeverBlocks' /\ NoScriptUnasked'
  BY DEF SendNeverBlocks, NoScriptUnasked, ScriptTracks, StateTracks, Finished, Final, Trapped, Untrapped
<1>6. DoneMeansPlaced'
  BY DEF DoneMeansPlaced, PlacedTracks, StateTracks, Complete, Reported, Finished, Final, ScriptTracks, Trapped, Untrapped
<1> QED
  BY <1>1, <1>2, <1>3, <1>4, <1>5, <1>6

LEMMA LookedInv == ASSUME Core, NEW j \in Jobs, NEW n \in Names, Looked(j, n) PROVE Core'
<1> USE ArchiveAssumption DEF Core, TypeOK, Looked, Go, jobVars, runVars, scriptVars, folderVars
<1>1. TypeOK'
  <2>1. content \in [Folders -> [Entries -> Jobs \cup {"user", None}]]
    OBVIOUS
  <2>2. \/ content' = content
        \/ /\ where[j] \in Folders /\ <<n, 0>> \in Entries
           /\ content' = [content EXCEPT ![where[j]][<<n, 0>>] = None]
    OBVIOUS
  <2>3. content' \in [Folders -> [Entries -> Jobs \cup {"user", None}]]
    <3>1. CASE content' = content
      BY <2>1, <3>1
    <3>2. CASE /\ where[j] \in Folders /\ <<n, 0>> \in Entries
               /\ content' = [content EXCEPT ![where[j]][<<n, 0>>] = None]
      BY <2>1, <3>2, PutTyped
    <3> QED
      BY <2>2, <3>1, <3>2
  <2>4. target' \in [Jobs -> Entries \cup {None}]
    OBVIOUS
  <2>5. sh' = [sh EXCEPT ![j] = "move"] \/ sh' = [sh EXCEPT ![j] = "exit"]
    OBVIOUS
  <2>6. sh' \in [Jobs -> Untrapped \cup Trapped \cup {"none", "exit", "gone"}]
    BY <2>5 DEF Trapped
  <2>7. code' \in [Jobs -> {"ok", "error", "changed"}]
    OBVIOUS
  <2> QED
    BY <2>3, <2>4, <2>6, <2>7
<1>2. StateTracks'
  BY DEF StateTracks, NoScriptUnasked, PlacedTracks, Finished, Final, Active
<1>3. ScriptTracks'
  <2>1. /\ sh[j] = "place" /\ where[j] # None
        /\ at[j] \notin {"idle", "refused", "scan", "await", "stream"}
    BY DEF ScriptTracks
  <2>2. \/ sh' = [sh EXCEPT ![j] = "move"] /\ code' = code /\ target'[j] # None
        \/ sh' = [sh EXCEPT ![j] = "exit"] /\ code' = [code EXCEPT ![j] = "changed"]
    OBVIOUS
  <2>3. \A k \in Jobs : k # j => target'[k] = target[k]
    OBVIOUS
  <2> QED
    BY <2>1, <2>2, <2>3 DEF ScriptTracks
<1>4. PlacedTracks'
  BY DEF PlacedTracks, ScriptTracks, StateTracks, Complete, Reported, Trapped, Untrapped
<1>5. SendNeverBlocks' /\ NoScriptUnasked'
  BY DEF SendNeverBlocks, NoScriptUnasked, ScriptTracks, StateTracks, Finished, Final, Trapped, Untrapped
<1>6. DoneMeansPlaced'
  BY DEF DoneMeansPlaced, PlacedTracks, StateTracks, Complete, Reported, Finished, Final, ScriptTracks, Trapped, Untrapped
<1> QED
  BY <1>1, <1>2, <1>3, <1>4, <1>5, <1>6

LEMMA MoveInv == ASSUME Core, NEW j \in Jobs, Move(j) PROVE Core'
<1> USE ArchiveAssumption DEF Core, TypeOK, Move, Go, Shell, jobVars, runVars, scriptVars, folderVars
<1>1. TypeOK'
  <2>1. where[j] \in Folders /\ target[j] \in Entries
    BY DEF ScriptTracks
  <2>2. content' \in [Folders -> [Entries -> Jobs \cup {"user", None}]]
    BY <2>1, PutTyped
  <2>3. placed' \in [Jobs -> SUBSET Entries] /\ left' \in [Jobs -> SUBSET Names]
    BY <2>1
  <2>4. /\ sh' \in [Jobs -> Untrapped \cup Trapped \cup {"none", "exit", "gone"}]
        /\ target' \in [Jobs -> Entries \cup {None}]
        /\ clobbered' \in SUBSET Jobs
    BY DEF Trapped
  <2> QED
    BY <2>2, <2>3, <2>4
<1>2. StateTracks'
  BY DEF StateTracks, NoScriptUnasked, PlacedTracks, Finished, Final, Active
<1>3. ScriptTracks'
  BY DEF ScriptTracks, StateTracks, Trapped, Untrapped
<1>4. PlacedTracks'
  <2>1. ASSUME NEW k \in Jobs, at[k] = "reading", NEW x \in items[k]
        PROVE  x \in left'[k] \/ Reported(k, x)'
    <3>1. x \in left[k] \/ Reported(k, x)
      BY <2>1 DEF PlacedTracks
    <3>2. Reported(k, x) => Reported(k, x)'
      BY DEF Reported
    <3>3. CASE k = j /\ x = target[j][1]
      <4>1. target[j] \in Entries
        BY DEF ScriptTracks
      <4>2. PICK i \in 0 .. MaxCopies : target[j] = <<x, i>>
        BY <3>3, <4>1 DEF Entries
      <4> QED
        BY <2>1, <3>3, <4>2 DEF Reported
    <3>4. CASE ~(k = j /\ x = target[j][1])
      BY <3>1, <3>2, <3>4
    <3> QED
      BY <3>3, <3>4
  <2>2. \A k \in Jobs : at[k] = "settle" => placed'[k] = placed[k]
    OBVIOUS
  <2>3. ASSUME NEW k \in Jobs, at[k] = "settle", result[k] = "ok"
        PROVE  state'[k] = "extracting" /\ Complete(k)'
    <3>1. state[k] = "extracting" /\ Complete(k)
      BY <2>3 DEF PlacedTracks
    <3>2. k # j
      BY <3>1 DEF Complete
    <3> QED
      BY <2>2, <2>3, <3>1, <3>2 DEF Complete, Reported
  <2> QED
    BY <2>1, <2>3 DEF PlacedTracks
<1>5. SendNeverBlocks' /\ NoScriptUnasked'
  BY DEF SendNeverBlocks, NoScriptUnasked, ScriptTracks, StateTracks, Finished, Final, Trapped, Untrapped
<1>6. DoneMeansPlaced'
  BY DEF DoneMeansPlaced, PlacedTracks, StateTracks, Complete, Reported, Finished, Final, ScriptTracks, Trapped, Untrapped
<1> QED
  BY <1>1, <1>2, <1>3, <1>4, <1>5, <1>6

LEMMA AllPlacedInv == ASSUME Core, NEW j \in Jobs, AllPlaced(j) PROVE Core'
<1> USE ArchiveAssumption DEF Core, TypeOK, AllPlaced, Go, Exit, Shell, jobVars, runVars, scriptVars, folderVars
<1>1. TypeOK'
  BY DEF Active, Final, Trapped, Untrapped
<1>2. StateTracks'
  BY DEF StateTracks, NoScriptUnasked, PlacedTracks, Finished, Final, Active
<1>3. ScriptTracks'
  BY DEF ScriptTracks, StateTracks, Trapped, Untrapped
<1>4. PlacedTracks'
  <2>1. ASSUME NEW k \in Jobs, at'[k] = "reading", NEW x \in items'[k]
        PROVE  x \in left'[k] \/ Reported(k, x)'
    BY <2>1 DEF PlacedTracks, Reported, Trapped, Untrapped
  <2>2. ASSUME NEW k \in Jobs, at'[k] = "settle", result'[k] = "ok"
        PROVE  state'[k] = "extracting" /\ Complete(k)'
    BY <2>2 DEF PlacedTracks, ScriptTracks, StateTracks, Complete, Reported, Trapped, Untrapped
  <2> QED
    BY <2>1, <2>2 DEF PlacedTracks
<1>5. SendNeverBlocks' /\ NoScriptUnasked'
  BY DEF SendNeverBlocks, NoScriptUnasked, ScriptTracks, StateTracks, Finished, Final, Trapped, Untrapped
<1>6. DoneMeansPlaced'
  BY DEF DoneMeansPlaced, PlacedTracks, StateTracks, Complete, Reported, Finished, Final, ScriptTracks, Trapped, Untrapped
<1> QED
  BY <1>1, <1>2, <1>3, <1>4, <1>5, <1>6

LEMMA InterruptInv == ASSUME Core, NEW j \in Jobs, Interrupt(j) PROVE Core'
<1> USE ArchiveAssumption DEF Core, TypeOK, Interrupt, Go, Exit, Shell, jobVars, runVars, scriptVars, folderVars
<1>1. TypeOK'
  BY DEF Active, Final, Trapped, Untrapped
<1>2. StateTracks'
  BY DEF StateTracks, NoScriptUnasked, PlacedTracks, Finished, Final, Active
<1>3. ScriptTracks'
  BY DEF ScriptTracks, StateTracks, Trapped, Untrapped
<1>4. PlacedTracks'
  <2>1. ASSUME NEW k \in Jobs, at'[k] = "reading", NEW x \in items'[k]
        PROVE  x \in left'[k] \/ Reported(k, x)'
    BY <2>1 DEF PlacedTracks, Reported, Trapped, Untrapped
  <2>2. ASSUME NEW k \in Jobs, at'[k] = "settle", result'[k] = "ok"
        PROVE  state'[k] = "extracting" /\ Complete(k)'
    BY <2>2 DEF PlacedTracks, ScriptTracks, StateTracks, Complete, Reported, Trapped, Untrapped
  <2> QED
    BY <2>1, <2>2 DEF PlacedTracks
<1>5. SendNeverBlocks' /\ NoScriptUnasked'
  BY DEF SendNeverBlocks, NoScriptUnasked, ScriptTracks, StateTracks, Finished, Final, Trapped, Untrapped
<1>6. DoneMeansPlaced'
  BY DEF DoneMeansPlaced, PlacedTracks, StateTracks, Complete, Reported, Finished, Final, ScriptTracks, Trapped, Untrapped
<1> QED
  BY <1>1, <1>2, <1>3, <1>4, <1>5, <1>6

LEMMA CleanUpInv == ASSUME Core, NEW j \in Jobs, CleanUp(j) PROVE Core'
<1> USE ArchiveAssumption DEF Core, TypeOK, CleanUp, Go, Shell, jobVars, runVars, scriptVars, folderVars
<1>1. TypeOK'
  BY DEF Active, Final, Trapped, Untrapped
<1>2. StateTracks'
  BY DEF StateTracks, NoScriptUnasked, PlacedTracks, Finished, Final, Active
<1>3. ScriptTracks'
  BY DEF ScriptTracks, StateTracks, Trapped, Untrapped
<1>4. PlacedTracks'
  BY DEF PlacedTracks, ScriptTracks, StateTracks, Complete, Reported, Trapped, Untrapped
<1>5. SendNeverBlocks' /\ NoScriptUnasked'
  BY DEF SendNeverBlocks, NoScriptUnasked, ScriptTracks, StateTracks, Finished, Final, Trapped, Untrapped
<1>6. DoneMeansPlaced'
  BY DEF DoneMeansPlaced, PlacedTracks, StateTracks, Complete, Reported, Finished, Final, ScriptTracks, Trapped, Untrapped
<1> QED
  BY <1>1, <1>2, <1>3, <1>4, <1>5, <1>6

LEMMA UserCreatesInv == ASSUME Core, NEW f \in Folders, NEW n \in Names, UserCreates(f, n) PROVE Core'
<1> USE ArchiveAssumption DEF Core, TypeOK, UserCreates, Go, jobVars, runVars, scriptVars, folderVars
<1>1. TypeOK'
  <2>1. <<n, 0>> \in Entries
    BY DEF Entries
  <2>2. content' \in [Folders -> [Entries -> Jobs \cup {"user", None}]]
    BY <2>1, PutTyped
  <2> QED
    BY <2>2
<1>2. StateTracks'
  BY DEF StateTracks, NoScriptUnasked, PlacedTracks, Finished, Final, Active
<1>3. ScriptTracks'
  BY DEF ScriptTracks, StateTracks, Trapped, Untrapped
<1>4. PlacedTracks'
  BY DEF PlacedTracks, ScriptTracks, StateTracks, Complete, Reported, Trapped, Untrapped
<1>5. SendNeverBlocks' /\ NoScriptUnasked'
  BY DEF SendNeverBlocks, NoScriptUnasked, ScriptTracks, StateTracks, Finished, Final, Trapped, Untrapped
<1>6. DoneMeansPlaced'
  BY DEF DoneMeansPlaced, PlacedTracks, StateTracks, Complete, Reported, Finished, Final, ScriptTracks, Trapped, Untrapped
<1> QED
  BY <1>1, <1>2, <1>3, <1>4, <1>5, <1>6

LEMMA StartCore ==
    ASSUME Core, NEW j \in Jobs, NEW f \in Folders, NEW old \in SUBSET Prunable, Start(j, f, old)
    PROVE  Core'
<1> USE ArchiveAssumption DEF Core, TypeOK, Start, Go, scriptVars, folderVars
<1>1. TypeOK'
  <2>1. CASE HasRoom(f[1])
    <3>1. state' = [state EXCEPT ![j] = "scanning"] /\ "scanning" \in Active
      BY <2>1 DEF Active
    <3>2. known' \in SUBSET Jobs /\ where' \in [Jobs -> Folders \cup {None}]
      BY <2>1
    <3> QED
      BY <2>1, <3>1, <3>2
  <2>2. CASE ~HasRoom(f[1])
    BY <2>2
  <2> QED
    BY <2>1, <2>2
<1>2. StateTracks'
  BY DEF StateTracks, Finished, Final, Active
<1>3. ScriptTracks'
  BY DEF ScriptTracks, StateTracks
<1>4. \A k \in Jobs : /\ at'[k] \in {"reading", "settle"} => at'[k] = at[k] /\ state'[k] = state[k]
                      /\ state'[k] = "done" => state[k] = "done"
  OBVIOUS
<1>5. \A k \in Jobs : Complete(k) => Complete(k)'
  BY DEF Complete, Reported
<1>6. PlacedTracks' /\ DoneMeansPlaced'
  <2>1. ASSUME NEW k \in Jobs, at'[k] = "reading", NEW x \in items[k]
        PROVE  x \in left[k] \/ Reported(k, x)'
    BY <1>4, <2>1 DEF PlacedTracks, Reported
  <2>2. \A k \in Jobs : at'[k] = "settle" /\ result'[k] = "ok" => state'[k] = "extracting" /\ Complete(k)
    BY <1>4 DEF PlacedTracks
  <2>3. \A k \in Jobs : state'[k] = "done" => Complete(k)
    BY <1>4 DEF DoneMeansPlaced
  <2> QED
    BY <1>5, <2>1, <2>2, <2>3 DEF PlacedTracks, DoneMeansPlaced
<1>7. SendNeverBlocks' /\ NoScriptUnasked'
  BY DEF SendNeverBlocks, NoScriptUnasked, ScriptTracks, StateTracks
<1> QED
  BY <1>1, <1>2, <1>3, <1>6, <1>7

-----------------------------------------------------------------------------
(* The count of active jobs: Start is the only step that can raise it.      *)

LEMMA ActiveFinite == ASSUME TypeOK, NEW s PROVE IsFiniteSet(ActiveOn(s, known))
  BY ArchiveAssumption, FS_Subset DEF TypeOK, ActiveOn

LEMMA CountShrinks ==
    ASSUME TypeOK, NEW s, NEW A, A \subseteq ActiveOn(s, known)
    PROVE  /\ Cardinality(A) \in Nat /\ Cardinality(ActiveOn(s, known)) \in Nat
           /\ Cardinality(A) <= Cardinality(ActiveOn(s, known))
<1>1. IsFiniteSet(ActiveOn(s, known))
  BY ActiveFinite
<1> QED
  BY <1>1, FS_Subset, FS_CardinalityType

\* No job becomes active and none is registered or dropped.
Calm ==
    /\ known' = known /\ where' = where
    /\ \A k \in Jobs : state'[k] \in Active => state[k] \in Active

LEMMA CalmBounded ==
    ASSUME Core, Core', ActiveBounded, Calm PROVE ActiveBounded'
<1>1. \A k \in Jobs : state'[k] \in Active => k \in known'
  BY DEF ActiveBounded, Calm
<1>2. ASSUME NEW s \in Servers PROVE Cardinality(ActiveOn(s, known))' <= MaxActive
  <2>1. ActiveOn(s, known)' \subseteq ActiveOn(s, known)
    <3>1. \A k \in Jobs : where[k] # None /\ ~Finished(k)' => state'[k] \in Active
      BY DEF Core, TypeOK, StateTracks, Calm, Finished
    <3>2. \A k \in Jobs : where[k] # None /\ ~Finished(k)' => ~Finished(k)
      BY <3>1 DEF Calm, Finished, Active, Final
    <3>3. known \subseteq Jobs
      BY DEF Core, TypeOK
    <3> QED
      BY <3>2, <3>3 DEF ActiveOn, Calm
  <2> QED
    BY <2>1, CountShrinks, ArchiveAssumption DEF ActiveBounded, Core
<1> QED
  BY <1>1, <1>2 DEF ActiveBounded

LEMMA RequestCalm ==
    ASSUME Core, NEW j \in Jobs, Cancel(j) \/ \E p \in Policies : Resolve(j, p) PROVE Calm
  BY DEF Core, TypeOK, Calm, Cancel, Resolve, Active

LEMMA JobCalm == ASSUME Core, NEW j \in Jobs, Job(j) PROVE Calm
<1> USE DEF Core, TypeOK, StateTracks, Calm, Active, jobVars
<1>1. CASE ScanFail(j)
  BY <1>1 DEF ScanFail
<1>2. CASE \E T \in SUBSET Names : Plan(j, T)
  BY <1>2 DEF Plan
<1>3. CASE Decide(j) \/ GiveUp(j) \/ TimeOut(j)
  BY <1>3 DEF Decide, GiveUp, TimeOut
<1>4. CASE NoSession(j) \/ Launch(j) \/ ScriptEnds(j) \/ Detach(j)
  BY <1>4 DEF NoSession, Launch, ScriptEnds, Detach
<1>5. CASE Settle(j)
  BY <1>5 DEF Settle, Outcome
<1> QED
  BY <1>1, <1>2, <1>3, <1>4, <1>5 DEF Job

LEMMA ScriptCalm ==
    ASSUME NEW j \in Jobs, Script(j) PROVE Calm /\ UNCHANGED jobVars
<1> USE DEF Calm, jobVars
<1>1. CASE CommandFails(j) \/ MakeStaging(j) \/ SetTraps(j) \/ Unpack(j)
  BY <1>1 DEF CommandFails, MakeStaging, SetTraps, Unpack
<1>2. CASE \E n \in Names : Look(j, n)
  BY <1>2 DEF Look
<1>3. CASE Move(j) \/ AllPlaced(j) \/ Interrupt(j) \/ CleanUp(j)
  BY <1>3 DEF Move, AllPlaced, Interrupt, CleanUp
<1> QED
  BY <1>1, <1>2, <1>3 DEF Script

LEMMA StartBounded ==
    ASSUME Core, ActiveBounded, NEW j \in Jobs, NEW f \in Folders,
           NEW old \in SUBSET Prunable, Start(j, f, old)
    PROVE  ActiveBounded'
<1> USE ArchiveAssumption DEF Core, TypeOK, Start
<1>1. \A k \in Jobs : state'[k] \in Active => k \in known'
  BY DEF ActiveBounded, Prunable, Finished, Active, Final
<1>2. ASSUME NEW s \in Servers PROVE Cardinality(ActiveOn(s, known))' <= MaxActive
  <2>1. Cardinality(ActiveOn(s, known)) \in Nat /\ Cardinality(ActiveOn(s, known)) <= MaxActive
    BY CountShrinks DEF ActiveBounded
  <2>2. CASE HasRoom(f[1]) /\ s = f[1]
    <3>1. ActiveOn(s, known)' \subseteq ActiveOn(s, known) \cup {j}
      BY <2>2 DEF ActiveOn, Finished, Final
    <3>2. IsFiniteSet(ActiveOn(s, known))
      BY ActiveFinite
    <3>3. /\ IsFiniteSet(ActiveOn(s, known) \cup {j})
          /\ Cardinality(ActiveOn(s, known) \cup {j}) <= Cardinality(ActiveOn(s, known)) + 1
          /\ Cardinality(ActiveOn(s, known) \cup {j}) \in Nat
      <4>1. IsFiniteSet(ActiveOn(s, known) \cup {j})
        BY ONLY <3>2, FS_AddElement
      <4>2. Cardinality(ActiveOn(s, known) \cup {j})
               \in {Cardinality(ActiveOn(s, known)), Cardinality(ActiveOn(s, known)) + 1}
        BY ONLY <3>2, FS_AddElement
      <4> QED
        BY ONLY <2>1, <4>1, <4>2
    <3>4. /\ Cardinality(ActiveOn(s, known)') \in Nat
          /\ Cardinality(ActiveOn(s, known)') <= Cardinality(ActiveOn(s, known) \cup {j})
      BY <3>1, <3>3, FS_Subset, FS_CardinalityType
    <3>5. Cardinality(ActiveOn(s, known)) < MaxActive
      BY <2>2 DEF HasRoom
    <3> QED
      BY ONLY <2>1, <3>3, <3>4, <3>5, ArchiveAssumption
  <2>3. CASE ~(HasRoom(f[1]) /\ s = f[1])
    <3>1. ActiveOn(s, known)' \subseteq ActiveOn(s, known)
      BY <2>3 DEF ActiveOn, Finished, Final
    <3> QED
      BY <2>1, <3>1, CountShrinks
  <2> QED
    BY <2>2, <2>3
<1> QED
  BY <1>1, <1>2 DEF ActiveBounded

-----------------------------------------------------------------------------
LEMMA RequestCore == ASSUME Core, NEW j \in Jobs, Request(j) PROVE Core'
  BY StartCore, ResolveInv, CancelInv DEF Request

LEMMA JobCore == ASSUME Core, NEW j \in Jobs, Job(j) PROVE Core'
  BY ScanFailInv, PlanInv, DecideInv, GiveUpInv, TimeOutInv, NoSessionInv, LaunchInv,
     ScriptEndsInv, DetachInv, SettleInv DEF Job

LEMMA ScriptCore == ASSUME Core, NEW j \in Jobs, Script(j) PROVE Core'
  BY CommandFailsInv, MakeStagingInv, SetTrapsInv, UnpackInv, LookLooks, LookedInv, MoveInv,
     AllPlacedInv, InterruptInv, CleanUpInv DEF Script

LEMMA StutterInv == ASSUME ArchiveInv, UNCHANGED vars PROVE ArchiveInv'
<1> USE DEF vars
<1>1. TypeOK'
  BY DEF ArchiveInv, TypeOK
<1>2. StateTracks' /\ ScriptTracks' /\ PlacedTracks'
  BY DEF ArchiveInv, StateTracks, ScriptTracks, PlacedTracks, Complete, Reported, Finished
<1>3. SendNeverBlocks' /\ NoScriptUnasked' /\ DoneMeansPlaced'
  BY DEF ArchiveInv, SendNeverBlocks, NoScriptUnasked, DoneMeansPlaced, Complete, Reported
<1>4. ActiveBounded'
  BY DEF ArchiveInv, ActiveBounded, ActiveOn, Finished
<1> QED
  BY <1>1, <1>2, <1>3, <1>4 DEF ArchiveInv

LEMMA NextInv == ASSUME ArchiveInv, Next PROVE ArchiveInv'
<1>1. Core /\ ActiveBounded
  BY DEF ArchiveInv, Core
<1>2. SUFFICES Core' /\ ActiveBounded'
  BY DEF ArchiveInv, Core
<1>3. ASSUME NEW j \in Jobs, Request(j) PROVE Core' /\ ActiveBounded'
  <2>1. Core'
    BY <1>1, <1>3, RequestCore
  <2> QED
    BY <1>1, <1>3, <2>1, StartBounded, RequestCalm, CalmBounded DEF Request
<1>4. ASSUME NEW j \in Jobs, Job(j) PROVE Core' /\ ActiveBounded'
  BY <1>1, <1>4, JobCore, JobCalm, CalmBounded
<1>5. ASSUME NEW j \in Jobs, Script(j) PROVE Core' /\ ActiveBounded'
  BY <1>1, <1>5, ScriptCore, ScriptCalm, CalmBounded
<1>6. ASSUME NEW f \in Folders, NEW n \in Names, UserCreates(f, n) PROVE Core' /\ ActiveBounded'
  <2>1. Core'
    BY <1>1, <1>6, UserCreatesInv
  <2>2. Calm
    BY <1>6 DEF UserCreates, Calm, jobVars
  <2> QED
    BY <1>1, <2>1, <2>2, CalmBounded
<1> QED
  BY <1>3, <1>4, <1>5, <1>6 DEF Next

\* Every reachable state of the archive service satisfies ArchiveInv.
THEOREM ArchiveInvariance == Spec => []ArchiveInv
<1>1. Init => ArchiveInv
  BY InitInv
<1>2. ArchiveInv /\ [Next]_vars => ArchiveInv'
  BY NextInv, StutterInv
<1> QED
  BY <1>1, <1>2, PTL DEF Spec

\* No server has more active jobs than it may, and active jobs are not pruned.
THEOREM ActiveJobsBounded == Spec => []ActiveBounded
<1>1. ArchiveInv => ActiveBounded
  BY DEF ArchiveInv
<1> QED
  BY <1>1, ArchiveInvariance, PTL

\* A request that resolves a job never blocks while it holds the lock.
THEOREM ResolveNeverBlocks == Spec => []SendNeverBlocks
<1>1. ArchiveInv => SendNeverBlocks
  BY DEF ArchiveInv
<1> QED
  BY <1>1, ArchiveInvariance, PTL

\* Nothing is unpacked before the user has been asked about conflicts.
THEOREM AskedFirst == Spec => []NoScriptUnasked
<1>1. ArchiveInv => NoScriptUnasked
  BY DEF ArchiveInv
<1> QED
  BY <1>1, ArchiveInvariance, PTL

\* A job that is shown as done has placed every item and cleaned up.
THEOREM DoneIsDone == Spec => []DoneMeansPlaced
<1>1. ArchiveInv => DoneMeansPlaced
  BY DEF ArchiveInv
<1> QED
  BY <1>1, ArchiveInvariance, PTL

-----------------------------------------------------------------------------
(* What clients are shown is the life of a job that Extraction describes.   *)

ServerOf == [k \in Jobs |-> IF where[k] = None THEN None ELSE where[k][1]]

LEMMA InitShown == Init => Shown!Init
  BY DEF Init, Shown!Init

LEMMA SameView ==
    ASSUME UNCHANGED <<known, state, where>> PROVE UNCHANGED Shown!View
  BY DEF Shown!View

LEMMA BusyIsActive ==
    ASSUME Core, NEW s \in Servers PROVE Shown!Busy(s) = ActiveOn(s, known)
<1>1. \A k \in known : where[k] # None /\ ~Finished(k) <=> state[k] \in Active
  BY DEF Core, TypeOK, StateTracks, Finished, Active, Final
<1>2. known \subseteq Jobs
  BY DEF Core, TypeOK
<1> QED
  BY <1>1, <1>2 DEF Shown!Busy, Shown!Unfinished, ActiveOn, Active, Core, StateTracks

LEMMA SameCardinality == ASSUME NEW S PROVE Shown!Cardinality(S) = Cardinality(S)
  BY DEF Shown!Cardinality, Cardinality

LEMMA StartShown ==
    ASSUME Core, NEW j \in Jobs, NEW f \in Folders, NEW old \in SUBSET Prunable, Start(j, f, old)
    PROVE  [Shown!Next]_(Shown!View)
<1>1. old \in SUBSET known /\ \A k \in old : state[k] \in Shown!Ended
  BY DEF Prunable, Finished, Final, Shown!Ended
<1>2. CASE HasRoom(f[1])
  <2>1. f[1] \in Servers /\ f # None
    BY ArchiveAssumption DEF Folders
  <2>2. state[j] = "none"
    BY DEF Core, StateTracks, Start
  <2>3. Shown!Cardinality(Shown!Busy(f[1])) < MaxActive
    BY <1>2, <2>1, BusyIsActive, SameCardinality DEF HasRoom
  <2>4. ServerOf' = [ServerOf EXCEPT ![j] = f[1]]
    BY <1>2, <2>1 DEF ServerOf, Start, Core, TypeOK
  <2>5. known' = (known \ old) \cup {j} /\ state' = [state EXCEPT ![j] = "scanning"]
    BY <1>2 DEF Start
  <2>6. Shown!Accept(j, f[1], old)
    BY <1>1, <2>2, <2>3, <2>4, <2>5 DEF Shown!Accept, ServerOf
  <2> QED
    BY <1>1, <2>1, <2>6 DEF Shown!Next
<1>3. CASE ~HasRoom(f[1])
  <2>1. Shown!Refuse(old)
    BY <1>1, <1>3 DEF Shown!Refuse, Start
  <2> QED
    BY <1>1, <2>1 DEF Shown!Next
<1> QED
  BY <1>2, <1>3

LEMMA RequestShown ==
    ASSUME Core, NEW j \in Jobs, Request(j) PROVE [Shown!Next]_(Shown!View)
<1>1. ASSUME NEW p \in Policies, Resolve(j, p) PROVE Shown!Answered(j)
  BY <1>1 DEF Resolve, Shown!Answered, Shown!Show
<1>2. CASE Cancel(j)
  BY <1>2, SameView DEF Cancel
<1> QED
  BY <1>1, <1>2, StartShown DEF Request, Shown!Next

LEMMA SettleShown == ASSUME Core, NEW j \in Jobs, Settle(j) PROVE Shown!End(j, Outcome(j)) /\ Outcome(j) \in Shown!Ended
<1>1. state[j] \in Shown!Unfinished
  BY DEF Core, TypeOK, StateTracks, Settle, Finished, Active, Final, Shown!Unfinished
<1>2. Outcome(j) = "done" => state[j] = "extracting"
  BY DEF Core, PlacedTracks, Outcome, Settle
<1> QED
  BY <1>1, <1>2 DEF Settle, Outcome, Shown!End, Shown!Show, Shown!Ended

LEMMA JobShown ==
    ASSUME Core, NEW j \in Jobs, Job(j) PROVE [Shown!Next]_(Shown!View)
<1>1. CASE ScanFail(j)
  BY <1>1, SameView DEF ScanFail, jobVars
<1>2. ASSUME NEW T \in SUBSET Names, Plan(j, T) PROVE Shown!Scanned(j)
  BY <1>2 DEF Plan, Core, StateTracks, Shown!Scanned, Shown!Show
<1>3. CASE Decide(j) \/ GiveUp(j) \/ TimeOut(j)
  BY <1>3, SameView DEF Decide, GiveUp, TimeOut, jobVars
<1>4. CASE NoSession(j) \/ Launch(j) \/ ScriptEnds(j) \/ Detach(j)
  BY <1>4, SameView DEF NoSession, Launch, ScriptEnds, Detach, jobVars
<1>5. CASE Settle(j)
  BY <1>5, SettleShown DEF Shown!Next
<1> QED
  BY <1>1, <1>2, <1>3, <1>4, <1>5 DEF Job, Shown!Next

\* Every behaviour of the archive service is, as far as its clients see, one
\* of Extraction.
THEOREM ArchiveImplementsExtraction == Spec => ShowsExtraction
<1>1. Init => Shown!Init
  BY InitShown
<1>2. ArchiveInv /\ [Next]_vars => [Shown!Next]_(Shown!View)
  <2> SUFFICES ASSUME ArchiveInv, [Next]_vars PROVE [Shown!Next]_(Shown!View)
    OBVIOUS
  <2>1. Core
    BY DEF ArchiveInv, Core
  <2>2. ASSUME NEW j \in Jobs, Request(j) \/ Job(j) PROVE [Shown!Next]_(Shown!View)
    BY <2>1, <2>2, RequestShown, JobShown
  <2>3. ASSUME NEW j \in Jobs, Script(j) PROVE [Shown!Next]_(Shown!View)
    BY <2>3, ScriptCalm, SameView DEF jobVars
  <2>4. ASSUME NEW f \in Folders, NEW n \in Names, UserCreates(f, n)
        PROVE  [Shown!Next]_(Shown!View)
    BY <2>4, SameView DEF UserCreates, jobVars
  <2>5. CASE UNCHANGED vars
    BY <2>5, SameView DEF vars
  <2> QED
    BY <2>2, <2>3, <2>4, <2>5 DEF Next
<1> QED
  BY <1>1, <1>2, ArchiveInvariance, PTL DEF Spec, ShowsExtraction, Shown!Spec

-----------------------------------------------------------------------------
(* What is replaced.  Where nobody else creates files meanwhile, the place a    *)
(* script has found or made is not a user's when it moves its item there: only   *)
(* other scripts can have taken it.  A script places items of its own archive.  *)

MoveSpares == \A j \in Jobs : sh[j] = "move" => content[where[j]][target[j]] # "user"
PlacesOwn == \A j \in Jobs : sh[j] # "none" => left[j] \subseteq items[j]
Spares == MoveSpares /\ PlacesOwn

Unreplaced(f, e) ==
    content[f][e] = "user" /\ content'[f][e] # "user" =>
        \E j \in Jobs : where[j] = f /\ policy[j] = "replace" /\ e[1] \in items[j]
ReplacesRight == \A f \in Folders, e \in Entries : Unreplaced(f, e)

LEMMA QuietSpares ==
    ASSUME Spares, content' = content,
           \A k \in Jobs : sh'[k] = "move" =>
               sh[k] = "move" /\ where'[k] = where[k] /\ target'[k] = target[k],
           \A k \in Jobs : sh'[k] # "none" => left'[k] \subseteq items'[k]
    PROVE  Spares' /\ ReplacesRight
  BY DEF Spares, MoveSpares, PlacesOwn, ReplacesRight, Unreplaced

LEMMA RequestSpares == ASSUME Core, Spares, NEW j \in Jobs, Request(j) PROVE Spares' /\ ReplacesRight
<1>1. content' = content /\ UNCHANGED <<sh, target, left, items>>
  BY DEF Request, Start, Resolve, Cancel, runVars, scriptVars, folderVars
<1>2. \A k \in Jobs : sh[k] = "move" => where'[k] = where[k]
  <2>1. \A k \in Jobs : sh[k] = "move" => at[k] # "idle"
    BY DEF Core, ScriptTracks
  <2> QED
    BY <2>1 DEF Core, TypeOK, Request, Start, Resolve, Cancel
<1> QED
  BY <1>1, <1>2, QuietSpares DEF Spares, PlacesOwn

LEMMA JobSpares == ASSUME Core, Spares, NEW j \in Jobs, Job(j) PROVE Spares' /\ ReplacesRight
<1>1. content' = content /\ UNCHANGED <<where, target>>
  BY DEF Job, ScanFail, Plan, Decide, GiveUp, TimeOut, NoSession, Launch, ScriptEnds, Detach,
     Settle, Return, Go, jobVars, scriptVars, folderVars
<1>2. CASE Launch(j)
  <2>1. /\ sh' = [sh EXCEPT ![j] = "begin"] /\ left' = [left EXCEPT ![j] = items[j]]
        /\ items' = items
    BY <1>2 DEF Launch
  <2>2. \A k \in Jobs : sh'[k] # "none" => left'[k] \subseteq items'[k]
    BY <2>1 DEF Spares, PlacesOwn, Core, TypeOK
  <2>3. \A k \in Jobs : sh'[k] = "move" => sh[k] = "move"
    BY <2>1 DEF Core, TypeOK
  <2> QED
    BY <1>1, <2>2, <2>3, QuietSpares
<1>3. CASE ~Launch(j)
  <2>1. UNCHANGED <<sh, left>>
    BY <1>3 DEF Job, ScanFail, Plan, Decide, GiveUp, TimeOut, NoSession, ScriptEnds, Detach,
       Settle, Return, Go, jobVars, scriptVars, folderVars
  <2>2. \A k \in Jobs : sh[k] # "none" => items'[k] = items[k]
    BY <1>3 DEF Job, ScanFail, Plan, Decide, GiveUp, TimeOut, NoSession, ScriptEnds, Detach,
       Settle, Return, Go, Core, TypeOK, ScriptTracks
  <2> QED
    BY <1>1, <2>1, <2>2, QuietSpares DEF Spares, PlacesOwn
<1> QED
  BY <1>2, <1>3

(* Only a look or a move touches a folder.                                    *)
LEMMA CommandSpares ==
    ASSUME Core, Spares, NEW j \in Jobs,
           \/ CommandFails(j) \/ MakeStaging(j) \/ SetTraps(j) \/ Unpack(j)
           \/ AllPlaced(j) \/ Interrupt(j) \/ CleanUp(j)
    PROVE  Spares' /\ ReplacesRight
<1>1. UNCHANGED <<content, where, target, left, items>>
  BY DEF CommandFails, MakeStaging, SetTraps, Unpack, AllPlaced, Interrupt, CleanUp,
     jobVars, runVars, folderVars
<1>2. sh[j] # "none" /\ \E x \in {"made", "unpack", "place", "exit", "gone"} : sh' = [sh EXCEPT ![j] = x]
  BY DEF CommandFails, MakeStaging, SetTraps, Unpack, AllPlaced, Interrupt, CleanUp, Exit, Shell,
     Trapped, Untrapped
<1>3. \A k \in Jobs : (sh'[k] = "move" => sh[k] = "move") /\ (sh'[k] # "none" => sh[k] # "none")
  BY <1>2 DEF Core, TypeOK
<1> QED
  BY <1>1, <1>3, QuietSpares DEF Spares, PlacesOwn

LEMMA LookSpares ==
    ASSUME Core, Spares, NEW j \in Jobs, NEW n \in Names, Look(j, n)
    PROVE  Spares' /\ ReplacesRight
<1> DEFINE f == where[j]
<1>1. /\ f \in Folders /\ <<n, 0>> \in Entries /\ n \in items[j]
      /\ \A i \in FirstFree(f, n) : <<n, i>> \in Entries
  <2>1. \A i \in 0..MaxCopies : <<n, i>> \in Entries
    BY DEF Entries
  <2>2. 0 \in 0..MaxCopies /\ FirstFree(f, n) \subseteq 0..MaxCopies
    BY ArchiveAssumption DEF FirstFree
  <2> QED
    BY <2>1, <2>2 DEF Core, TypeOK, ScriptTracks, Look, Spares, PlacesOwn
<1>2. /\ UNCHANGED <<where, left, items>> /\ sh[j] = "place"
      /\ \A k \in Jobs : k # j => sh'[k] = sh[k] /\ target'[k] = target[k]
      /\ sh'[j] # "none"
  BY DEF Look, Exit, Shell, jobVars, runVars, Core, TypeOK
<1>3. PlacesOwn'
  BY <1>2 DEF Spares, PlacesOwn
<1>4. ASSUME content' = content,
             sh'[j] = "move" => ~Taken(f, target'[j])
      PROVE  Spares' /\ ReplacesRight
  <2>1. sh'[j] = "move" => content[f][target'[j]] # "user"
    BY <1>4, ArchiveAssumption DEF Taken
  <2> QED
    BY <1>2, <1>3, <1>4, <2>1 DEF Spares, MoveSpares, ReplacesRight, Unreplaced
<1>5. ASSUME content' = [content EXCEPT ![f][<<n, 0>>] = None], target'[j] = <<n, 0>>, Replaces(j)
      PROVE  Spares' /\ ReplacesRight
  <2>1. /\ \A g \in Folders, e \in Entries :
             content'[g][e] = IF g = f /\ e = <<n, 0>> THEN None ELSE content[g][e]
        /\ None # "user"
    BY <1>1, <1>5, ArchiveAssumption DEF Core, TypeOK
  <2>2. ReplacesRight
    BY <1>1, <1>5, <2>1 DEF ReplacesRight, Unreplaced, Replaces
  <2>3. \A k \in Jobs : sh[k] = "move" => where[k] \in Folders /\ target[k] \in Entries
    BY DEF Core, TypeOK, ScriptTracks
  <2>4. MoveSpares'
    BY <1>1, <1>2, <1>5, <2>1, <2>3 DEF Spares, MoveSpares
  <2> QED
    BY <1>3, <2>2, <2>4 DEF Spares
<1>6. CASE ~Taken(f, <<n, 0>>) /\ target' = [target EXCEPT ![j] = <<n, 0>>] /\ content' = content
  BY <1>1, <1>4, <1>6 DEF Core, TypeOK
<1>7. CASE (\E i \in FirstFree(f, n) : target' = [target EXCEPT ![j] = <<n, i>>]) /\ content' = content
  <2>1. PICK i \in FirstFree(f, n) : target' = [target EXCEPT ![j] = <<n, i>>]
    BY <1>7
  <2>2. ~Taken(f, <<n, i>>) /\ target'[j] = <<n, i>>
    BY <2>1 DEF FirstFree, Core, TypeOK
  <2> QED
    BY <1>4, <1>7, <2>2
<1>8. CASE Exit(j, "changed") /\ content' = content
  <2>1. sh'[j] # "move"
    BY <1>2, <1>8 DEF Exit, Shell, Trapped, Core, TypeOK
  <2> QED
    BY <1>4, <1>8, <2>1
<1>9. CASE /\ Replaces(j) /\ target' = [target EXCEPT ![j] = <<n, 0>>]
           /\ content' = [content EXCEPT ![f][<<n, 0>>] = None]
  BY <1>5, <1>9 DEF Core, TypeOK
<1> QED
  BY <1>6, <1>7, <1>8, <1>9 DEF Look

LEMMA MovePlaces ==
    ASSUME Core, Spares, NEW j \in Jobs, Move(j)
    PROVE  Spares' /\ ReplacesRight
<1>1. /\ sh[j] = "move" /\ sh' = [sh EXCEPT ![j] = "place"]
      /\ where[j] \in Folders /\ target[j] \in Entries
      /\ content' = [content EXCEPT ![where[j]][target[j]] = j]
      /\ left' = [left EXCEPT ![j] = @ \ {target[j][1]}]
      /\ target' = [target EXCEPT ![j] = None]
      /\ UNCHANGED <<where, items>>
  BY DEF Move, Shell, jobVars, Core, TypeOK, ScriptTracks
<1>2. \A f \in Folders, e \in Entries :
        content'[f][e] = IF f = where[j] /\ e = target[j] THEN j ELSE content[f][e]
  BY <1>1 DEF Core, TypeOK
<1>3. content[where[j]][target[j]] # "user" /\ j # "user"
  BY <1>1, ArchiveAssumption DEF Spares, MoveSpares
<1>4. ReplacesRight
  BY <1>2, <1>3 DEF ReplacesRight, Unreplaced
<1>5. \A k \in Jobs : sh'[k] = "move" => /\ sh[k] = "move" /\ target'[k] = target[k]
                                         /\ where[k] \in Folders /\ target[k] \in Entries
  BY <1>1 DEF Core, TypeOK, ScriptTracks
<1>6. MoveSpares'
  BY <1>1, <1>2, <1>3, <1>5 DEF Spares, MoveSpares
<1>7. PlacesOwn'
  <2>1. \A k \in Jobs : sh'[k] # "none" => sh[k] # "none" /\ left'[k] \subseteq left[k]
    BY <1>1 DEF Core, TypeOK
  <2> QED
    BY <1>1, <2>1 DEF Spares, PlacesOwn
<1> QED
  BY <1>4, <1>6, <1>7 DEF Spares

LEMMA SparesStep ==
    ASSUME UserActs = FALSE, Core, Spares, [Next]_vars
    PROVE  Spares' /\ ReplacesRight
<1>1. ASSUME NEW j \in Jobs, Request(j) \/ Job(j) PROVE Spares' /\ ReplacesRight
  BY <1>1, RequestSpares, JobSpares
<1>2. ASSUME NEW j \in Jobs, Script(j) PROVE Spares' /\ ReplacesRight
  BY <1>2, CommandSpares, LookSpares, MovePlaces DEF Script
<1>3. CASE UNCHANGED vars
  BY <1>3, QuietSpares DEF vars, Spares, PlacesOwn
<1> QED
  BY <1>1, <1>2, <1>3 DEF Next, UserCreates

\* Where nobody else creates files meanwhile, so that a user's entry is one
\* that was there before any job began: it is destroyed only by a job that was
\* told to replace it, whatever the scripts of the jobs interleave, are
\* interrupted in, or go on with when their job is over (script.go:212-222).
THEOREM ReplacedOnlyOnRequest == ASSUME UserActs = FALSE PROVE Spec => ReplacedOnRequest
<1>1. Init => Spares
  BY DEF Init, Spares, MoveSpares, PlacesOwn
<1>2. ArchiveInv => Core
  BY DEF ArchiveInv, Core
<1>3. ArchiveInv /\ Spares /\ [Next]_vars => Spares'
  BY <1>2, SparesStep
<1>4. ArchiveInv /\ Spares /\ [Next]_vars =>
        [\A f \in Folders, e \in Entries :
            content[f][e] = "user" /\ content'[f][e] # "user" =>
                \E j \in Jobs : where[j] = f /\ policy[j] = "replace" /\ e[1] \in items[j]]_vars
  BY <1>2, SparesStep DEF ReplacesRight, Unreplaced
<1> QED
  BY <1>1, <1>3, <1>4, ArchiveInvariance, PTL DEF Spec, ReplacedOnRequest

=============================================================================
