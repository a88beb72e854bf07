---------------------------- MODULE ServerHistory ----------------------------
(***************************************************************************)
(* ServerService with a history variable: the servers whose pool entry the   *)
(* code may leave behind the store, and why.                                *)
(***************************************************************************)
EXTENDS ServerService

VARIABLE doubtful   \* servers with such an entry, or with one on its way

historyVars == <<allVars, doubtful>>

\* Every request but a use and a test writes the whole row from its copy, Create
\* and Update once more after their test of the connection.
Writing(k) == at[k] \notin {"idle", "done"} /\ kind[k] \notin {"use", "test"}

\* What it writes is another address, another kind of secret or another secret
\* than is stored now, or it deletes the row.
Changing(k) ==
    /\ Writing(k)
    /\ \/ kind[k] = "delete"
       \/ copy[k].addr # row[target[k]].addr \/ copy[k].auth # row[target[k]].auth
       \/ at[k] = "credential" /\ form[k].secret # cred[target[k]]

Reading == {k \in Calls : pc[k] \in {"load", "insert"}}
ReadUnderChange ==
    {target[k] : k \in {j \in Reading : \E i \in Calls : Changing(i) /\ target[i] = target[j]}}
\* An Update fails between the storing of a new secret and pool.Forget.
GivenUp ==
    {target[k] : k \in {j \in Calls : at[j] = "forget" /\ at'[j] = "done" /\ form[j] # None
                                       /\ form[j].secret # None /\ sessions'[target[j]] # None}}

InPool == {s \in Ids : sessions[s] # None} \cup {target[k] : k \in Reading}

HistoryInit == ServiceInit /\ doubtful = {}
HistoryNext ==
    /\ ServiceNext
    /\ doubtful' = ((doubtful \cup GivenUp) \cap InPool') \cup ReadUnderChange'

HistorySpec == HistoryInit /\ [][HistoryNext]_historyVars /\ ServiceFairness

-----------------------------------------------------------------------------
\* What is pooled is a stored server, with the address and secret it is stored
\* with, whenever no request that writes the server is under way: a request that
\* changes a connection takes the entry made before it out of the pool, also
\* when its client goes away between two statements, the store refuses it, or
\* dials, failures and other requests overtake it.  The exceptions are the two
\* that the code does not guard: an entry read while a request - the reading
\* Connect included - had still to write something else than what was stored
\* (service.go:190-192, 237-238, pool.go:63-75), and one left by an Update whose
\* icon could not be written once its secret was stored (service.go:184-190).
PoolFollowsWrites ==
    \A s \in Ids \ doubtful :
        sessions[s] # None /\ (\A k \in Calls : target[k] = s => ~Writing(k)) =>
            /\ exists[s] = "live"
            /\ cfg[sessions[s]].ver =
                  [addr |-> row[s].addr, auth |-> row[s].auth, secret |-> cred[s]]
=============================================================================
