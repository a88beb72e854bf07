---------------------------- MODULE ServerService ----------------------------
(***************************************************************************)
(* The server records of the Go backend (apps/server/internal/servers)     *)
(* composed with the connection pool: every HTTP request is a call, and    *)
(* what it does to the pool are the pool's own actions.                    *)
(*                                                                         *)
(*  - One action per access to the store or the pool, in the code's order; *)
(*    a handler keeps its copy of the row from its first read on.          *)
(*  - host, port and username are one value, the address; name and icon    *)
(*    are one value, the label; lastSeen, lastError, updatedAt and what    *)
(*    the icon files hold are left out.                                    *)
(*  - A request whose client has hung up cannot write any more: the store  *)
(*    runs every statement under the request's context.  A server process  *)
(*    that dies between two statements leaves the same rows behind.        *)
(***************************************************************************)
EXTENDS SshPool

CONSTANTS
    Addrs, Labels,      \* addresses and labels a user may enter
    Secrets,            \* secrets a user may enter: [auth, text]
    Inputs,             \* the forms that are submitted
    Kinds,              \* the requests a run has
    HangUps             \* whether clients may go away in the middle

AuthTypes == {"password", "private_key"}
Fails == {"offline", "authentication_failed"}
RowStatus == {"unknown", "connecting", "online"} \cup Fails
Row == [label : Labels, addr : Addrs, auth : AuthTypes, status : RowStatus]
Input == [label : Labels, addr : Addrs, auth : AuthTypes, secret : Secrets \cup {None}]

ASSUME ServiceAssumption ==
    /\ None \notin Row /\ None \notin Input /\ None \notin Secrets
    /\ \A x \in Secrets : x.auth \in AuthTypes
    /\ Inputs \subseteq Input
    /\ Vers = [addr : Addrs, auth : AuthTypes, secret : Secrets]
    /\ Kinds \subseteq {"create", "update", "delete", "connect", "disconnect", "test", "use"}

VARIABLES
    exists,     \* whether the row of an id is in the servers table
    row,        \* its columns
    cred,       \* its server_credentials row: a secret, or None
    kind,       \* what a call was asked to do
    target,     \* the server it is about
    at,         \* where its handler is
    copy,       \* the handler's Record
    form,       \* an update's input
    seen,       \* the row the loader has read, before it reads the secret
    hung        \* calls whose client has gone away

storeVars == <<exists, row, cred>>
handlerVars == <<kind, target, at, copy, form, seen, hung>>
serviceVars == <<exists, row, cred, kind, target, at, copy, form, seen, hung>>
allVars == <<vars, serviceVars>>

Place == {"idle", "connecting", "pool", "forget", "credential", "save", "erase",
          "loadrow", "loadcred", "dial", "done"}

ServiceTypeOK ==
    /\ TypeOK
    /\ exists \in [Ids -> {"never", "live", "deleted"}]
    /\ row \in [Ids -> Row]
    /\ cred \in [Ids -> Secrets \cup {None}]
    /\ kind \in [Calls -> Kinds \cup {None}]
    /\ target \in [Calls -> Ids \cup {None}]
    /\ at \in [Calls -> Place]
    /\ copy \in [Calls -> Row \cup {None}]
    /\ form \in [Calls -> Input \cup {None}]
    /\ seen \in [Calls -> Row \cup {None}]
    /\ hung \in SUBSET Calls

RowUnset(i, st) == [label |-> i.label, addr |-> i.addr, auth |-> i.auth, status |-> ""] \* mutant
RowOf(i, st) == [label |-> i.label, addr |-> i.addr, auth |-> i.auth, status |-> st]

\* The secret is the form's, and of the kind the form names.
HasSecret(i) == i.secret # None /\ i.secret.auth = i.auth

\* Every server either is still to be created or was saved by an earlier run.
ServiceInit ==
    /\ Init
    /\ \E i \in Inputs, saved \in SUBSET Ids :
          /\ HasSecret(i) /\ i.auth = "password"
          /\ exists = [s \in Ids |-> IF s \in saved THEN "live" ELSE "never"]
          /\ row = [s \in Ids |-> RowOf(i, "unknown")]
          /\ cred = [s \in Ids |-> IF s \in saved THEN i.secret ELSE None]
    /\ kind = [k \in Calls |-> None]
    /\ target = [k \in Calls |-> None]
    /\ at = [k \in Calls |-> "idle"]
    /\ copy = [k \in Calls |-> None]
    /\ form = [k \in Calls |-> None]
    /\ seen = [k \in Calls |-> None]
    /\ hung = {}

-----------------------------------------------------------------------------
(* The store                                                                *)

\* A statement about a row is carried out.
WritableAnyway(k, s) == k \notin hung                               \* mutant
Writable(k, s) == exists[s] = "live" /\ k \notin hung

\* store.Update(ctx, r): the whole row, or an error the handler may ignore.
StoreUpdate(k, s, r) ==
    /\ row' = IF Writable(k, s) THEN [row EXCEPT ![s] = r] ELSE row
    /\ UNCHANGED <<exists, cred>>

\* authMethod: a password cannot be parsed as a private key.
Usable(auth, secret) == auth = "private_key" => secret.auth = "private_key"

Go(k, place) == at' = [at EXCEPT ![k] = place]

-----------------------------------------------------------------------------
(* Starting a request: its first read of the row                            *)

\* A handler that finds no row answers ErrNotFound.
Begin(k, s, what, first) ==
    /\ at[k] = "idle" /\ what \in Kinds
    /\ kind' = [kind EXCEPT ![k] = what]
    /\ target' = [target EXCEPT ![k] = s]
    /\ IF exists[s] = "live"
       THEN copy' = [copy EXCEPT ![k] = row[s]] /\ Go(k, first)
       ELSE copy' = copy /\ Go(k, "done")
    /\ UNCHANGED <<vars, storeVars, form, seen, hung>>

\* Files, terminal and metrics go to the pool without a look at the row.
BeginUse(k, s) ==
    /\ at[k] = "idle" /\ "use" \in Kinds
    /\ kind' = [kind EXCEPT ![k] = "use"]
    /\ target' = [target EXCEPT ![k] = s]
    /\ Go(k, "pool")
    /\ UNCHANGED <<vars, storeVars, copy, form, seen, hung>>

\* Create: row and secret in one transaction under a fresh id, then a test
\* with the secret just entered.
Create(k, s, i) ==
    /\ at[k] = "idle" /\ "create" \in Kinds
    /\ exists[s] = "never" /\ HasSecret(i)
    /\ kind' = [kind EXCEPT ![k] = "create"]
    /\ target' = [target EXCEPT ![k] = s]
    /\ exists' = [exists EXCEPT ![s] = "live"]
    /\ row' = [row EXCEPT ![s] = RowOf(i, "unknown")]
    /\ cred' = [cred EXCEPT ![s] = i.secret]
    /\ copy' = [copy EXCEPT ![k] = RowOf(i, "unknown")]
    /\ Go(k, "dial")
    /\ UNCHANGED <<vars, form, seen, hung>>

\* affectsConnection, with the secret counted as changed when one is required.
NeedsSecret(i, r) == i.secret # None \/ i.auth # r.auth
ReconnectsOnSecret(i, r) == NeedsSecret(i, r)                       \* mutant
Reconnects(i, r) == NeedsSecret(i, r) \/ i.addr # r.addr

\* Update up to its first write: merge the form into the row that was read.
BeginUpdate(k, s, i) ==
    LET r == row[s] IN
    /\ at[k] = "idle" /\ "update" \in Kinds
    /\ kind' = [kind EXCEPT ![k] = "update"]
    /\ target' = [target EXCEPT ![k] = s]
    /\ IF exists[s] # "live" \/ (NeedsSecret(i, r) /\ ~HasSecret(i))
       THEN Go(k, "done") /\ UNCHANGED <<copy, form>>
       ELSE /\ form' = [form EXCEPT ![k] = i]
            /\ copy' = [copy EXCEPT ![k] =
                          RowOf(i, IF Reconnects(i, r) THEN "unknown" ELSE r.status)]
            /\ Go(k, CASE NeedsSecret(i, r) -> "credential"
                       [] ~NeedsSecret(i, r) /\ Reconnects(i, r) -> "forget"
                       [] OTHER -> "save")
    /\ UNCHANGED <<vars, storeVars, seen, hung>>

-----------------------------------------------------------------------------
(* The handlers' own steps                                                  *)

\* Connect: the row says connecting before the pool is asked.
WriteConnecting(k) ==
    LET r == [copy[k] EXCEPT !.status = "connecting"] IN
    /\ at[k] = "connecting"
    /\ copy' = [copy EXCEPT ![k] = r]
    /\ StoreUpdate(k, target[k], r)
    /\ Go(k, "pool")
    /\ UNCHANGED <<vars, kind, target, form, seen, hung>>

\* Write the copy with status st and answer.
Settle(k, st) ==
    /\ copy' = [copy EXCEPT ![k].status = st]
    /\ StoreUpdate(k, target[k], copy'[k])
    /\ Go(k, "done")
    /\ UNCHANGED <<vars, kind, target, form, seen, hung>>

\* Connect: pool.Ensure has returned.
ConnectDone(k) ==
    /\ kind[k] = "connect" /\ at[k] = "pool"
    /\ \/ pc[k] = "done" /\ Settle(k, "online")
       \/ pc[k] = "failed" /\ \E st \in Fails : Settle(k, st)

UseDone(k) ==
    /\ kind[k] = "use" /\ at[k] = "pool" /\ pc[k] \in Finished
    /\ Go(k, "done")
    /\ UNCHANGED <<vars, storeVars, kind, target, copy, form, seen, hung>>

\* Update: the new secret is stored before the row; the foreign key refuses
\* it when the row has gone.
UpsertCredential(k) ==
    /\ at[k] = "credential"
    /\ IF Writable(k, target[k])
       THEN /\ cred' = [cred EXCEPT ![target[k]] = form[k].secret]
            /\ Go(k, "forget")
       ELSE cred' = cred /\ Go(k, "done")
    /\ UNCHANGED <<vars, exists, row, kind, target, copy, form, seen, hung>>

\* Update: the icon cannot be written.  The secret is stored by then, the pool
\* not told and the row not saved.
IconFails(k) ==
    /\ kind[k] = "update" /\ pc[k] = "idle" /\ at[k] \in {"forget", "save"}
    /\ Go(k, "done")
    /\ UNCHANGED <<vars, storeVars, kind, target, copy, form, seen, hung>>

\* pool.Forget or pool.Disconnect has returned.
Forgotten(k) ==
    /\ at[k] = "forget" /\ pc[k] \in Finished
    /\ Go(k, IF kind[k] = "delete" THEN "erase" ELSE "save")
    /\ copy' = IF kind[k] = "disconnect"
               THEN [copy EXCEPT ![k].status = "offline"] ELSE copy
    /\ UNCHANGED <<vars, storeVars, kind, target, form, seen, hung>>

\* Disconnect ignores a failed write; Update returns it, and otherwise tests
\* the connection if it changed.
Save(k) ==
    /\ at[k] = "save"
    /\ StoreUpdate(k, target[k], copy[k])
    /\ Go(k, IF kind[k] = "update" /\ Writable(k, target[k]) /\ pc[k] \in Finished
             THEN "loadrow" ELSE "done")
    /\ UNCHANGED <<vars, kind, target, copy, form, seen, hung>>

\* The credential goes with the row (ON DELETE CASCADE).
NoCascade(s) == cred' = cred                                        \* mutant
Cascade(s) == cred' = [cred EXCEPT ![s] = None]

Erase(k) ==
    /\ at[k] = "erase"
    /\ IF Writable(k, target[k])
       THEN /\ exists' = [exists EXCEPT ![target[k]] = "deleted"]
            /\ Cascade(target[k])
       ELSE UNCHANGED <<exists, cred>>
    /\ Go(k, "done")
    /\ UNCHANGED <<vars, row, kind, target, copy, form, seen, hung>>

-----------------------------------------------------------------------------
(* loadAuth: the row, then the secret, under a context of its own           *)

\* loadAuth fails inside Test (which writes nothing) or testAndUpdate.
LoadRefusedSilently(k) ==                                           \* mutant
    kind[k] = "test" /\ Go(k, "done") /\ UNCHANGED <<vars, storeVars, kind, target, copy, form, seen, hung>>
LoadRefused(k) ==
    \/ kind[k] = "test" /\ Go(k, "done") /\ UNCHANGED <<vars, storeVars, kind, target, copy, form, seen, hung>>
    \/ kind[k] = "update" /\ \E st \in Fails : Settle(k, st)

LoadRow(k) ==
    /\ at[k] = "loadrow"
    /\ IF exists[target[k]] = "live"
       THEN /\ seen' = [seen EXCEPT ![k] = row[target[k]]]
            /\ Go(k, "loadcred")
            /\ UNCHANGED <<vars, storeVars, kind, target, copy, form, hung>>
       ELSE LoadRefused(k)

CanLoad(k) == cred[target[k]] # None /\ Usable(seen[k].auth, cred[target[k]])

LoadCred(k) ==
    /\ at[k] = "loadcred"
    /\ IF CanLoad(k)
       THEN Go(k, "dial") /\ UNCHANGED <<vars, storeVars, kind, target, copy, form, seen, hung>>
       ELSE LoadRefused(k)

\* The test's own connection is opened and closed outside the pool.
TestDial(k) ==
    /\ at[k] = "dial"
    /\ \E st \in {"online"} \cup Fails : Settle(k, st)

-----------------------------------------------------------------------------
(* The pool's part of a request                                             *)

\* pool.Forget and pool.Disconnect
Forget(k) == Remove(k, target[k])

PoolEnter(k) ==
    /\ pc[k] = "idle"
    /\ \/ at[k] = "pool" /\ Lookup(k, target[k])
       \/ at[k] = "forget" /\ Forget(k)
    /\ UNCHANGED serviceVars

\* The pool's loader is loadAuth.
PoolLoadRow(k) ==
    /\ pc[k] = "load" /\ seen[k] = None
    /\ IF exists[target[k]] = "live"
       THEN seen' = [seen EXCEPT ![k] = row[target[k]]] /\ UNCHANGED vars
       ELSE LoadFail(k) /\ seen' = seen
    /\ UNCHANGED <<storeVars, kind, target, at, copy, form, hung>>

PoolLoadCred(k) ==
    /\ pc[k] = "load" /\ seen[k] # None
    /\ IF CanLoad(k)
       THEN LoadOk(k, [id |-> target[k],
                       ver |-> [addr |-> seen[k].addr, auth |-> seen[k].auth,
                                secret |-> cred[target[k]]]])
       ELSE LoadFail(k)
    /\ UNCHANGED serviceVars

PoolWork(k) ==
    /\ \/ Insert(k) \/ EnsureCheck(k) \/ Wake(k) \/ DialOk(k) \/ DialFail(k)
       \/ Return(k) \/ Invalidate(k) \/ CloseDone(k)
       \/ \E m \in Calls : CloseManager(k, m)
       \/ kind[k] = "use" /\ (SessionOk(k) \/ SessionFail(k))
    /\ UNCHANGED serviceVars

PoolEvent(k) ==
    /\ SessionEnd(k) \/ TransportDies(k) \/ Watch(k)
    /\ UNCHANGED serviceVars

\* The browser closes the connection of a request that is being served.
HangUp(k) ==
    /\ HangUps /\ at[k] \notin {"idle", "done"}
    /\ kind[k] # "use" /\ k \notin hung
    /\ hung' = hung \cup {k}
    /\ UNCHANGED <<vars, storeVars, kind, target, at, copy, form, seen>>

-----------------------------------------------------------------------------
Request(k, s) ==
    \/ Begin(k, s, "connect", "connecting")
    \/ Begin(k, s, "disconnect", "forget")
    \/ Begin(k, s, "delete", "forget")
    \/ Begin(k, s, "test", "loadrow")
    \/ BeginUse(k, s)
    \/ \E i \in Inputs : Create(k, s, i) \/ BeginUpdate(k, s, i)

Handle(k) ==
    \/ WriteConnecting(k) \/ ConnectDone(k) \/ UseDone(k)
    \/ UpsertCredential(k) \/ IconFails(k) \/ Forgotten(k) \/ Save(k) \/ Erase(k)
    \/ LoadRow(k) \/ LoadCred(k) \/ TestDial(k)
    \/ PoolEnter(k) \/ PoolLoadRow(k) \/ PoolLoadCred(k) \/ PoolWork(k)

ServiceNext ==
    \/ \E k \in Calls, s \in Ids : Request(k, s)
    \/ \E k \in Calls : Handle(k) \/ PoolEvent(k) \/ HangUp(k)

ServiceSpec == ServiceInit /\ [][ServiceNext]_allVars

(***************************************************************************)
(* Handlers and watch goroutines keep being scheduled.  Fairness of a dial *)
(* and of opening a session is the assumption that the peer or TCP         *)
(* answers: Dial's 12 seconds bound only the TCP connect.  Nothing says    *)
(* that a session ever ends, that a request ever comes, that a client      *)
(* hangs up or that a transport dies.                                      *)
(***************************************************************************)
ServiceFairness ==
    \A k \in Calls : /\ WF_allVars(Handle(k))
                     /\ WF_allVars(Watch(k) /\ UNCHANGED serviceVars)

ServiceFairSpec == ServiceSpec /\ ServiceFairness

-----------------------------------------------------------------------------
Quiet == \A k \in Calls : at[k] \in {"idle", "done"}

\* A server has a credential exactly as long as it has a row, whichever of
\* Create, Update and Delete meet (store.go:64-87, 138-148, 175-186).
CredentialKept == \A s \in Ids : exists[s] = "live" <=> cred[s] # None

\* What a handler in progress has: its server, its copy of the row unless it
\* only uses the pool, and the secret it is about to store.
HandlerReady ==
    \A k \in Calls :
        /\ at[k] \notin {"idle", "done"} =>
              /\ target[k] # None
              /\ kind[k] = "use" => at[k] = "pool"
              /\ kind[k] # "use" => copy[k] # None
        /\ at[k] = "credential" => form[k] # None /\ HasSecret(form[k])
        /\ at[k] = "loadcred" => seen[k] # None
        /\ pc[k] # "idle" => at[k] # "idle" /\ target[k] # None /\ srv[k] = target[k]

ServiceInv == IInv /\ ServiceTypeOK /\ HandlerReady /\ CredentialKept

\* Every request is answered, or is a Run that still has its session.
RequestsAnswered ==
    \A k \in Calls : at[k] # "idle" ~> at[k] = "done" \/ pc[k] = "session"

\* A row says connecting only while a Connect is under way; the UI disables its
\* Connect button on such a row (ServerCard.tsx:108) and the test of its label
\* says "shows Connecting while a session is starting" (ServerStatus.test.tsx:16).
ConnectingMeansStarting ==
    \A s \in Ids : exists[s] = "live" /\ row[s].status = "connecting" =>
        \E k \in Calls : kind[k] = "connect" /\ target[k] = s /\ at[k] = "pool"

\* docs/architecture.md:166-169, "Create/update - ... pool entry forgotten on
\* change" and "Disconnect / delete - close and remove the pool entry": once
\* all is quiet, what is pooled is a stored server, with the address and secret
\* it is stored with.
PoolFollowsStore ==
    Quiet => \A s \in Ids : sessions[s] # None =>
        /\ exists[s] = "live"
        /\ cfg[sessions[s]].ver =
              [addr |-> row[s].addr, auth |-> row[s].auth, secret |-> cred[s]]
=============================================================================
