----------------------------- MODULE ServerManager -----------------------------
(***************************************************************************)
(* The Servers window (apps/web/src/components/apps/servers) with its form *)
(* (server-selection/AddServerModal.tsx) and the form's rules              *)
(* (lib/server-validation.ts).  Requests run while the user goes on: a     *)
(* form may be closed or opened again before the answer of an earlier one. *)
(*                                                                         *)
(*  - A field's text is its kind: missing, malformed or one of the values  *)
(*    told apart.  Forms lists the contents a user may reach.              *)
(*  - Wording, layout, the chosen icon, the view, the tab and the error    *)
(*    texts are not modelled.                                              *)
(*  - The session is external: rows come and go, and answers are yes or    *)
(*    no.  Where they go is modelled in WebSession.                        *)
(***************************************************************************)
EXTENDS Naturals, FiniteSets

CONSTANTS
    ServerIds,        \* servers
    Forms,      \* what a user may have typed
    Slots,      \* bound: saves, and tests of a form, under way at once
    MaxTests,   \* bound: tests of one saved server under way at once
    None

AuthMethod == {"password", "private_key"}
Text == {"", "bad", "one", "two"}
Form == [name : Text, host : Text, port : Text, username : Text,
         auth : AuthMethod, password : {"", "one"}, privateKey : Text]
Drafts == {"add"} \cup ServerIds

ASSUME ManagerAssumption ==
    /\ Forms \subseteq Form /\ Forms # {} /\ MaxTests \in Nat
    /\ None \notin Drafts /\ "add" \notin ServerIds /\ IsFiniteSet(Slots)

VARIABLES
    listed,         \* the session's servers
    matching,       \* the servers the search box lets through
    selectedId,
    draft,          \* adding: "add"; editing: that server; else None
    savedAuth,      \* authType of the Server the form was opened with
    values,         \* the fields of the form
    iconError,      \* its image could not be read
    reads,          \* files being read
    test,           \* the state of Test Connection
    formTests,      \* its requests under way
    formBusy,
    saves,          \* creates and updates under way
    deleting, deleteBusy, deletes,
    testingId, testMessage, tests

formVars == <<savedAuth, values, iconError, reads, test, formTests>>
deleteVars == <<deleting, deleteBusy, deletes>>
testVars == <<testingId, testMessage, tests>>
saveVars == <<formBusy, saves>>
listVars == <<listed, matching>>
managerVars == <<listVars, selectedId, draft, formVars, saveVars, deleteVars, testVars>>

-----------------------------------------------------------------------------
(* The form's rules                                                         *)

\* hostError, portError, usernameError and nameError, which reject an empty
\* and a malformed text.
hostError(f) == f.host \in {"", "bad"}
portError(f) == f.port \in {"", "bad"}
usernameError(f) == f.username \in {"", "bad"}
nameError(f) == f.name \in {"", "bad"}

\* secretError: a new server needs a secret, and so does another method; a key
\* that is there must be whole.
secretError(f, edit, was) ==
    IF f.auth = "password"
    THEN f.password = "" /\ (~edit \/ was # f.auth)
    ELSE \/ f.privateKey = "bad"
         \/ f.privateKey = "" /\ (~edit \/ was # f.auth)

validateServerForm(f, edit, was, scope) ==
    /\ scope = "save" => ~nameError(f)
    /\ ~hostError(f) /\ ~portError(f) /\ ~usernameError(f)
    /\ ~secretError(f, edit, was)

\* fieldsKey: everything Test Connection sends.
fieldsKey(f) == <<f.host, f.port, f.username, f.auth, f.password, f.privateKey>>
Key == {fieldsKey(f) : f \in Forms}
FormTest == [key : Key, at : {"sent", "body"}]

ASSUME NoneAssumption == None \notin FormTest

-----------------------------------------------------------------------------
(* What is on the screen                                                    *)

editing == draft \in ServerIds

\* The list as searched; the first row stands in for a selection that is gone.
visible == listed \cap matching
Selected(s) == IF selectedId \in visible THEN s = selectedId ELSE s \in visible

\* The pane of the selected server, with its buttons; the form takes its place.
DetailShown(s) == draft = None /\ Selected(s)

visibleAny(k) == test                                                   \* mutant
visibleTest(k) == IF test # None /\ test.key = k THEN test ELSE None
shownTest == visibleTest(fieldsKey(values))

-----------------------------------------------------------------------------

NoTests == [n \in Slots |-> None]

Blank == CHOOSE f \in Forms : TRUE

\* A form is mounted anew for every draft, and its fields are the server's.
Mounted(d) ==
    /\ draft' = d
    /\ savedAuth' \in (IF d \in ServerIds THEN AuthMethod ELSE {None})
    /\ \E f \in Forms :
          /\ d = "add" => f.name = "" /\ f.host = ""
          /\ f.password = "" /\ f.privateKey = ""
          /\ d \in ServerIds => f.auth = savedAuth' /\ f.name # ""
          /\ values' = f
    /\ iconError' = FALSE /\ reads' = 0
    /\ test' = None /\ formTests' = NoTests

\* Closing it aborts its test; answers no longer reach it.
Unmounted ==
    /\ draft' = None /\ savedAuth' = None
    /\ test' = None /\ formTests' = NoTests
    /\ reads' = 0 /\ iconError' = FALSE
    /\ values' = Blank

startAdd ==
    /\ draft # "add" /\ Mounted("add")
    /\ UNCHANGED <<listVars, selectedId, formBusy, saves, deleteVars, testVars>>

startEdit(s) ==
    /\ DetailShown(s) /\ Mounted(s)
    /\ UNCHANGED <<listVars, selectedId, formBusy, saves, deleteVars, testVars>>

\* Cancel, the close button and Escape: a save that is under way goes on.
BusyDropped == FALSE                                                    \* mutant
BusyAfterCancel == formBusy

cancelDraft ==
    /\ draft # None /\ Unmounted
    /\ formBusy' = BusyAfterCancel
    /\ UNCHANGED <<listVars, selectedId, saves, deleteVars, testVars>>

selectServer(s) ==
    /\ s \in visible /\ selectedId' = s
    /\ IF draft # None THEN Unmounted ELSE UNCHANGED <<draft, formVars>>
    /\ UNCHANGED <<listVars, formBusy, saves, deleteVars, testVars>>

Typed ==
    /\ draft # None
    /\ values' \in Forms \ {values}
    /\ UNCHANGED <<listVars, selectedId, draft, savedAuth, iconError, reads, test,
                    formTests, saveVars, deleteVars, testVars>>

-----------------------------------------------------------------------------
(* The icon                                                                 *)

iconUnchanged == <<listVars, selectedId, draft, savedAuth, values, test, formTests,
                   saveVars, deleteVars, testVars>>

\* A preset, or "Remove Image".
selectIcon ==
    /\ draft # None /\ iconError' = FALSE
    /\ UNCHANGED <<reads, iconUnchanged>>

chooseIconFile ==
    /\ draft # None /\ reads = 0 /\ reads' = 1 /\ iconError' = FALSE
    /\ UNCHANGED iconUnchanged

\* readServerLogo has the file, whatever the user has chosen in the meantime.
iconRead ==
    /\ reads = 1 /\ reads' = 0
    /\ \/ iconError' = TRUE
       \/ UNCHANGED iconError
    /\ UNCHANGED iconUnchanged

-----------------------------------------------------------------------------
(* Test Connection, in the form                                             *)

testUnchanged == <<listVars, selectedId, draft, savedAuth, values, iconError, reads,
                   saveVars, deleteVars, testVars>>

\* abort() ends a request that has no answer yet and leaves a body that is
\* arriving alone: apiRequest listens no longer.
Aborted == [n \in Slots |-> IF formTests[n] # None /\ formTests[n].at = "sent"
                            THEN None ELSE formTests[n]]

runTest ==
    /\ draft # None /\ ~formBusy /\ (shownTest # None => shownTest.status # "testing")
    /\ IF validateServerForm(values, editing, savedAuth, "connection")
       THEN \E n \in Slots :
               /\ Aborted[n] = None
               /\ formTests' = [Aborted EXCEPT ![n] = [key |-> fieldsKey(values), at |-> "sent"]]
               /\ test' = [key |-> fieldsKey(values), of |-> fieldsKey(values),
                           status |-> "testing"]
       ELSE UNCHANGED <<test, formTests>>
    /\ UNCHANGED testUnchanged

testHeaders(n) ==
    /\ formTests[n] # None /\ formTests[n].at = "sent"
    /\ formTests' = [formTests EXCEPT ![n].at = "body"]
    /\ UNCHANGED <<test, testUnchanged>>

\* The result is kept with the fields it was asked for.
testAnswered(n) ==
    /\ formTests[n] # None
    /\ \E r \in {"ok", "fail"} :
          /\ r = "ok" => formTests[n].at = "body"
          /\ test' = [key |-> formTests[n].key, of |-> formTests[n].key, status |-> r]
    /\ formTests' = [formTests EXCEPT ![n] = None]
    /\ UNCHANGED testUnchanged

-----------------------------------------------------------------------------
(* Saving                                                                   *)

\* submit, and onAdd or onEdit.
submit(connect) ==
    /\ draft # None /\ ~formBusy /\ ~iconError
    /\ connect => draft = "add" /\ listed = {}
    /\ IF validateServerForm(values, editing, savedAuth, "save")
       THEN \E n \in Slots :
               /\ saves[n] = None
               /\ saves' = [saves EXCEPT ![n] = draft]
               /\ formBusy' = TRUE
       ELSE UNCHANGED saveVars
    /\ UNCHANGED <<listVars, selectedId, draft, savedAuth, values, iconError, reads, test,
                   formTests, deleteVars, testVars>>

\* The answer to a create closes the form for a new server, the answer to an
\* update the form for whichever server is being edited by then.
saved(n) ==
    /\ saves[n] # None
    /\ saves' = [saves EXCEPT ![n] = None]
    /\ formBusy' = FALSE
    /\ \/ /\ saves[n] = "add"
          /\ \E s \in ServerIds \ listed :
                /\ listed' = listed \cup {s} /\ selectedId' = s
          /\ IF draft = "add" THEN Unmounted ELSE UNCHANGED <<draft, formVars>>
       \/ /\ saves[n] \in ServerIds
          /\ IF draft \in ServerIds THEN Unmounted ELSE UNCHANGED <<draft, formVars>>
          /\ UNCHANGED <<listed, selectedId>>
    /\ UNCHANGED <<matching, deleteVars, testVars>>

saveFailed(n) ==
    /\ saves[n] # None
    /\ saves' = [saves EXCEPT ![n] = None]
    /\ formBusy' = FALSE
    /\ UNCHANGED <<listVars, selectedId, draft, formVars, deleteVars, testVars>>

-----------------------------------------------------------------------------
(* Deleting, and testing a saved server                                     *)

menuDelete(s) ==
    /\ s \in listed /\ deleting = None /\ deleting' = s
    /\ UNCHANGED <<listVars, selectedId, draft, formVars, saveVars, deleteBusy, deletes, testVars>>

cancelDelete ==
    /\ deleting # None /\ deleting' = None
    /\ UNCHANGED <<listVars, selectedId, draft, formVars, saveVars, deleteBusy, deletes, testVars>>

\* The selection is compared as it was when Delete was pressed.
onDelete ==
    /\ deleting # None /\ ~deleteBusy /\ deleteBusy' = TRUE
    /\ deletes' = deletes \cup {[id |-> deleting, sel |-> selectedId = deleting]}
    /\ UNCHANGED <<listVars, selectedId, draft, formVars, saveVars, deleting, testVars>>

deleteAnswered(d) ==
    /\ d \in deletes /\ deletes' = deletes \ {d} /\ deleteBusy' = FALSE
    /\ \/ /\ listed' = listed \ {d.id} /\ deleting' = None
          /\ selectedId' = IF d.sel THEN None ELSE selectedId
       \/ UNCHANGED <<listed, deleting, selectedId>>
    /\ UNCHANGED <<matching, draft, formVars, saveVars, testVars>>

onTest(s) ==
    /\ DetailShown(s) /\ testingId # s /\ tests[s] < MaxTests
    /\ testingId' = s
    /\ testMessage' = [testMessage EXCEPT ![s] = "Connecting"]
    /\ tests' = [tests EXCEPT ![s] = @ + 1]
    /\ UNCHANGED <<listVars, selectedId, draft, formVars, saveVars, deleteVars>>

\* Whichever test ends, the one mark of a running test is taken away.
tested(s) ==
    /\ tests[s] > 0
    /\ tests' = [tests EXCEPT ![s] = @ - 1]
    /\ testMessage' = [testMessage EXCEPT ![s] = "result"]
    /\ testingId' = None
    /\ UNCHANGED <<listVars, selectedId, draft, formVars, saveVars, deleteVars>>

\* The session's list: rows come and go.
Refreshed ==
    /\ listed' \in SUBSET ServerIds
    /\ UNCHANGED <<matching, selectedId, draft, formVars, saveVars, deleteVars, testVars>>

Search ==
    /\ matching' \in SUBSET ServerIds
    /\ UNCHANGED <<listed, selectedId, draft, formVars, saveVars, deleteVars, testVars>>

-----------------------------------------------------------------------------

ManagerInit ==
    /\ listed = {} /\ matching = ServerIds
    /\ selectedId = None /\ draft = None
    /\ savedAuth = None /\ values = Blank
    /\ iconError = FALSE /\ reads = 0
    /\ test = None /\ formTests = NoTests
    /\ formBusy = FALSE /\ saves = NoTests
    /\ deleting = None /\ deleteBusy = FALSE /\ deletes = {}
    /\ testingId = None /\ testMessage = [s \in ServerIds |-> "none"] /\ tests = [s \in ServerIds |-> 0]

ManagerNext ==
    \/ startAdd \/ cancelDraft \/ Typed \/ selectIcon \/ chooseIconFile \/ iconRead
    \/ runTest \/ cancelDelete \/ onDelete \/ Refreshed \/ Search
    \/ \E connect \in BOOLEAN : submit(connect)
    \/ \E n \in Slots : testHeaders(n) \/ testAnswered(n) \/ saved(n) \/ saveFailed(n)
    \/ \E s \in ServerIds : startEdit(s) \/ selectServer(s) \/ menuDelete(s) \/ onTest(s) \/ tested(s)
    \/ \E d \in deletes : deleteAnswered(d)

ManagerSpec == ManagerInit /\ [][ManagerNext]_managerVars

-----------------------------------------------------------------------------
(* What is checked                                                          *)

ManagerTypeOK ==
    /\ listed \subseteq ServerIds /\ matching \subseteq ServerIds
    /\ selectedId \in ServerIds \cup {None} /\ draft \in Drafts \cup {None}
    /\ savedAuth \in AuthMethod \cup {None} /\ values \in Forms
    /\ iconError \in BOOLEAN /\ reads \in 0..1
    /\ test \in {None} \cup [key : Key, of : Key, status : {"testing", "ok", "fail"}]
    /\ formTests \in [Slots -> {None} \cup FormTest]
    /\ formBusy \in BOOLEAN /\ saves \in [Slots -> {None} \cup Drafts]
    /\ deleting \in ServerIds \cup {None} /\ deleteBusy \in BOOLEAN
    /\ deletes \subseteq [id : ServerIds, sel : BOOLEAN]
    /\ testingId \in ServerIds \cup {None}
    /\ testMessage \in [ServerIds -> {"none", "Connecting", "result"}]
    /\ tests \in [ServerIds -> 0..MaxTests]

\* At most one save and one delete are under way, however often the form or the
\* dialog is closed and opened again, and the buttons are disabled exactly
\* while they are (ServerManager.tsx: formBusy, deleteBusy).
OneAtATime ==
    /\ Cardinality({n \in Slots : saves[n] # None}) = (IF formBusy THEN 1 ELSE 0)
    /\ Cardinality(deletes) = (IF deleteBusy THEN 1 ELSE 0)

\* "Testing" and "Connecting" are shown only while a test is under way that
\* will end them: the paths that return early leave no spinner behind
\* (AddServerModal.tsx runTest, ServerManager.tsx onTest).
Spinners ==
    /\ test # None /\ test.status = "testing" =>
          \E n \in Slots : formTests[n] # None /\ formTests[n].key = test.key
    /\ \A s \in ServerIds : testMessage[s] = "Connecting" => tests[s] > 0

ManagerInv == ManagerTypeOK /\ OneAtATime /\ Spinners

\* A test result is shown only beside the details that were tested, and only in
\* an open form (AddServerModal.tsx: "the result is hidden once they change"),
\* although fields change and forms close while tests are under way.
ShownTestMatches ==
    shownTest # None => draft # None /\ shownTest.of = fieldsKey(values)
=============================================================================
