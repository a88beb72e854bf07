------------------------------ MODULE MCWindows ------------------------------
(* The windows of two apps, of which Files has one per server, in a large and *)
(* a small browser window.                                                    *)
EXTENDS Windows
P(s) == [serverId |-> s, filePath |-> None, info |-> FALSE]
MCAsks == {[app |-> "files", payload |-> P("a")],
           [app |-> "terminal", payload |-> None], [app |-> "terminal", payload |-> P("a")]}
MCMeta == [files |-> [width |-> 900, height |-> 600], terminal |-> [width |-> 800, height |-> 480]]
MCViewports == {[width |-> 1440, height |-> 900], [width |-> 640, height |-> 480]}
MCPoints == {-2000, 2000}
MCEdges == {{"s", "e"}, {"n", "w"}}
=============================================================================
