---------------------------- MODULE MCWebDesktop ----------------------------
(* Two servers and tabs; two texts; a folder of three rows and one of one; two *)
(* samples of a server and one of the other; three points drawn of up to six; a *)
(* dock of three apps with a hidden one among them; two paths, one on two      *)
(* servers; two grids; two images.                                           *)
EXTENDS WebDesktop
MCBudget == [terminal |-> 5, editor |-> 7, files |-> 4, system |-> 4, charts |-> 4, dock |-> 4, shortcuts |-> 6, settings |-> 3]
MCOrder == <<"a", "b">>
MCPayloads == {[serverId |-> "a", cwd |-> "/srv"], [serverId |-> "b", cwd |-> None]}
MCRowsOf == [r |-> <<"d", "a", "b">>, d |-> <<"x">>]
MCQueries == {{"a", "d"}}
Proc(pid, name, user, running, cpu, memory) ==
  [pid |-> pid, name |-> name, user |-> user, kernel |-> FALSE, running |-> running,
   cpu |-> cpu, memory |-> memory]
Init1 == Proc(1, "init", "root", FALSE, 0, 1)
MCSamples ==
  [a |-> {[processes |-> <<Init1, Proc(2, "db", "me", TRUE, 5, 2), Proc(3, "web", "me", FALSE, 2, 5)>>,
           services |-> [db |-> "running"]],
          [processes |-> <<Init1, Proc(2, "db", "me", FALSE, 1, 2)>>, services |-> [db |-> "stopped"]]},
   b |-> {[processes |-> <<Proc(2, "web", "me", TRUE, 3, 3)>>, services |-> [web |-> "failed"]]}]
MCSearches == {{"db"}}
MCViews == {<<"a">>, <<"b">>, <<"a", "b">>}
Points(times, owned) ==
  SelectSeq([i \in 1..8 |-> [t |-> i, own |-> owned]], LAMBDA p : p.t \in times)
\* What the collector took, by a clock that may be ahead, and the window's own.
MCHistories ==
  {[a |-> Points(x[1], FALSE) \o Points(x[2], TRUE), b |-> Points(y, FALSE)] :
     x \in {<<{}, {}>>, <<3..7, {6}>>, <<{1, 2}, {4, 6}>>}, y \in {{5}, 3..7}}
MCRangeOf == <<6, 2>>
MCAppIds == <<"servers", "files", "domains", "settings">>
MCOldOrders == {<<"settings", "trash", "settings", "servers">>}
MCFolders == {[path |-> "/p", serverId |-> "a"], [path |-> "/p", serverId |-> "b"],
              [path |-> "/q", serverId |-> "a"]}
MCGrids == {[cols |-> 2, rows |-> 2], [cols |-> 1, rows |-> 2]}
At(p, s, c) == [path |-> p, serverId |-> s, cell |-> c]
MCStored == {<<At("/p", "a", None), At("/q", "a", None)>>,
             <<At("/p", "a", [col |-> 1, row |-> 1]), At("/q", "a", [col |-> 1, row |-> 1]),
               At("/p", "a", None)>>, <<>>}
MCDefault == [light |-> "valley", dark |-> "crescent"]
MCRange == [min |-> 0, max |-> 2]
=============================================================================
