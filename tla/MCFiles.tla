------------------------------- MODULE MCFiles -------------------------------
(* Two servers, each with a file x, and a folder d with another x on one.     *)
EXTENDS Files
x == <<"x">>
d == <<"d">>
MCDisk == [a |-> (<<x>> :> "f1" @@ <<d>> :> "dir" @@ <<d, x>> :> "f2"), b |-> (<<x>> :> "f3")]
MCHome == [s \in {"a", "b"} |-> <<>>]
MCRoot == <<>>
MCNames == {<<"y">>}
MCArchives == {x, <<"y">>}
=============================================================================
