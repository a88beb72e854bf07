--------------------------- MODULE MCServerService ---------------------------
(* Small values for checking ServerService.                                 *)
EXTENDS ServerHistory, TLC

MCSecrets == {[auth |-> "password", text |-> 1], [auth |-> "private_key", text |-> 1]}
MCVers == [addr : Addrs, auth : AuthTypes, secret : Secrets]

Form(l, a, auth, secret) == [label |-> l, addr |-> a, auth |-> auth, secret |-> secret]
Password == CHOOSE x \in MCSecrets : x.auth = "password"
Key == CHOOSE x \in MCSecrets : x.auth = "private_key"

\* A first form, a new name only, a new address, and a change to a key.
MCInputs == {Form(1, 1, "password", Password), Form(2, 1, "password", None),
             Form(1, 2, "password", None), Form(1, 1, "private_key", Key)}

Symmetry == Permutations(Calls)
=============================================================================
