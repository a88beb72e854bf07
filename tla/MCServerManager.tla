---------------------------- MODULE MCServerManager ----------------------------
(* Values for ServerManager's constants that a cfg cannot write.             *)
EXTENDS ServerManager

Filled(name, host, auth, password, key) ==
    [name |-> name, host |-> host, port |-> "one", username |-> "one",
     auth |-> auth, password |-> password, privateKey |-> key]

\* The blank form, two saved ones as they open, one that may be tested and not
\* saved, and one that may be saved.
MCForms ==
    { Filled("", "", "password", "", ""),
      Filled("one", "one", "password", "", ""), Filled("one", "one", "private_key", "", ""),
      Filled("", "one", "password", "one", ""), Filled("one", "one", "password", "one", "") }
=============================================================================
