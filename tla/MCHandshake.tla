------------------------------ MODULE MCHandshake ------------------------------
(* Four accounts: "u" twice with different passwords, one whose name holds the separator. *)
EXTENDS Handshake

MCConfigured ==
    << [username |-> <<"u">>, password |-> "p"],
       [username |-> <<"u">>, password |-> "q"],
       [username |-> <<"v", "t">>, password |-> "p"],
       [username |-> <<"v">>, password |-> "q"] >>
MCForms == {[atyp |-> "v4", len |-> 0], [atyp |-> "v6", len |-> 0], [atyp |-> "odd", len |-> 0]}
           \union [atyp : {"name"}, len : {0, 3}]
MCUsers == {<<"u">>, <<"u", "t">>, <<"u", "">>, <<"v", "t">>, <<"v", "t", "t">>, <<"w">>, <<"">>}
=============================================================================
