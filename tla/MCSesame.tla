------------------------------ MODULE MCSesame ------------------------------
(* Alice and Bob, one device each *)
EXTENDS Sesame

MCNode == {<<"alice", 1>>, <<"bob", 1>>}
MCRecipients == [n \in MCNode |-> IF n[1] = "alice" THEN <<"bob">> ELSE <<"alice">>]
MCMaxSends == [n \in MCNode |-> 2]
=============================================================================
