------------------------------ MODULE MCPubSub ------------------------------
(* PubSub and Direct for TLC, one in each behaviour.  Topics and contents  *)
(* are over two letters, such that topics overlap and some contents match  *)
(* neither.                                                                *)
EXTENDS PubSub, Direct

VARIABLE part

MCTopics   == {<<"a">>, <<"a", "b">>}
MCContents == {<<"a", "b">>, <<"a">>, <<"b">>}

Init ==
  /\ part \in {"pubsub", "direct"}
  /\ PubSubInit
  /\ DirectInit /\ (part = "pubsub" => proto = "pair1")

Next ==
  \/ part = "pubsub" /\ PubSubNext /\ UNCHANGED <<part, directVars>>
  \/ part = "direct" /\ DirectNext /\ UNCHANGED <<part, pubSubVars>>

Spec == Init /\ [][Next]_<<part, pubSubVars, directVars>>
=============================================================================
