------------------------------ MODULE MCMessage -----------------------------
(***************************************************************************)
(* The two message types, Message and NngMessage, for TLC.  They share     *)
(* nothing: a behaviour belongs to one, and the other stays as it began.   *)
(***************************************************************************)
EXTENDS Message, NngMessage

CONSTANT Parts   \* the crates whose message is explored

VARIABLE part    \* the crate this behaviour is of

vars == <<part, messageVars, nngMessageVars>>

Init == part \in Parts /\ MessageInit /\ NngMessageInit

Next ==
  /\ UNCHANGED part
  /\ \/ part = "anng" /\ MessageNext /\ UNCHANGED nngMessageVars
     \/ part = "nng" /\ NngMessageNext /\ UNCHANGED messageVars

Spec == Init /\ [][Next]_vars
=============================================================================
