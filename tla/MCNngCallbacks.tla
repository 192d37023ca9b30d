--------------------------- MODULE MCNngCallbacks ---------------------------
(* NngAio and PipeNotify for TLC: the two callbacks the nng crate hands to *)
(* NNG, one in each behaviour.                                             *)
EXTENDS NngAio, PipeNotify

VARIABLE callback

allVars == <<callback, vars, notifyVars>>

\* One of NngAio's initial states is enough where it takes no step.
CallbackInit ==
  /\ callback \in {"aio", "pipe"}
  /\ Init /\ NotifyInit
  /\ callback = "pipe" => /\ \A m \in Msgs : where[m] = "app"
                          /\ at[CHOOSE t \in Threads : TRUE] = "in"

CallbackNext ==
  \/ callback = "aio" /\ Next /\ UNCHANGED <<callback, notifyVars>>
  \/ callback = "pipe" /\ NotifyNext /\ UNCHANGED <<callback, vars>>

CallbackSpec ==
  CallbackInit /\ [][CallbackNext]_allVars /\ Fairness /\ NotifyFairness
=============================================================================
