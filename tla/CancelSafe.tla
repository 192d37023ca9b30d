----------------------------- MODULE CancelSafe -----------------------------
(***************************************************************************)
(* What an anng handle promises about messages (the documentation of       *)
(* Socket and ContextfulSocket, "Cancellation safety"), without its Aio:   *)
(*                                                                         *)
(*   - a call is made on an idle handle, and one at a time;                *)
(*   - a send that returns Ok was accepted by NNG, one that returns an     *)
(*     error gives the message back;                                       *)
(*   - an abandoned send is accepted or its message is dropped;            *)
(*   - received messages are returned in order, each once, none missing,   *)
(*     whether or not receives are abandoned on the way.                   *)
(***************************************************************************)
EXTENDS Naturals, Sequences

CONSTANTS Out, MaxIn

VARIABLES
  call,      \* what the handle is used for
  fate,      \* where each outgoing message is
  arrived,   \* how many messages may be received
  got        \* the received messages, as the application saw them

absVars == <<call, fate, arrived, got>>

Calls == {"none", "send", "recv", "abandoned", "closed"}
Fates == {"app", "pending", "sent", "dropped"}

AbsInit ==
  /\ call = "none"
  /\ fate = [m \in Out |-> "app"]
  /\ arrived = 0
  /\ got = <<>>

\* Every pending message moves on to f, every other one stays.
PendingTo(f) == [m \in Out |-> IF fate[m] = "pending" THEN f ELSE fate[m]]

StartSend(m) ==
  /\ call = "none"
  /\ fate[m] = "app"
  /\ call' = "send"
  /\ fate' = [fate EXCEPT ![m] = "pending"]
  /\ UNCHANGED <<arrived, got>>

StartRecv ==
  /\ call = "none"
  /\ call' = "recv"
  /\ UNCHANGED <<fate, arrived, got>>

\* NNG accepts the message, before or after the call is abandoned.
Accept ==
  /\ call \in {"send", "abandoned"}
  /\ \E m \in Out : fate[m] = "pending"
  /\ fate' = PendingTo("sent")
  /\ UNCHANGED <<call, arrived, got>>

SendReturnsOk ==
  /\ call = "send"
  /\ \A m \in Out : fate[m] # "pending"
  /\ call' = "none"
  /\ UNCHANGED <<fate, arrived, got>>

SendReturnsErr ==
  /\ call = "send"
  /\ \E m \in Out : fate[m] = "pending"
  /\ call' = "none"
  /\ fate' = PendingTo("app")
  /\ UNCHANGED <<arrived, got>>

RecvReturnsErr ==
  /\ call = "recv"
  /\ call' = "none"
  /\ UNCHANGED <<fate, arrived, got>>

\* A receive, pending or immediate, returns the next message.
RecvReturnsOk ==
  /\ call \in {"none", "recv"}
  /\ Len(got) < arrived
  /\ call' = "none"
  /\ got' = Append(got, Len(got) + 1)
  /\ UNCHANGED <<fate, arrived>>

Abandon ==
  /\ call \in {"send", "recv"}
  /\ call' = "abandoned"
  /\ UNCHANGED <<fate, arrived, got>>

Settle ==
  /\ call = "abandoned"
  /\ call' = "none"
  /\ fate' = PendingTo("dropped")
  /\ UNCHANGED <<arrived, got>>

MessageArrives ==
  /\ call # "closed"
  /\ arrived < MaxIn
  /\ arrived' = arrived + 1
  /\ UNCHANGED <<call, fate, got>>

Close ==
  /\ call = "none"
  /\ call' = "closed"
  /\ UNCHANGED <<fate, arrived, got>>

AbsNext ==
  \/ \E m \in Out : StartSend(m)
  \/ StartRecv
  \/ Accept
  \/ SendReturnsOk
  \/ SendReturnsErr
  \/ RecvReturnsErr
  \/ RecvReturnsOk
  \/ Abandon
  \/ Settle
  \/ MessageArrives
  \/ Close

AbsSpec == AbsInit /\ [][AbsNext]_absVars
=============================================================================
