------------------------------- MODULE NngAio -------------------------------
(***************************************************************************)
(* The callback style Aio of the nng crate (nng/src/aio.rs): an Arc<Inner> *)
(* around an nng_aio, whose atomic `state` admits one operation at a time. *)
(* NNG runs the bounce closure on its own threads when an operation ends.  *)
(* The closure holds only a Weak reference: it upgrades it, works out the  *)
(* result, sets the state back to Inactive and calls the user's callback,  *)
(* passing it the upgraded Aio by value.                                   *)
(*                                                                         *)
(* The actors are Threads of the program and Slots, activations of the     *)
(* callback.  Both may use the Aio while they hold a reference to it.      *)
(***************************************************************************)
EXTENDS Naturals, FiniteSets

CONSTANTS Threads,   \* threads of the program that may hold an Aio
          Slots,     \* bound on callback activations in progress at once
          Msgs,      \* messages, on either side of the socket
          MaxOps,    \* bound on the operations started
          NULL       \* the null message pointer

ASSUME ActorAssumption ==
  Threads # {} /\ IsFiniteSet(Threads \cup Slots) /\ Threads \cap Slots = {}
ASSUME MsgAssumption == NULL \notin Msgs
ASSUME OpsAssumption == MaxOps \in Nat

Actors == Threads \cup Slots
Ops    == {"Sending", "Receiving", "Sleeping"}

VARIABLES
  at,         \* where each actor is
  state,      \* Inner::state
  nng,        \* the nng_aio (external): "idle", "pending" or "finished"
  nngOp,      \* the operation it was last started for
  result,     \* nng_aio_result
  aioMsg,     \* nng_aio_get_msg
  where,      \* the owner of each message
  started,    \* operations started
  delivered,  \* results passed to the user's callback
  freed       \* nng_aio and closure were freed

vars == <<at, state, nng, nngOp, result, aioMsg, where, started, delivered,
          freed>>

(***************************************************************************)
(* at[a]: "out" without a reference, or a slot not in use; "in" holds a    *)
(* reference; one of Ops: has won the compare_exchange for that operation  *)
(* and not called NNG yet; "timeout": inside set_timeout; "stop": dropped  *)
(* the last reference and is inside Inner::drop.  A slot may also be       *)
(* "entered" (called by NNG) or "upgraded" (weak.upgrade succeeded).       *)
(***************************************************************************)
Places == Ops \cup {"out", "in", "timeout", "stop", "entered", "upgraded"}

TypeOK ==
  /\ at \in [Actors -> Places]
  /\ state \in Ops \cup {"Inactive"}
  /\ nng \in {"idle", "pending", "finished"}
  /\ nngOp \in Ops
  /\ result \in {"OK", "FAILED"}
  /\ aioMsg \in Msgs \cup {NULL}
  /\ where \in [Msgs -> {"app", "call", "aio", "nng", "leaked"}]
  /\ started \in 0..MaxOps
  /\ delivered \in 0..MaxOps
  /\ freed \in BOOLEAN

\* Aio::new has returned: one thread holds the only strong reference.
Init ==
  /\ \E t \in Threads :
       at = [a \in Actors |-> IF a = t THEN "in" ELSE "out"]
  /\ state = "Inactive"
  /\ nng = "idle"
  /\ nngOp = "Sleeping"
  /\ result = "OK"
  /\ aioMsg = NULL
  /\ where \in [Msgs -> {"app", "nng"}]
  /\ started = 0
  /\ delivered = 0
  /\ freed = FALSE

Go(a, p) == at' = [at EXCEPT ![a] = p]
Move(m, o) == where' = [where EXCEPT ![m] = o]

\* The owners of strong references to Inner.
Holders == {a \in Actors : at[a] \notin {"out", "entered", "stop"}}

-----------------------------------------------------------------------------
(* The operations.  Definitions named Faulty... are seeded faults.         *)

FaultyExchange(k) == state' = k

\* compare_exchange(Inactive, k); failure is Error::IncorrectState.
CompareExchange(k) == state = "Inactive" /\ state' = k

\* The checked half of send_socket, send_ctx, recv_socket, recv_ctx, sleep.
Begin(a, k) ==
  /\ at[a] = "in"
  /\ started < MaxOps
  /\ CompareExchange(k)
  /\ Go(a, k)
  /\ \/ k = "Sending" /\ \E m \in Msgs : where[m] = "app" /\ Move(m, "call")
     \/ k # "Sending" /\ UNCHANGED where
  /\ started' = started + 1
  /\ UNCHANGED <<nng, nngOp, result, aioMsg, delivered, freed>>

\* The rest of it: nng_aio_set_msg for a send, then the call into NNG.
Invoke(a, k) ==
  /\ at[a] = k
  /\ Go(a, "in")
  /\ nng' = "pending"
  /\ nngOp' = k
  /\ \/ /\ k = "Sending"
        /\ \E m \in Msgs : where[m] = "call" /\ Move(m, "aio") /\ aioMsg' = m
     \/ k # "Sending" /\ UNCHANGED <<where, aioMsg>>
  /\ UNCHANGED <<state, result, started, delivered, freed>>

\* set_timeout: hold the state while the nng_aio is changed ...
SetTimeoutBegin(a) ==
  /\ at[a] = "in"
  /\ CompareExchange("Sleeping")
  /\ Go(a, "timeout")
  /\ UNCHANGED <<nng, nngOp, result, aioMsg, where, started, delivered, freed>>

\* ... and release it.
SetTimeoutEnd(a) ==
  /\ at[a] = "timeout"
  /\ state' = "Inactive"
  /\ Go(a, "in")
  /\ UNCHANGED <<nng, nngOp, result, aioMsg, where, started, delivered, freed>>

\* cancel, which does nothing unless NNG is working on an operation.
Cancel(a) ==
  /\ at[a] = "in"
  /\ nng = "pending"
  /\ nng' = "finished"
  /\ result' = "FAILED"
  /\ UNCHANGED <<at, state, nngOp, aioMsg, where, started, delivered, freed>>

\* Clone for Aio: another thread gets a reference.
CloneTo(a, t) ==
  /\ at[a] = "in"
  /\ at[t] = "out"
  /\ Go(t, "in")
  /\ UNCHANGED <<state, nng, nngOp, result, aioMsg, where, started, delivered,
                 freed>>

FaultyStopOperation == UNCHANGED <<nng, result>>

\* nng_aio_stop ends the operation NNG is working on, if any.
StopOperation ==
  /\ nng' = IF nng = "pending" THEN "finished" ELSE nng
  /\ result' = IF nng = "pending" THEN "FAILED" ELSE result

(***************************************************************************)
(* An actor drops its reference; a callback thereby returns.  The last one *)
(* enters Inner::drop, where nng_aio_stop ends the pending operation.      *)
(***************************************************************************)
DropRef(a) ==
  /\ at[a] = "in"
  /\ \/ Holders # {a} /\ Go(a, "out") /\ UNCHANGED <<nng, result>>
     \/ Holders = {a} /\ Go(a, "stop") /\ StopOperation
  /\ UNCHANGED <<state, nngOp, aioMsg, where, started, delivered, freed>>

FaultyStop(a) == at[a] = "stop"

\* nng_aio_stop returns once no callback is scheduled or in progress.
NngAioStop(a) ==
  /\ at[a] = "stop"
  /\ nng = "idle"
  /\ \A c \in Slots : at[c] = "out"

\* The rest of Inner::drop: free the nng_aio and the closure.
FreeInner(a) ==
  /\ NngAioStop(a)
  /\ Go(a, "out")
  /\ freed' = TRUE
  /\ UNCHANGED <<state, nng, nngOp, result, aioMsg, where, started, delivered>>

-----------------------------------------------------------------------------
(* NNG (external).                                                         *)

FinishOk ==
  /\ nng = "pending"
  /\ nng' = "finished"
  /\ result' = "OK"
  /\ \/ nngOp = "Sending" /\ Move(aioMsg, "nng") /\ UNCHANGED aioMsg
     \/ /\ nngOp = "Receiving"
        /\ \E m \in Msgs : where[m] = "nng" /\ Move(m, "aio") /\ aioMsg' = m
     \/ nngOp = "Sleeping" /\ UNCHANGED <<where, aioMsg>>
  /\ UNCHANGED <<at, state, nngOp, started, delivered, freed>>

FinishErr ==
  /\ nng = "pending"
  /\ nng' = "finished"
  /\ result' = "FAILED"
  /\ UNCHANGED <<at, state, nngOp, aioMsg, where, started, delivered, freed>>

\* The trampoline is run twice for one operation.
FaultyDispatch(c) ==
  /\ nng = "finished"
  /\ at[c] = "out"
  /\ Go(c, "entered")
  /\ UNCHANGED <<state, nng, nngOp, result, aioMsg, where, started, delivered,
                 freed>>

\* An NNG thread calls the trampoline and with it the bounce closure.
Dispatch(c) ==
  /\ nng = "finished"
  /\ at[c] = "out"
  /\ nng' = "idle"
  /\ Go(c, "entered")
  /\ UNCHANGED <<state, nngOp, result, aioMsg, where, started, delivered,
                 freed>>

-----------------------------------------------------------------------------
(* The bounce closure.                                                     *)

\* A closure that gives up although the Aio is still in use.
FaultyUpgrade(c) ==
  /\ at[c] = "entered"
  /\ Go(c, "out")
  /\ UNCHANGED <<state, nng, nngOp, result, aioMsg, where, started, delivered,
                 freed>>

(***************************************************************************)
(* weak.upgrade(): without a strong reference left the closure returns at  *)
(* once, and nobody will take the message in the nng_aio.                  *)
(***************************************************************************)
Upgrade(c) ==
  /\ at[c] = "entered"
  /\ \/ Holders # {} /\ Go(c, "upgraded") /\ UNCHANGED where
     \/ /\ Holders = {}
        /\ Go(c, "out")
        /\ where' = [m \in Msgs |-> IF where[m] = "aio" THEN "leaked"
                                    ELSE where[m]]
  /\ UNCHANGED <<state, nng, nngOp, result, aioMsg, started, delivered, freed>>

\* The result of a failed send does not give the message back.
FaultyCarries == state = "Receiving" /\ result = "OK"

\* The AioResult carries the message of a failed send or of a receive.
CarriesMessage ==
  \/ state = "Sending" /\ result # "OK"
  \/ state = "Receiving" /\ result = "OK"

\* From the load of the state to the call of the user's callback.
Bounce(c) ==
  /\ at[c] = "upgraded"
  /\ state' = "Inactive"
  /\ Go(c, "in")
  /\ IF CarriesMessage THEN Move(aioMsg, "app") ELSE UNCHANGED where
  /\ delivered' = delivered + 1
  /\ UNCHANGED <<nng, nngOp, result, aioMsg, started, freed>>

-----------------------------------------------------------------------------
Use(a) ==
  \/ \E k \in Ops : Begin(a, k) \/ Invoke(a, k)
  \/ SetTimeoutBegin(a)
  \/ SetTimeoutEnd(a)
  \/ Cancel(a)
  \/ \E t \in Threads : CloneTo(a, t)
  \/ DropRef(a)
  \/ FreeInner(a)

Library == FinishOk \/ FinishErr

Closure(c) == Dispatch(c) \/ Upgrade(c) \/ Bounce(c)

Next ==
  \/ \E a \in Actors : Use(a)
  \/ Library
  \/ \E c \in Slots : Closure(c)

Spec == Init /\ [][Next]_vars

(***************************************************************************)
(* Fairness: NNG runs scheduled callbacks, threads leave the library's     *)
(* functions, and a user's callback returns, as its documentation demands. *)
(***************************************************************************)
Fairness ==
  /\ \A c \in Slots : WF_vars(Closure(c)) /\ WF_vars(DropRef(c))
  /\ \A a \in Actors :
       /\ WF_vars(\E k \in Ops : Invoke(a, k))
       /\ WF_vars(SetTimeoutEnd(a))
       /\ WF_vars(FreeInner(a))

FairSpec == Spec /\ Fairness

-----------------------------------------------------------------------------
(* Properties.                                                             *)

(***************************************************************************)
(* "I am 99% sure that we will never get a callback in the Inactive state" *)
(* and more: the state the closure reads is the operation that ended, and  *)
(* the message its result carries, if any, is in the nng_aio and owned by  *)
(* it.  So neither unreachable! nor unwrap of the closure can fail.        *)
(***************************************************************************)
CallbackFindsOperation ==
  \A c \in Slots : at[c] = "upgraded" =>
    /\ state = nngOp
    /\ CarriesMessage => aioMsg # NULL /\ where[aioMsg] = "aio"

(***************************************************************************)
(* One operation at a time: who is about to call into NNG, or to change    *)
(* the timeout, is alone in that and finds the nng_aio idle, with no       *)
(* callback before its reset of the state.                                 *)
(***************************************************************************)
OneOperation ==
  \A a \in Actors : at[a] \in Ops \cup {"timeout"} =>
    /\ nng = "idle"
    /\ \A b \in Actors \ {a} :
         at[b] \notin Ops \cup {"timeout", "entered", "upgraded"}

(***************************************************************************)
(* "This callback will be executed exactly once": while the Aio lives,     *)
(* each operation's result is delivered once, and none is outstanding when *)
(* the state says Inactive.                                                *)
(***************************************************************************)
ExactlyOnce ==
  /\ delivered <= started
  /\ Holders # {} /\ state = "Inactive" => delivered = started
  /\ started <= delivered + 1

(***************************************************************************)
(* The refinement of what the documentation of Aio promises.  The result   *)
(* of an operation is owed from the compare_exchange until the closure has *)
(* delivered it or has found the Aio gone; set_timeout owes none.          *)
(***************************************************************************)
Outstanding ==
  \/ nng # "idle"
  \/ \E a \in Actors : at[a] \in Ops \cup {"entered", "upgraded"}

slotBar == IF Outstanding THEN state ELSE "free"

fateBar ==
  [m \in Msgs |-> IF where[m] \in {"call", "aio"} THEN "held"
                  ELSE IF where[m] = "leaked" THEN "lost" ELSE where[m]]

lifeBar ==
  IF freed THEN "freed" ELSE IF Holders = {} THEN "dropping" ELSE "live"

Promise == INSTANCE CallbackOnce WITH
  slot <- slotBar, fate <- fateBar, life <- lifeBar

(***************************************************************************)
(* "This callback will be executed exactly once": every behaviour of the   *)
(* Aio is one that CallbackOnce allows, whatever threads and callbacks     *)
(* interleave.  So a result is delivered once for each operation, with the *)
(* message it is about, and no message is lost while the Aio lives.        *)
(***************************************************************************)
CallbackPromise == Promise!OnceSpec

(***************************************************************************)
(* "Now that we know nothing is in the callback, we can free it": after    *)
(* Inner is freed no actor holds it and no activation is inside it.        *)
(***************************************************************************)
NoUseAfterFree == freed => nng = "idle" /\ \A a \in Actors : at[a] = "out"

(***************************************************************************)
(* A thread that drops the last reference gets out of Inner::drop, also    *)
(* when it races with the callback of the pending operation.               *)
(***************************************************************************)
DropCompletes == (\E t \in Threads : at[t] = "stop") ~> freed

(***************************************************************************)
(* The result of a finished operation reaches the callback, unless the Aio *)
(* is dropped meanwhile.                                                   *)
(***************************************************************************)
ResultDelivered ==
  nng = "finished" ~> (delivered = started \/ Holders = {})
=============================================================================
