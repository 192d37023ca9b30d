---------------------------- MODULE CallbackOnce ----------------------------
(***************************************************************************)
(* What the Aio of the nng crate promises (the documentation of Aio and of *)
(* its AioResult), without threads, references or the nng_aio:             *)
(*                                                                         *)
(*   - one operation at a time, and its result is passed to the callback   *)
(*     once, unless the Aio is dropped first;                              *)
(*   - a send hands its message to NNG, or its result gives it back; the   *)
(*     result of a receive gives the message that NNG handed over;         *)
(*   - dropping the Aio ends the operation without a result, and after it  *)
(*     is freed nothing happens.                                           *)
(***************************************************************************)
EXTENDS Naturals

CONSTANTS Msgs, MaxOps

VARIABLES
  slot,       \* the operation whose result is owed, or "free"
  fate,       \* where each message is
  life,       \* "live", "dropping" or "freed"
  started,    \* operations started
  delivered   \* results passed to the callback

onceVars == <<slot, fate, life, started, delivered>>

OnceInit ==
  /\ slot = "free"
  /\ fate \in [Msgs -> {"app", "nng"}]
  /\ life = "live"
  /\ started = 0
  /\ delivered = 0

\* The message of the operation, if it has one, moves on to f.
HeldTo(f) == [m \in Msgs |-> IF fate[m] = "held" THEN f ELSE fate[m]]

Start(k) ==
  /\ life = "live"
  /\ slot = "free"
  /\ started < MaxOps
  /\ slot' = k
  /\ started' = started + 1
  /\ \/ /\ k = "Sending"
        /\ \E m \in Msgs : fate[m] = "app" /\ fate' = [fate EXCEPT ![m] = "held"]
     \/ k # "Sending" /\ fate' = fate
  /\ UNCHANGED <<life, delivered>>

\* NNG accepts the message of a send.
Accept ==
  /\ slot = "Sending"
  /\ \E m \in Msgs : fate[m] = "held" /\ fate' = [fate EXCEPT ![m] = "nng"]
  /\ UNCHANGED <<slot, life, started, delivered>>

\* NNG hands a message over to a receive, which has none yet.
HandOver ==
  /\ slot = "Receiving"
  /\ \A m \in Msgs : fate[m] # "held"
  /\ \E m \in Msgs : fate[m] = "nng" /\ fate' = [fate EXCEPT ![m] = "held"]
  /\ UNCHANGED <<slot, life, started, delivered>>

\* The callback gets the result, and with it the message.
Deliver ==
  /\ life = "live"
  /\ slot # "free"
  /\ slot' = "free"
  /\ fate' = HeldTo("app")
  /\ delivered' = delivered + 1
  /\ UNCHANGED <<life, started>>

\* The last reference is dropped.
Drop ==
  /\ life = "live"
  /\ life' = "dropping"
  /\ UNCHANGED <<slot, fate, started, delivered>>

\* An operation of a dropped Aio ends without a result; its message is lost.
Discard ==
  /\ life = "dropping"
  /\ slot # "free"
  /\ slot' = "free"
  /\ fate' = HeldTo("lost")
  /\ UNCHANGED <<life, started, delivered>>

Free ==
  /\ life = "dropping"
  /\ slot = "free"
  /\ life' = "freed"
  /\ UNCHANGED <<slot, fate, started, delivered>>

OnceNext ==
  \/ \E k \in {"Sending", "Receiving", "Sleeping"} : Start(k)
  \/ Accept
  \/ HandOver
  \/ Deliver
  \/ Drop
  \/ Discard
  \/ Free

OnceSpec == OnceInit /\ [][OnceNext]_onceVars
=============================================================================
