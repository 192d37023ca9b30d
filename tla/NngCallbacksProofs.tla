------------------------- MODULE NngCallbacksProofs -------------------------
(***************************************************************************)
(* Theorems about the two callbacks the nng crate hands to NNG.            *)
(*                                                                         *)
(* The callback style Aio, for any threads, any number of callback         *)
(* activations and any bound on the operations.  The argument is that the  *)
(* atomic state is a lock that is handed on: from the actor that won the   *)
(* compare_exchange to NNG, from NNG to the activation it starts, and      *)
(* back.  IndInv says who has it, and what the holder knows; with OwnInv,  *)
(* which follows the one message of the operation, the Aio implements      *)
(* CallbackOnce.                                                           *)
(*                                                                         *)
(* The pipe event callback, for any number of threads that call            *)
(* pipe_notify, any pipes and any number of registrations.  A trampoline   *)
(* that runs a closure holds the RwLock for reading, so the closure it     *)
(* runs is the stored one, and a stored closure or one on its way to the   *)
(* lock was never dropped; and a thread that has hooked an event never     *)
(* unhooks it, so what it has not in its todo list is hooked.              *)
(***************************************************************************)
EXTENDS NngAio, PipeNotify, SequenceTheorems, TLAPS

-----------------------------------------------------------------------------
(* The invariant of NngAio.                                                *)

\* Actors between the compare_exchange and their call of NNG, or in
\* set_timeout, and activations that have not reset the state.
Winner(a)   == at[a] \in Ops \cup {"timeout"}
Bouncing(a) == at[a] \in {"entered", "upgraded"}
Token(a)    == Winner(a) \/ Bouncing(a)

(***************************************************************************)
(* The lock: one actor or NNG has it, and it is free in state Inactive.    *)
(***************************************************************************)
LockInv ==
  /\ \A a \in Actors : Token(a) =>
       /\ nng = "idle"
       /\ \A b \in Actors : Token(b) => a = b
  /\ state = "Inactive" => nng = "idle" /\ \A a \in Actors : ~Token(a)
  /\ \A t \in Threads : ~Bouncing(t)

(***************************************************************************)
(* What the state says: the operation its holder won or NNG was called     *)
(* for.                                                                    *)
(***************************************************************************)
StateInv ==
  /\ \A a \in Actors :
       /\ at[a] \in Ops => state = at[a]
       /\ at[a] = "timeout" => state = "Sleeping"
       /\ Bouncing(a) => state = nngOp
  /\ nng # "idle" => state = nngOp

(***************************************************************************)
(* The message: a pending send has it in the nng_aio, and so have a failed *)
(* send and a successful receive until their result is delivered.          *)
(***************************************************************************)
InAio == aioMsg \in Msgs /\ where[aioMsg] = "aio"

MsgInv ==
  /\ nng = "pending" /\ nngOp = "Sending" => InAio
  /\ nng = "finished" \/ (\E a \in Actors : Bouncing(a)) =>
       /\ nngOp = "Sending" /\ result # "OK" => InAio
       /\ nngOp = "Receiving" /\ result = "OK" => InAio

(***************************************************************************)
(* The count of results, while there is a reference.  The activation that  *)
(* finds none delivers nothing.                                            *)
(***************************************************************************)
CountInv ==
  /\ delivered <= started /\ started <= delivered + 1
  /\ Outstanding => started = delivered + 1
  /\ Holders # {} /\ ~Outstanding => started = delivered

(***************************************************************************)
(* The end: who is inside Inner::drop is alone, and NNG starts nothing.    *)
(***************************************************************************)
DropInv ==
  /\ Holders = {} => nng # "pending"
  /\ \A a \in Actors : at[a] = "stop" =>
       /\ Holders = {}
       /\ \A b \in Actors : at[b] = "stop" => a = b
  /\ NoUseAfterFree

IndInv == TypeOK /\ LockInv /\ StateInv /\ MsgInv /\ CountInv /\ DropInv

-----------------------------------------------------------------------------
\* One thread holds the only reference, and nothing has been started.
LEMMA InitInd == Init => IndInv
<1> SUFFICES ASSUME Init
             PROVE  IndInv
  OBVIOUS
<1> USE ActorAssumption, MsgAssumption, OpsAssumption
    DEF Init, Actors, Ops, Token, Winner, Bouncing, Outstanding, Holders
<1>1. TypeOK
  <2>1. at \in [Actors -> Places]
    BY DEF Places
  <2>2. where \in [Msgs -> {"app", "call", "aio", "nng", "leaked"}]
    OBVIOUS
  <2>3. started \in 0..MaxOps /\ delivered \in 0..MaxOps
    OBVIOUS
  <2>4. QED
    BY <2>1, <2>2, <2>3, Zenon DEF TypeOK
<1>2. LockInv /\ StateInv /\ MsgInv
  BY DEF LockInv, StateInv, MsgInv
<1>3. CountInv
  BY DEF CountInv
<1>4. DropInv
  BY DEF DropInv, NoUseAfterFree
<1>5. QED
  BY <1>1, <1>2, <1>3, <1>4 DEF IndInv

\* Every step of a thread, of a callback and of NNG keeps it.
LEMMA StepInd == IndInv /\ [Next]_vars => IndInv'
<1> SUFFICES ASSUME IndInv, [Next]_vars
             PROVE  IndInv'
  OBVIOUS
<1> USE ActorAssumption, MsgAssumption, OpsAssumption
    DEF IndInv, TypeOK, Places, Actors, Ops, LockInv, StateInv, MsgInv,
        CountInv, DropInv, Token, Winner, Bouncing, Outstanding, Holders, InAio,
        NoUseAfterFree
<1>1. ASSUME NEW a \in Actors, NEW k \in Ops, Begin(a, k)
      PROVE  IndInv'
  <2>1. TypeOK'
    BY <1>1 DEF Begin, CompareExchange, Go, Move
  <2>2. LockInv'
    BY <1>1 DEF Begin, CompareExchange, Go, Move
  <2>3. StateInv'
    BY <1>1 DEF Begin, CompareExchange, Go, Move
  <2>4. MsgInv'
    BY <1>1 DEF Begin, CompareExchange, Go, Move
  <2>5. CountInv'
    BY <1>1 DEF Begin, CompareExchange, Go, Move
  <2>6. DropInv'
    BY <1>1 DEF Begin, CompareExchange, Go, Move
  <2>7. QED
    BY <2>1, <2>2, <2>3, <2>4, <2>5, <2>6
<1>2. ASSUME NEW a \in Actors, NEW k \in Ops, Invoke(a, k)
      PROVE  IndInv'
  <2>1. TypeOK'
    BY <1>2 DEF Invoke, Go, Move
  <2>2. LockInv'
    BY <1>2 DEF Invoke, Go, Move
  <2>3. StateInv'
    BY <1>2 DEF Invoke, Go, Move
  <2>4. MsgInv'
    BY <1>2 DEF Invoke, Go, Move
  <2>5. CountInv'
    BY <1>2 DEF Invoke, Go, Move
  <2>6. DropInv'
    BY <1>2 DEF Invoke, Go, Move
  <2>7. QED
    BY <2>1, <2>2, <2>3, <2>4, <2>5, <2>6
<1>3. ASSUME NEW a \in Actors, SetTimeoutBegin(a)
      PROVE  IndInv'
  <2>1. TypeOK'
    BY <1>3 DEF SetTimeoutBegin, CompareExchange, Go
  <2>2. LockInv'
    BY <1>3 DEF SetTimeoutBegin, CompareExchange, Go
  <2>3. StateInv'
    BY <1>3 DEF SetTimeoutBegin, CompareExchange, Go
  <2>4. MsgInv'
    BY <1>3 DEF SetTimeoutBegin, CompareExchange, Go
  <2>5. CountInv'
    BY <1>3 DEF SetTimeoutBegin, CompareExchange, Go
  <2>6. DropInv'
    BY <1>3 DEF SetTimeoutBegin, CompareExchange, Go
  <2>7. QED
    BY <2>1, <2>2, <2>3, <2>4, <2>5, <2>6
<1>4. ASSUME NEW a \in Actors, SetTimeoutEnd(a)
      PROVE  IndInv'
  <2>1. TypeOK'
    BY <1>4 DEF SetTimeoutEnd, Go
  <2>2. LockInv'
    BY <1>4 DEF SetTimeoutEnd, Go
  <2>3. StateInv'
    BY <1>4 DEF SetTimeoutEnd, Go
  <2>4. MsgInv'
    BY <1>4 DEF SetTimeoutEnd, Go
  <2>5. CountInv'
    BY <1>4 DEF SetTimeoutEnd, Go
  <2>6. DropInv'
    BY <1>4 DEF SetTimeoutEnd, Go
  <2>7. QED
    BY <2>1, <2>2, <2>3, <2>4, <2>5, <2>6
<1>5. ASSUME NEW a \in Actors, Cancel(a)
      PROVE  IndInv'
  <2>1. TypeOK'
    BY <1>5 DEF Cancel
  <2>2. LockInv'
    BY <1>5 DEF Cancel
  <2>3. StateInv'
    BY <1>5 DEF Cancel
  <2>4. MsgInv'
    BY <1>5 DEF Cancel
  <2>5. CountInv'
    BY <1>5 DEF Cancel
  <2>6. DropInv'
    BY <1>5 DEF Cancel
  <2>7. QED
    BY <2>1, <2>2, <2>3, <2>4, <2>5, <2>6
<1>6. ASSUME NEW a \in Actors, NEW t \in Threads, CloneTo(a, t)
      PROVE  IndInv'
  <2>1. TypeOK'
    BY <1>6 DEF CloneTo, Go
  <2>2. LockInv'
    BY <1>6 DEF CloneTo, Go
  <2>3. StateInv'
    BY <1>6 DEF CloneTo, Go
  <2>4. MsgInv'
    BY <1>6 DEF CloneTo, Go
  <2>5. CountInv'
    BY <1>6 DEF CloneTo, Go
  <2>6. DropInv'
    BY <1>6 DEF CloneTo, Go
  <2>7. QED
    BY <2>1, <2>2, <2>3, <2>4, <2>5, <2>6
<1>7. ASSUME NEW a \in Actors, DropRef(a)
      PROVE  IndInv'
  <2>1. TypeOK'
    BY <1>7 DEF DropRef, StopOperation, Go
  <2>2. LockInv'
    BY <1>7 DEF DropRef, StopOperation, Go
  <2>3. StateInv'
    BY <1>7 DEF DropRef, StopOperation, Go
  <2>4. MsgInv'
    BY <1>7 DEF DropRef, StopOperation, Go
  <2>5. CountInv'
    BY <1>7 DEF DropRef, StopOperation, Go
  <2>6. DropInv'
    BY <1>7 DEF DropRef, StopOperation, Go
  <2>7. QED
    BY <2>1, <2>2, <2>3, <2>4, <2>5, <2>6
<1>8. ASSUME NEW a \in Actors, FreeInner(a)
      PROVE  IndInv'
  <2>1. TypeOK'
    BY <1>8 DEF FreeInner, NngAioStop, Go
  <2>2. LockInv'
    BY <1>8 DEF FreeInner, NngAioStop, Go
  <2>3. StateInv'
    BY <1>8 DEF FreeInner, NngAioStop, Go
  <2>4. MsgInv'
    BY <1>8 DEF FreeInner, NngAioStop, Go
  <2>5. CountInv'
    BY <1>8 DEF FreeInner, NngAioStop, Go
  <2>6. DropInv'
    BY <1>8 DEF FreeInner, NngAioStop, Go
  <2>7. QED
    BY <2>1, <2>2, <2>3, <2>4, <2>5, <2>6
<1>9. CASE FinishOk
  <2>1. TypeOK'
    BY <1>9 DEF FinishOk, Move
  <2>2. LockInv'
    BY <1>9 DEF FinishOk, Move
  <2>3. StateInv'
    BY <1>9 DEF FinishOk, Move
  <2>4. MsgInv'
    BY <1>9 DEF FinishOk, Move
  <2>5. CountInv'
    BY <1>9 DEF FinishOk, Move
  <2>6. DropInv'
    BY <1>9 DEF FinishOk, Move
  <2>7. QED
    BY <2>1, <2>2, <2>3, <2>4, <2>5, <2>6
<1>10. CASE FinishErr
  <2>1. TypeOK'
    BY <1>10 DEF FinishErr
  <2>2. LockInv'
    BY <1>10 DEF FinishErr
  <2>3. StateInv'
    BY <1>10 DEF FinishErr
  <2>4. MsgInv'
    BY <1>10 DEF FinishErr
  <2>5. CountInv'
    BY <1>10 DEF FinishErr
  <2>6. DropInv'
    BY <1>10 DEF FinishErr
  <2>7. QED
    BY <2>1, <2>2, <2>3, <2>4, <2>5, <2>6
<1>11. ASSUME NEW c \in Slots, Dispatch(c)
      PROVE  IndInv'
  <2>1. TypeOK'
    BY <1>11 DEF Dispatch, Go
  <2>2. LockInv'
    BY <1>11 DEF Dispatch, Go
  <2>3. StateInv'
    BY <1>11 DEF Dispatch, Go
  <2>4. MsgInv'
    BY <1>11 DEF Dispatch, Go
  <2>5. CountInv'
    BY <1>11 DEF Dispatch, Go
  <2>6. DropInv'
    BY <1>11 DEF Dispatch, Go
  <2>7. QED
    BY <2>1, <2>2, <2>3, <2>4, <2>5, <2>6
<1>12. ASSUME NEW c \in Slots, Upgrade(c)
      PROVE  IndInv'
  <2>1. TypeOK'
    BY <1>12 DEF Upgrade, Go
  <2>2. LockInv'
    BY <1>12 DEF Upgrade, Go
  <2>3. StateInv'
    BY <1>12 DEF Upgrade, Go
  <2>4. MsgInv'
    BY <1>12 DEF Upgrade, Go
  <2>5. CountInv'
    BY <1>12 DEF Upgrade, Go
  <2>6. DropInv'
    BY <1>12 DEF Upgrade, Go
  <2>7. QED
    BY <2>1, <2>2, <2>3, <2>4, <2>5, <2>6
<1>13. ASSUME NEW c \in Slots, Bounce(c)
      PROVE  IndInv'
  <2>1. TypeOK'
    BY <1>13 DEF Bounce, CarriesMessage, Go, Move
  <2>2. LockInv'
    BY <1>13 DEF Bounce, CarriesMessage, Go, Move
  <2>3. StateInv'
    BY <1>13 DEF Bounce, CarriesMessage, Go, Move
  <2>4. MsgInv'
    BY <1>13 DEF Bounce, CarriesMessage, Go, Move
  <2>5. CountInv'
    BY <1>13 DEF Bounce, CarriesMessage, Go, Move
  <2>6. DropInv'
    BY <1>13 DEF Bounce, CarriesMessage, Go, Move
  <2>7. QED
    BY <2>1, <2>2, <2>3, <2>4, <2>5, <2>6
<1>14. CASE UNCHANGED vars
  <2>1. TypeOK'
    BY <1>14 DEF vars
  <2>2. LockInv'
    BY <1>14 DEF vars
  <2>3. StateInv'
    BY <1>14 DEF vars
  <2>4. MsgInv'
    BY <1>14 DEF vars
  <2>5. CountInv'
    BY <1>14 DEF vars
  <2>6. DropInv'
    BY <1>14 DEF vars
  <2>7. QED
    BY <2>1, <2>2, <2>3, <2>4, <2>5, <2>6
<1>15. QED
  BY <1>1, <1>2, <1>3, <1>4, <1>5, <1>6, <1>7, <1>8, <1>9, <1>10, <1>11,
      <1>12, <1>13, <1>14
  DEF Next, Use, Library, Closure

-----------------------------------------------------------------------------
(***************************************************************************)
(* The inductive invariant holds in every reachable state.                 *)
(***************************************************************************)
THEOREM Invariance == Spec => []IndInv
<1>1. QED
  BY InitInd, StepInd, PTL DEF Spec

(***************************************************************************)
(* Type correctness.                                                       *)
(***************************************************************************)
THEOREM TypeCorrect == Spec => []TypeOK
<1>1. IndInv => TypeOK
  BY DEF IndInv
<1>2. QED
  BY Invariance, <1>1, PTL

(***************************************************************************)
(* The bounce closure finds the operation that ended in the state, and the *)
(* message of its result in the nng_aio: its unreachable! and its unwrap   *)
(* cannot fail.                                                            *)
(***************************************************************************)
THEOREM ClosureSound == Spec => []CallbackFindsOperation
<1>1. IndInv => CallbackFindsOperation
  <2>1. SUFFICES ASSUME IndInv, NEW c \in Slots, at[c] = "upgraded"
                 PROVE  /\ state = nngOp
                        /\ CarriesMessage =>
                             aioMsg # NULL /\ where[aioMsg] = "aio"
    BY DEF CallbackFindsOperation
  <2>2. c \in Actors /\ Bouncing(c)
    BY <2>1 DEF Actors, Bouncing
  <2>3. state = nngOp
    BY <2>1, <2>2 DEF IndInv, StateInv
  <2>4. CarriesMessage => InAio
    BY <2>1, <2>2, <2>3 DEF IndInv, MsgInv, CarriesMessage
  <2>5. InAio => aioMsg # NULL /\ where[aioMsg] = "aio"
    BY MsgAssumption DEF InAio
  <2>6. QED
    BY <2>3, <2>4, <2>5
<1>2. QED
  BY Invariance, <1>1, PTL

(***************************************************************************)
(* The compare_exchange of the state excludes: whoever is about to call    *)
(* NNG, or is in set_timeout, is alone, and the nng_aio is idle.           *)
(***************************************************************************)
THEOREM MutualExclusion == Spec => []OneOperation
<1>1. IndInv => OneOperation
  BY DEF IndInv, LockInv, Token, Winner, Bouncing, OneOperation
<1>2. QED
  BY Invariance, <1>1, PTL

(***************************************************************************)
(* The user's callback gets one result for each operation: never more, and *)
(* in state Inactive none is missing while anyone holds the Aio.           *)
(***************************************************************************)
THEOREM ResultsCounted == Spec => []ExactlyOnce
<1>1. IndInv => ExactlyOnce
  <2>1. SUFFICES ASSUME IndInv
                 PROVE  ExactlyOnce
    OBVIOUS
  <2>2. state = "Inactive" => ~Outstanding
    BY <2>1 DEF IndInv, LockInv, Token, Winner, Bouncing, Outstanding
  <2>3. QED
    BY <2>1, <2>2 DEF IndInv, TypeOK, CountInv, ExactlyOnce
<1>2. QED
  BY Invariance, <1>1, PTL

(***************************************************************************)
(* Inner::drop frees the nng_aio and the closure only when no actor holds  *)
(* them, no activation runs and NNG has nothing left to start.             *)
(***************************************************************************)
THEOREM FreeIsSafe == Spec => []NoUseAfterFree
<1>1. IndInv => NoUseAfterFree
  BY DEF IndInv, DropInv
<1>2. QED
  BY Invariance, <1>1, PTL

-----------------------------------------------------------------------------
(* The refinement of CallbackOnce.                                         *)

(***************************************************************************)
(* The message of the operation: it is with the caller or in the nng_aio,  *)
(* it is one, and what is in the nng_aio when the operation has ended is   *)
(* what its result carries.                                                *)
(***************************************************************************)
Calling(m) ==
  /\ \E a \in Actors : at[a] = "Sending"
  /\ \A n \in Msgs : where[n] = "call" => m = n

\* The result comes with a message.
Carried ==
  \/ nngOp = "Sending" /\ result # "OK"
  \/ nngOp = "Receiving" /\ result = "OK"

\* The nng_aio has the message of the operation.
InUse ==
  \/ nng = "pending" /\ nngOp = "Sending"
  \/ (nng = "finished" \/ \E a \in Actors : Bouncing(a)) /\ Carried

OwnInv ==
  \A m \in Msgs :
    /\ where[m] = "call" => Calling(m)
    /\ where[m] = "aio" => m = aioMsg /\ InUse

\* All messages are with the program or with NNG.
LEMMA OwnInit == Init => OwnInv
  BY DEF Init, OwnInv

\* Every step keeps track of the one message.
LEMMA OwnStep == IndInv /\ OwnInv /\ [Next]_vars => OwnInv'
<1> SUFFICES ASSUME IndInv, OwnInv, [Next]_vars
             PROVE  OwnInv'
  OBVIOUS
<1> USE ActorAssumption
    DEF IndInv, TypeOK, Places, Actors, Ops, LockInv, StateInv, Token, Winner,
        Bouncing, OwnInv, Calling, InUse, Carried
<1>1. ASSUME NEW a \in Actors, NEW k \in Ops, Begin(a, k)
      PROVE  OwnInv'
  <2>1. \A m \in Msgs : where[m] \notin {"call", "aio"}
    BY <1>1 DEF Begin, CompareExchange
  <2>2. QED
    BY <1>1, <2>1 DEF Begin, CompareExchange, Go, Move
<1>2. ASSUME NEW a \in Actors, NEW k \in Ops, Invoke(a, k)
      PROVE  OwnInv'
  <2>1. /\ nng = "idle" /\ \A b \in Actors : ~Bouncing(b)
        /\ \A m \in Msgs : where[m] # "aio"
    BY <1>2 DEF Invoke
  <2>2. k # "Sending" => \A m \in Msgs : where[m] # "call"
    BY <1>2 DEF Invoke
  <2>3. QED
    BY <1>2, <2>1, <2>2 DEF Invoke, Go, Move
<1>3. ASSUME NEW a \in Actors, SetTimeoutBegin(a)
      PROVE  OwnInv'
  BY <1>3 DEF SetTimeoutBegin, CompareExchange, Go
<1>4. ASSUME NEW a \in Actors, SetTimeoutEnd(a)
      PROVE  OwnInv'
  BY <1>4 DEF SetTimeoutEnd, Go
<1>5. ASSUME NEW a \in Actors, Cancel(a)
      PROVE  OwnInv'
  BY <1>5 DEF Cancel
<1>6. ASSUME NEW a \in Actors, NEW t \in Threads, CloneTo(a, t)
      PROVE  OwnInv'
  BY <1>6 DEF CloneTo, Go
<1>7. ASSUME NEW a \in Actors, DropRef(a)
      PROVE  OwnInv'
  BY <1>7 DEF DropRef, StopOperation, Go
<1>8. ASSUME NEW a \in Actors, FreeInner(a)
      PROVE  OwnInv'
  BY <1>8 DEF FreeInner, NngAioStop, Go
<1>9. CASE FinishOk
  <2>1. \A m \in Msgs : where[m] # "call"
    BY <1>9 DEF FinishOk
  <2>2. \A m \in Msgs : where[m] = "aio" => nngOp = "Sending"
    BY <1>9 DEF FinishOk
  <2>3. QED
    BY <1>9, <2>1, <2>2 DEF FinishOk, Move
<1>10. CASE FinishErr
  BY <1>10 DEF FinishErr
<1>11. ASSUME NEW c \in Slots, Dispatch(c)
       PROVE  OwnInv'
  <2>1. c \in Actors /\ at'[c] = "entered" /\ nng = "finished"
    BY <1>11 DEF Dispatch, Go
  <2>2. QED
    BY <1>11, <2>1 DEF Dispatch, Go
<1>12. ASSUME NEW c \in Slots, Upgrade(c)
       PROVE  OwnInv'
  BY <1>12 DEF Upgrade, Go
<1>13. ASSUME NEW c \in Slots, Bounce(c)
       PROVE  OwnInv'
  <2>1. /\ \A m \in Msgs : where[m] # "call"
        /\ nng = "idle" /\ state = nngOp
    BY <1>13 DEF Bounce
  <2>2. CarriesMessage <=> Carried
    BY <2>1 DEF CarriesMessage
  <2>3. \A m \in Msgs : where'[m] \notin {"call", "aio"}
    BY <1>13, <2>1, <2>2 DEF Bounce, Move
  <2>4. QED
    BY <2>3
<1>14. CASE UNCHANGED vars
  BY <1>14 DEF vars
<1>15. QED
  BY <1>1, <1>2, <1>3, <1>4, <1>5, <1>6, <1>7, <1>8, <1>9, <1>10, <1>11,
      <1>12, <1>13, <1>14
  DEF Next, Use, Library, Closure

\* A new Aio owes nothing.
LEMMA InitKeepsPromise == Init => Promise!OnceInit
<1> SUFFICES ASSUME Init
             PROVE  Promise!OnceInit
  OBVIOUS
<1>1. ~Outstanding /\ Holders # {} /\ ~freed
  BY ActorAssumption DEF Init, Outstanding, Holders, Actors, Ops
<1>2. fateBar \in [Msgs -> {"app", "nng"}]
  BY DEF Init, fateBar
<1>3. QED
  BY <1>1, <1>2 DEF Init, Promise!OnceInit, slotBar, lifeBar

\* Every step is one that CallbackOnce allows or changes nothing it speaks of.
LEMMA StepKeepsPromise ==
  IndInv /\ IndInv' /\ OwnInv /\ [Next]_vars => [Promise!OnceNext]_(Promise!onceVars)
<1> SUFFICES ASSUME IndInv, IndInv', OwnInv, [Next]_vars
             PROVE  Promise!OnceNext \/ UNCHANGED Promise!onceVars
  OBVIOUS
<1> USE ActorAssumption DEF Actors, Ops
<1>a. /\ at \in [Actors -> Places] /\ where \in [Msgs -> {"app", "call", "aio", "nng", "leaked"}]
      /\ state \in Ops \cup {"Inactive"}
      /\ started \in 0..MaxOps /\ delivered \in 0..MaxOps
  BY DEF IndInv, TypeOK
<1>b. \A a \in Actors : at[a] \notin {"out", "entered", "stop"} => Holders # {} /\ ~freed /\ lifeBar = "live"
  BY DEF IndInv, DropInv, NoUseAfterFree, Holders, lifeBar
<1>c. ASSUME UNCHANGED where
      PROVE  fateBar' = fateBar
  BY <1>c DEF fateBar
<1>d. ASSUME UNCHANGED <<started, delivered>>, fateBar' = fateBar, slotBar' = slotBar,
             lifeBar' = lifeBar
      PROVE  UNCHANGED Promise!onceVars
  BY <1>d DEF Promise!onceVars
<1>e. ASSUME NEW a \in Actors, at[a] \in Ops \cup {"timeout", "entered", "upgraded"}
      PROVE  /\ nng = "idle"
             /\ \A b \in Actors : at[b] \in Ops \cup {"timeout", "entered", "upgraded"} => a = b
  BY <1>e DEF IndInv, LockInv, Token, Winner, Bouncing
<1>f. state = "Inactive" => slotBar = "free"
  BY DEF IndInv, LockInv, Token, Winner, Bouncing, Outstanding, slotBar
<1>g. \A m \in Msgs : where[m] = "call" => \E a \in Actors : at[a] = "Sending"
  BY DEF OwnInv, Calling
<1>1. ASSUME NEW a \in Actors, NEW k \in Ops, Begin(a, k)
      PROVE  Promise!Start(k)
  <2>1. at[a] = "in" /\ at' = [at EXCEPT ![a] = k] /\ freed' = freed /\ state' = k
    BY <1>1 DEF Begin, CompareExchange, Go
  <2>2. lifeBar = "live" /\ slotBar = "free"
    BY <1>1, <1>b, <1>f, <2>1 DEF Begin, CompareExchange
  <2>3. at'[a] = k
    BY <1>a, <2>1
  <2>4. slotBar' = k
    BY <2>1, <2>3 DEF slotBar, Outstanding
  <2>5. a \in Holders' /\ freed' = FALSE
    BY <1>b, <2>1, <2>3, <1>a DEF Holders, IndInv, TypeOK
  <2>6. lifeBar' = "live"
    BY <2>5 DEF lifeBar
  <2>7. CASE k = "Sending"
    <3>1. PICK m \in Msgs : where[m] = "app" /\ where' = [where EXCEPT ![m] = "call"]
      BY <1>1, <2>7 DEF Begin, Move
    <3>2. fateBar[m] = "app" /\ fateBar' = [fateBar EXCEPT ![m] = "held"]
      BY <1>a, <3>1 DEF fateBar
    <3>3. QED
      BY <1>1, <2>2, <2>4, <2>6, <2>7, <3>2 DEF Begin, Promise!Start
  <2>8. CASE k # "Sending"
    BY <1>1, <1>c, <2>2, <2>4, <2>6, <2>8 DEF Begin, Promise!Start
  <2>9. QED
    BY <2>7, <2>8
<1>2. ASSUME NEW a \in Actors, NEW k \in Ops, Invoke(a, k)
      PROVE  UNCHANGED Promise!onceVars
  <2>1. at[a] = k /\ at' = [at EXCEPT ![a] = "in"] /\ freed' = freed /\ state' = state
        /\ nng' = "pending"
    BY <1>2 DEF Invoke, Go
  <2>2. at'[a] = "in" /\ a \in Holders' /\ Holders # {}
    BY <1>a, <1>b, <2>1 DEF Holders
  <2>3. lifeBar' = lifeBar
    BY <2>1, <2>2 DEF lifeBar
  <2>4. slotBar' = slotBar
    BY <2>1 DEF slotBar, Outstanding
  <2>5. fateBar' = fateBar
    BY <1>2, <1>a DEF Invoke, Move, fateBar
  <2>6. QED
    BY <1>2, <1>d, <2>3, <2>4, <2>5 DEF Invoke
<1>3. ASSUME NEW a \in Actors, SetTimeoutBegin(a)
      PROVE  UNCHANGED Promise!onceVars
  <2>1. at[a] = "in" /\ at' = [at EXCEPT ![a] = "timeout"] /\ freed' = freed
        /\ state = "Inactive" /\ nng' = nng
    BY <1>3 DEF SetTimeoutBegin, CompareExchange, Go
  <2>2. at'[a] = "timeout" /\ a \in Holders' /\ Holders # {}
    BY <1>a, <1>b, <2>1 DEF Holders
  <2>3. lifeBar' = lifeBar
    BY <2>1, <2>2 DEF lifeBar
  <2>4. ~Outstanding /\ ~Outstanding'
    BY <1>a, <2>1 DEF Outstanding, IndInv, LockInv, Token, Winner, Bouncing
  <2>5. QED
    BY <1>3, <1>c, <1>d, <2>3, <2>4 DEF SetTimeoutBegin, slotBar
<1>4. ASSUME NEW a \in Actors, SetTimeoutEnd(a)
      PROVE  UNCHANGED Promise!onceVars
  <2>1. at[a] = "timeout" /\ at' = [at EXCEPT ![a] = "in"] /\ freed' = freed
        /\ nng' = nng
    BY <1>4 DEF SetTimeoutEnd, Go
  <2>2. at'[a] = "in" /\ a \in Holders' /\ Holders # {}
    BY <1>a, <1>b, <2>1 DEF Holders
  <2>3. lifeBar' = lifeBar
    BY <2>1, <2>2 DEF lifeBar
  <2>4. ~Outstanding /\ ~Outstanding'
    BY <1>a, <1>e, <2>1 DEF Outstanding
  <2>5. QED
    BY <1>4, <1>c, <1>d, <2>3, <2>4 DEF SetTimeoutEnd, slotBar
<1>5. ASSUME NEW a \in Actors, Cancel(a)
      PROVE  UNCHANGED Promise!onceVars
  BY <1>5, <1>c, <1>d DEF Cancel, slotBar, lifeBar, Outstanding, Holders
<1>6. ASSUME NEW a \in Actors, NEW t \in Threads, CloneTo(a, t)
      PROVE  UNCHANGED Promise!onceVars
  <2>1. at[a] = "in" /\ at[t] = "out" /\ at' = [at EXCEPT ![t] = "in"] /\ t \in Actors
    BY <1>6 DEF CloneTo, Go
  <2>2. t \in Holders' /\ Holders # {}
    BY <1>a, <1>b, <2>1 DEF Holders
  <2>3. Outstanding' = Outstanding
    BY <1>6, <1>a, <2>1 DEF CloneTo, Outstanding
  <2>4. QED
    BY <1>6, <1>c, <1>d, <2>2, <2>3 DEF CloneTo, slotBar, lifeBar
<1>7. ASSUME NEW a \in Actors, DropRef(a)
      PROVE  Promise!Drop \/ UNCHANGED Promise!onceVars
  <2>1. at[a] = "in" /\ UNCHANGED <<state, where, started, delivered, freed>>
    BY <1>7 DEF DropRef
  <2>2. CASE Holders # {a} /\ Go(a, "out") /\ UNCHANGED <<nng, result>>
    <3>1. at' = [at EXCEPT ![a] = "out"]
      BY <2>2 DEF Go
    <3>2. PICK b \in Actors : b # a /\ b \in Holders
      BY <2>1, <2>2 DEF Holders
    <3>3. b \in Holders'
      BY <1>a, <3>1, <3>2 DEF Holders
    <3>4. Outstanding' = Outstanding
      BY <1>a, <2>1, <2>2, <3>1 DEF Outstanding
    <3>5. QED
      BY <1>c, <1>d, <2>1, <3>2, <3>3, <3>4 DEF slotBar, lifeBar
  <2>3. CASE Holders = {a} /\ Go(a, "stop") /\ StopOperation
    <3>1. at' = [at EXCEPT ![a] = "stop"]
      BY <2>3 DEF Go
    <3>2. Holders' = {}
      BY <1>a, <2>3, <3>1 DEF Holders
    <3>3. nng' = "idle" <=> nng = "idle"
      BY <2>3 DEF StopOperation
    <3>4. Outstanding' = Outstanding
      BY <1>a, <2>1, <3>1, <3>3 DEF Outstanding
    <3>5. lifeBar = "live" /\ lifeBar' = "dropping"
      BY <1>b, <2>1, <3>2 DEF lifeBar
    <3>6. QED
      BY <1>c, <2>1, <3>4, <3>5 DEF Promise!Drop, slotBar
  <2>4. QED
    BY <1>7, <2>2, <2>3 DEF DropRef
<1>8. ASSUME NEW a \in Actors, FreeInner(a)
      PROVE  Promise!Free
  <2>1. /\ at[a] = "stop" /\ nng = "idle" /\ \A c \in Slots : at[c] = "out"
        /\ at' = [at EXCEPT ![a] = "out"] /\ freed' = TRUE
        /\ UNCHANGED <<state, nng, where, started, delivered>>
    BY <1>8 DEF FreeInner, NngAioStop, Go
  <2>2. Holders = {}
    BY <2>1 DEF IndInv, DropInv
  <2>3. \A b \in Actors : at[b] \in {"out", "stop"}
    BY <2>1, <2>2 DEF Holders, IndInv, LockInv, Bouncing
  <2>4. ~Outstanding /\ ~Outstanding'
    BY <1>a, <2>1, <2>3 DEF Outstanding
  <2>5. ~freed
    BY <2>1 DEF IndInv, DropInv, NoUseAfterFree
  <2>6. lifeBar = "dropping" /\ lifeBar' = "freed"
    BY <2>1, <2>2, <2>5 DEF lifeBar
  <2>7. QED
    BY <1>c, <2>1, <2>4, <2>6 DEF Promise!Free, slotBar
<1>9. CASE FinishOk
  <2>1. /\ nng = "pending" /\ nng' = "finished"
        /\ UNCHANGED <<at, state, started, delivered, freed>>
    BY <1>9 DEF FinishOk
  <2>2. slotBar = nngOp /\ slotBar' = slotBar /\ lifeBar' = lifeBar
    BY <2>1 DEF slotBar, lifeBar, Outstanding, Holders, IndInv, StateInv
  <2>3. CASE nngOp = "Sending" /\ Move(aioMsg, "nng")
    <3>1. aioMsg \in Msgs /\ where[aioMsg] = "aio" /\ where' = [where EXCEPT ![aioMsg] = "nng"]
      BY <2>1, <2>3 DEF IndInv, MsgInv, InAio, Move
    <3>2. fateBar[aioMsg] = "held" /\ fateBar' = [fateBar EXCEPT ![aioMsg] = "nng"]
      BY <1>a, <3>1 DEF fateBar
    <3>3. QED
      BY <2>1, <2>2, <2>3, <3>1, <3>2 DEF Promise!OnceNext, Promise!Accept
  <2>4. CASE nngOp = "Receiving" /\ \E m \in Msgs : where[m] = "nng" /\ Move(m, "aio")
    <3>1. PICK m \in Msgs : where[m] = "nng" /\ where' = [where EXCEPT ![m] = "aio"]
      BY <2>4 DEF Move
    <3>2. fateBar[m] = "nng" /\ fateBar' = [fateBar EXCEPT ![m] = "held"]
      BY <1>a, <3>1 DEF fateBar
    <3>3. \A n \in Msgs : where[n] \notin {"call", "aio"}
      BY <1>e, <1>g, <2>1, <2>4 DEF OwnInv, InUse, Carried, Bouncing
    <3>4. \A n \in Msgs : fateBar[n] # "held"
      BY <1>a, <3>3 DEF fateBar
    <3>5. QED
      BY <2>1, <2>2, <2>4, <3>2, <3>4 DEF Promise!OnceNext, Promise!HandOver
  <2>5. CASE UNCHANGED where
    BY <1>c, <1>d, <2>1, <2>2, <2>5
  <2>6. QED
    BY <1>9, <2>3, <2>4, <2>5 DEF FinishOk
<1>10. CASE FinishErr
  BY <1>10, <1>c, <1>d DEF FinishErr, slotBar, lifeBar, Outstanding, Holders
<1>11. ASSUME NEW c \in Slots, Dispatch(c)
       PROVE  UNCHANGED Promise!onceVars
  <2>1. /\ at[c] = "out" /\ nng = "finished" /\ at' = [at EXCEPT ![c] = "entered"]
        /\ UNCHANGED <<state, where, started, delivered, freed>>
    BY <1>11 DEF Dispatch, Go
  <2>2. c \in Actors /\ at'[c] = "entered"
    BY <1>a, <2>1
  <2>3. Outstanding /\ Outstanding'
    BY <2>1, <2>2 DEF Outstanding
  <2>4. Holders' = Holders
    BY <1>a, <2>1 DEF Holders
  <2>5. QED
    BY <1>c, <1>d, <2>1, <2>3, <2>4 DEF slotBar, lifeBar
<1>12. ASSUME NEW c \in Slots, Upgrade(c)
       PROVE  Promise!Discard \/ UNCHANGED Promise!onceVars
  <2>1. at[c] = "entered" /\ c \in Actors /\ UNCHANGED <<state, nng, started, delivered, freed>>
    BY <1>12 DEF Upgrade
  <2>2. Outstanding /\ nng = "idle" /\ state # "Inactive"
    BY <1>e, <2>1 DEF Outstanding, IndInv, LockInv, Token, Bouncing
  <2>3. CASE Holders # {} /\ Go(c, "upgraded") /\ UNCHANGED where
    <3>1. at' = [at EXCEPT ![c] = "upgraded"] /\ at'[c] = "upgraded"
      BY <1>a, <2>1, <2>3 DEF Go
    <3>2. Outstanding' /\ Holders' # {}
      BY <2>1, <3>1 DEF Outstanding, Holders
    <3>3. QED
      BY <1>c, <1>d, <2>1, <2>2, <2>3, <3>2 DEF slotBar, lifeBar
  <2>4. CASE /\ Holders = {} /\ Go(c, "out")
             /\ where' = [m \in Msgs |-> IF where[m] = "aio" THEN "leaked" ELSE where[m]]
    <3>1. at' = [at EXCEPT ![c] = "out"]
      BY <2>4 DEF Go
    <3>2. ~Outstanding' /\ Holders' = {}
      BY <1>a, <1>e, <2>1, <2>2, <2>4, <3>1 DEF Outstanding, Holders
    <3>3. ~freed
      BY <2>1 DEF IndInv, DropInv, NoUseAfterFree
    <3>4. \A m \in Msgs : where[m] # "call"
      BY <1>e, <1>g, <2>1
    <3>5. fateBar' = [m \in Msgs |-> IF fateBar[m] = "held" THEN "lost" ELSE fateBar[m]]
      BY <1>a, <2>4, <3>4 DEF fateBar
    <3>6. slotBar # "free" /\ slotBar' = "free" /\ lifeBar = "dropping" /\ lifeBar' = lifeBar
      BY <1>a, <2>1, <2>2, <2>4, <3>2, <3>3 DEF slotBar, lifeBar
    <3>7. QED
      BY <2>1, <3>5, <3>6 DEF Promise!Discard, Promise!HeldTo
  <2>5. QED
    BY <1>12, <2>3, <2>4 DEF Upgrade
<1>13. ASSUME NEW c \in Slots, Bounce(c)
       PROVE  Promise!Deliver
  <2>1. /\ at[c] = "upgraded" /\ c \in Actors /\ at' = [at EXCEPT ![c] = "in"]
        /\ state' = "Inactive" /\ delivered' = delivered + 1
        /\ UNCHANGED <<nng, started, freed>>
    BY <1>13 DEF Bounce, Go
  <2>2. Outstanding /\ nng = "idle" /\ state # "Inactive" /\ state = nngOp
    BY <1>e, <2>1 DEF Outstanding, IndInv, LockInv, StateInv, Token, Bouncing
  <2>3. ~Outstanding'
    BY <1>a, <1>e, <2>1, <2>2 DEF Outstanding
  <2>4. slotBar # "free" /\ slotBar' = "free"
    BY <1>a, <2>2, <2>3 DEF slotBar
  <2>5. c \in Holders'
    BY <1>a, <2>1 DEF Holders
  <2>6. lifeBar = "live" /\ lifeBar' = "live"
    BY <1>b, <2>1, <2>5 DEF lifeBar
  <2>7. \A m \in Msgs : where[m] # "call"
    BY <1>e, <1>g, <2>1
  <2>8. \A m \in Msgs : where[m] = "aio" => m = aioMsg /\ CarriesMessage
    BY <2>2 DEF OwnInv, InUse, Carried, CarriesMessage
  <2>9. CarriesMessage => aioMsg \in Msgs /\ where[aioMsg] = "aio"
    BY <2>1, <2>2 DEF IndInv, MsgInv, Bouncing, InAio, CarriesMessage
  <2>10. where' = [m \in Msgs |-> IF where[m] = "aio" THEN "app" ELSE where[m]]
    BY <1>13, <1>a, <2>8, <2>9 DEF Bounce, Move
  <2>11. fateBar' = [m \in Msgs |-> IF fateBar[m] = "held" THEN "app" ELSE fateBar[m]]
    BY <1>a, <2>7, <2>10 DEF fateBar
  <2>12. QED
    BY <2>1, <2>4, <2>6, <2>11 DEF Promise!Deliver, Promise!HeldTo
<1>14. CASE UNCHANGED vars
  BY <1>14, <1>c, <1>d DEF vars, slotBar, lifeBar, Outstanding, Holders
<1>15. QED
  BY <1>1, <1>2, <1>3, <1>4, <1>5, <1>6, <1>7, <1>8, <1>9, <1>10, <1>11,
      <1>12, <1>13, <1>14
  DEF Next, Use, Library, Closure, Promise!OnceNext

(***************************************************************************)
(* For any threads, callbacks, messages and number of operations, the Aio  *)
(* does what its documentation promises: it implements CallbackOnce.  The  *)
(* result of each operation is passed to the callback once, with the       *)
(* message it is about; no message is lost while anyone holds the Aio; and *)
(* only dropping it ends an operation without a result.                    *)
(***************************************************************************)
THEOREM PromiseKept == Spec => CallbackPromise
<1>1. IndInv /\ OwnInv /\ [Next]_vars => OwnInv'
  BY OwnStep
<1>2. Spec => [](IndInv /\ OwnInv)
  BY <1>1, OwnInit, Invariance, PTL DEF Spec
<1>3. QED
  BY <1>2, InitKeepsPromise, StepKeepsPromise, PTL
  DEF Spec, CallbackPromise, Promise!OnceSpec

(***************************************************************************)
(* A callback that drops the last reference never leaves Inner::drop: with *)
(* an nng_aio_stop that waits for every callback, as the comment there has *)
(* it, the activation waits for itself, and the Aio is never freed.        *)
(***************************************************************************)
THEOREM CallbackCannotFree ==
  Spec => [][\A c \in Slots : at[c] = "stop" => at'[c] = "stop" /\ ~freed']_vars
<1>1. ASSUME IndInv, Next, NEW c \in Slots, at[c] = "stop"
      PROVE  at'[c] = "stop" /\ ~freed'
  <2>1. /\ c \in Actors /\ c \notin Threads /\ Holders = {} /\ ~freed
        /\ at \in [Actors -> Places] /\ state \in Ops \cup {"Inactive"}
    BY <1>1, ActorAssumption
    DEF Actors, IndInv, TypeOK, DropInv, NoUseAfterFree
  <2>2. ASSUME NEW a \in Actors, Use(a)
        PROVE  FALSE
    <3>1. ~FreeInner(a)
      BY <1>1 DEF FreeInner, NngAioStop
    <3>2. at[a] \in {"out", "entered", "stop"}
      BY <2>1 DEF Holders
    <3>3. QED
      BY <2>2, <3>1, <3>2
      DEF Use, Begin, Invoke, SetTimeoutBegin, SetTimeoutEnd, Cancel, CloneTo,
          DropRef, Ops
  <2>3. CASE Library
    BY <1>1, <2>1, <2>3 DEF Library, FinishOk, FinishErr
  <2>4. ASSUME NEW d \in Slots, Closure(d)
        PROVE  at'[c] = "stop" /\ ~freed'
    BY <1>1, <2>1, <2>4 DEF Closure, Dispatch, Upgrade, Bounce, Go
  <2>5. QED
    BY <1>1, <2>2, <2>3, <2>4 DEF Next
<1>2. IndInv /\ [Next]_vars =>
        [\A c \in Slots : at[c] = "stop" => at'[c] = "stop" /\ ~freed']_vars
  BY <1>1
<1>3. QED
  BY <1>2, Invariance, PTL DEF Spec

-----------------------------------------------------------------------------
(* The invariant of PipeNotify.                                            *)

(***************************************************************************)
(* The closures: the stored one and those that wait for the lock are alive *)
(* and distinct, and every running trampoline uses the stored one.         *)
(***************************************************************************)
ClosureInv ==
  /\ inner # "freed" => closure \notin dropped
  /\ \A t \in Callers : pc[t] = "lock" =>
       /\ mine[t] # 0 /\ mine[t] # closure /\ mine[t] \notin dropped
       /\ \A u \in Callers : pc[u] = "lock" /\ mine[u] = mine[t] => u = t
  /\ \A p \in Pipes : call[p] = "running" => uses[p] = closure /\ closure # 0

(***************************************************************************)
(* Inner: nobody registers on a socket that is being dropped, and once it  *)
(* is freed the pipes and their trampolines are gone.                      *)
(***************************************************************************)
InnerInv ==
  /\ inner # "live" => \A t \in Callers : pc[t] = "idle"
  /\ inner = "freed" => Quiet

(***************************************************************************)
(* The hooks: a thread inside pipe_notify has stored its closure and       *)
(* hooked the events that are no longer in its list.                       *)
(***************************************************************************)
HookInv ==
  /\ \A t \in Callers : pc[t] = "hook" =>
       /\ closure # 0
       /\ todo[t] \in {EventList, <<"post", "rem">>, <<"rem">>}
       /\ todo[t] # EventList => "pre" \in hooked
       /\ todo[t] = <<"rem">> => "post" \in hooked
  /\ returned => hooked = Events /\ closure # 0
  /\ ~missed

NotifyInv == NotifyTypeOK /\ ClosureInv /\ InnerInv /\ HookInv

-----------------------------------------------------------------------------
\* Taking the first event off a list leaves the next one.
LEMMA TodoTails ==
  /\ Head(EventList) = "pre" /\ Tail(EventList) = <<"post", "rem">>
  /\ Head(<<"post", "rem">>) = "post" /\ Tail(<<"post", "rem">>) = <<"rem">>
  /\ Head(<<"rem">>) = "rem" /\ Tail(<<"rem">>) = <<>>
  /\ EventList # <<"post", "rem">> /\ EventList # <<"rem">> /\ EventList # <<>>
  /\ <<"post", "rem">> # <<"rem">> /\ <<"post", "rem">> # <<>>
  /\ <<"rem">> # <<>>
  BY DEF EventList

\* The suffixes of the list of events, which are what a thread has to do.
LEMMA TodoLists ==
  {SubSeq(EventList, i, 3) : i \in 1..4}
    = {EventList, <<"post", "rem">>, <<"rem">>, <<>>}
<1>1. EventList \in Seq(Events) /\ Len(EventList) = 3
  BY DEF EventList, Events
<1>2. SubSeq(EventList, 1, 3) = EventList
  BY <1>1, SubSeqFull
<1>3. /\ Tail(SubSeq(EventList, 1, 3)) = SubSeq(EventList, 2, 3)
      /\ Tail(SubSeq(EventList, 2, 3)) = SubSeq(EventList, 3, 3)
      /\ Tail(SubSeq(EventList, 3, 3)) = SubSeq(EventList, 4, 3)
  BY <1>1, HeadTailOfSubSeq
<1>4. SubSeq(EventList, 2, 3) = <<"post", "rem">>
  BY <1>2, <1>3, TodoTails, Zenon
<1>5. SubSeq(EventList, 3, 3) = <<"rem">>
  BY <1>3, <1>4, TodoTails, Zenon
<1>6. SubSeq(EventList, 4, 3) = <<>>
  BY <1>3, <1>5, TodoTails, Zenon
<1>7. 1..4 = {1, 2, 3, 4}
  OBVIOUS
<1>8. QED
  BY <1>2, <1>4, <1>5, <1>6, <1>7

\* Nothing is registered and nothing hooked.
LEMMA NotifyInitInd == NotifyInit => NotifyInv
<1> SUFFICES ASSUME NotifyInit
             PROVE  NotifyInv
  OBVIOUS
<1>1. todo \in [Callers -> {SubSeq(EventList, i, 3) : i \in 1..4}]
  BY TodoLists DEF NotifyInit
<1>2. gen \in 0..MaxGen /\ closure \in 0..gen /\ dropped \subseteq 1..gen
  BY MaxGenAssumption DEF NotifyInit
<1>3. mine \in [Callers -> 0..gen] /\ uses \in [Pipes -> 0..gen]
  BY DEF NotifyInit
<1>4. NotifyTypeOK
  BY <1>1, <1>2, <1>3, Zenon DEF NotifyInit, NotifyTypeOK
<1>5. QED
  BY <1>4 DEF NotifyInit, NotifyInv, ClosureInv, InnerInv, HookInv

\* Every step of a thread, a trampoline or the drop keeps it.
LEMMA NotifyStepInd == NotifyInv /\ [NotifyNext]_notifyVars => NotifyInv'
<1> SUFFICES ASSUME NotifyInv, [NotifyNext]_notifyVars
             PROVE  NotifyInv'
  OBVIOUS
<1> USE MaxGenAssumption, TodoLists, TodoTails
    DEF NotifyInv, NotifyTypeOK, ClosureInv, InnerInv, HookInv, Quiet, Events
<1>1. ASSUME NEW t \in Callers, Register(t)
      PROVE  NotifyInv'
  <2>1. NotifyTypeOK'
    BY <1>1 DEF Register, Set, tramp
  <2>2. ClosureInv'
    BY <1>1 DEF Register, Set, tramp
  <2>3. InnerInv'
    BY <1>1 DEF Register, Set, tramp
  <2>4. HookInv'
    BY <1>1 DEF Register, Set, tramp
  <2>5. QED
    BY <2>1, <2>2, <2>3, <2>4
<1>2. ASSUME NEW t \in Callers, Replace(t)
      PROVE  NotifyInv'
  <2>1. NotifyTypeOK'
    BY <1>2 DEF Replace, Writable, Stored, Hooks, Set, tramp
  <2>2. ClosureInv'
    BY <1>2 DEF Replace, Writable, Stored, Hooks, Set, tramp
  <2>3. InnerInv'
    BY <1>2 DEF Replace, Writable, Stored, Hooks, Set, tramp
  <2>4. HookInv'
    BY <1>2 DEF Replace, Writable, Stored, Hooks, Set, tramp
  <2>5. QED
    BY <2>1, <2>2, <2>3, <2>4
<1>3. ASSUME NEW t \in Callers, Hook(t)
      PROVE  NotifyInv'
  <2>1. NotifyTypeOK'
    <3>1. Tail(todo[t]) \in {SubSeq(EventList, i, 3) : i \in 1..4}
      BY <1>3 DEF Hook
    <3>2. todo' \in [Callers -> {SubSeq(EventList, i, 3) : i \in 1..4}]
      BY <1>3, <3>1 DEF Hook, Set
    <3>3. hooked' \subseteq Events
      BY <1>3 DEF Hook
    <3>4. pc' \in [Callers -> {"idle", "lock", "hook"}]
      BY <1>3 DEF Hook, Set
    <3>5. returned' \in BOOLEAN
      BY <1>3, Zenon DEF Hook
    <3>6. QED
      BY <1>3, <3>2, <3>3, <3>4, <3>5 DEF Hook, tramp
  <2>2. ClosureInv'
    BY <1>3 DEF Hook, Set, tramp
  <2>3. InnerInv'
    BY <1>3 DEF Hook, Set, tramp
  <2>4. HookInv'
    <3>1. /\ todo[t] \in {EventList, <<"post", "rem">>, <<"rem">>}
          /\ closure # 0
      BY <1>3 DEF Hook
    <3>2. CASE todo[t] = EventList
      BY <1>3, <3>2 DEF Hook, Set
    <3>3. CASE todo[t] = <<"post", "rem">>
      BY <1>3, <3>3 DEF Hook, Set
    <3>4. CASE todo[t] = <<"rem">>
      <4>1. todo'[t] = <<>> /\ hooked' = hooked \cup {"rem"}
        BY <1>3, <3>4 DEF Hook, Set
      <4>2. pc' = [pc EXCEPT ![t] = "idle"] /\ todo' = [todo EXCEPT ![t] = <<>>]
        BY <1>3, <3>4, <4>1 DEF Hook, Set
      <4>3. hooked' = Events
        BY <1>3, <3>4, <4>1 DEF Hook
      <4>4. closure' # 0 /\ ~missed'
        BY <1>3, <3>1 DEF Hook
      <4>5. QED
        BY <4>2, <4>3, <4>4
    <3>5. QED
      BY <3>1, <3>2, <3>3, <3>4
  <2>5. QED
    BY <2>1, <2>2, <2>3, <2>4
<1>4. ASSUME NEW p \in Pipes, NEW e \in Events, Event(p, e)
      PROVE  NotifyInv'
  <2>1. NotifyTypeOK'
    BY <1>4 DEF Event, Set, thread
  <2>2. ClosureInv'
    BY <1>4 DEF Event, Set, thread
  <2>3. InnerInv'
    BY <1>4 DEF Event, Set, thread
  <2>4. HookInv'
    BY <1>4 DEF Event, Set, thread
  <2>5. QED
    BY <2>1, <2>2, <2>3, <2>4
<1>5. ASSUME NEW p \in Pipes, Enter(p)
      PROVE  NotifyInv'
  <2>1. NotifyTypeOK'
    BY <1>5 DEF Enter, Set, thread
  <2>2. ClosureInv'
    BY <1>5 DEF Enter, Set, thread
  <2>3. InnerInv'
    BY <1>5 DEF Enter, Set, thread
  <2>4. HookInv'
    BY <1>5 DEF Enter, Set, thread
  <2>5. QED
    BY <2>1, <2>2, <2>3, <2>4
<1>6. ASSUME NEW p \in Pipes, Return(p)
      PROVE  NotifyInv'
  <2>1. NotifyTypeOK'
    BY <1>6 DEF Return, Release, Set, thread
  <2>2. ClosureInv'
    BY <1>6 DEF Return, Release, Set, thread
  <2>3. InnerInv'
    BY <1>6 DEF Return, Release, Set, thread
  <2>4. HookInv'
    BY <1>6 DEF Return, Release, Set, thread
  <2>5. QED
    BY <2>1, <2>2, <2>3, <2>4
<1>7. CASE DropInner
  <2>1. NotifyTypeOK'
    BY <1>7 DEF DropInner, thread, tramp
  <2>2. ClosureInv'
    BY <1>7 DEF DropInner, thread, tramp
  <2>3. InnerInv'
    BY <1>7 DEF DropInner, thread, tramp
  <2>4. HookInv'
    BY <1>7 DEF DropInner, thread, tramp
  <2>5. QED
    BY <2>1, <2>2, <2>3, <2>4
<1>8. CASE FreeSocket
  <2>1. NotifyTypeOK'
    BY <1>8 DEF FreeSocket, Stored, thread, tramp
  <2>2. ClosureInv'
    BY <1>8 DEF FreeSocket, Stored, thread, tramp
  <2>3. InnerInv'
    BY <1>8 DEF FreeSocket, Stored, thread, tramp
  <2>4. HookInv'
    BY <1>8 DEF FreeSocket, Stored, thread, tramp
  <2>5. QED
    BY <2>1, <2>2, <2>3, <2>4
<1>9. CASE UNCHANGED notifyVars
  <2>1. NotifyTypeOK'
    BY <1>9 DEF notifyVars, thread, tramp
  <2>2. ClosureInv'
    BY <1>9 DEF notifyVars, thread, tramp
  <2>3. InnerInv'
    BY <1>9 DEF notifyVars, thread, tramp
  <2>4. HookInv'
    BY <1>9 DEF notifyVars, thread, tramp
  <2>5. QED
    BY <2>1, <2>2, <2>3, <2>4
<1>10. QED
  BY <1>1, <1>2, <1>3, <1>4, <1>5, <1>6, <1>7, <1>8, <1>9
  DEF NotifyNext, ThreadStep, PipeStep

-----------------------------------------------------------------------------
(***************************************************************************)
(* The inductive invariant holds in every reachable state.                 *)
(***************************************************************************)
THEOREM NotifyInvariance == NotifySpec => []NotifyInv
<1>1. QED
  BY NotifyInitInd, NotifyStepInd, PTL DEF NotifySpec

(***************************************************************************)
(* Type correctness.                                                       *)
(***************************************************************************)
THEOREM NotifyTypeCorrect == NotifySpec => []NotifyTypeOK
<1>1. NotifyInv => NotifyTypeOK
  BY DEF NotifyInv
<1>2. QED
  BY NotifyInvariance, <1>1, PTL

(***************************************************************************)
(* A trampoline never touches a freed Inner and never runs a closure that  *)
(* was replaced by pipe_notify or freed by Inner::drop.                    *)
(***************************************************************************)
THEOREM TrampolineSound == NotifySpec => []ClosureAlive
<1>1. NotifyInv => ClosureAlive
  BY DEF NotifyInv, ClosureInv, InnerInv, Quiet, ClosureAlive
<1>2. QED
  BY NotifyInvariance, <1>1, PTL

(***************************************************************************)
(* Once one pipe_notify has returned every event of every pipe reaches a   *)
(* closure, whatever other threads register at the same time.              *)
(***************************************************************************)
THEOREM EventsPassedOn == NotifySpec => []NoEventMissed
<1>1. NotifyInv => NoEventMissed
  BY DEF NotifyInv, HookInv, NoEventMissed
<1>2. QED
  BY NotifyInvariance, <1>1, PTL
=============================================================================
