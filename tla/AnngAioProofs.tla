--------------------------- MODULE AnngAioProofs ---------------------------
(***************************************************************************)
(* Theorems about one anng handle, for every set Out of messages and every *)
(* bound MaxIn.  The safety properties of AnngAio are not inductive: what  *)
(* makes them hold is where the one notification of an operation is, and   *)
(* who owns the message of the pending operation, at each point of the     *)
(* call.  IndInv says both.                                                *)
(***************************************************************************)
EXTENDS AnngAio, TLAPS

\* A call that started an operation and has not taken note of its end.
Active == pc \in {"wait", "join", "dropping", "cancelWait"}

\* The operation is over, with success or without.
Succeeded == aioState # "pending" /\ aioResult = "OK"

\* The callback of the current operation has called notify_one.
Notified == aioState \in {"notified", "idle"}

(***************************************************************************)
(* The notification: there is none before the callback, and after it there *)
(* is exactly one, as a permit or with the waiter, until the call takes it.*)
(***************************************************************************)
NotifyInv ==
  /\ pc \in {"idle", "closed", "join", "recvGuard"} =>
       Notified /\ ~permit /\ waiter = "none"
  /\ pc \in {"idle", "closed", "recvGuard"} => ~Busy
  /\ pc = "wait" =>
       IF Notified
         THEN waiter = IF permit THEN "none" ELSE "notified"
         ELSE ~permit /\ waiter # "notified"
  /\ pc \in {"dropping", "cancelWait"} =>
       waiter = "none" /\ (permit <=> Notified)
  /\ pc = "cancelWait" => aioState # "pending"

(***************************************************************************)
(* Outgoing messages: those without an owner are none, or the one in the   *)
(* Aio of a send that is pending or failed.                                *)
(***************************************************************************)
SendInv ==
  /\ held \cap wire = {} /\ held \cap freed = {} /\ wire \cap freed = {}
  /\ wire \subseteq Out
  /\ Active /\ op = "send" =>
       /\ msgWasSet
       /\ Succeeded => aioMsg \in wire \cup {NULL}
       /\ ~Succeeded => aioMsg \in Out \ (held \cup wire \cup freed)
  /\ \A m \in Out :
       m \in held \cup wire \cup freed
         \/ (Active /\ op = "send" /\ ~Succeeded /\ m = aioMsg)

(***************************************************************************)
(* Incoming messages: of those NNG handed out, at most the last one has    *)
(* not been returned; it is in the Aio of a receive that succeeded, in     *)
(* recovered_msg, or was freed with the handle.                            *)
(***************************************************************************)
Receiving == op = "recv" /\ (Active \/ pc = "recvGuard")

RecvInv ==
  /\ InOrder
  /\ handed <= arrived
  /\ pc = "recvGuard" => op = "recv"
  /\ Receiving =>
       /\ ~msgWasSet
       /\ recovered = NULL
       /\ Succeeded => aioMsg = Len(got) + 1 /\ handed = Len(got) + 1
       /\ ~Succeeded => aioMsg = NULL /\ handed = Len(got)
  /\ ~Receiving /\ recovered # NULL =>
       recovered = Len(got) + 1 /\ handed = Len(got) + 1
  /\ ~Receiving /\ recovered = NULL /\ pc # "closed" => handed = Len(got)
  /\ pc = "closed" =>
       /\ recovered = NULL
       /\ handed = Len(got) \/ (handed = Len(got) + 1 /\ handed \in freed)
  /\ pc # "closed" => freed \subseteq Out
  /\ pc \in {"idle", "closed"} => aioMsg = NULL /\ ~msgWasSet

IndInv == TypeOK /\ pc # "panic" /\ NotifyInv /\ SendInv /\ RecvInv

-----------------------------------------------------------------------------
\* The handle starts idle, with nothing in its Aio.
LEMMA InitInd == Init => IndInv
<1> SUFFICES ASSUME Init
             PROVE  IndInv
  OBVIOUS
<1> USE BoundAssumption, OutAssumption
    DEF Init, Receiving, Active, Succeeded, Notified, Busy
<1>1. got \in Seq(In) /\ Len(got) = 0
  OBVIOUS
<1>2. TypeOK /\ pc # "panic"
  <2>1. 0 \in 0..MaxIn
    OBVIOUS
  <2>2. /\ msgWasSet \in BOOLEAN
        /\ permit \in BOOLEAN
    OBVIOUS
  <2>3. QED
    BY <1>1, <2>1, <2>2 DEF TypeOK, PcStates, AioStates, Errno
<1>3. NotifyInv /\ SendInv
  BY DEF NotifyInv, SendInv
<1>4. RecvInv
  BY <1>1 DEF RecvInv, InOrder
<1>5. QED
  BY <1>2, <1>3, <1>4 DEF IndInv

\* Every step of the application, the executor, the guards and NNG keeps it.
LEMMA StepInd == IndInv /\ [Next]_vars => IndInv'
<1> SUFFICES ASSUME IndInv, [Next]_vars
             PROVE  IndInv'
  OBVIOUS
<1> USE BoundAssumption, OutAssumption
    DEF IndInv, TypeOK, PcStates, AioStates, Errno, In, NotifyInv, SendInv,
        RecvInv, InOrder, Receiving, Active, Succeeded, Notified, Busy
<1>1. ASSUME NEW m \in Out, SendMsg(m)
      PROVE  IndInv'
  <2>1. pc' # "panic" /\ TypeOK'
    BY <1>1 DEF SendMsg, inVars
  <2>2. NotifyInv'
    BY <1>1 DEF SendMsg, inVars
  <2>3. SendInv'
    BY <1>1 DEF SendMsg, inVars
  <2>4. RecvInv'
    BY <1>1 DEF SendMsg, inVars
  <2>5. QED
    BY <2>1, <2>2, <2>3, <2>4 DEF IndInv
<1>2. CASE RecvMsgRecovered
  <2>1. pc' # "panic" /\ TypeOK'
    BY <1>2 DEF RecvMsgRecovered, taskVars, aioVars, ownVars
  <2>2. NotifyInv'
    BY <1>2 DEF RecvMsgRecovered, taskVars, aioVars, ownVars
  <2>3. SendInv'
    BY <1>2 DEF RecvMsgRecovered, taskVars, aioVars, ownVars
  <2>4. RecvInv'
    BY <1>2 DEF RecvMsgRecovered, taskVars, aioVars, ownVars
  <2>5. QED
    BY <2>1, <2>2, <2>3, <2>4 DEF IndInv
<1>3. CASE RecvMsg
  <2>1. pc' # "panic" /\ TypeOK'
    BY <1>3 DEF RecvMsg, ownVars, inVars
  <2>2. NotifyInv'
    BY <1>3 DEF RecvMsg, ownVars, inVars
  <2>3. SendInv'
    BY <1>3 DEF RecvMsg, ownVars, inVars
  <2>4. RecvInv'
    BY <1>3 DEF RecvMsg, ownVars, inVars
  <2>5. QED
    BY <2>1, <2>2, <2>3, <2>4 DEF IndInv
<1>4. CASE TryRecvMsg
  <2>1. pc' # "panic" /\ TypeOK'
    <3>1. recovered # NULL => recovered \in In
      OBVIOUS
    <3>2. handed < arrived => handed + 1 \in In
      OBVIOUS
    <3>3. /\ got' \in Seq(In)
          /\ handed' \in 0..MaxIn
          /\ recovered' \in In \cup {NULL}
      BY <1>4, <3>1, <3>2 DEF TryRecvMsg
    <3>4. QED
      BY <1>4, <3>3 DEF TryRecvMsg, taskVars, aioVars, ownVars
  <2>2. NotifyInv'
    BY <1>4 DEF TryRecvMsg, taskVars, aioVars, ownVars
  <2>3. SendInv'
    BY <1>4 DEF TryRecvMsg, taskVars, aioVars, ownVars
  <2>4. RecvInv'
    BY <1>4 DEF TryRecvMsg, taskVars, aioVars, ownVars
  <2>5. QED
    BY <2>1, <2>2, <2>3, <2>4 DEF IndInv
<1>5. CASE DropFuture
  <2>1. pc' # "panic" /\ TypeOK'
    BY <1>5 DEF DropFuture, aioVars, ownVars, inVars
  <2>2. NotifyInv'
    BY <1>5 DEF DropFuture, aioVars, ownVars, inVars
  <2>3. SendInv'
    BY <1>5 DEF DropFuture, aioVars, ownVars, inVars
  <2>4. RecvInv'
    BY <1>5 DEF DropFuture, aioVars, ownVars, inVars
  <2>5. QED
    BY <2>1, <2>2, <2>3, <2>4 DEF IndInv
<1>6. CASE DropHandle
  <2>1. pc' # "panic" /\ TypeOK'
    BY <1>6 DEF DropHandle, aioVars, inVars
  <2>2. NotifyInv'
    BY <1>6 DEF DropHandle, aioVars, inVars
  <2>3. SendInv'
    BY <1>6 DEF DropHandle, aioVars, inVars
  <2>4. RecvInv'
    BY <1>6 DEF DropHandle, aioVars, inVars
  <2>5. QED
    BY <2>1, <2>2, <2>3, <2>4 DEF IndInv
<1>7. CASE PollNotified
  <2>1. pc' # "panic" /\ TypeOK'
    BY <1>7 DEF PollNotified, aioVars, ownVars, inVars
  <2>2. NotifyInv'
    BY <1>7 DEF PollNotified, aioVars, ownVars, inVars
  <2>3. SendInv'
    BY <1>7 DEF PollNotified, aioVars, ownVars, inVars
  <2>4. RecvInv'
    BY <1>7 DEF PollNotified, aioVars, ownVars, inVars
  <2>5. QED
    BY <2>1, <2>2, <2>3, <2>4 DEF IndInv
<1>8. CASE SendDone
  <2>1. pc' # "panic" /\ TypeOK'
    BY <1>8
    DEF SendDone, inVars, NngAioWait, ForgetMessage, TakeMessage,
        ReturnMessage
  <2>2. NotifyInv'
    BY <1>8
    DEF SendDone, inVars, NngAioWait, ForgetMessage, TakeMessage,
        ReturnMessage
  <2>3. SendInv'
    BY <1>8
    DEF SendDone, inVars, NngAioWait, ForgetMessage, TakeMessage,
        ReturnMessage
  <2>4. RecvInv'
    BY <1>8
    DEF SendDone, inVars, NngAioWait, ForgetMessage, TakeMessage,
        ReturnMessage
  <2>5. QED
    BY <2>1, <2>2, <2>3, <2>4 DEF IndInv
<1>9. CASE RecvDone
  <2>1. pc' # "panic" /\ TypeOK'
    BY <1>9 DEF RecvDone, ownVars, NngAioWait, TakeMessage
  <2>2. NotifyInv'
    BY <1>9 DEF RecvDone, ownVars, NngAioWait, TakeMessage
  <2>3. SendInv'
    BY <1>9 DEF RecvDone, ownVars, NngAioWait, TakeMessage
  <2>4. RecvInv'
    BY <1>9 DEF RecvDone, ownVars, NngAioWait, TakeMessage
  <2>5. QED
    BY <2>1, <2>2, <2>3, <2>4 DEF IndInv
<1>10. CASE GuardCancel
  <2>1. pc' # "panic" /\ TypeOK'
    BY <1>10 DEF GuardCancel, ownVars, inVars, NngAioCancel
  <2>2. NotifyInv'
    BY <1>10 DEF GuardCancel, ownVars, inVars, NngAioCancel
  <2>3. SendInv'
    BY <1>10 DEF GuardCancel, ownVars, inVars, NngAioCancel
  <2>4. RecvInv'
    BY <1>10 DEF GuardCancel, ownVars, inVars, NngAioCancel
  <2>5. QED
    BY <2>1, <2>2, <2>3, <2>4 DEF IndInv
<1>11. CASE GuardSettle
  <2>1. pc' # "panic" /\ TypeOK'
    BY <1>11
    DEF GuardSettle, inVars, NngAioWait, EatNotification,
        ForgetMessage, DisposeMessage, TakeMessage
  <2>2. NotifyInv'
    BY <1>11
    DEF GuardSettle, inVars, NngAioWait, EatNotification,
        ForgetMessage, DisposeMessage, TakeMessage
  <2>3. SendInv'
    BY <1>11
    DEF GuardSettle, inVars, NngAioWait, EatNotification,
        ForgetMessage, DisposeMessage, TakeMessage
  <2>4. RecvInv'
    <3>1. CASE op = "recv"
      BY <1>11, <3>1
      DEF GuardSettle, inVars, NngAioWait, EatNotification,
          ForgetMessage, DisposeMessage, TakeMessage
    <3>2. CASE op = "send"
      BY <1>11, <3>2
      DEF GuardSettle, inVars, NngAioWait, EatNotification,
          ForgetMessage, DisposeMessage, TakeMessage
    <3>3. QED
      BY <3>1, <3>2
  <2>5. QED
    BY <2>1, <2>2, <2>3, <2>4 DEF IndInv
<1>12. CASE RecvGuard
  <2>1. pc' # "panic" /\ TypeOK'
    BY <1>12 DEF RecvGuard, inVars, KeepMessage, TakeMessage
  <2>2. NotifyInv'
    BY <1>12 DEF RecvGuard, inVars, KeepMessage, TakeMessage
  <2>3. SendInv'
    BY <1>12 DEF RecvGuard, inVars, KeepMessage, TakeMessage
  <2>4. RecvInv'
    BY <1>12 DEF RecvGuard, inVars, KeepMessage, TakeMessage
  <2>5. QED
    BY <2>1, <2>2, <2>3, <2>4 DEF IndInv
<1>13. CASE Arrive
  <2>1. pc' # "panic" /\ TypeOK'
    BY <1>13 DEF Arrive, taskVars, aioVars, ownVars
  <2>2. NotifyInv'
    BY <1>13 DEF Arrive, taskVars, aioVars, ownVars
  <2>3. SendInv'
    BY <1>13 DEF Arrive, taskVars, aioVars, ownVars
  <2>4. RecvInv'
    BY <1>13 DEF Arrive, taskVars, aioVars, ownVars
  <2>5. QED
    BY <2>1, <2>2, <2>3, <2>4 DEF IndInv
<1>14. CASE NngSendOk
  <2>1. pc' # "panic" /\ TypeOK'
    BY <1>14 DEF NngSendOk, taskVars, inVars
  <2>2. NotifyInv'
    BY <1>14 DEF NngSendOk, taskVars, inVars
  <2>3. SendInv'
    BY <1>14 DEF NngSendOk, taskVars, inVars
  <2>4. RecvInv'
    BY <1>14 DEF NngSendOk, taskVars, inVars
  <2>5. QED
    BY <2>1, <2>2, <2>3, <2>4 DEF IndInv
<1>15. CASE NngRecvOk
  <2>1. pc' # "panic" /\ TypeOK'
    BY <1>15 DEF NngRecvOk, taskVars, ownVars
  <2>2. NotifyInv'
    BY <1>15 DEF NngRecvOk, taskVars, ownVars
  <2>3. SendInv'
    BY <1>15 DEF NngRecvOk, taskVars, ownVars
  <2>4. RecvInv'
    BY <1>15 DEF NngRecvOk, taskVars, ownVars
  <2>5. QED
    BY <2>1, <2>2, <2>3, <2>4 DEF IndInv
<1>16. CASE NngFail
  <2>1. pc' # "panic" /\ TypeOK'
    BY <1>16 DEF NngFail, taskVars, ownVars, inVars
  <2>2. NotifyInv'
    BY <1>16 DEF NngFail, taskVars, ownVars, inVars
  <2>3. SendInv'
    BY <1>16 DEF NngFail, taskVars, ownVars, inVars
  <2>4. RecvInv'
    BY <1>16 DEF NngFail, taskVars, ownVars, inVars
  <2>5. QED
    BY <2>1, <2>2, <2>3, <2>4 DEF IndInv
<1>17. CASE Callback
  <2>1. pc' # "panic" /\ TypeOK'
    BY <1>17 DEF Callback, taskVars, ownVars, inVars, NotifyOne
  <2>2. NotifyInv'
    BY <1>17 DEF Callback, taskVars, ownVars, inVars, NotifyOne
  <2>3. SendInv'
    BY <1>17 DEF Callback, taskVars, ownVars, inVars, NotifyOne
  <2>4. RecvInv'
    BY <1>17 DEF Callback, taskVars, ownVars, inVars, NotifyOne
  <2>5. QED
    BY <2>1, <2>2, <2>3, <2>4 DEF IndInv
<1>18. CASE CallbackReturn
  <2>1. pc' # "panic" /\ TypeOK'
    BY <1>18 DEF CallbackReturn, taskVars, ownVars, inVars
  <2>2. NotifyInv'
    BY <1>18 DEF CallbackReturn, taskVars, ownVars, inVars
  <2>3. SendInv'
    BY <1>18 DEF CallbackReturn, taskVars, ownVars, inVars
  <2>4. RecvInv'
    BY <1>18 DEF CallbackReturn, taskVars, ownVars, inVars
  <2>5. QED
    BY <2>1, <2>2, <2>3, <2>4 DEF IndInv
<1>19. CASE UNCHANGED vars
  BY <1>19 DEF vars, taskVars, aioVars, ownVars, inVars, InOrder, IndInv
<1>20. QED
  BY <1>1, <1>2, <1>3, <1>4, <1>5, <1>6, <1>7, <1>8, <1>9,
     <1>10, <1>11, <1>12, <1>13, <1>14, <1>15, <1>16, <1>17, <1>18,
     <1>19
  DEF Next, Application, Task, Guards, Nng

\* IndInv is an invariant of the handle.
THEOREM Invariance == Spec => []IndInv
<1>1. QED
  BY InitInd, StepInd, PTL DEF Spec

\* The variables keep their types: message pointers are null or messages.
THEOREM TypeCorrect == Spec => []TypeOK
<1>1. IndInv => TypeOK
  BY DEF IndInv
<1>2. QED
  BY <1>1, Invariance, PTL

(***************************************************************************)
(* No assertion, expect or unreachable! of aio.rs, context.rs and lib.rs   *)
(* is reachable from the operations of a handle.                           *)
(***************************************************************************)
THEOREM PanicFree == Spec => []NoPanic
<1>1. IndInv => NoPanic
  BY DEF IndInv, NoPanic
<1>2. QED
  BY <1>1, Invariance, PTL

\* Received messages come in order, each once, none missing.
THEOREM ReceiveInOrder == Spec => []InOrder
<1>1. IndInv => InOrder
  BY DEF IndInv, RecvInv
<1>2. QED
  BY <1>1, Invariance, PTL

\* No message ever has two owners, and none that has an owner is taken.
THEOREM SingleOwner == Spec => []OneOwner
<1>1. IndInv => OneOwner
  BY OutAssumption
  DEF IndInv, TypeOK, PcStates, NotifyInv, SendInv, RecvInv, OneOwner,
      Active, Receiving, Succeeded, Notified, Busy, In
<1>2. QED
  BY <1>1, Invariance, PTL

\* nng_aio_wait blocks the executor's thread at most for a callback's return.
THEOREM ShortJoin == Spec => []JoinIsShort
<1>1. IndInv => JoinIsShort
  BY DEF IndInv, NotifyInv, JoinIsShort, Notified
<1>2. QED
  BY <1>1, Invariance, PTL

\* Whoever borrows the Aio finds nothing left over from an earlier call.
THEOREM IdleIsClean == Spec => []CleanWhenIdle
<1>1. IndInv => CleanWhenIdle
  BY DEF IndInv, NotifyInv, RecvInv, CleanWhenIdle, Notified
<1>2. QED
  BY <1>1, Invariance, PTL

\* A dropped handle has leaked no message.
THEOREM DropLeaksNothing == Spec => []NoLeak
<1>1. IndInv => NoLeak
  BY DEF IndInv, TypeOK, SendInv, RecvInv, NoLeak, Active
<1>2. QED
  BY <1>1, Invariance, PTL

-----------------------------------------------------------------------------
(***************************************************************************)
(* Refinement.  An outgoing message is pending, in the terms of CancelSafe,*)
(* exactly when it is the message of a send that is pending or failed.     *)
(***************************************************************************)
Pending == {m \in Out : m \notin held \cup wire \cup freed}

\* The one outgoing message that nobody owns is in the Aio of an unfinished send.
LEMMA PendingMessage ==
  ASSUME IndInv
  PROVE  Pending = IF Active /\ op = "send" /\ ~Succeeded THEN {aioMsg} ELSE {}
  BY DEF IndInv, SendInv, Pending

\* fateBar, read one message at a time.
LEMMA FateOf ==
  ASSUME IndInv, NEW m \in Out
  PROVE  /\ fateBar[m] = "pending" <=> m \in Pending
         /\ fateBar[m] = "app" <=> m \in held
         /\ fateBar[m] = "sent" <=> m \in wire
         /\ fateBar[m] = "dropped" <=> m \in freed
  BY DEF IndInv, SendInv, Pending, fateBar

\* A fresh handle is a fresh abstract handle.
LEMMA InitRefines == Init => Abstract!AbsInit
  BY DEF Init, Abstract!AbsInit, callBar, fateBar

\* Every step of the handle is a step of CancelSafe or changes none of its
\* variables.
LEMMA StepRefines ==
  IndInv /\ IndInv' /\ [Next]_vars => [Abstract!AbsNext]_(Abstract!absVars)
<1> SUFFICES ASSUME IndInv, IndInv', [Next]_vars
             PROVE  Abstract!AbsNext \/ UNCHANGED Abstract!absVars
  OBVIOUS
<1> USE OutAssumption DEF Abstract!AbsNext, Abstract!absVars, callBar
<1>a. ASSUME UNCHANGED ownVars
      PROVE  fateBar' = fateBar
  BY <1>a DEF ownVars, fateBar
<1>1. ASSUME NEW m \in Out, SendMsg(m)
      PROVE  Abstract!StartSend(m)
  <2>1. pc = "idle" /\ op' = "send" /\ pc' = "wait" /\ m \in held
    BY <1>1 DEF SendMsg, IndInv
  <2>2. freed' = freed /\ wire' = wire /\ held' = held \ {m}
    BY <1>1 DEF SendMsg, IndInv, RecvInv
  <2>3. fateBar' = [fateBar EXCEPT ![m] = "pending"]
    BY <2>1, <2>2 DEF fateBar, IndInv, SendInv
  <2>4. fateBar[m] = "app"
    BY <2>1, FateOf
  <2>5. QED
    BY <1>1, <2>1, <2>3, <2>4 DEF SendMsg, inVars, Abstract!StartSend
<1>2. CASE RecvMsgRecovered
  BY <1>2, <1>a
  DEF RecvMsgRecovered, Abstract!RecvReturnsOk, IndInv, TypeOK, RecvInv,
      Receiving, Active, taskVars
<1>3. CASE RecvMsg
  BY <1>3, <1>a DEF RecvMsg, Abstract!StartRecv, IndInv, inVars
<1>4. CASE TryRecvMsg
  BY <1>4, <1>a
  DEF TryRecvMsg, Abstract!RecvReturnsOk, IndInv, TypeOK, RecvInv,
      Receiving, Active, taskVars
<1>5. CASE DropFuture
  BY <1>5, <1>a DEF DropFuture, Abstract!Abandon, IndInv, TypeOK, inVars
<1>6. CASE DropHandle
  <2>1. fateBar' = fateBar
    BY <1>6 DEF DropHandle, fateBar, IndInv, TypeOK
  <2>2. QED
    BY <1>6, <2>1 DEF DropHandle, Abstract!Close, inVars
<1>7. CASE PollNotified
  BY <1>7, <1>a DEF PollNotified, inVars
<1>8. CASE SendDone
  <2>1. pc = "join" /\ op = "send" /\ pc' = "idle" /\ aioState # "pending"
    BY <1>8 DEF SendDone, IndInv, NngAioWait, Busy
  <2>2. CASE aioResult = "OK"
    <3>1. Pending = {}
      BY <2>2, <2>1, PendingMessage DEF Succeeded
    <3>2. \A m \in Out : fateBar[m] # "pending"
      BY <3>1, FateOf
    <3>3. UNCHANGED ownVars
      BY <1>8, <2>2 DEF SendDone, ownVars
    <3>4. QED
      BY <1>8, <1>a, <2>1, <3>2, <3>3
      DEF SendDone, Abstract!SendReturnsOk, inVars
  <2>3. CASE aioResult # "OK"
    <3>1. Pending = {aioMsg} /\ aioMsg \in Out
      BY <2>3, <2>1, PendingMessage
      DEF Active, Succeeded, IndInv, SendInv
    <3>2. \E m \in Out : fateBar[m] = "pending"
      BY <3>1, FateOf
    <3>3. held' = held \cup {aioMsg} /\ UNCHANGED <<wire, freed>>
      BY <1>8, <2>3, <3>1 DEF SendDone, ReturnMessage
    <3>4. fateBar' = Abstract!PendingTo("app")
      BY <3>1, <3>3 DEF fateBar, Abstract!PendingTo, Pending
    <3>5. QED
      BY <1>8, <2>1, <3>2, <3>4
      DEF SendDone, Abstract!SendReturnsErr, inVars
  <2>4. QED
    BY <2>2, <2>3
<1>9. CASE RecvDone
  <2>1. pc = "join" /\ op = "recv" /\ pc' = "idle" /\ aioState # "pending"
    BY <1>9 DEF RecvDone, IndInv, NngAioWait, Busy
  <2>2. CASE aioResult = "OK"
    <3>1. aioMsg = Len(got) + 1 /\ Len(got) < arrived
      BY <2>1, <2>2
      DEF IndInv, TypeOK, RecvInv, Receiving, Active, Succeeded
    <3>2. got' = Append(got, aioMsg) /\ UNCHANGED <<arrived, ownVars>>
      BY <1>9, <2>1, <2>2 DEF RecvDone
    <3>3. QED
      BY <1>a, <2>1, <3>1, <3>2 DEF Abstract!RecvReturnsOk
  <2>3. CASE aioResult # "OK"
    BY <1>9, <1>a, <2>1, <2>3 DEF RecvDone, Abstract!RecvReturnsErr
  <2>4. QED
    BY <2>2, <2>3
<1>10. CASE GuardCancel
  BY <1>10, <1>a DEF GuardCancel, inVars
<1>11. CASE GuardSettle
  <2>1. pc = "cancelWait" /\ aioState # "pending"
    BY <1>11 DEF GuardSettle, NngAioWait, Busy
  <2>2. CASE op = "recv"
    <3>1. pc' = "recvGuard" /\ UNCHANGED ownVars
      BY <1>11, <2>1, <2>2
      DEF GuardSettle, ownVars, IndInv, RecvInv, Receiving, Active
    <3>2. QED
      BY <1>11, <1>a, <2>1, <3>1 DEF GuardSettle, inVars
  <2>3. CASE op = "send"
    <3>1. pc' = "idle" /\ msgWasSet
      BY <1>11, <2>1, <2>3 DEF GuardSettle, IndInv, SendInv, Active
    <3>2. fateBar' = Abstract!PendingTo("dropped")
      <4>1. CASE aioResult = "OK"
        <5>1. Pending = {}
          BY <4>1, <2>1, PendingMessage DEF Succeeded
        <5>2. UNCHANGED ownVars
          BY <1>11, <3>1, <4>1 DEF GuardSettle, ownVars
        <5>3. QED
          BY <5>1, <5>2 DEF fateBar, ownVars, Abstract!PendingTo, Pending
      <4>2. CASE aioResult # "OK"
        <5>1. Pending = {aioMsg} /\ aioMsg \in Out
          BY <4>2, <2>1, <2>3, PendingMessage
          DEF Active, Succeeded, IndInv, SendInv
        <5>2. freed' = freed \cup {aioMsg} /\ UNCHANGED <<held, wire>>
          BY <1>11, <3>1, <4>2, <5>1 DEF GuardSettle, DisposeMessage
        <5>3. QED
          BY <5>1, <5>2 DEF fateBar, Abstract!PendingTo, Pending
      <4>3. QED
        BY <4>1, <4>2
    <3>3. QED
      BY <1>11, <2>1, <3>1, <3>2 DEF GuardSettle, Abstract!Settle, inVars
  <2>4. QED
    BY <2>2, <2>3 DEF IndInv, TypeOK
<1>12. CASE RecvGuard
  <2>1. Pending = {}
    BY <1>12, PendingMessage DEF RecvGuard, Active
  <2>2. UNCHANGED ownVars
    BY <1>12 DEF RecvGuard, KeepMessage, ownVars
  <2>3. fateBar' = Abstract!PendingTo("dropped")
    BY <2>1, <2>2 DEF fateBar, ownVars, Abstract!PendingTo, Pending
  <2>4. QED
    BY <1>12, <2>3 DEF RecvGuard, Abstract!Settle, inVars
<1>13. CASE Arrive
  BY <1>13, <1>a
  DEF Arrive, Abstract!MessageArrives, IndInv, TypeOK, PcStates, taskVars
<1>14. CASE NngSendOk
  <2>1. pc \in {"wait", "dropping"}
    BY <1>14
    DEF NngSendOk, IndInv, TypeOK, PcStates, NotifyInv, Notified, Busy
  <2>2. Pending = {aioMsg} /\ aioMsg \in Out
    BY <1>14, <2>1, PendingMessage
    DEF NngSendOk, Active, Succeeded, IndInv, SendInv
  <2>3. \E m \in Out : fateBar[m] = "pending"
    BY <2>2, FateOf
  <2>4. wire' = wire \cup {aioMsg} /\ UNCHANGED <<held, freed>>
    BY <1>14 DEF NngSendOk
  <2>5. fateBar' = Abstract!PendingTo("sent")
    BY <2>2, <2>4 DEF fateBar, Abstract!PendingTo, Pending
  <2>6. QED
    BY <1>14, <2>1, <2>3, <2>5
    DEF NngSendOk, Abstract!Accept, taskVars, inVars
<1>15. CASE NngRecvOk
  BY <1>15, <1>a DEF NngRecvOk, taskVars
<1>16. CASE NngFail
  BY <1>16, <1>a DEF NngFail, taskVars, inVars
<1>17. CASE Callback
  BY <1>17, <1>a DEF Callback, taskVars, inVars
<1>18. CASE CallbackReturn
  BY <1>18, <1>a DEF CallbackReturn, taskVars, inVars
<1>19. CASE UNCHANGED vars
  BY <1>19, <1>a DEF vars, taskVars, inVars
<1>20. QED
  BY <1>1, <1>2, <1>3, <1>4, <1>5, <1>6, <1>7, <1>8, <1>9, <1>10, <1>11,
     <1>12, <1>13, <1>14, <1>15, <1>16, <1>17, <1>18, <1>19
  DEF Next, Application, Task, Guards, Nng

(***************************************************************************)
(* The handle implements CancelSafe: whatever the application cancels and  *)
(* however NNG's threads interleave with it, sends and receives keep the   *)
(* documented promises about messages.                                     *)
(***************************************************************************)
THEOREM Refinement == Spec => CancellationSafe
<1>1. QED
  BY InitRefines, StepRefines, Invariance, PTL
  DEF Spec, CancellationSafe, Abstract!AbsSpec
=============================================================================
