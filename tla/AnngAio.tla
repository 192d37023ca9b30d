------------------------------ MODULE AnngAio ------------------------------
(***************************************************************************)
(* One anng handle: a Socket, or a ContextfulSocket with its Context.  It  *)
(* owns one Aio (anng/src/aio.rs), through which every asynchronous send   *)
(* and receive goes, and a recovered_msg slot.  Four parties take steps:   *)
(*                                                                         *)
(*   - the application, which calls send_msg, recv_msg and try_recv_msg,   *)
(*     may drop the future of a pending call and in the end the handle;    *)
(*   - the executor, which polls the future of the pending call;           *)
(*   - the drop glue of a cancelled future (two CancellationGuards);       *)
(*   - the NNG library (external), which completes the operation on its    *)
(*     own threads and there runs the callback notify_on_call.             *)
(*                                                                         *)
(* Outgoing messages are the members of Out.  The messages NNG hands out   *)
(* are numbered 1, 2, 3 ... in the order in which it does so.              *)
(***************************************************************************)
EXTENDS Naturals, Sequences

CONSTANTS Out,     \* the messages the application may send
          MaxIn,   \* bound on the messages that arrive
          NULL     \* the null message pointer, and Option::None

In == 1..MaxIn

ASSUME BoundAssumption == MaxIn \in Nat
ASSUME OutAssumption   == Out \cap In = {} /\ NULL \notin Out \cup In

VARIABLES
  \* the future of the pending call, and which call that is
  pc, op,
  \* the nng_aio (external): its progress, result and message pointer
  aioState, aioResult, aioMsg,
  \* struct Aio: the flag, and its Notify (stored permit, registered waiter)
  msgWasSet, permit, waiter,
  \* Socket::recovered_msg or Context::recovered_msg
  recovered,
  \* owners of messages: application, NNG's send side, nobody (freed)
  held, wire, freed,
  \* received messages: arrived, handed out by NNG, returned to the application
  arrived, handed, got

taskVars  == <<pc, op>>
aioVars   == <<aioState, aioResult, aioMsg>>
ownVars   == <<held, wire, freed>>
inVars    == <<arrived, handed, got>>
vars == <<taskVars, aioVars, msgWasSet, permit, waiter, recovered, ownVars,
          inVars>>

(***************************************************************************)
(* pc: "idle" no future borrows the handle; "wait" inside notified().await *)
(* of Aio::wait; "join" past it, in nng_aio_wait; "dropping" the future is *)
(* dropped and its Notified is gone; "cancelWait" the guard of Aio::wait   *)
(* has cancelled and sits in nng_aio_wait; "recvGuard" that guard is done  *)
(* and the guard of recv_msg is next; "closed" the handle was dropped;     *)
(* "panic" an assertion, expect or unreachable of the code was hit.        *)
(***************************************************************************)
PcStates == {"idle", "wait", "join", "dropping", "cancelWait", "recvGuard",
             "closed", "panic"}

(***************************************************************************)
(* nng_aio: "pending" the protocol works on it; "finished" the result is   *)
(* set and the callback scheduled; "notified" the callback has called      *)
(* notify_one and not returned; "idle" otherwise.                          *)
(***************************************************************************)
AioStates == {"idle", "pending", "finished", "notified"}

Errno == {"OK", "ECANCELED", "FAILED"}

TypeOK ==
  /\ pc \in PcStates
  /\ op \in {"send", "recv"}
  /\ aioState \in AioStates
  /\ aioResult \in Errno
  /\ aioMsg \in Out \cup In \cup {NULL}
  /\ msgWasSet \in BOOLEAN
  /\ permit \in BOOLEAN
  /\ waiter \in {"none", "waiting", "notified"}
  /\ recovered \in In \cup {NULL}
  /\ held \subseteq Out
  /\ wire \subseteq Out \cup In
  /\ freed \subseteq Out \cup In
  /\ arrived \in 0..MaxIn
  /\ handed \in 0..MaxIn
  /\ got \in Seq(In)

Init ==
  /\ pc = "idle"
  /\ op = "send"
  /\ aioState = "idle"
  /\ aioResult = "OK"
  /\ aioMsg = NULL
  /\ msgWasSet = FALSE
  /\ permit = FALSE
  /\ waiter = "none"
  /\ recovered = NULL
  /\ held = Out
  /\ wire = {}
  /\ freed = {}
  /\ arrived = 0
  /\ handed = 0
  /\ got = <<>>

\* nng_aio_busy: the callback counts as part of the operation.
Busy == aioState # "idle"

-----------------------------------------------------------------------------
(***************************************************************************)
(* The parts the operations share.  The definitions named Faulty... are    *)
(* seeded faults, each a plausible slip in the definition that follows it; *)
(* the specification does not use them.                                    *)
(***************************************************************************)

FaultyJoin == TRUE

\* nng_aio_wait returns when the callback has returned.
NngAioWait == ~Busy

FaultyTakeMessage ==
  /\ aioMsg' = aioMsg
  /\ msgWasSet' = FALSE

\* Aio::take_message: clear the pointer, and the flag if there was a message.
TakeMessage ==
  /\ aioMsg' = NULL
  /\ msgWasSet' = (msgWasSet /\ aioMsg = NULL)

FaultyForget == UNCHANGED <<aioMsg, msgWasSet>>

\* What Aio::wait and its guard do to the message of a send that succeeded.
ForgetMessage ==
  /\ aioMsg' = NULL
  /\ msgWasSet' = FALSE

FaultyNotify ==
  /\ waiter' = IF waiter = "waiting" THEN "notified" ELSE waiter
  /\ UNCHANGED permit

\* Notify::notify_one: wake the registered waiter, else store one permit.
NotifyOne ==
  IF waiter = "waiting"
    THEN waiter' = "notified" /\ UNCHANGED permit
    ELSE permit' = TRUE /\ UNCHANGED waiter

FaultyEat == UNCHANGED permit

\* The guard's single poll of a fresh notified().
EatNotification == permit' = FALSE

FaultyCancel == UNCHANGED <<aioState, aioResult>>

\* nng_aio_cancel: no effect on an operation that has already finished.
NngAioCancel ==
  IF aioState = "pending"
    THEN aioState' = "finished" /\ aioResult' = "ECANCELED"
    ELSE UNCHANGED <<aioState, aioResult>>

FaultyReturn(m) == freed' = freed \cup m /\ UNCHANGED held

\* send_msg returns the messages m, one or none, along with its error.
ReturnMessage(m) == held' = held \cup m /\ UNCHANGED freed

FaultyDispose == UNCHANGED <<aioMsg, msgWasSet, freed>>

\* The guard takes the message of a send that did not succeed, and drops it.
DisposeMessage ==
  /\ TakeMessage
  /\ freed' = freed \cup ({aioMsg} \ {NULL})

FaultyKeep ==
  /\ freed' = freed \cup {aioMsg}
  /\ TakeMessage
  /\ UNCHANGED recovered

\* The guard of recv_msg moves the received message into recovered_msg.
KeepMessage ==
  /\ recovered' = aioMsg
  /\ TakeMessage
  /\ UNCHANGED freed

-----------------------------------------------------------------------------
(* The application.                                                        *)

(***************************************************************************)
(* send_msg up to the await of Aio::wait: set_message (whose return value  *)
(* is dropped), then nng_ctx_send or nng_socket_send.                      *)
(***************************************************************************)
SendMsg(m) ==
  /\ pc = "idle"
  /\ m \in held
  /\ held' = held \ {m}
  /\ freed' = IF msgWasSet /\ aioMsg # NULL THEN freed \cup {aioMsg} ELSE freed
  /\ aioMsg' = m
  /\ msgWasSet' = TRUE
  /\ aioState' = "pending"
  /\ op' = "send"
  /\ pc' = IF Busy \/ (~msgWasSet /\ aioMsg # NULL) THEN "panic" ELSE "wait"
  /\ UNCHANGED <<aioResult, permit, waiter, recovered, wire, inVars>>

\* recv_msg when an earlier, cancelled receive left a message behind.
RecvMsgRecovered ==
  /\ pc = "idle"
  /\ recovered # NULL
  /\ recovered' = NULL
  /\ got' = Append(got, recovered)
  /\ UNCHANGED <<taskVars, aioVars, msgWasSet, permit, waiter, ownVars,
                 arrived, handed>>

\* recv_msg up to the await of Aio::wait.
RecvMsg ==
  /\ pc = "idle"
  /\ recovered = NULL
  /\ aioState' = "pending"
  /\ op' = "recv"
  /\ pc' = IF Busy THEN "panic" ELSE "wait"
  /\ UNCHANGED <<aioResult, aioMsg, msgWasSet, permit, waiter, recovered,
                 ownVars, inVars>>

(***************************************************************************)
(* try_recv_msg, which does not use the Aio: the recovered message, or a   *)
(* message NNG has ready.  EAGAIN and the errors change nothing.           *)
(***************************************************************************)
TryRecvMsg ==
  /\ pc = "idle"
  /\ \/ /\ recovered # NULL
        /\ recovered' = NULL
        /\ got' = Append(got, recovered)
        /\ UNCHANGED handed
     \/ /\ recovered = NULL
        /\ handed < arrived
        /\ handed' = handed + 1
        /\ got' = Append(got, handed + 1)
        /\ UNCHANGED recovered
  /\ UNCHANGED <<taskVars, aioVars, msgWasSet, permit, waiter, ownVars,
                 arrived>>

(***************************************************************************)
(* The application drops the future of the pending call, which is possible *)
(* only between two polls, that is once the Notified is registered.  The   *)
(* Notified goes first: one that was already notified passes its           *)
(* notification on, as a stored permit.                                    *)
(***************************************************************************)
DropFuture ==
  /\ pc = "wait"
  /\ waiter # "none"
  /\ pc' = "dropping"
  /\ permit' = (permit \/ waiter = "notified")
  /\ waiter' = "none"
  /\ UNCHANGED <<op, aioVars, msgWasSet, recovered, ownVars, inVars>>

(***************************************************************************)
(* Drop of the handle: the socket or context is closed, the nng_aio and    *)
(* the Notify are freed, and so is a recovered message.                    *)
(***************************************************************************)
DropHandle ==
  /\ pc = "idle"
  /\ pc' = "closed"
  /\ freed' = IF recovered # NULL THEN freed \cup {recovered} ELSE freed
  /\ recovered' = NULL
  /\ UNCHANGED <<op, aioVars, msgWasSet, permit, waiter, held, wire, inVars>>

-----------------------------------------------------------------------------
(* The executor polls the future.                                          *)

\* notified().await: a stored permit or a delivered notification ends it.
PollNotified ==
  /\ pc = "wait"
  /\ \/ /\ waiter = "none"
        /\ permit
        /\ permit' = FALSE
        /\ pc' = "join"
        /\ UNCHANGED waiter
     \/ /\ waiter = "none"
        /\ ~permit
        /\ waiter' = "waiting"
        /\ UNCHANGED <<pc, permit>>
     \/ /\ waiter = "notified"
        /\ waiter' = "none"
        /\ pc' = "join"
        /\ UNCHANGED permit
  /\ UNCHANGED <<op, aioVars, msgWasSet, recovered, ownVars, inVars>>

(***************************************************************************)
(* The end of Aio::wait and of send_msg, once nng_aio_wait returns: on     *)
(* success forget the message, otherwise hand it back to the application.  *)
(***************************************************************************)
SendDone ==
  /\ pc = "join" /\ op = "send"
  /\ NngAioWait
  /\ \/ /\ aioResult = "OK"
        /\ ForgetMessage
        /\ pc' = "idle"
        /\ UNCHANGED <<held, freed>>
     \/ /\ aioResult # "OK"
        /\ TakeMessage
        /\ ReturnMessage({aioMsg} \ {NULL})
        /\ pc' = IF aioMsg = NULL THEN "panic" ELSE "idle"
  /\ UNCHANGED <<op, aioState, aioResult, permit, waiter, recovered, wire,
                 inVars>>

\* The end of Aio::wait and of recv_msg: on success take the message.
RecvDone ==
  /\ pc = "join" /\ op = "recv"
  /\ NngAioWait
  /\ \/ /\ aioResult = "OK"
        /\ TakeMessage
        /\ got' = IF aioMsg = NULL THEN got ELSE Append(got, aioMsg)
        /\ pc' = IF aioMsg = NULL THEN "panic" ELSE "idle"
     \/ /\ aioResult # "OK"
        /\ pc' = "idle"
        /\ UNCHANGED <<aioMsg, msgWasSet, got>>
  /\ UNCHANGED <<op, aioState, aioResult, permit, waiter, recovered, ownVars,
                 arrived, handed>>

-----------------------------------------------------------------------------
(* The drop glue of a cancelled future.                                    *)

\* The guard of Aio::wait cancels the operation.
GuardCancel ==
  /\ pc = "dropping"
  /\ pc' = "cancelWait"
  /\ NngAioCancel
  /\ UNCHANGED <<op, aioMsg, msgWasSet, permit, waiter, recovered, ownVars,
                 inVars>>

(***************************************************************************)
(* The rest of that guard, once nng_aio_wait returns: it eats the          *)
(* notification, which must be there, and disposes of the message.  A      *)
(* received message stays in the nng_aio.                                  *)
(***************************************************************************)
GuardSettle ==
  /\ pc = "cancelWait"
  /\ NngAioWait
  /\ EatNotification
  /\ pc' = IF permit THEN IF op = "recv" THEN "recvGuard" ELSE "idle"
            ELSE "panic"
  /\ \/ msgWasSet /\ aioResult = "OK" /\ ForgetMessage /\ UNCHANGED freed
     \/ msgWasSet /\ aioResult # "OK" /\ DisposeMessage
     \/ ~msgWasSet /\ UNCHANGED <<aioMsg, msgWasSet, freed>>
  /\ UNCHANGED <<op, aioState, aioResult, waiter, recovered, held, wire,
                 inVars>>

\* The guard of recv_msg keeps a message that was received just too late.
RecvGuard ==
  /\ pc = "recvGuard"
  /\ pc' = "idle"
  /\ \/ aioMsg # NULL /\ KeepMessage
     \/ aioMsg = NULL /\ UNCHANGED <<recovered, aioMsg, msgWasSet, freed>>
  /\ UNCHANGED <<op, aioState, aioResult, permit, waiter, held, wire, inVars>>

-----------------------------------------------------------------------------
(* The NNG library (external).                                             *)

\* A message arrives that a receive on this handle may return.
Arrive ==
  /\ pc # "closed"
  /\ arrived < MaxIn
  /\ arrived' = arrived + 1
  /\ UNCHANGED <<taskVars, aioVars, msgWasSet, permit, waiter, recovered,
                 ownVars, handed, got>>

(***************************************************************************)
(* A send succeeds: NNG owns the message from here on.  The interface does *)
(* not say whether the pointer in the nng_aio is cleared.                  *)
(***************************************************************************)
NngSendOk ==
  /\ aioState = "pending" /\ op = "send"
  /\ aioState' = "finished"
  /\ aioResult' = "OK"
  /\ wire' = wire \cup {aioMsg}
  /\ aioMsg' \in {aioMsg, NULL}
  /\ UNCHANGED <<taskVars, msgWasSet, permit, waiter, recovered, held, freed,
                 inVars>>

\* A receive succeeds: the message is left in the nng_aio.
NngRecvOk ==
  /\ aioState = "pending" /\ op = "recv"
  /\ handed < arrived
  /\ aioState' = "finished"
  /\ aioResult' = "OK"
  /\ handed' = handed + 1
  /\ aioMsg' = handed + 1
  /\ UNCHANGED <<taskVars, msgWasSet, permit, waiter, recovered, ownVars,
                 arrived, got>>

\* The operation times out or fails; the message pointer stays as it is.
NngFail ==
  /\ aioState = "pending"
  /\ aioState' = "finished"
  /\ aioResult' = "FAILED"
  /\ UNCHANGED <<taskVars, aioMsg, msgWasSet, permit, waiter, recovered,
                 ownVars, inVars>>

\* notify_on_call, run by an NNG thread: wake the waiter or store a permit.
Callback ==
  /\ aioState = "finished"
  /\ aioState' = "notified"
  /\ NotifyOne
  /\ UNCHANGED <<taskVars, aioResult, aioMsg, msgWasSet, recovered, ownVars,
                 inVars>>

\* The callback returns to NNG, and nng_aio_wait may return.
CallbackReturn ==
  /\ aioState = "notified"
  /\ aioState' = "idle"
  /\ UNCHANGED <<taskVars, aioResult, aioMsg, msgWasSet, permit, waiter,
                 recovered, ownVars, inVars>>

-----------------------------------------------------------------------------
Application ==
  \/ \E m \in Out : SendMsg(m)
  \/ RecvMsgRecovered
  \/ RecvMsg
  \/ TryRecvMsg
  \/ DropFuture
  \/ DropHandle

Task == PollNotified \/ SendDone \/ RecvDone

Guards == GuardCancel \/ GuardSettle \/ RecvGuard

Nng ==
  Arrive \/ NngSendOk \/ NngRecvOk \/ NngFail \/ Callback \/ CallbackReturn

Next == Application \/ Task \/ Guards \/ Nng

Spec == Init /\ [][Next]_vars

(***************************************************************************)
(* Fairness: the executor polls a future that was woken and runs a poll to *)
(* its end, drop glue runs to its end, and NNG runs a scheduled callback.  *)
(* Nothing makes the network complete an operation, or the application act.*)
(***************************************************************************)
Fairness ==
  /\ WF_vars(Task)
  /\ WF_vars(Guards)
  /\ WF_vars(Callback)
  /\ WF_vars(CallbackReturn)

FairSpec == Spec /\ Fairness

-----------------------------------------------------------------------------
(* Safety.                                                                 *)

(***************************************************************************)
(* No step reaches an assertion, an expect or an unreachable! of the code: *)
(* the Aio is not busy when it is started or its message touched, the      *)
(* guard always finds the notification ("cancel guarantees that callback   *)
(* will be fired"), a failed send still has its message, a successful      *)
(* receive has one.                                                        *)
(***************************************************************************)
NoPanic == pc # "panic"

(***************************************************************************)
(* The messages NNG hands out reach the application in order, each once    *)
(* and with none missing, however many receives are cancelled.             *)
(***************************************************************************)
InOrder == \A i \in 1..Len(got) : got[i] = i

(***************************************************************************)
(* Every message has at most one owner.  A message the application holds   *)
(* or that was freed is not NNG's, and the Aio never points at a message   *)
(* that someone else owns while it would treat that message as its own.    *)
(***************************************************************************)
OneOwner ==
  /\ held \cap wire = {} /\ held \cap freed = {} /\ wire \cap freed = {}
  /\ msgWasSet /\ ~Busy /\ aioResult # "OK" => aioMsg \notin wire
  /\ aioMsg \notin held \cup freed

(***************************************************************************)
(* Aio::wait calls the blocking nng_aio_wait on the executor's thread only *)
(* after the callback has notified: a leftover notification of an earlier, *)
(* cancelled call never lets it block on an operation still in progress.   *)
(***************************************************************************)
JoinIsShort == pc = "join" => aioState \in {"notified", "idle"}

(***************************************************************************)
(* The busy state invariant of Aio, and more: whoever may borrow the Aio   *)
(* mutably finds it not busy, without message, flag or notification of an  *)
(* earlier call.                                                           *)
(***************************************************************************)
CleanWhenIdle ==
  pc \in {"idle", "closed"} =>
    ~Busy /\ aioMsg = NULL /\ ~msgWasSet /\ ~permit /\ waiter = "none"

(***************************************************************************)
(* Dropping the handle leaks no message: each one the application sent is  *)
(* its own again, NNG's, or freed, and of those NNG handed out all but the *)
(* freed ones were returned.                                               *)
(***************************************************************************)
NoLeak ==
  pc = "closed" =>
    /\ Out \subseteq held \cup wire \cup freed
    /\ \A n \in 1..handed : n <= Len(got) \/ n \in freed

-----------------------------------------------------------------------------
(* Liveness, under Fairness.                                               *)

(***************************************************************************)
(* Dropping a future returns: the blocking drop glue of a cancelled call   *)
(* always comes to its end, although NNG may never complete the operation. *)
(***************************************************************************)
CancelCompletes == pc \in {"dropping", "cancelWait"} ~> pc = "idle"

(***************************************************************************)
(* No wakeup is lost: once NNG has completed the operation, the call       *)
(* returns or is cancelled, whenever the callback runs relative to the     *)
(* polls of the future.                                                    *)
(***************************************************************************)
CompletionReturns == (pc = "wait" /\ aioState = "finished") ~> pc = "idle"

-----------------------------------------------------------------------------
(* Refinement of CancelSafe.                                               *)

callBar ==
  CASE pc = "idle"                                      -> "none"
    [] pc \in {"wait", "join"}                          -> op
    [] pc \in {"dropping", "cancelWait", "recvGuard"}   -> "abandoned"
    [] OTHER                                            -> "closed"

fateBar ==
  [m \in Out |-> IF m \in wire THEN "sent"
                 ELSE IF m \in held THEN "app"
                 ELSE IF m \in freed THEN "dropped" ELSE "pending"]

Abstract == INSTANCE CancelSafe WITH call <- callBar, fate <- fateBar

(***************************************************************************)
(* The handle with its Aio, Notify, guards and recovered_msg keeps the     *)
(* promises of CancelSafe: every step is one of its steps or invisible.    *)
(***************************************************************************)
CancellationSafe == Abstract!AbsSpec

=============================================================================
