------------------------------- MODULE Direct -------------------------------
(***************************************************************************)
(* The protocols that work on the socket itself (anng/src/protocols/       *)
(* pair1.rs, pipeline0.rs, bus0.rs): their constructors, and send, receive,*)
(* try_receive, push, pull and try_pull over Socket::send_msg, recv_msg    *)
(* and try_recv_msg of anng/src/lib.rs, with futures dropped at any await. *)
(*                                                                         *)
(* Socket 1 may have a pipe to each of the others.  Over it a pair talks   *)
(* to its one peer, a Push0 hands each message to one Pull0, and a bus     *)
(* reaches every peer.  Pipes, and the receive queues, are external.       *)
(***************************************************************************)
EXTENDS Naturals, Sequences, SequencesExt, FiniteSets

CONSTANTS Others,     \* the sockets besides socket 1
          MaxSent,    \* bound on the messages made
          Room        \* length of NNG's receive queues

ASSUME DirectAssumption ==
  /\ Others \subseteq Nat \ {0, 1} /\ IsFiniteSet(Others)
  /\ MaxSent \in Nat /\ Room \in Nat \ {0}

Sockets == Others \cup {1}
NoMsg == 0

VARIABLES
  \* "pair1", "pipeline0" or "bus0"; the life of every socket; its pipes
  proto, life, pipes,
  \* messages made; per socket: operation, message to be sent in its nng_aio
  \* (NoMsg once NNG took it), received message there, recovered_msg,
  \* message a failed send gave back
  made, op, out, inbox, recovered, back,
  \* NNG's receive queues
  rqueue,
  \* what NNG took from each socket, what it gave each, what each returned
  sent, handed, got

sendVars == <<made, out, back, sent>>
recvVars == <<inbox, recovered, got>>
directVars ==
  <<proto, life, pipes, op, sendVars, recvVars, rqueue, handed>>

DirectTypeOK ==
  /\ proto \in {"pair1", "pipeline0", "bus0"}
  /\ life \in [Sockets -> {"none", "dialing", "open", "closed"}]
  /\ pipes \subseteq Others
  /\ made \in 0..MaxSent
  /\ op \in [Sockets -> {"idle", "send", "recv"}]
  /\ {out, inbox, recovered, back} \subseteq [Sockets -> 0..MaxSent]
  /\ {rqueue, sent, got} \subseteq [Sockets -> Seq(1..MaxSent)]
  /\ handed \in [Sockets -> SUBSET (1..MaxSent)]

DirectInit ==
  /\ proto \in {"pair1", "pipeline0", "bus0"}
  /\ life = [s \in Sockets |-> "none"] /\ pipes = {}
  /\ made = 0
  /\ op = [s \in Sockets |-> "idle"]
  /\ out = [s \in Sockets |-> NoMsg] /\ inbox = out
  /\ recovered = out /\ back = out
  /\ rqueue = [s \in Sockets |-> <<>>] /\ sent = rqueue /\ got = rqueue
  /\ handed = [s \in Sockets |-> {}]

-----------------------------------------------------------------------------
(* Constructors.  Definitions named Faulty... are seeded faults.           *)

\* socket, listen: create_socket opens the socket and listen starts a listener;
\* on an error the socket is dropped.
Listen(s) ==
  /\ life[s] = "none"
  /\ \E result \in {"open", "closed"} : life' = [life EXCEPT ![s] = result]
  /\ UNCHANGED <<proto, pipes, op, sendVars, recvVars, rqueue, handed>>

\* Socket::drop: nng_socket_close ends the pipes and empties the queues.
NngClose(s) ==
  /\ life' = [life EXCEPT ![s] = "closed"]
  /\ pipes' = IF s = 1 THEN {} ELSE pipes \ {s}
  /\ rqueue' = [rqueue EXCEPT ![s] = <<>>]

\* dial, up to the await of Socket::dial.
Dial(s) ==
  /\ life[s] = "none"
  /\ life' = [life EXCEPT ![s] = "dialing"]
  /\ UNCHANGED <<proto, pipes, op, sendVars, recvVars, rqueue, handed>>

\* It returns the socket; on an error, or when the future is dropped, the
\* socket goes, and with it a pipe the dialer may have made.
DialEnds(s) ==
  /\ life[s] = "dialing"
  /\ \/ life' = [life EXCEPT ![s] = "open"] /\ UNCHANGED <<pipes, rqueue>>
     \/ NngClose(s)
  /\ UNCHANGED <<proto, op, sendVars, recvVars, handed>>

\* The application drops the socket and what it got from it.
Drop(s) ==
  /\ life[s] = "open" /\ op[s] = "idle"
  /\ NngClose(s)
  /\ recovered' = [recovered EXCEPT ![s] = NoMsg]
  /\ back' = [back EXCEPT ![s] = NoMsg]
  /\ UNCHANGED <<proto, op, made, out, sent, inbox, got, handed>>

-----------------------------------------------------------------------------
(* Sending.                                                                *)

CanSend(s) == proto = "pipeline0" => s = 1
CanRecv(s) == proto = "pipeline0" => s # 1

\* send, push: set_message and nng_socket_send, up to the await.  The message
\* is a new one, or one that a failed send gave back.
Send(s) ==
  /\ life[s] = "open" /\ op[s] = "idle" /\ CanSend(s)
  /\ \/ made < MaxSent /\ made' = made + 1
        /\ out' = [out EXCEPT ![s] = made + 1] /\ UNCHANGED back
     \/ back[s] # NoMsg /\ out' = [out EXCEPT ![s] = back[s]]
        /\ back' = [back EXCEPT ![s] = NoMsg] /\ UNCHANGED made
  /\ op' = [op EXCEPT ![s] = "send"]
  /\ UNCHANGED <<proto, life, pipes, sent, recvVars, rqueue, handed>>

\* Ok: NNG has the message.
SendOk(s) ==
  /\ op[s] = "send" /\ out[s] = NoMsg
  /\ op' = [op EXCEPT ![s] = "idle"]
  /\ UNCHANGED <<proto, life, pipes, sendVars, recvVars, rqueue, handed>>

\* Err((e, message)): the message is still in the nng_aio.
SendErr(s) ==
  /\ op[s] = "send" /\ out[s] # NoMsg
  /\ op' = [op EXCEPT ![s] = "idle"]
  /\ back' = [back EXCEPT ![s] = out[s]]
  /\ out' = [out EXCEPT ![s] = NoMsg]
  /\ UNCHANGED <<proto, life, pipes, made, sent, recvVars, rqueue, handed>>

\* The future is dropped: what NNG did not take is freed.
CancelSend(s) ==
  /\ op[s] = "send"
  /\ op' = [op EXCEPT ![s] = "idle"]
  /\ out' = [out EXCEPT ![s] = NoMsg]
  /\ UNCHANGED
       <<proto, life, pipes, made, back, sent, recvVars, rqueue, handed>>

-----------------------------------------------------------------------------
(* Receiving.                                                              *)

Return(s, m) == got' = [got EXCEPT ![s] = Append(@, m)]

\* receive, pull, try_receive, try_pull: the recovered message comes first.
ReceiveRecovered(s) ==
  /\ life[s] = "open" /\ op[s] = "idle" /\ CanRecv(s) /\ recovered[s] # NoMsg
  /\ Return(s, recovered[s])
  /\ recovered' = [recovered EXCEPT ![s] = NoMsg]
  /\ UNCHANGED <<proto, life, pipes, op, sendVars, inbox, rqueue, handed>>

\* receive does not look for a recovered message.
FaultyReceive(s) ==
  /\ life[s] = "open" /\ op[s] = "idle" /\ CanRecv(s)
  /\ op' = [op EXCEPT ![s] = "recv"]
  /\ UNCHANGED <<proto, life, pipes, sendVars, recvVars, rqueue, handed>>

\* receive, pull: nng_socket_recv, up to the await.
Receive(s) ==
  /\ life[s] = "open" /\ op[s] = "idle" /\ CanRecv(s) /\ recovered[s] = NoMsg
  /\ op' = [op EXCEPT ![s] = "recv"]
  /\ UNCHANGED <<proto, life, pipes, sendVars, recvVars, rqueue, handed>>

\* try_receive, try_pull; with an empty queue they return None.
TryReceive(s) ==
  /\ life[s] = "open" /\ op[s] = "idle" /\ CanRecv(s) /\ recovered[s] = NoMsg
  /\ rqueue[s] # <<>>
  /\ Return(s, Head(rqueue[s]))
  /\ handed' = [handed EXCEPT ![s] = @ \cup {Head(rqueue[s])}]
  /\ rqueue' = [rqueue EXCEPT ![s] = Tail(@)]
  /\ UNCHANGED <<proto, life, pipes, op, sendVars, inbox, recovered>>

ReceiveOk(s) ==
  /\ op[s] = "recv" /\ inbox[s] # NoMsg
  /\ Return(s, inbox[s])
  /\ inbox' = [inbox EXCEPT ![s] = NoMsg]
  /\ op' = [op EXCEPT ![s] = "idle"]
  /\ UNCHANGED <<proto, life, pipes, sendVars, recovered, rqueue, handed>>

\* The receive fails: there is no message.
ReceiveErr(s) ==
  /\ op[s] = "recv" /\ inbox[s] = NoMsg
  /\ op' = [op EXCEPT ![s] = "idle"]
  /\ UNCHANGED <<proto, life, pipes, sendVars, recvVars, rqueue, handed>>

\* The guard is forgotten before the future can be dropped.
FaultyGuard(s) ==
  /\ inbox' = [inbox EXCEPT ![s] = NoMsg]
  /\ UNCHANGED recovered

\* CancellationGuard::drop of recv_msg: take_message into recovered_msg.
Guard(s) ==
  /\ recovered' = [recovered EXCEPT ![s] = inbox[s]]
  /\ inbox' = [inbox EXCEPT ![s] = NoMsg]

\* The future of receive or pull is dropped.
CancelReceive(s) ==
  /\ op[s] = "recv"
  /\ Guard(s)
  /\ op' = [op EXCEPT ![s] = "idle"]
  /\ UNCHANGED <<proto, life, pipes, sendVars, got, rqueue, handed>>

-----------------------------------------------------------------------------
(* NNG (external).                                                         *)

\* Dialers make pipes, again and again; a pair keeps its first.
Attach(s) ==
  /\ s \notin pipes /\ {life[1], life[s]} \subseteq {"dialing", "open"}
  /\ proto = "pair1" => pipes = {}
  /\ pipes' = pipes \cup {s}
  /\ UNCHANGED <<proto, life, op, sendVars, recvVars, rqueue, handed>>

Detach(s) ==
  /\ s \in pipes
  /\ pipes' = pipes \ {s}
  /\ UNCHANGED <<proto, life, op, sendVars, recvVars, rqueue, handed>>

\* The sockets a message of socket s may go to.
PeersOf(s) == IF s = 1 THEN pipes ELSE IF s \in pipes THEN {1} ELSE {}

\* NNG takes the message of a send.  A pair and a push wait for a peer with
\* room, of which one gets it; a bus gives it to every peer that has room.  It
\* may be lost on the way.
NngSocketSend(s) ==
  LET m == out[s]
      Ready == {r \in PeersOf(s) : Len(rqueue[r]) < Room}
  IN /\ op[s] = "send" /\ m # NoMsg
     /\ proto # "bus0" => Ready # {}
     /\ \E R \in SUBSET Ready :
          /\ proto # "bus0" => Cardinality(R) <= 1
          /\ rqueue' = [r \in Sockets |-> IF r \in R THEN Append(rqueue[r], m)
                                          ELSE rqueue[r]]
     /\ out' = [out EXCEPT ![s] = NoMsg]
     /\ sent' = [sent EXCEPT ![s] = Append(@, m)]
     /\ UNCHANGED <<proto, life, pipes, made, op, back, recvVars, handed>>

\* A pending receive gets the oldest message.
NngSocketRecv(s) ==
  /\ op[s] = "recv" /\ inbox[s] = NoMsg /\ rqueue[s] # <<>>
  /\ inbox' = [inbox EXCEPT ![s] = Head(rqueue[s])]
  /\ handed' = [handed EXCEPT ![s] = @ \cup {Head(rqueue[s])}]
  /\ rqueue' = [rqueue EXCEPT ![s] = Tail(@)]
  /\ UNCHANGED <<proto, life, pipes, op, sendVars, recovered, got>>

-----------------------------------------------------------------------------
DirectNext ==
  \E s \in Sockets :
    \/ Listen(s) \/ Dial(s) \/ DialEnds(s) \/ Drop(s)
    \/ Send(s) \/ SendOk(s) \/ SendErr(s) \/ CancelSend(s)
    \/ ReceiveRecovered(s) \/ Receive(s) \/ TryReceive(s)
    \/ ReceiveOk(s) \/ ReceiveErr(s) \/ CancelReceive(s)
    \/ s \in Others /\ (Attach(s) \/ Detach(s))
    \/ NngSocketSend(s) \/ NngSocketRecv(s)

DirectSpec == DirectInit /\ [][DirectNext]_directVars

-----------------------------------------------------------------------------
(* Properties.                                                             *)

\* Positions of message m in a sequence of messages.
At(m, q) == {i \in DOMAIN q : q[i] = m}

(***************************************************************************)
(* "Messages arrive in order" (pull) and "Each message goes to exactly one *)
(* worker" (Push0): what a socket returns of one sender's messages is in   *)
(* the order NNG took them and has none twice, and no two workers return   *)
(* the same message, although sends fail and are retried with the message  *)
(* they gave back, and futures are dropped after a message has arrived.    *)
(***************************************************************************)
DeliveredInOrder ==
  /\ \A r, s \in Sockets : \A i, j \in DOMAIN got[r] : i < j =>
       \A a \in At(got[r][i], sent[s]), b \in At(got[r][j], sent[s]) : a < b
  /\ proto # "bus0" => \A r, s \in Sockets :
       r # s => ToSet(got[r]) \cap ToSet(got[s]) = {}

(***************************************************************************)
(* "No work items are lost due to cancellation" (pull, receive): a message *)
(* that NNG handed to a receive is in its nng_aio, in recovered_msg, or    *)
(* was returned, as long as the socket is there.                           *)
(***************************************************************************)
NoWorkLost ==
  \A s \in Sockets : life[s] # "closed" =>
    handed[s] = ({inbox[s], recovered[s]} \ {NoMsg}) \cup ToSet(got[s])
=============================================================================
