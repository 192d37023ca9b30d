----------------------------- MODULE NngMessage -----------------------------
(***************************************************************************)
(* nng::Message and its Header (nng/src/message.rs), and the blocking and  *)
(* non-blocking send and receive of nng::Socket that pass messages to NNG  *)
(* and get them back (nng/src/socket.rs).  A Message is a pointer to an    *)
(* nng_msg that it frees when it is dropped; its Header holds the same     *)
(* pointer.  Each holder is a variable of the application, used by one     *)
(* thread at a time; the threads share the socket.                         *)
(***************************************************************************)
EXTENDS Naturals, Sequences, FiniteSets

CONSTANTS Pointers,  \* the addresses of nng_msg
          Null,      \* no pointer, no message
          Holders,   \* variables of the application that may hold a Message
          MaxLen,    \* bound: bytes of a body and of a header
          MaxQueue    \* bound: messages NNG queues

Bytes == {0, 1}

\* What an nng_msg has: a body, a header, and whether it came from a pipe.
NngMsgs == [body : Seq(Bytes), header : Seq(Bytes), pipe : BOOLEAN]

ASSUME NngMessageAssumption ==
  /\ Null \notin Pointers /\ Null \notin NngMsgs
  /\ MaxLen \in Nat /\ MaxQueue \in Nat

VARIABLES
  heap,     \* the nng_msg at each pointer, Null where there is none
  held,     \* the Message in each holder: its msgp and that of its header
  doing,    \* the call of the socket the thread of a holder is in
  lent,     \* the pointer that call has passed to NNG
  queue,    \* messages NNG has, to be received
  isOpen,   \* the socket is open
  freed     \* pointers that were freed while something else still held them

nngMessageVars == <<heap, held, doing, lent, queue, isOpen, freed>>

NoMessage == [msgp |-> Null, header |-> Null]

\* Message::from_ptr.
FromPtr(p) == [msgp |-> p, header |-> p]

NngMessageTypeOK ==
  /\ heap \in [Pointers -> NngMsgs \cup {Null}]
  /\ held \in [Holders -> {NoMessage} \cup {FromPtr(p) : p \in Pointers}]
  /\ doing \in [Holders -> {"nothing", "send", "recv"}]
  /\ lent \in [Holders -> Pointers \cup {Null}]
  /\ queue \subseteq Pointers /\ isOpen \in BOOLEAN /\ freed \subseteq Pointers

NngMessageInit ==
  /\ heap = [p \in Pointers |-> Null]
  /\ held = [h \in Holders |-> NoMessage]
  /\ doing = [h \in Holders |-> "nothing"]
  /\ lent = [h \in Holders |-> Null]
  /\ queue = {} /\ isOpen = TRUE /\ freed = {}

\* Who can still reach p.
HoldersOf(p) == {h \in Holders : held[h].msgp = p \/ held[h].header = p \/ lent[h] = p}

Idle(h) == doing[h] = "nothing"
Has(h)  == Idle(h) /\ held[h] # NoMessage
Free(h) == Idle(h) /\ held[h] = NoMessage

-----------------------------------------------------------------------------
(* Parts of a message: operators on a body or a header s.  NNG's chop and  *)
(* trim refuse more bytes than there are; the callers never ask for more.  *)
(* Faulty... are seeded faults.                                            *)

\* nng_msg_chop, nng_msg_header_chop.
Chop(s, n) == SubSeq(s, 1, Len(s) - n)

\* truncate of Message and of Header: current_len.saturating_sub(len).
TruncatedTo(s, len) == Chop(s, IF Len(s) > len THEN Len(s) - len ELSE 0)

\* trim of Message and of Header: len.min(current_len).
TrimmedBy(s, len) == SubSeq(s, (IF len < Len(s) THEN len ELSE Len(s)) + 1, Len(s))

\* push_back and push_front, of Message and of Header; write, write_all and
\* extend push to the back.
Pushed(s, b) == {Append(s, b), <<b>> \o s}

\* What an editing call may make of s: with truncate, trim, clear, push_back,
\* push_front, and a write through as_mut_slice or index_mut.
Edited(s) ==
  {TruncatedTo(s, len) : len \in 0..MaxLen + 1}
    \cup {TrimmedBy(s, len) : len \in 0..MaxLen + 1}
    \cup {<<>>}
    \cup {t \in UNION {Pushed(s, b) : b \in Bytes} : Len(t) <= MaxLen}
    \cup {[s EXCEPT ![i] = b] : i \in DOMAIN s, b \in Bytes}

-----------------------------------------------------------------------------
(* Messages.                                                               *)

\* nng_msg_alloc, and what is written before the Message is returned: nothing
\* (new, and with_capacity, which clears what NNG fills), zeros (with_zeros),
\* a slice (From<&[u8]>) or the items of an iterator (FromIterator).
Alloc(h, p, body) ==
  /\ Free(h) /\ heap[p] = Null
  /\ heap' = [heap EXCEPT ![p] = [body |-> body, header |-> <<>>, pipe |-> FALSE]]
  /\ held' = [held EXCEPT ![h] = FromPtr(p)]
  /\ UNCHANGED <<doing, lent, queue, isOpen, freed>>

\* Drop of a Message: nng_msg_free.
DropMessage(h) ==
  /\ Has(h)
  /\ LET p == held[h].msgp
     IN  /\ heap' = [heap EXCEPT ![p] = Null]
         /\ freed' = freed \cup (IF p \in queue \/ HoldersOf(p) # {h} THEN {p} ELSE {})
  /\ held' = [held EXCEPT ![h] = NoMessage]
  /\ UNCHANGED <<doing, lent, queue, isOpen>>

\* Clone: nng_msg_dup.
CloneMessage(h, to, p) ==
  /\ Has(h) /\ Free(to) /\ heap[p] = Null
  /\ heap' = [heap EXCEPT ![p] = heap[held[h].msgp]]
  /\ held' = [held EXCEPT ![to] = FromPtr(p)]
  /\ UNCHANGED <<doing, lent, queue, isOpen, freed>>

\* The calls that edit the body, through msgp, and those that edit the header,
\* through the pointer of the Header.
EditBody(h) ==
  /\ Has(h)
  /\ \E s \in Edited(heap[held[h].msgp].body) :
       heap' = [heap EXCEPT ![held[h].msgp].body = s]
  /\ UNCHANGED <<held, doing, lent, queue, isOpen, freed>>

EditHeader(h) ==
  /\ Has(h)
  /\ \E s \in Edited(heap[held[h].header].header) :
       heap' = [heap EXCEPT ![held[h].header].header = s]
  /\ UNCHANGED <<held, doing, lent, queue, isOpen, freed>>

\* set_pipe; pipe() is Some only if the id is not 0.
SetPipe(h) ==
  /\ Has(h) /\ ~heap[held[h].msgp].pipe
  /\ heap' = [heap EXCEPT ![held[h].msgp].pipe = TRUE]
  /\ UNCHANGED <<held, doing, lent, queue, isOpen, freed>>

-----------------------------------------------------------------------------
(* Send and receive.                                                       *)

FaultySend(h) ==
  /\ Has(h)
  /\ lent' = [lent EXCEPT ![h] = held[h].msgp]
  /\ doing' = [doing EXCEPT ![h] = "send"]
  /\ UNCHANGED <<heap, held, queue, isOpen, freed>>

\* send and try_send up to the call of nng_sendmsg: into_ptr forgets the
\* Message without dropping it.
Send(h) ==
  /\ Has(h)
  /\ lent' = [lent EXCEPT ![h] = held[h].msgp]
  /\ held' = [held EXCEPT ![h] = NoMessage]
  /\ doing' = [doing EXCEPT ![h] = "send"]
  /\ UNCHANGED <<heap, queue, isOpen, freed>>

\* nng_sendmsg succeeds: NNG has the message, to transmit and free, or here to
\* be received through the same socket's peer.
SendOk(h) ==
  /\ doing[h] = "send" /\ isOpen /\ Cardinality(queue) < MaxQueue
  /\ queue' = queue \cup {lent[h]}
  /\ lent' = [lent EXCEPT ![h] = Null]
  /\ doing' = [doing EXCEPT ![h] = "nothing"]
  /\ UNCHANGED <<heap, held, isOpen, freed>>

\* It fails: Closed, TryAgain, TimedOut...; the caller gets the message back
\* with the error.
SendErr(h) ==
  /\ doing[h] = "send"
  /\ held' = [held EXCEPT ![h] = FromPtr(lent[h])]
  /\ lent' = [lent EXCEPT ![h] = Null]
  /\ doing' = [doing EXCEPT ![h] = "nothing"]
  /\ UNCHANGED <<heap, queue, isOpen, freed>>

\* Result::from(AioResult), of Send(Err((_, e))): the message is dropped and
\* the error stays.
DropResult(h) ==
  /\ doing[h] = "send"
  /\ heap' = [heap EXCEPT ![lent[h]] = Null]
  /\ freed' = freed \cup (IF lent[h] \in queue \/ HoldersOf(lent[h]) # {h}
                          THEN {lent[h]} ELSE {})
  /\ lent' = [lent EXCEPT ![h] = Null]
  /\ doing' = [doing EXCEPT ![h] = "nothing"]
  /\ UNCHANGED <<held, queue, isOpen>>

\* recv and try_recv: nng_recvmsg, blocking or not.
Recv(h) ==
  /\ Free(h)
  /\ doing' = [doing EXCEPT ![h] = "recv"]
  /\ UNCHANGED <<heap, held, lent, queue, isOpen, freed>>

\* It succeeds: validate_ptr and from_ptr.
RecvOk(h, p) ==
  /\ doing[h] = "recv" /\ p \in queue /\ isOpen
  /\ queue' = queue \ {p}
  /\ heap' = [heap EXCEPT ![p].pipe = TRUE]
  /\ held' = [held EXCEPT ![h] = FromPtr(p)]
  /\ doing' = [doing EXCEPT ![h] = "nothing"]
  /\ UNCHANGED <<lent, isOpen, freed>>

RecvErr(h) ==
  /\ doing[h] = "recv"
  /\ doing' = [doing EXCEPT ![h] = "nothing"]
  /\ UNCHANGED <<heap, held, lent, queue, isOpen, freed>>

\* The socket is closed; NNG frees what it has queued.
CloseSocket ==
  /\ isOpen
  /\ isOpen' = FALSE /\ queue' = {}
  /\ heap' = [p \in Pointers |-> IF p \in queue THEN Null ELSE heap[p]]
  /\ freed' = freed \cup {p \in queue : HoldersOf(p) # {}}
  /\ UNCHANGED <<held, doing, lent>>

\* The bodies that new, with_capacity, from and from_iter give a message.
Filled == {<<>>, <<0>>, <<1>>}

NngMessageNext ==
  \/ \E h \in Holders, p \in Pointers :
       \/ \E body \in Filled : Alloc(h, p, body)
       \/ RecvOk(h, p)
       \/ \E to \in Holders : CloneMessage(h, to, p)
  \/ \E h \in Holders :
       \/ DropMessage(h) \/ EditBody(h) \/ EditHeader(h) \/ SetPipe(h)
       \/ Send(h) \/ SendOk(h) \/ SendErr(h) \/ DropResult(h)
       \/ Recv(h) \/ RecvErr(h)
  \/ CloseSocket

NngMessageSpec == NngMessageInit /\ [][NngMessageNext]_nngMessageVars

-----------------------------------------------------------------------------
(***************************************************************************)
(* Whatever the threads send, receive, clone and drop, an nng_msg has one  *)
(* holder, a Message (both of its pointers) or NNG, until it is freed, and *)
(* it is freed once: a failed send gives back a message NNG no longer has, *)
(* a successful one leaves nothing behind, nothing leaks.                  *)
(***************************************************************************)
OneHolder ==
  /\ freed = {}
  /\ \A p \in Pointers :
       Cardinality(HoldersOf(p)) + (IF p \in queue THEN 1 ELSE 0)
         = IF heap[p] = Null THEN 0 ELSE 1
=============================================================================
