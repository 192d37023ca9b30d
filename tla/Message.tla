------------------------------ MODULE Message ------------------------------
(***************************************************************************)
(* anng::Message (anng/src/message.rs): a body with a read cursor (Buf), a *)
(* header, and the buffer NNG keeps the body in.  A byte is a number that  *)
(* no other byte has, so that it can be followed through every operation.  *)
(* The buffer has cap bytes, the body starts head bytes into it.           *)
(***************************************************************************)
EXTENDS Naturals, SequencesExt

CONSTANTS Messages,   \* messages of the application
          MaxBytes,   \* bound: bytes ever written to a body
          MaxHeader,  \* bound: length of a header
          MaxCap,     \* bound: capacity after a reserve or a clone_from
          Headroom,   \* what NNG reserves in front of a new body (external)
          Grow,       \* what chunk_mut reserves when the buffer is full
          UsizeMax,     \* usize::MAX
          PowersOfTwo   \* those of a usize

ASSUME MessageBounds ==
  {MaxBytes, MaxHeader, MaxCap, Headroom, Grow, UsizeMax} \subseteq Nat
ASSUME PowersAssumption == PowersOfTwo \subseteq 1..UsizeMax

VARIABLES
  msg,    \* the messages
  made,   \* bytes written so far
  slice   \* the end of the slice that chunk_mut lends, and the buffer's

messageVars == <<msg, made, slice>>

NoSlice == [end |-> 0, cap |-> 0]

Fresh(n) == [i \in 1..n |-> made + i]

Empty == [body |-> <<>>, pos |-> 0, header |-> 0, head |-> Headroom, cap |-> Headroom]

\* chunk() slices from pos and panics beyond the end; the body is in the
\* buffer.
MessageTypeOK ==
  /\ made \in 0..MaxBytes
  /\ slice \in [end : Nat, cap : Nat]
  /\ \A m \in Messages :
       /\ msg[m].body \in Seq(1..made)
       /\ msg[m].pos \in 0..Len(msg[m].body)
       /\ msg[m].header \in 0..MaxHeader
       /\ msg[m].head + Len(msg[m].body) <= msg[m].cap

\* Message::new, which allocates and truncates to nothing.
MessageInit ==
  /\ msg = [m \in Messages |-> Empty]
  /\ made = 0
  /\ slice = NoSlice

-----------------------------------------------------------------------------
(* Operators on a message r.  Faulty... are seeded faults.                 *)

\* checked_next_power_of_two, the least that is not below c, or usize::MAX.
NextPowerOfTwo(c) ==
  LET powers == {p \in PowersOfTwo : p >= c}
  IN  IF powers # {} THEN Min(powers) ELSE UsizeMax

\* nng_msg_reserve, nng_msg_realloc: room for n bytes after the head (external).
NngReserve(r, n) == [r EXCEPT !.cap = Max({r.cap, r.head + n})]

\* reserve: at least what is required, else the next power of two.
Reserve(r, n) ==
  IF Len(r.body) + n > r.cap
  THEN NngReserve(r, Max({Len(r.body) + n, NextPowerOfTwo(r.cap)}))
  ELSE r

\* nng_msg_append (external): grows the buffer where reserve has not.
NngAppend(r, bytes) ==
  [NngReserve(r, Len(r.body) + Len(bytes)) EXCEPT !.body = @ \o bytes]

\* write.
WriteTo(r, bytes) == NngAppend(Reserve(r, Len(bytes)), bytes)

\* prepend: nng_msg_insert (external) uses the head, or moves the body up.
PrependTo(r, bytes) ==
  LET head == IF r.head >= Len(bytes) THEN r.head - Len(bytes) ELSE 0
  IN  [r EXCEPT !.body = bytes \o @, !.head = head,
                !.cap = Max({@, head + Len(r.body) + Len(bytes)})]

\* truncate, for a len that is not beyond the end.
TruncateTo(r, len) ==
  [r EXCEPT !.body = SubSeq(@, 1, len), !.pos = Min({@, len})]

FaultyTruncateFront(r, len) ==
  LET trim == Len(r.body) - len
  IN  [r EXCEPT !.body = SubSeq(@, trim + 1, Len(@)), !.head = @ + trim,
                !.pos = Min({@, len})]

\* truncate_front: the last len bytes stay.
TruncateFrontTo(r, len) ==
  LET trim == Len(r.body) - len
  IN  [r EXCEPT !.body = SubSeq(@, trim + 1, Len(@)), !.head = @ + trim,
                !.pos = IF @ >= trim THEN @ - trim ELSE 0]

-----------------------------------------------------------------------------
Put(m, r) == msg' = [msg EXCEPT ![m] = r]

Write(m) ==
  \E n \in 1..MaxBytes - made :
    Put(m, WriteTo(msg[m], Fresh(n))) /\ made' = made + n /\ slice' = NoSlice

\* reserve and reserve_exact.
ReserveMore(m) ==
  /\ \E n \in 1..MaxBytes :
       \E r \in {Reserve(msg[m], n), NngReserve(msg[m], Len(msg[m].body) + n)} :
         r.cap <= MaxCap /\ Put(m, r)
  /\ slice' = NoSlice /\ UNCHANGED made

Prepend(m) ==
  \E n \in 1..MaxBytes - made :
    Put(m, PrependTo(msg[m], Fresh(n))) /\ made' = made + n /\ slice' = NoSlice

Truncate(m) ==
  /\ \E len \in 0..Len(msg[m].body) : Put(m, TruncateTo(msg[m], len))
  /\ slice' = NoSlice /\ UNCHANGED made

TruncateFront(m) ==
  /\ \E len \in 0..Len(msg[m].body) : Put(m, TruncateFrontTo(msg[m], len))
  /\ slice' = NoSlice /\ UNCHANGED made

\* set_len, and advance_mut after a write into the slice of chunk_mut.
SetLen(m) ==
  /\ \/ \E n \in 1..MaxBytes - made :
          Put(m, NngAppend(msg[m], Fresh(n))) /\ made' = made + n
     \/ \E len \in 0..Len(msg[m].body) :
          Put(m, TruncateTo(msg[m], len)) /\ UNCHANGED made
  /\ slice' = NoSlice

\* write_header and prepend_header.
WriteHeader(m) ==
  /\ msg[m].header < MaxHeader
  /\ Put(m, [msg[m] EXCEPT !.header = @ + 1])
  /\ slice' = NoSlice /\ UNCHANGED made

\* header_truncate and header_truncate_front.
HeaderTruncate(m) ==
  /\ \E len \in 0..msg[m].header : Put(m, [msg[m] EXCEPT !.header = len])
  /\ slice' = NoSlice /\ UNCHANGED made

Clear(m) ==
  /\ Put(m, [TruncateTo(msg[m], 0) EXCEPT !.header = 0])
  /\ slice' = NoSlice /\ UNCHANGED made

\* advance, which panics past the end.
Advance(m) ==
  /\ \E n \in 1..Len(msg[m].body) - msg[m].pos :
       Put(m, [msg[m] EXCEPT !.pos = @ + n])
  /\ slice' = NoSlice /\ UNCHANGED made

\* clone_from: r with the content of s.
Cloned(r, s) ==
  [WriteTo(TruncateTo(r, 0), s.body) EXCEPT !.header = s.header, !.pos = s.pos]

CloneFrom(m, source) ==
  /\ m # source /\ Cloned(msg[m], msg[source]).cap <= MaxCap
  /\ Put(m, Cloned(msg[m], msg[source]))
  /\ slice' = NoSlice /\ UNCHANGED made

\* nng_msg_dup of source into a message that is replaced.
Clone(m, source) ==
  /\ m # source
  /\ Put(m, msg[source])
  /\ slice' = NoSlice /\ UNCHANGED made

\* chunk_mut: capacity() - len bytes from the end of the body.
ChunkMut(m) ==
  LET r == IF Len(msg[m].body) >= msg[m].cap THEN Reserve(msg[m], Grow) ELSE msg[m]
  IN  /\ Put(m, r)
      /\ slice' = [end |-> r.head + r.cap, cap |-> r.cap]
      /\ UNCHANGED made

MessageNext ==
  \E m \in Messages :
    \/ Write(m) \/ ReserveMore(m) \/ Prepend(m) \/ Truncate(m) \/ TruncateFront(m)
    \/ SetLen(m)
    \/ WriteHeader(m) \/ HeaderTruncate(m) \/ Clear(m) \/ Advance(m) \/ ChunkMut(m)
    \/ \E source \in Messages : CloneFrom(m, source) \/ Clone(m, source)

MessageSpec == MessageInit /\ [][MessageNext]_messageVars

-----------------------------------------------------------------------------
(* Properties.                                                             *)

\* The bytes of r that have been read, and those that remain().
Consumed(r) == ToSet(SubSeq(r.body, 1, r.pos))

Remaining(r) == ToSet(SubSeq(r.body, r.pos + 1, Len(r.body)))

(***************************************************************************)
(* Editing keeps the reader's place: as long as nothing is prepended, no   *)
(* operation makes a byte that was read unread, and only advance makes one *)
(* read.                                                                   *)
(***************************************************************************)
KeepsPlace ==
  [][\A m \in Messages :
       \/ Prepend(m)
       \/ \E source \in Messages : CloneFrom(m, source) \/ Clone(m, source)
       \/ /\ Consumed(msg[m]) \cap Remaining(msg'[m]) = {}
          /\ Consumed(msg'[m]) \cap Remaining(msg[m]) = {} \/ Advance(m)]_messageVars

(***************************************************************************)
(* "it is valid from +current_len to +current_len+available_space as those *)
(* are both < the message's capacity": the slice chunk_mut hands out ends  *)
(* within the buffer.                                                      *)
(***************************************************************************)
SliceInBuffer == slice.end <= slice.cap
=============================================================================
