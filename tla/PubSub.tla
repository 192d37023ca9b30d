------------------------------- MODULE PubSub -------------------------------
(***************************************************************************)
(* Publish/subscribe (anng/src/protocols/pubsub0.rs): a Pub0 socket and    *)
(* one Sub0 context with its topic filter.  External are NNG's pub0 and    *)
(* sub0: messages that match no subscription are discarded on arrival, the *)
(* receive queue is bounded and drops its oldest or the newest message,    *)
(* and a subscription that ends takes the queued messages only it matched. *)
(*                                                                         *)
(* Topics and contents are byte sequences; a topic matches the contents it *)
(* is a prefix of.  Published messages are numbered, their contents logged.*)
(***************************************************************************)
EXTENDS Naturals, Sequences, SequencesExt, FiniteSets

CONSTANTS Topics,     \* the topics subscribed to
          Contents,   \* the contents of messages
          MaxPub,     \* bound on the messages published
          Capacity    \* length of NNG's receive queue

ASSUME PubAssumption == MaxPub \in Nat /\ Capacity \in Nat \ {0}

None == 0

VARIABLES
  \* publisher: pending publish, contents of the messages published
  ppc, log,
  \* the network between them, in order
  net,
  \* NNG's sub0 context: subscriptions, NNG_OPT_SUB_PREFNEW, receive queue
  subs, preferNew, queue,
  \* subscriber: pending next, completed receive, recovered_msg
  spc, aio, rec,
  \* the messages the application got
  seen

pubVars == <<ppc, log>>
ctxVars == <<subs, preferNew>>
pubSubVars == <<pubVars, net, ctxVars, queue, spc, aio, rec, seen>>

Ids == 1..MaxPub

\* Message n matches one of the topics in ts.
Matches(n, ts) == \E t \in ts : IsPrefix(t, log[n])

PubSubTypeOK ==
  /\ ppc \in {"idle", "sending"}
  /\ log \in Seq(Contents) /\ Len(log) <= MaxPub
  /\ net \in Seq(Ids)
  /\ subs \subseteq Topics \cup {<<>>} /\ preferNew \in BOOLEAN
  /\ queue \in Seq(Ids) /\ Len(queue) <= Capacity
  /\ spc \in {"idle", "recv"}
  /\ aio \in 0..MaxPub /\ rec \in 0..MaxPub
  /\ seen \in Seq(Ids)

PubSubInit ==
  /\ ppc = "idle" /\ log = <<>> /\ net = <<>>
  /\ subs = {} /\ preferNew = TRUE
  /\ queue = <<>>
  /\ spc = "idle" /\ aio = None /\ rec = None
  /\ seen = <<>>

-----------------------------------------------------------------------------
(* The publisher.  Definitions named Faulty... are seeded faults.          *)

\* publish, up to the await of send_msg.
Publish(b) ==
  /\ ppc = "idle" /\ Len(log) < MaxPub
  /\ ppc' = "sending"
  /\ log' = Append(log, b)
  /\ UNCHANGED <<net, ctxVars, queue, spc, aio, rec, seen>>

\* It returns Ok, an error, or is dropped: NNG took the message or not.
PublishEnds ==
  /\ ppc = "sending"
  /\ ppc' = "idle"
  /\ \/ net' = Append(net, Len(log))
     \/ UNCHANGED net
  /\ UNCHANGED <<log, ctxVars, queue, spc, aio, rec, seen>>

-----------------------------------------------------------------------------
(* NNG (external).                                                         *)

\* The queue takes message n, and drops its oldest or n itself if it is full.
Enqueue(n) ==
  queue' = IF Len(queue) < Capacity THEN Append(queue, n)
           ELSE IF preferNew THEN Append(Tail(queue), n) ELSE queue

\* The next message is lost, discarded by the filter, or queued.
Arrive ==
  /\ net # <<>>
  /\ net' = Tail(net)
  /\ \/ UNCHANGED queue
     \/ Matches(Head(net), subs) /\ Enqueue(Head(net))
  /\ UNCHANGED <<pubVars, ctxVars, spc, aio, rec, seen>>

\* The pending receive completes with the oldest message.
NngRecv ==
  /\ spc = "recv" /\ aio = None /\ queue # <<>>
  /\ aio' = Head(queue)
  /\ queue' = Tail(queue)
  /\ UNCHANGED <<pubVars, net, ctxVars, spc, rec, seen>>

-----------------------------------------------------------------------------
(* The subscriber.                                                         *)

\* subscribe_to(t).
SubscribeTo(t) ==
  /\ spc = "idle"
  /\ subs' = subs \cup {t}
  /\ UNCHANGED <<pubVars, net, preferNew, queue, spc, aio, rec, seen>>

\* disable_filtering subscribes to the empty topic.
DisableFiltering == SubscribeTo(<<>>)

\* What a topic in ts matches stays in the queue, in its order: kept enumerates
\* the places of these messages.
KeepMatching(ts) ==
  LET places == {i \in DOMAIN queue : Matches(queue[i], ts)}
  IN  \E kept \in [1..Cardinality(places) -> places] :
        /\ \A i, j \in DOMAIN kept : i < j => kept[i] < kept[j]
        /\ queue' = [i \in DOMAIN kept |-> queue[kept[i]]]

\* unsubscribe_from(t); without such a subscription (ENOENT) nothing changes.
UnsubscribeFrom(t) ==
  /\ spc = "idle"
  /\ t \in subs
  /\ subs' = subs \ {t}
  /\ KeepMatching(subs \ {t})
  /\ UNCHANGED <<pubVars, net, preferNew, spc, aio, rec, seen>>

PreferNew(prefer) ==
  /\ spc = "idle"
  /\ preferNew' = prefer
  /\ UNCHANGED <<pubVars, net, subs, queue, spc, aio, rec, seen>>

\* next or try_next returns the message recovered from a cancelled next.
NextRecovered ==
  /\ spc = "idle" /\ rec # None
  /\ seen' = Append(seen, rec)
  /\ rec' = None
  /\ UNCHANGED <<pubVars, net, ctxVars, queue, spc, aio>>

\* next, up to the await.
StartNext ==
  /\ spc = "idle" /\ rec = None
  /\ spc' = "recv"
  /\ UNCHANGED <<pubVars, net, ctxVars, queue, aio, rec, seen>>

\* try_next without recovered message.
TryNext ==
  /\ spc = "idle" /\ rec = None /\ queue # <<>>
  /\ seen' = Append(seen, Head(queue))
  /\ queue' = Tail(queue)
  /\ UNCHANGED <<pubVars, net, ctxVars, spc, aio, rec>>

NextOk ==
  /\ spc = "recv" /\ aio # None
  /\ seen' = Append(seen, aio)
  /\ aio' = None
  /\ spc' = "idle"
  /\ UNCHANGED <<pubVars, net, ctxVars, queue, rec>>

\* The guard of recv_msg does not take the message out of the nng_aio.
FaultyKeep == rec' = aio /\ UNCHANGED aio

\* The guard of recv_msg keeps the message of a receive that has completed.
KeepMessage == rec' = aio /\ aio' = None

\* The receive fails, or the future of next is dropped.
NextFails ==
  /\ spc = "recv"
  /\ KeepMessage
  /\ spc' = "idle"
  /\ UNCHANGED <<pubVars, net, ctxVars, queue, seen>>

-----------------------------------------------------------------------------
Publisher == PublishEnds \/ \E b \in Contents : Publish(b)

Nng == Arrive \/ NngRecv

Subscriber ==
  \/ \E t \in Topics : SubscribeTo(t)
  \/ DisableFiltering
  \/ \E t \in Topics \cup {<<>>} : UnsubscribeFrom(t)
  \/ \E prefer \in BOOLEAN : PreferNew(prefer)
  \/ NextRecovered \/ StartNext \/ TryNext \/ NextOk \/ NextFails

PubSubNext == Publisher \/ Nng \/ Subscriber

PubSubSpec == PubSubInit /\ [][PubSubNext]_pubSubVars

-----------------------------------------------------------------------------
(* Properties.                                                             *)

(***************************************************************************)
(* "Messages are delivered in the order they arrive" (next): the messages  *)
(* of one publisher are returned in order and once, also when the queue    *)
(* overflows, the filter changes and calls of next are cancelled.          *)
(***************************************************************************)
ArrivalOrder == \A i, j \in DOMAIN seen : i < j => seen[i] < seen[j]
=============================================================================
