------------------------------- MODULE ReqRep -------------------------------
(***************************************************************************)
(* Request/reply over contexts (anng/src/protocols/reqrep0.rs): the Req0   *)
(* contexts Clients issue requests and await replies, the Rep0 contexts    *)
(* Servers receive requests and reply.  Sends and receives are those of    *)
(* AnngAio, at the grain of CancelSafe: an operation is started, NNG may   *)
(* complete it, and the task then notices, or the future is dropped first. *)
(*                                                                         *)
(* Requests are numbered.  A reply carries two numbers: the request NNG    *)
(* routes it to, and the request its sender meant to answer.               *)
(*                                                                         *)
(* External is what the protocols req0 and rep0 of NNG do: a new request   *)
(* resets its context, replies that match no outstanding request are       *)
(* discarded, unanswered requests are resent, the network may lose either. *)
(***************************************************************************)
EXTENDS Naturals

CONSTANTS Clients,   \* Req0 contexts
          Servers,   \* Rep0 contexts
          MaxReq     \* bound on the requests issued

ASSUME ReqAssumption == MaxReq \in Nat

Ids  == 1..MaxReq
None == 0             \* no request, no reply

VARIABLES
  \* client contexts: pending call, request and reply of the NNG context,
  \* reply in a completed nng_aio, recovered_msg, request the caller awaits
  cpc, nngReq, nngRep, aioRep, crec, asked,
  \* server contexts: pending call, request NNG would route a reply to,
  \* request in a completed nng_aio, recovered_msg, request of the Responder
  spc, peer, aioReq, srec, holds,
  \* the network, the requests issued, the answers the callers saw
  reqs, reps, issued, answers

clientVars == <<cpc, nngReq, nngRep, aioRep, crec, asked>>
serverVars == <<spc, peer, aioReq, srec, holds>>
netVars    == <<reqs, reps>>
vars == <<clientVars, serverVars, netVars, issued, answers>>

TypeOK ==
  /\ cpc \in [Clients -> {"idle", "sending", "sent", "ready", "recv"}]
  /\ \A f \in {nngReq, nngRep, aioRep, crec, asked} :
       f \in [Clients -> 0..MaxReq]
  /\ spc \in [Servers -> {"idle", "recv", "responder", "replying", "replied"}]
  /\ \A f \in {peer, aioReq, srec, holds} : f \in [Servers -> 0..MaxReq]
  /\ reqs \subseteq Ids
  /\ reps \subseteq Ids \X Ids
  /\ issued \in 0..MaxReq
  /\ answers \subseteq Ids \X Ids

Init ==
  /\ cpc = [c \in Clients |-> "idle"]
  /\ nngReq = [c \in Clients |-> None]
  /\ nngRep = [c \in Clients |-> None]
  /\ aioRep = [c \in Clients |-> None]
  /\ crec = [c \in Clients |-> None]
  /\ asked = [c \in Clients |-> None]
  /\ spc = [s \in Servers |-> "idle"]
  /\ peer = [s \in Servers |-> None]
  /\ aioReq = [s \in Servers |-> None]
  /\ srec = [s \in Servers |-> None]
  /\ holds = [s \in Servers |-> None]
  /\ reqs = {}
  /\ reps = {}
  /\ issued = 0
  /\ answers = {}

\* f with its value at x replaced by v.
Set(f, x, v) == [f EXCEPT ![x] = v]

-----------------------------------------------------------------------------
(* Client contexts.  Definitions named Faulty... are seeded faults.        *)

\* request, up to the await of send_msg: NNG resets the context.
Request(c) ==
  /\ cpc[c] = "idle"
  /\ issued < MaxReq
  /\ issued' = issued + 1
  /\ cpc' = Set(cpc, c, "sending")
  /\ nngReq' = Set(nngReq, c, issued + 1)
  /\ nngRep' = Set(nngRep, c, None)
  /\ UNCHANGED <<aioRep, crec, asked, serverVars, netVars, answers>>

\* NNG (external) accepts the request and puts it on the wire.
NngSendRequest(c) ==
  /\ cpc[c] = "sending"
  /\ cpc' = Set(cpc, c, "sent")
  /\ reqs' = reqs \cup {nngReq[c]}
  /\ UNCHANGED <<nngReq, nngRep, aioRep, crec, asked, serverVars, reps, issued,
                 answers>>

\* send_msg returned Ok: request returns the reply future.
RequestOk(c) ==
  /\ cpc[c] = "sent"
  /\ cpc' = Set(cpc, c, "ready")
  /\ asked' = Set(asked, c, nngReq[c])
  /\ UNCHANGED <<nngReq, nngRep, aioRep, crec, serverVars, netVars, issued,
                 answers>>

\* send_msg returned an error, and with it the message.
RequestErr(c) ==
  /\ cpc[c] = "sending"
  /\ cpc' = Set(cpc, c, "idle")
  /\ nngReq' = Set(nngReq, c, None)
  /\ UNCHANGED <<nngRep, aioRep, crec, asked, serverVars, netVars, issued,
                 answers>>

\* The future of request is dropped; what NNG accepted stays outstanding.
CancelRequest(c) ==
  /\ cpc[c] \in {"sending", "sent"}
  /\ cpc' = Set(cpc, c, "idle")
  /\ nngReq' = IF cpc[c] = "sent" THEN nngReq ELSE Set(nngReq, c, None)
  /\ UNCHANGED <<nngRep, aioRep, crec, asked, serverVars, netVars, issued,
                 answers>>

\* The caller of c sees reply r to the request it asked.
Answer(c, r) == answers' = answers \cup {<<asked[c], r>>}

\* The reply future is polled: recv_msg returns the recovered message, ...
ReplyRecovered(c) ==
  /\ cpc[c] = "ready"
  /\ crec[c] # None
  /\ crec' = Set(crec, c, None)
  /\ Answer(c, crec[c])
  /\ cpc' = Set(cpc, c, "idle")
  /\ UNCHANGED <<nngReq, nngRep, aioRep, asked, serverVars, netVars, issued>>

\* ... or starts to receive.
AwaitReply(c) ==
  /\ cpc[c] = "ready"
  /\ crec[c] = None
  /\ cpc' = Set(cpc, c, "recv")
  /\ UNCHANGED <<nngReq, nngRep, aioRep, crec, asked, serverVars, netVars,
                 issued, answers>>

\* NNG (external) completes the receive with the reply it has.
NngRecvReply(c) ==
  /\ cpc[c] = "recv"
  /\ nngRep[c] # None
  /\ aioRep' = Set(aioRep, c, nngRep[c])
  /\ nngRep' = Set(nngRep, c, None)
  /\ nngReq' = Set(nngReq, c, None)
  /\ UNCHANGED <<cpc, crec, asked, serverVars, netVars, issued, answers>>

\* The nng_aio keeps its pointer to the message.
FaultyTake(c) == UNCHANGED aioRep

\* Aio::take_message, once a receive has completed.
TakeReply(c) == aioRep' = Set(aioRep, c, None)

\* The reply future returns.
ReplyOk(c) ==
  /\ cpc[c] = "recv"
  /\ aioRep[c] # None
  /\ Answer(c, aioRep[c])
  /\ TakeReply(c)
  /\ cpc' = Set(cpc, c, "idle")
  /\ UNCHANGED <<nngReq, nngRep, crec, asked, serverVars, netVars, issued>>

\* The receive fails, for instance with a timeout.
ReplyErr(c) ==
  /\ cpc[c] = "recv"
  /\ aioRep[c] = None
  /\ cpc' = Set(cpc, c, "idle")
  /\ UNCHANGED <<nngReq, nngRep, aioRep, crec, asked, serverVars, netVars,
                 issued, answers>>

(***************************************************************************)
(* The reply future is dropped, before its first poll or while it waits.   *)
(* The guard of recv_msg keeps a reply that has already arrived.  A        *)
(* cancelled receive makes NNG (external) abort the request.               *)
(***************************************************************************)
CancelReply(c) ==
  /\ cpc[c] \in {"ready", "recv"}
  /\ cpc' = Set(cpc, c, "idle")
  /\ crec' = IF aioRep[c] # None THEN Set(crec, c, aioRep[c]) ELSE crec
  /\ TakeReply(c)
  /\ nngReq' = IF cpc[c] = "recv" THEN Set(nngReq, c, None) ELSE nngReq
  /\ nngRep' = IF cpc[c] = "recv" THEN Set(nngRep, c, None) ELSE nngRep
  /\ UNCHANGED <<asked, serverVars, netVars, issued, answers>>

-----------------------------------------------------------------------------
(* The network and NNG (external).                                         *)

\* The resend timer of an outstanding request fires, or its pipe is lost.
Resend(c) ==
  /\ nngReq[c] # None
  /\ cpc[c] # "sending"
  /\ reqs' = reqs \cup {nngReq[c]}
  /\ UNCHANGED <<clientVars, serverVars, reps, issued, answers>>

Lose ==
  /\ \/ \E i \in reqs : reqs' = reqs \ {i} /\ UNCHANGED reps
     \/ \E r \in reps : reps' = reps \ {r} /\ UNCHANGED reqs
  /\ UNCHANGED <<clientVars, serverVars, issued, answers>>

\* A reply reaches the context whose outstanding request it is routed to,
\* unless that has a reply already.
DeliverReply(c) ==
  /\ \E r \in reps :
       /\ r[1] = nngReq[c]
       /\ nngRep[c] = None
       /\ nngRep' = Set(nngRep, c, r[2])
       /\ reps' = reps \ {r}
  /\ UNCHANGED <<cpc, nngReq, aioRep, crec, asked, serverVars, reqs, issued,
                 answers>>

-----------------------------------------------------------------------------
(* Server contexts.                                                        *)

\* A Responder for request i comes into being.
Respond(s, i) ==
  /\ spc' = Set(spc, s, "responder")
  /\ holds' = Set(holds, s, i)

\* receive and try_receive return the message recovered earlier.
ReceiveRecovered(s) ==
  /\ spc[s] = "idle"
  /\ srec[s] # None
  /\ Respond(s, srec[s])
  /\ srec' = Set(srec, s, None)
  /\ UNCHANGED <<clientVars, peer, aioReq, netVars, issued, answers>>

\* receive up to the await.
Receive(s) ==
  /\ spc[s] = "idle"
  /\ srec[s] = None
  /\ spc' = Set(spc, s, "recv")
  /\ UNCHANGED <<clientVars, peer, aioReq, srec, holds, netVars, issued,
                 answers>>

\* NNG (external) completes the receive; the context remembers the peer.
NngRecvRequest(s) ==
  /\ spc[s] = "recv"
  /\ aioReq[s] = None
  /\ \E i \in reqs :
       /\ reqs' = reqs \ {i}
       /\ aioReq' = Set(aioReq, s, i)
       /\ peer' = Set(peer, s, i)
  /\ UNCHANGED <<clientVars, spc, srec, holds, reps, issued, answers>>

ReceiveOk(s) ==
  /\ spc[s] = "recv"
  /\ aioReq[s] # None
  /\ Respond(s, aioReq[s])
  /\ aioReq' = Set(aioReq, s, None)
  /\ UNCHANGED <<clientVars, peer, srec, netVars, issued, answers>>

\* The receive fails.
ReceiveErr(s) ==
  /\ spc[s] = "recv"
  /\ aioReq[s] = None
  /\ spc' = Set(spc, s, "idle")
  /\ UNCHANGED <<clientVars, peer, aioReq, srec, holds, netVars, issued,
                 answers>>

FaultyKeep(s) == UNCHANGED srec

\* The guard of recv_msg keeps a request that has already arrived.
KeepRequest(s) ==
  srec' = IF aioReq[s] # None THEN Set(srec, s, aioReq[s]) ELSE srec

\* The future of receive is dropped.
CancelReceive(s) ==
  /\ spc[s] = "recv"
  /\ spc' = Set(spc, s, "idle")
  /\ KeepRequest(s)
  /\ aioReq' = Set(aioReq, s, None)
  /\ UNCHANGED <<clientVars, peer, holds, netVars, issued, answers>>

\* try_receive asks NNG first, and only then looks at recovered_msg.
FaultyTryReceive(s) ==
  /\ spc[s] = "idle"
  /\ \E i \in reqs :
       /\ reqs' = reqs \ {i}
       /\ peer' = Set(peer, s, i)
       /\ Respond(s, IF srec[s] # None THEN srec[s] ELSE i)
       /\ srec' = IF srec[s] # None THEN Set(srec, s, i) ELSE srec
  /\ UNCHANGED <<clientVars, aioReq, reps, issued, answers>>

\* try_receive without recovered message, when NNG has a request.
TryReceive(s) ==
  /\ spc[s] = "idle"
  /\ srec[s] = None
  /\ \E i \in reqs :
       /\ reqs' = reqs \ {i}
       /\ peer' = Set(peer, s, i)
       /\ Respond(s, i)
  /\ UNCHANGED <<clientVars, aioReq, srec, reps, issued, answers>>

\* The Responder is dropped without a reply.
DropResponder(s) ==
  /\ spc[s] = "responder"
  /\ spc' = Set(spc, s, "idle")
  /\ holds' = Set(holds, s, None)
  /\ UNCHANGED <<clientVars, peer, aioReq, srec, netVars, issued, answers>>

\* Responder::reply up to the await of send_msg.
Reply(s) ==
  /\ spc[s] = "responder"
  /\ spc' = Set(spc, s, "replying")
  /\ UNCHANGED <<clientVars, peer, aioReq, srec, holds, netVars, issued,
                 answers>>

\* NNG (external) refuses a reply on a context that owes none (ESTATE).
HasPeer(s) == peer[s] # None

\* NNG (external) sends the reply to the peer the context remembers.
NngSendReply(s) ==
  /\ spc[s] = "replying"
  /\ HasPeer(s)
  /\ reps' = reps \cup {<<peer[s], holds[s]>>}
  /\ peer' = Set(peer, s, None)
  /\ spc' = Set(spc, s, "replied")
  /\ UNCHANGED <<clientVars, aioReq, srec, holds, reqs, issued, answers>>

\* The send fails: reply gives back the Responder.  NNG (external) may have
\* forgotten the peer.
ReplyFails(s) ==
  /\ spc[s] = "replying"
  /\ spc' = Set(spc, s, "responder")
  /\ peer' \in {peer, Set(peer, s, None)}
  /\ UNCHANGED <<clientVars, aioReq, srec, holds, netVars, issued, answers>>

\* reply returns Ok, or its future is dropped, sent or not.
EndReply(s) ==
  /\ spc[s] \in {"replied", "replying"}
  /\ spc' = Set(spc, s, "idle")
  /\ holds' = Set(holds, s, None)
  /\ UNCHANGED <<clientVars, peer, aioReq, srec, netVars, issued, answers>>

-----------------------------------------------------------------------------
Client(c) ==
  \/ Request(c) \/ NngSendRequest(c) \/ RequestOk(c) \/ RequestErr(c)
  \/ CancelRequest(c)
  \/ ReplyRecovered(c) \/ AwaitReply(c) \/ NngRecvReply(c)
  \/ ReplyOk(c) \/ ReplyErr(c) \/ CancelReply(c)

Server(s) ==
  \/ ReceiveRecovered(s) \/ Receive(s) \/ NngRecvRequest(s) \/ ReceiveOk(s)
  \/ ReceiveErr(s) \/ CancelReceive(s) \/ TryReceive(s)
  \/ DropResponder(s) \/ Reply(s) \/ NngSendReply(s) \/ ReplyFails(s)
  \/ EndReply(s)

Network == Lose \/ \E c \in Clients : Resend(c) \/ DeliverReply(c)

Next ==
  \/ \E c \in Clients : Client(c)
  \/ \E s \in Servers : Server(s)
  \/ Network

Spec == Init /\ [][Next]_vars

-----------------------------------------------------------------------------
(* Properties.                                                             *)

(***************************************************************************)
(* "a new request will reset the context and cancel the old request (plus  *)
(* drop its responses)" (reqrep0.rs): the reply a caller sees answers the  *)
(* request it made last on that context.                                   *)
(***************************************************************************)
ReplyIsCurrent == \A a \in answers : a[1] = a[2]

(***************************************************************************)
(* At most one caller sees the reply to a request, and each request is     *)
(* answered at most once, although requests are resent and served twice    *)
(* and replies may be recovered after a cancellation.                      *)
(***************************************************************************)
AnsweredOnce ==
  \A a, b \in answers : (a[1] = b[1] \/ a[2] = b[2]) => a = b

(***************************************************************************)
(* A reply is routed to the peer whose request the Responder was created   *)
(* for, also when that request was recovered from a cancelled receive.     *)
(***************************************************************************)
ReplyIsRouted ==
  \A s \in Servers :
    spc[s] \in {"responder", "replying"} => peer[s] \in {holds[s], None}

(***************************************************************************)
(* "No request messages are lost due to cancellation" (Rep0::receive): a   *)
(* request NNG handed to a context goes to recovered_msg or to a Responder,*)
(* and out of recovered_msg only into a Responder.                         *)
(***************************************************************************)
NoRequestLost ==
  [][\A s \in Servers :
       /\ aioReq[s] # None /\ aioReq'[s] = None =>
            aioReq[s] \in {srec'[s], holds'[s]}
       /\ srec[s] # None /\ srec'[s] # srec[s] =>
            srec'[s] = None /\ holds'[s] = srec[s]]_vars
=============================================================================
