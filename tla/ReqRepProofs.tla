---------------------------- MODULE ReqRepProofs ----------------------------
(***************************************************************************)
(* Theorems about request/reply contexts, for any clients, servers and     *)
(* number of requests.                                                     *)
(*                                                                         *)
(* On the server side, the peer NNG remembers for a context is that of the *)
(* request in its nng_aio, in recovered_msg or in the Responder, which are *)
(* never two.  So a reply carries the number of the request it answers.    *)
(*                                                                         *)
(* On the client side every number belongs to the context that issued it,  *)
(* and the number of a reply that can still reach a caller, like that of a *)
(* request a caller still awaits, occurs in no answer.                     *)
(***************************************************************************)
EXTENDS ReqRep, TLAPS

(***************************************************************************)
(* One server context.                                                     *)
(***************************************************************************)
ServerInv(s) ==
  /\ aioReq[s] # None => spc[s] = "recv" /\ peer[s] = aioReq[s]
  /\ srec[s] # None => spc[s] = "idle" /\ peer[s] = srec[s]
  /\ spc[s] \in {"responder", "replying"} =>
       holds[s] # None /\ peer[s] \in {holds[s], None}

\* Replies are routed to the request they answer.
RepsInv == \A r \in reps : r[1] = r[2]

(***************************************************************************)
(* One client context.  A reply that NNG keeps is one to the outstanding   *)
(* request; once a receive has completed, nothing is outstanding.          *)
(***************************************************************************)
ClientInv(c) ==
  /\ cpc[c] # "idle" => nngRep[c] \in {None, nngReq[c]}
  /\ cpc[c] \in {"sending", "sent"} => nngReq[c] # None
  /\ cpc[c] \in {"ready", "recv"} => asked[c] # None
  /\ cpc[c] = "recv" => crec[c] = None
  /\ aioRep[c] # None => cpc[c] = "recv" /\ nngReq[c] = None
  /\ crec[c] # None => crec[c] # nngReq[c]

\* The numbers a client context has to do with.
Owned(c) == {nngReq[c], aioRep[c], crec[c], asked[c]}

(***************************************************************************)
(* Numbers are issued once, and belong to one context.                     *)
(***************************************************************************)
OwnInv ==
  /\ \A c \in Clients : Owned(c) \subseteq 0..issued
  /\ answers \subseteq (1..issued) \X (1..issued)
  /\ \A c, d \in Clients : c # d => Owned(c) \cap Owned(d) \subseteq {None}

(***************************************************************************)
(* What may still be answered has not been.                                *)
(***************************************************************************)
OpenInv(c) ==
  /\ \A a \in answers : a[2] \notin {nngReq[c], aioRep[c], crec[c]}
  /\ cpc[c] \in {"sending", "sent"} => \A a \in answers : a[1] # nngReq[c]
  /\ cpc[c] \in {"ready", "recv"} => \A a \in answers : a[1] # asked[c]

ServerSide == (\A s \in Servers : ServerInv(s)) /\ RepsInv
ClientSide == \A c \in Clients : ClientInv(c) /\ OpenInv(c)

IndInv == TypeOK /\ ServerSide /\ ClientSide /\ OwnInv /\ AnsweredOnce

-----------------------------------------------------------------------------
\* Nothing has been issued.
LEMMA InitInd == Init => IndInv
<1> SUFFICES ASSUME Init
             PROVE  IndInv
  OBVIOUS
<1>1. TypeOK
  BY ReqAssumption DEF Init, TypeOK, None
<1>2. ServerSide /\ ClientSide
  BY DEF Init, ServerSide, ServerInv, RepsInv, ClientSide, ClientInv, OpenInv,
         None
<1>3. OwnInv /\ AnsweredOnce
  BY DEF Init, OwnInv, Owned, AnsweredOnce, None
<1>4. QED
  BY <1>1, <1>2, <1>3 DEF IndInv

\* The server side depends on nothing else.
LEMMA ServerKept ==
  ASSUME ServerSide, UNCHANGED <<serverVars, reps>>
  PROVE  ServerSide'
BY DEF ServerSide, ServerInv, RepsInv, serverVars

\* So does the client side.
LEMMA ClientKept ==
  ASSUME IndInv, UNCHANGED <<clientVars, issued, answers>>
  PROVE  ClientSide' /\ OwnInv' /\ AnsweredOnce'
BY DEF IndInv, ClientSide, ClientInv, OpenInv, OwnInv, Owned, AnsweredOnce,
       clientVars

\* A caller sees reply r to what it asked: neither number was answered.
LEMMA AnswerKept ==
  ASSUME IndInv, NEW c \in Clients, cpc[c] \in {"ready", "recv"},
         NEW r \in {aioRep[c], crec[c]}, r # None, Answer(c, r)
  PROVE  /\ AnsweredOnce'
         /\ answers' \subseteq (1..issued) \X (1..issued)
         /\ \A a \in answers' : a \in answers \/ (a[1] = asked[c] /\ a[2] = r)
<1>1. \A a \in answers : a[1] # asked[c] /\ a[2] # r
  BY DEF IndInv, ClientSide, OpenInv
<1>2. asked[c] \in 1..issued /\ r \in 1..issued
  BY DEF IndInv, TypeOK, ClientSide, ClientInv, OwnInv, Owned, None
<1>3. \A a \in answers' : a \in answers \/ (a[1] = asked[c] /\ a[2] = r)
  BY DEF Answer
<1>4. answers' \subseteq (1..issued) \X (1..issued)
  BY <1>2 DEF Answer, IndInv, OwnInv
<1>5. AnsweredOnce'
  BY <1>1 DEF Answer, IndInv, AnsweredOnce
<1>6. QED
  BY <1>3, <1>4, <1>5

\* The steps of a client context and of NNG for it.
LEMMA ClientStep ==
  ASSUME IndInv, NEW k \in Clients, Client(k)
  PROVE  IndInv'
<1> USE ReqAssumption DEF None
<1>1. CASE Request(k)
  <2>1. TypeOK'
    BY <1>1 DEF IndInv, TypeOK, Ids, Request, Set, serverVars, netVars
  <2>2. ServerSide'
    BY <1>1, ServerKept DEF IndInv, Request, netVars
  <2>3. OwnInv' /\ AnsweredOnce'
    BY <1>1 DEF IndInv, TypeOK, ClientSide, ClientInv, OwnInv, Owned,
                AnsweredOnce, Request, Set
  <2>4. ClientSide'
    BY <1>1 DEF IndInv, TypeOK, ClientSide, ClientInv, OpenInv, OwnInv, Owned,
                Request, Set
  <2>5. QED
    BY <2>1, <2>2, <2>3, <2>4 DEF IndInv
<1>2. CASE NngSendRequest(k)
  <2>1. TypeOK'
    <3>1. nngReq[k] \in Ids
      BY <1>2 DEF IndInv, TypeOK, ClientSide, ClientInv, NngSendRequest, Ids
    <3>2. QED
      BY <1>2, <3>1 DEF IndInv, TypeOK, NngSendRequest, Set, serverVars, netVars
  <2>2. ServerSide'
    BY <1>2, ServerKept DEF IndInv, NngSendRequest, netVars
  <2>3. OwnInv' /\ AnsweredOnce'
    BY <1>2 DEF IndInv, TypeOK, ClientSide, ClientInv, OwnInv, Owned,
                AnsweredOnce, NngSendRequest, Set
  <2>4. ClientSide'
    BY <1>2 DEF IndInv, TypeOK, ClientSide, ClientInv, OpenInv, OwnInv, Owned,
                NngSendRequest, Set
  <2>5. QED
    BY <2>1, <2>2, <2>3, <2>4 DEF IndInv
<1>3. CASE RequestOk(k)
  <2>1. TypeOK'
    BY <1>3 DEF IndInv, TypeOK, Ids, RequestOk, Set, serverVars, netVars
  <2>2. ServerSide'
    BY <1>3, ServerKept DEF IndInv, RequestOk, netVars
  <2>3. OwnInv' /\ AnsweredOnce'
    BY <1>3 DEF IndInv, TypeOK, ClientSide, ClientInv, OwnInv, Owned,
                AnsweredOnce, RequestOk, Set
  <2>4. ClientSide'
    BY <1>3 DEF IndInv, TypeOK, ClientSide, ClientInv, OpenInv, OwnInv, Owned,
                RequestOk, Set
  <2>5. QED
    BY <2>1, <2>2, <2>3, <2>4 DEF IndInv
<1>4. CASE RequestErr(k)
  <2>1. TypeOK'
    BY <1>4 DEF IndInv, TypeOK, Ids, RequestErr, Set, serverVars, netVars
  <2>2. ServerSide'
    BY <1>4, ServerKept DEF IndInv, RequestErr, netVars
  <2>3. OwnInv' /\ AnsweredOnce'
    BY <1>4 DEF IndInv, TypeOK, ClientSide, ClientInv, OwnInv, Owned,
                AnsweredOnce, RequestErr, Set
  <2>4. ClientSide'
    BY <1>4 DEF IndInv, TypeOK, ClientSide, ClientInv, OpenInv, OwnInv, Owned,
                RequestErr, Set
  <2>5. QED
    BY <2>1, <2>2, <2>3, <2>4 DEF IndInv
<1>5. CASE CancelRequest(k)
  <2>1. TypeOK'
    BY <1>5 DEF IndInv, TypeOK, Ids, CancelRequest, Set, serverVars, netVars
  <2>2. ServerSide'
    BY <1>5, ServerKept DEF IndInv, CancelRequest, netVars
  <2>3. OwnInv' /\ AnsweredOnce'
    BY <1>5 DEF IndInv, TypeOK, ClientSide, ClientInv, OwnInv, Owned,
                AnsweredOnce, CancelRequest, Set
  <2>4. ClientSide'
    BY <1>5 DEF IndInv, TypeOK, ClientSide, ClientInv, OpenInv, OwnInv, Owned,
                CancelRequest, Set
  <2>5. QED
    BY <2>1, <2>2, <2>3, <2>4 DEF IndInv
<1>6. CASE ReplyRecovered(k)
  <2>2. ServerSide'
    BY <1>6, ServerKept DEF IndInv, ReplyRecovered, netVars
  <2>3. /\ AnsweredOnce'
        /\ answers' \subseteq (1..issued) \X (1..issued)
        /\ \A a \in answers' :
             a \in answers \/ (a[1] = asked[k] /\ a[2] = crec[k])
    BY <1>6, AnswerKept DEF ReplyRecovered
  <2>1. TypeOK'
    <3>1. answers' \subseteq Ids \X Ids
      BY <2>3 DEF IndInv, TypeOK, Ids
    <3>2. QED
      BY <1>6, <3>1 DEF IndInv, TypeOK, ReplyRecovered, Set, serverVars, netVars
  <2>4. OwnInv'
    BY <1>6, <2>3 DEF IndInv, TypeOK, OwnInv, Owned, ReplyRecovered, Set, Answer
  <2>5. ASSUME NEW c \in Clients
        PROVE  ClientInv(c)' /\ OpenInv(c)'
    <3>1. c # k => Owned(c) \cap Owned(k) \subseteq {None}
      BY DEF IndInv, OwnInv
    <3>2. ClientInv(c)'
      BY <1>6 DEF IndInv, TypeOK, ClientSide, ClientInv, ReplyRecovered, Set
    <3>3. OpenInv(c)'
      <4>1. /\ cpc' = [cpc EXCEPT ![k] = "idle"] /\ crec' = [crec EXCEPT ![k] = None]
            /\ UNCHANGED <<nngReq, aioRep, asked>>
        BY <1>6 DEF ReplyRecovered, Set
      <4>2. CASE c = k
        BY <1>6, <2>3, <4>1, <4>2
        DEF IndInv, TypeOK, ClientSide, ClientInv, OpenInv, ReplyRecovered
      <4>3. CASE c # k
        <5>1. crec[k] # None /\ asked[k] # None
          BY <1>6 DEF IndInv, ClientSide, ClientInv, ReplyRecovered
        <5>2. /\ crec[k] \notin {nngReq[c], aioRep[c], crec[c]}
              /\ asked[k] \notin {nngReq[c], asked[c]}
          BY <3>1, <4>3, <5>1 DEF Owned
        <5>3. QED
          BY <2>3, <4>1, <4>3, <5>2 DEF IndInv, TypeOK, ClientSide, OpenInv
      <4>4. QED
        BY <4>2, <4>3
    <3>4. QED
      BY <3>2, <3>3
  <2>6. QED
    BY <2>1, <2>2, <2>3, <2>4, <2>5 DEF IndInv, ClientSide
<1>7. CASE AwaitReply(k)
  <2>1. TypeOK'
    BY <1>7 DEF IndInv, TypeOK, Ids, AwaitReply, Set, serverVars, netVars
  <2>2. ServerSide'
    BY <1>7, ServerKept DEF IndInv, AwaitReply, netVars
  <2>3. OwnInv' /\ AnsweredOnce'
    BY <1>7 DEF IndInv, TypeOK, ClientSide, ClientInv, OwnInv, Owned,
                AnsweredOnce, AwaitReply, Set
  <2>4. ClientSide'
    BY <1>7 DEF IndInv, TypeOK, ClientSide, ClientInv, OpenInv, OwnInv, Owned,
                AwaitReply, Set
  <2>5. QED
    BY <2>1, <2>2, <2>3, <2>4 DEF IndInv
<1>8. CASE NngRecvReply(k)
  <2>1. TypeOK'
    BY <1>8 DEF IndInv, TypeOK, Ids, NngRecvReply, Set, serverVars, netVars
  <2>2. ServerSide'
    BY <1>8, ServerKept DEF IndInv, NngRecvReply, netVars
  <2>3. OwnInv' /\ AnsweredOnce'
    BY <1>8 DEF IndInv, TypeOK, ClientSide, ClientInv, OwnInv, Owned,
                AnsweredOnce, NngRecvReply, Set
  <2>4. ClientSide'
    BY <1>8 DEF IndInv, TypeOK, ClientSide, ClientInv, OpenInv, OwnInv, Owned,
                NngRecvReply, Set
  <2>5. QED
    BY <2>1, <2>2, <2>3, <2>4 DEF IndInv
<1>9. CASE ReplyOk(k)
  <2>2. ServerSide'
    BY <1>9, ServerKept DEF IndInv, ReplyOk, netVars
  <2>3. /\ AnsweredOnce'
        /\ answers' \subseteq (1..issued) \X (1..issued)
        /\ \A a \in answers' :
             a \in answers \/ (a[1] = asked[k] /\ a[2] = aioRep[k])
    BY <1>9, AnswerKept DEF ReplyOk
  <2>1. TypeOK'
    <3>1. answers' \subseteq Ids \X Ids
      BY <2>3 DEF IndInv, TypeOK, Ids
    <3>2. QED
      BY <1>9, <3>1
      DEF IndInv, TypeOK, ReplyOk, Set, TakeReply, serverVars, netVars
  <2>4. OwnInv'
    BY <1>9, <2>3
    DEF IndInv, TypeOK, OwnInv, Owned, ReplyOk, Set, Answer, TakeReply
  <2>5. ASSUME NEW c \in Clients
        PROVE  ClientInv(c)' /\ OpenInv(c)'
    <3>1. c # k => Owned(c) \cap Owned(k) \subseteq {None}
      BY DEF IndInv, OwnInv
    <3>2. ClientInv(c)'
      BY <1>9 DEF IndInv, TypeOK, ClientSide, ClientInv, ReplyOk, Set, TakeReply
    <3>3. OpenInv(c)'
      <4>1. /\ cpc' = [cpc EXCEPT ![k] = "idle"] /\ aioRep' = [aioRep EXCEPT ![k] = None]
            /\ UNCHANGED <<nngReq, crec, asked>>
        BY <1>9 DEF ReplyOk, Set, TakeReply
      <4>2. CASE c = k
        BY <1>9, <2>3, <4>1, <4>2
        DEF IndInv, TypeOK, ClientSide, ClientInv, OpenInv, ReplyOk
      <4>3. CASE c # k
        <5>1. aioRep[k] # None /\ asked[k] # None
          BY <1>9 DEF IndInv, ClientSide, ClientInv, ReplyOk
        <5>2. /\ aioRep[k] \notin {nngReq[c], aioRep[c], crec[c]}
              /\ asked[k] \notin {nngReq[c], asked[c]}
          BY <3>1, <4>3, <5>1 DEF Owned
        <5>3. QED
          BY <2>3, <4>1, <4>3, <5>2 DEF IndInv, TypeOK, ClientSide, OpenInv
      <4>4. QED
        BY <4>2, <4>3
    <3>4. QED
      BY <3>2, <3>3
  <2>6. QED
    BY <2>1, <2>2, <2>3, <2>4, <2>5 DEF IndInv, ClientSide
<1>10. CASE ReplyErr(k)
  <2>1. TypeOK'
    BY <1>10 DEF IndInv, TypeOK, Ids, ReplyErr, Set, serverVars, netVars
  <2>2. ServerSide'
    BY <1>10, ServerKept DEF IndInv, ReplyErr, netVars
  <2>3. OwnInv' /\ AnsweredOnce'
    BY <1>10 DEF IndInv, TypeOK, ClientSide, ClientInv, OwnInv, Owned,
                AnsweredOnce, ReplyErr, Set
  <2>4. ClientSide'
    BY <1>10 DEF IndInv, TypeOK, ClientSide, ClientInv, OpenInv, OwnInv, Owned,
                ReplyErr, Set
  <2>5. QED
    BY <2>1, <2>2, <2>3, <2>4 DEF IndInv
<1>11. CASE CancelReply(k)
  <2>1. TypeOK'
    BY <1>11
    DEF IndInv, TypeOK, Ids, CancelReply, Set, TakeReply, serverVars, netVars
  <2>2. ServerSide'
    BY <1>11, ServerKept DEF IndInv, CancelReply, netVars
  <2>3. OwnInv' /\ AnsweredOnce'
    BY <1>11 DEF IndInv, TypeOK, ClientSide, ClientInv, OwnInv, Owned,
                AnsweredOnce, CancelReply, Set, TakeReply
  <2>4. ClientSide'
    BY <1>11 DEF IndInv, TypeOK, ClientSide, ClientInv, OpenInv, OwnInv, Owned,
                CancelReply, Set, TakeReply
  <2>5. QED
    BY <2>1, <2>2, <2>3, <2>4 DEF IndInv
<1>12. QED
  BY <1>1, <1>2, <1>3, <1>4, <1>5, <1>6, <1>7, <1>8, <1>9, <1>10, <1>11
  DEF Client

\* The steps of a server context and of NNG for it.
LEMMA ServerStep ==
  ASSUME IndInv, NEW k \in Servers, Server(k)
  PROVE  IndInv'
<1> USE ReqAssumption DEF None
<1>1. CASE ReceiveRecovered(k)
  <2>1. TypeOK'
    BY <1>1
    DEF IndInv, TypeOK, Ids, ReceiveRecovered, Set, Respond, clientVars, netVars
  <2>2. ServerSide'
    BY <1>1
    DEF IndInv, TypeOK, Ids, ServerSide, ServerInv, RepsInv, ReceiveRecovered,
        Set, Respond, netVars
  <2>3. QED
    BY <1>1, <2>1, <2>2, ClientKept DEF IndInv, ReceiveRecovered
<1>2. CASE Receive(k)
  <2>1. TypeOK'
    BY <1>2 DEF IndInv, TypeOK, Ids, Receive, Set, clientVars, netVars
  <2>2. ServerSide'
    BY <1>2
    DEF IndInv, TypeOK, Ids, ServerSide, ServerInv, RepsInv, Receive, Set,
        netVars
  <2>3. QED
    BY <1>2, <2>1, <2>2, ClientKept DEF IndInv, Receive
<1>3. CASE NngRecvRequest(k)
  <2>1. TypeOK'
    BY <1>3 DEF IndInv, TypeOK, Ids, NngRecvRequest, Set, clientVars, netVars
  <2>2. ServerSide'
    BY <1>3
    DEF IndInv, TypeOK, Ids, ServerSide, ServerInv, RepsInv, NngRecvRequest,
        Set, netVars
  <2>3. QED
    BY <1>3, <2>1, <2>2, ClientKept DEF IndInv, NngRecvRequest
<1>4. CASE ReceiveOk(k)
  <2>1. TypeOK'
    BY <1>4
    DEF IndInv, TypeOK, Ids, ReceiveOk, Set, Respond, clientVars, netVars
  <2>2. ServerSide'
    BY <1>4
    DEF IndInv, TypeOK, Ids, ServerSide, ServerInv, RepsInv, ReceiveOk, Set,
        Respond, netVars
  <2>3. QED
    BY <1>4, <2>1, <2>2, ClientKept DEF IndInv, ReceiveOk
<1>5. CASE ReceiveErr(k)
  <2>1. TypeOK'
    BY <1>5 DEF IndInv, TypeOK, Ids, ReceiveErr, Set, clientVars, netVars
  <2>2. ServerSide'
    BY <1>5
    DEF IndInv, TypeOK, Ids, ServerSide, ServerInv, RepsInv, ReceiveErr, Set,
        netVars
  <2>3. QED
    BY <1>5, <2>1, <2>2, ClientKept DEF IndInv, ReceiveErr
<1>6. CASE CancelReceive(k)
  <2>1. TypeOK'
    BY <1>6
    DEF IndInv, TypeOK, Ids, CancelReceive, Set, KeepRequest, clientVars,
        netVars
  <2>2. ServerSide'
    BY <1>6
    DEF IndInv, TypeOK, Ids, ServerSide, ServerInv, RepsInv, CancelReceive,
        Set, KeepRequest, netVars
  <2>3. QED
    BY <1>6, <2>1, <2>2, ClientKept DEF IndInv, CancelReceive
<1>7. CASE TryReceive(k)
  <2>1. TypeOK'
    <3>1. PICK i \in reqs : /\ reqs' = reqs \ {i}
                            /\ peer' = Set(peer, k, i)
                            /\ Respond(k, i)
      BY <1>7 DEF TryReceive
    <3>2. reqs \subseteq Ids
      BY DEF IndInv, TypeOK
    <3>3. i \in 0..MaxReq
      BY <3>2, ReqAssumption DEF Ids
    <3>4. QED
      BY <1>7, <3>1, <3>3 DEF IndInv, TypeOK, TryReceive, Set, Respond,
           clientVars
  <2>2. ServerSide'
    BY <1>7
    DEF IndInv, TypeOK, Ids, ServerSide, ServerInv, RepsInv, TryReceive, Set,
        Respond, netVars
  <2>3. QED
    BY <1>7, <2>1, <2>2, ClientKept DEF IndInv, TryReceive
<1>8. CASE DropResponder(k)
  <2>1. TypeOK'
    BY <1>8 DEF IndInv, TypeOK, Ids, DropResponder, Set, clientVars, netVars
  <2>2. ServerSide'
    BY <1>8
    DEF IndInv, TypeOK, Ids, ServerSide, ServerInv, RepsInv, DropResponder,
        Set, netVars
  <2>3. QED
    BY <1>8, <2>1, <2>2, ClientKept DEF IndInv, DropResponder
<1>9. CASE Reply(k)
  <2>1. TypeOK'
    BY <1>9 DEF IndInv, TypeOK, Ids, Reply, Set, clientVars, netVars
  <2>2. ServerSide'
    BY <1>9
    DEF IndInv, TypeOK, Ids, ServerSide, ServerInv, RepsInv, Reply, Set, netVars
  <2>3. QED
    BY <1>9, <2>1, <2>2, ClientKept DEF IndInv, Reply
<1>10. CASE NngSendReply(k)
  <2>1. TypeOK'
    <3>1. peer[k] \in Ids /\ holds[k] \in Ids
      BY <1>10 DEF IndInv, TypeOK, Ids, ServerSide, ServerInv, NngSendReply,
                   HasPeer
    <3>2. QED
      BY <1>10, <3>1 DEF IndInv, TypeOK, NngSendReply, Set, clientVars
  <2>2. ServerSide'
    BY <1>10
    DEF IndInv, TypeOK, Ids, ServerSide, ServerInv, RepsInv, NngSendReply,
        Set, HasPeer, netVars
  <2>3. QED
    BY <1>10, <2>1, <2>2, ClientKept DEF IndInv, NngSendReply
<1>11. CASE ReplyFails(k)
  <2>1. TypeOK'
    BY <1>11 DEF IndInv, TypeOK, Ids, ReplyFails, Set, clientVars, netVars
  <2>2. ServerSide'
    BY <1>11
    DEF IndInv, TypeOK, Ids, ServerSide, ServerInv, RepsInv, ReplyFails, Set,
        netVars
  <2>3. QED
    BY <1>11, <2>1, <2>2, ClientKept DEF IndInv, ReplyFails
<1>12. CASE EndReply(k)
  <2>1. TypeOK'
    BY <1>12 DEF IndInv, TypeOK, Ids, EndReply, Set, clientVars, netVars
  <2>2. ServerSide'
    BY <1>12
    DEF IndInv, TypeOK, Ids, ServerSide, ServerInv, RepsInv, EndReply, Set,
        netVars
  <2>3. QED
    BY <1>12, <2>1, <2>2, ClientKept DEF IndInv, EndReply
<1>13. QED
  BY <1>1, <1>2, <1>3, <1>4, <1>5, <1>6, <1>7, <1>8, <1>9, <1>10, <1>11,
      <1>12 DEF Server

\* The steps of the network.
LEMMA NetworkStep ==
  ASSUME IndInv, Network
  PROVE  IndInv'
<1> USE ReqAssumption DEF None
<1>1. CASE Lose
  <2>1. TypeOK' /\ ServerSide'
    BY <1>1 DEF IndInv, TypeOK, ServerSide, ServerInv, RepsInv, Lose,
                clientVars, serverVars
  <2>2. QED
    BY <1>1, <2>1, ClientKept DEF IndInv, Lose
<1>2. ASSUME NEW k \in Clients, Resend(k)
      PROVE  IndInv'
  <2>1. TypeOK'
    <3>1. nngReq[k] \in Ids
      BY <1>2 DEF IndInv, TypeOK, Ids, Resend
    <3>2. QED
      BY <1>2, <3>1 DEF IndInv, TypeOK, Resend, clientVars, serverVars
  <2>2. QED
    BY <1>2, <2>1, ClientKept, ServerKept DEF IndInv, Resend
<1>3. ASSUME NEW k \in Clients, DeliverReply(k)
      PROVE  IndInv'
  <2>1. PICK r \in reps : /\ r[1] = nngReq[k]
                          /\ nngRep' = Set(nngRep, k, r[2])
                          /\ reps' = reps \ {r}
    BY <1>3 DEF DeliverReply
  <2>2. r[1] = r[2] /\ r[2] \in 0..MaxReq
    BY DEF IndInv, TypeOK, Ids, ServerSide, RepsInv
  <2>3. TypeOK'
    BY <1>3, <2>1, <2>2 DEF IndInv, TypeOK, Set, DeliverReply, serverVars
  <2>4. ServerSide'
    BY <1>3, <2>1
    DEF IndInv, ServerSide, ServerInv, RepsInv, DeliverReply, serverVars
  <2>5. nngRep' = [nngRep EXCEPT ![k] = r[2]]
    BY <2>1 DEF Set
  <2>6. ClientSide'
    BY <1>3, <2>1, <2>2, <2>5
    DEF IndInv, TypeOK, ClientSide, ClientInv, OpenInv, DeliverReply
  <2>7. OwnInv' /\ AnsweredOnce'
    BY <1>3 DEF IndInv, OwnInv, Owned, AnsweredOnce, DeliverReply
  <2>8. QED
    BY <2>3, <2>4, <2>6, <2>7 DEF IndInv
<1>4. QED
  BY <1>1, <1>2, <1>3 DEF Network

\* Every step keeps the invariant.
LEMMA StepInd == IndInv /\ [Next]_vars => IndInv'
<1> SUFFICES ASSUME IndInv, [Next]_vars
             PROVE  IndInv'
  OBVIOUS
<1>1. CASE UNCHANGED vars
  <2>1. TypeOK'
    BY <1>1 DEF IndInv, TypeOK, vars, clientVars, serverVars, netVars
  <2>2. QED
    BY <1>1, <2>1, ClientKept, ServerKept DEF IndInv, vars, netVars
<1>2. QED
  BY <1>1, ClientStep, ServerStep, NetworkStep DEF Next

-----------------------------------------------------------------------------
(***************************************************************************)
(* The inductive invariant holds in every reachable state.                 *)
(***************************************************************************)
THEOREM Invariance == Spec => []IndInv
<1>1. QED
  BY InitInd, StepInd, PTL DEF Spec

(***************************************************************************)
(* Type correctness.                                                       *)
(***************************************************************************)
THEOREM TypeCorrect == Spec => []TypeOK
<1>1. IndInv => TypeOK
  BY DEF IndInv
<1>2. QED
  BY Invariance, <1>1, PTL

(***************************************************************************)
(* Responder::reply goes to the peer whose request made the Responder.     *)
(***************************************************************************)
THEOREM RepliesRouted == Spec => []ReplyIsRouted
<1>1. IndInv => ReplyIsRouted
  BY DEF IndInv, ServerSide, ServerInv, ReplyIsRouted
<1>2. QED
  BY Invariance, <1>1, PTL

(***************************************************************************)
(* No request gets two answers and no reply is given to two callers,       *)
(* although requests are resent and replies survive a cancellation.        *)
(***************************************************************************)
THEOREM OneAnswerEach == Spec => []AnsweredOnce
<1>1. IndInv => AnsweredOnce
  BY DEF IndInv
<1>2. QED
  BY Invariance, <1>1, PTL

(***************************************************************************)
(* A request that NNG handed to Rep0::receive is never lost by dropping    *)
(* the future: it goes to recovered_msg or a Responder, and leaves         *)
(* recovered_msg for a Responder only.                                     *)
(***************************************************************************)
THEOREM RequestsKept == Spec => NoRequestLost
<1> DEFINE Keeps(s) ==
      /\ aioReq[s] # None /\ aioReq'[s] = None =>
           aioReq[s] \in {srec'[s], holds'[s]}
      /\ srec[s] # None /\ srec'[s] # srec[s] =>
           srec'[s] = None /\ holds'[s] = srec[s]
<1>1. ASSUME IndInv, Next
      PROVE  \A s \in Servers : Keeps(s)
  <2>1. ASSUME UNCHANGED <<aioReq, srec>>
        PROVE  \A s \in Servers : Keeps(s)
    BY <2>1
  <2>2. CASE Network \/ \E c \in Clients : Client(c)
    <3>1. UNCHANGED serverVars
      BY <2>2 DEF Network, Lose, Resend, DeliverReply, Client, Request,
           NngSendRequest, RequestOk, RequestErr, CancelRequest,
           ReplyRecovered, AwaitReply, NngRecvReply, ReplyOk, ReplyErr,
           CancelReply
    <3>2. QED
      BY <2>1, <3>1 DEF serverVars
  <2>3. ASSUME NEW k \in Servers, Server(k)
        PROVE  \A s \in Servers : Keeps(s)
    <3>1. CASE ReceiveRecovered(k)
      BY <1>1, <3>1 DEF IndInv, TypeOK, ReceiveRecovered, Respond, Set
    <3>2. CASE NngRecvRequest(k)
      BY <1>1, <3>2 DEF IndInv, TypeOK, NngRecvRequest, Set
    <3>3. CASE ReceiveOk(k)
      BY <1>1, <3>3 DEF IndInv, TypeOK, ReceiveOk, Respond, Set
    <3>4. CASE CancelReceive(k)
      BY <1>1, <3>4 DEF IndInv, TypeOK, ServerSide, ServerInv, CancelReceive,
           KeepRequest, Set
    <3>5. CASE \/ Receive(k) \/ ReceiveErr(k) \/ TryReceive(k)
               \/ DropResponder(k) \/ Reply(k) \/ NngSendReply(k)
               \/ ReplyFails(k) \/ EndReply(k)
      BY <2>1, <3>5 DEF Receive, ReceiveErr, TryReceive, DropResponder, Reply,
           NngSendReply, ReplyFails, EndReply
    <3>6. QED
      BY <2>3, <3>1, <3>2, <3>3, <3>4, <3>5 DEF Server
  <2>4. QED
    BY <1>1, <2>2, <2>3 DEF Next
<1>2. IndInv /\ [Next]_vars => [\A s \in Servers : Keeps(s)]_vars
  BY <1>1
<1>3. QED
  BY Invariance, <1>2, PTL DEF Spec, NoRequestLost

-----------------------------------------------------------------------------
(* What keeps answers current.                                             *)

(***************************************************************************)
(* Callers that never drop a reply future whose reply has come: what NNG   *)
(* has for a context that awaits a reply is what its caller asked.         *)
(***************************************************************************)
CurrentInv ==
  /\ \A c \in Clients :
       /\ crec[c] = None
       /\ cpc[c] \in {"ready", "recv"} => nngReq[c] \in {None, asked[c]}
       /\ aioRep[c] \in {None, asked[c]}
  /\ ReplyIsCurrent

\* A reply future is dropped when its reply has come.
RecoversReply(c) == CancelReply(c) /\ aioRep[c] # None

\* A step of one client context.
LEMMA CurrentClient ==
  ASSUME IndInv, CurrentInv, NEW k \in Clients, Client(k), ~RecoversReply(k)
  PROVE  CurrentInv'
<1> USE DEF IndInv, TypeOK, CurrentInv, ReplyIsCurrent, Set
<1>a. ClientInv(k) /\ cpc[k] \in {"idle", "sending", "sent", "ready", "recv"}
  BY DEF ClientSide
<1>1. CASE Request(k) \/ NngSendRequest(k) \/ RequestErr(k) \/ CancelRequest(k)
  BY <1>1 DEF Request, NngSendRequest, RequestErr, CancelRequest
<1>2. CASE RequestOk(k)
  BY <1>a, <1>2 DEF RequestOk, ClientInv
<1>3. CASE AwaitReply(k) \/ ReplyErr(k)
  BY <1>3 DEF AwaitReply, ReplyErr
<1>4. CASE NngRecvReply(k)
  BY <1>a, <1>4 DEF NngRecvReply, ClientInv
<1>5. CASE ReplyRecovered(k)
  BY <1>5 DEF ReplyRecovered
<1>6. CASE ReplyOk(k)
  BY <1>6 DEF ReplyOk, Answer, TakeReply
<1>7. CASE CancelReply(k)
  BY <1>7 DEF CancelReply, TakeReply, RecoversReply
<1>8. QED
  BY <1>1, <1>2, <1>3, <1>4, <1>5, <1>6, <1>7 DEF Client

(***************************************************************************)
(* "a new request will reset the context and cancel the old request (plus  *)
(* drop its responses)" is true for callers that drop no reply future      *)
(* after its reply has come: the guard's recovery of such a reply is the   *)
(* only way to a stale answer, for any clients, servers and losses.        *)
(***************************************************************************)
THEOREM CurrentUnlessRecovered ==
  Spec /\ [][\A c \in Clients : ~RecoversReply(c)]_vars => []ReplyIsCurrent
<1> DEFINE Patient == \A c \in Clients : ~RecoversReply(c)
<1>1. Init => CurrentInv
  BY DEF Init, CurrentInv, ReplyIsCurrent
<1>2. IndInv /\ CurrentInv /\ [Next]_vars /\ [Patient]_vars => CurrentInv'
  <2> SUFFICES ASSUME IndInv, CurrentInv, [Next]_vars, [Patient]_vars
               PROVE  CurrentInv'
    OBVIOUS
  <2>1. ASSUME UNCHANGED <<cpc, nngReq, aioRep, crec, asked, answers>>
        PROVE  CurrentInv'
    BY <2>1 DEF CurrentInv, ReplyIsCurrent
  <2>2. CASE UNCHANGED vars
    BY <2>1, <2>2 DEF vars, clientVars
  <2>3. ASSUME NEW c \in Clients, Client(c), Patient
        PROVE  CurrentInv'
    BY <2>3, CurrentClient
  <2>4. ASSUME NEW s \in Servers, Server(s)
        PROVE  CurrentInv'
    BY <2>1, <2>4
    DEF Server, clientVars, ReceiveRecovered, Receive, NngRecvRequest,
        ReceiveOk, ReceiveErr, CancelReceive, TryReceive, DropResponder, Reply,
        NngSendReply, ReplyFails, EndReply
  <2>5. CASE Network
    BY <2>1, <2>5 DEF Network, Lose, Resend, DeliverReply, clientVars
  <2> HIDE DEF Patient
  <2>6. QED
    BY <2>2, <2>3, <2>4, <2>5 DEF Next
<1>3. CurrentInv => ReplyIsCurrent
  BY DEF CurrentInv
<1> HIDE DEF Patient
<1>4. Spec /\ [][Patient]_vars => []ReplyIsCurrent
  BY <1>1, <1>2, <1>3, Invariance, PTL DEF Spec
<1>5. QED
  BY <1>4 DEF Patient
=============================================================================
