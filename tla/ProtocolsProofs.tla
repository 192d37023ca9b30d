-------------------------- MODULE ProtocolsProofs ---------------------------
(***************************************************************************)
(* Theorems about the pair, pipeline and bus protocols, for any number of  *)
(* sockets and messages and any length of the receive queues.              *)
(*                                                                         *)
(* A message on its way passes from the receive queue to the nng_aio or to *)
(* recovered_msg, and from there to what the application was returned.     *)
(* The invariant says that this whole line, read from its end, is in the   *)
(* order in which NNG took the messages, and that a message not yet taken  *)
(* is in no line.                                                          *)
(*                                                                         *)
(* And theorems about publish/subscribe, for any topics, any length of the *)
(* queue and any number of publications.  These are numbered as they are   *)
(* published, and the invariant says that the numbers rise all the way     *)
(* from what the subscriber was returned over what its context holds and   *)
(* the queue to the network.  Drops of either policy, a changed filter and *)
(* a change of the policy only take numbers out.                           *)
(***************************************************************************)
EXTENDS PubSub, Direct, FiniteSetTheorems, SequenceTheorems, TLAPS

(***************************************************************************)
(* S gives the messages NNG took from each sender.  No sender's messages   *)
(* say that m does not come before n.                                      *)
(***************************************************************************)
Before(S, m, n) ==
  \A s \in Sockets : \A a \in At(m, S[s]), b \in At(n, S[s]) : a < b

\* A line: g was returned, M is in between, q is queued.
InLine(S, g, M, q) ==
  /\ \A i, j \in 1..Len(g) : i < j => Before(S, g[i], g[j])
  /\ \A i \in 1..Len(g) : \A m \in M : Before(S, g[i], m)
  /\ \A i \in 1..Len(g) : \A j \in 1..Len(q) : Before(S, g[i], q[j])
  /\ \A m \in M : \A j \in 1..Len(q) : Before(S, m, q[j])
  /\ \A i, j \in 1..Len(q) : i < j => Before(S, q[i], q[j])

\* The messages of a line, and those taken from any sender.
Members(g, M, q) == ToSet(g) \cup M \cup ToSet(q)
Taken(S) == UNION {ToSet(S[s]) : s \in Sockets}

-----------------------------------------------------------------------------
\* What ToSet says of a sequence that grows or shrinks.
LEMMA ToSetAppend ==
  ASSUME NEW T, NEW q \in Seq(T), NEW m \in T
  PROVE  ToSet(Append(q, m)) = ToSet(q) \cup {m}
<1>1. /\ Len(q) \in Nat /\ DOMAIN q = 1..Len(q)
      /\ DOMAIN Append(q, m) = 1..(Len(q) + 1)
      /\ \A i \in 1..Len(q) : Append(q, m)[i] = q[i]
      /\ Append(q, m)[Len(q) + 1] = m
  OBVIOUS
<1>2. 1..(Len(q) + 1) = (1..Len(q)) \cup {Len(q) + 1}
  BY <1>1
<1>3. QED
  BY <1>1, <1>2, Zenon DEF ToSet

\* The members of a queue after a message is put in.
LEMMA ToSetMsg ==
  \A q \in Seq(1..MaxSent) : \A m \in 1..MaxSent :
    ToSet(Append(q, m)) = ToSet(q) \cup {m}
BY ToSetAppend

\* The members of a queue whose head is taken out.
LEMMA ToSetTail ==
  ASSUME NEW T, NEW q \in Seq(T), q # <<>>
  PROVE  /\ Head(q) \in T
         /\ ToSet(q) = ToSet(Tail(q)) \cup {Head(q)}
<1>1. /\ Head(q) = q[1] /\ Tail(q) \in Seq(T) /\ Len(q) \in Nat \ {0}
      /\ Len(Tail(q)) = Len(q) - 1
      /\ \A i \in 1..Len(Tail(q)) : Tail(q)[i] = q[i + 1]
  BY HeadTailProperties
<1>2. \A i \in 1..Len(q) : i = 1 \/ (i - 1 \in 1..Len(Tail(q)) /\ i = (i - 1) + 1)
  BY <1>1
<1>3. ToSet(q) \subseteq ToSet(Tail(q)) \cup {Head(q)}
  <2>1. SUFFICES ASSUME NEW i \in 1..Len(q), i # 1
                 PROVE  q[i] \in ToSet(Tail(q))
    BY <1>1 DEF ToSet
  <2>2. i - 1 \in 1..Len(Tail(q)) /\ Tail(q)[i - 1] = q[i]
    BY <1>1, <1>2, <2>1
  <2>3. DOMAIN Tail(q) = 1..Len(Tail(q))
    BY <1>1, LenProperties
  <2>4. QED
    BY <2>2, <2>3, Zenon DEF ToSet
<1>4. ToSet(Tail(q)) \cup {Head(q)} \subseteq ToSet(q)
  <2>1. \A i \in 1..Len(Tail(q)) : i + 1 \in 1..Len(q)
    BY <1>1
  <2>2. QED
    BY <1>1, <2>1 DEF ToSet
<1>5. QED
  BY <1>1, <1>3, <1>4

\* The message in between is returned.
LEMMA LineReturn ==
  ASSUME NEW T, NEW S, NEW g \in Seq(T), NEW q \in Seq(T), NEW m \in T,
         InLine(S, g, {m}, q)
  PROVE  InLine(S, Append(g, m), {}, q)
BY DEF InLine

\* The oldest message leaves the queue.
LEMMA LineTake ==
  ASSUME NEW T, NEW S, NEW g \in Seq(T), NEW q \in Seq(T), q # <<>>,
         InLine(S, g, {}, q)
  PROVE  InLine(S, g, {Head(q)}, Tail(q))
<1>1. /\ Head(q) = q[1] /\ Len(q) \in Nat \ {0}
      /\ Len(Tail(q)) = Len(q) - 1
      /\ \A i \in 1..Len(Tail(q)) : Tail(q)[i] = q[i + 1]
  BY HeadTailProperties
<1>2. \A i \in 1..Len(Tail(q)) : i + 1 \in 1..Len(q) /\ 1 < i + 1
  BY <1>1
<1>3. QED
  BY <1>1, <1>2 DEF InLine

\* A message that comes after all of a line is queued.
LEMMA LineEnqueue ==
  ASSUME NEW T, NEW S, NEW g \in Seq(T), NEW M, NEW q \in Seq(T), NEW m \in T,
         InLine(S, g, M, q), \A x \in Members(g, M, q) : Before(S, x, m)
  PROVE  InLine(S, g, M, Append(q, m))
<1>1. /\ \A i \in 1..Len(g) : Before(S, g[i], m)
      /\ \A x \in M : Before(S, x, m)
      /\ \A i \in 1..Len(q) : Before(S, q[i], m)
  BY DEF Members, ToSet
<1>2. /\ Len(Append(q, m)) = Len(q) + 1 /\ Len(q) \in Nat
      /\ \A i \in 1..Len(q) : Append(q, m)[i] = q[i]
      /\ Append(q, m)[Len(q) + 1] = m
  OBVIOUS
<1>3. \A i \in 1..Len(Append(q, m)) : i \in 1..Len(q) \/ i = Len(q) + 1
  BY <1>2
<1>4. QED
  BY <1>1, <1>2, <1>3 DEF InLine

\* The order of the members is all that matters.
LEMMA LineMonotonic ==
  ASSUME NEW T, NEW S, NEW R, NEW g \in Seq(T), NEW M, NEW q \in Seq(T),
         InLine(S, g, M, q), NEW X, Members(g, M, q) \subseteq X,
         \A x, y \in X : Before(S, x, y) => Before(R, x, y)
  PROVE  InLine(R, g, M, q)
<1>1. /\ \A i \in 1..Len(g) : g[i] \in X
      /\ \A i \in 1..Len(q) : q[i] \in X
      /\ \A x \in M : x \in X
  BY DEF Members, ToSet
<1>2. QED
  BY <1>1 DEF InLine

\* A socket that is closed loses its queue and what is in between.
LEMMA LineEmpty ==
  ASSUME NEW S, NEW g, NEW M, NEW q, NEW N \in SUBSET M, InLine(S, g, M, q)
  PROVE  InLine(S, g, N, <<>>)
BY DEF InLine

(***************************************************************************)
(* NNG takes message m, which is in no line, from sender s: every line     *)
(* stays in order, and m comes after all that was taken before.            *)
(***************************************************************************)
LEMMA LineSend ==
  \A S \in [Sockets -> Seq(1..MaxSent)], R \in [Sockets -> Seq(1..MaxSent)] :
    \A s \in Sockets : \A m \in 1..MaxSent :
      /\ m \notin Taken(S)
      /\ R[s] = Append(S[s], m)
      /\ \A t \in Sockets : t # s => R[t] = S[t]
      =>
      /\ Taken(R) = Taken(S) \cup {m}
      /\ \A x \in Taken(S) : Before(R, x, m)
      /\ \A x, y \in Taken(S) : Before(S, x, y) => Before(R, x, y)
<1>0. SUFFICES ASSUME NEW S \in [Sockets -> Seq(1..MaxSent)],
                    NEW R \in [Sockets -> Seq(1..MaxSent)],
                    NEW s \in Sockets, NEW m \in 1..MaxSent,
                    m \notin Taken(S), R[s] = Append(S[s], m),
                    \A t \in Sockets : t # s => R[t] = S[t]
             PROVE  /\ Taken(R) = Taken(S) \cup {m}
                    /\ \A x \in Taken(S) : Before(R, x, m)
                    /\ \A x, y \in Taken(S) : Before(S, x, y) => Before(R, x, y)
  OBVIOUS
<1>1. /\ \A t \in Sockets : \A i \in DOMAIN S[t] : S[t][i] # m
      /\ \A x \in Taken(S) : x # m
  BY <1>0 DEF Taken, ToSet
<1>2. \A t \in Sockets : t # s => R[t] = S[t]
  BY <1>0
<1> DEFINE n == Len(S[s])
<1>3. /\ n \in Nat
      /\ DOMAIN S[s] = 1..n /\ DOMAIN R[s] = 1..(n + 1)
      /\ \A i \in 1..n : R[s][i] = S[s][i]
      /\ R[s][n + 1] = m
  BY <1>0
<1> HIDE DEF n
<1>4. 1..(n + 1) = (1..n) \cup {n + 1}
  BY <1>3
<1>5. /\ At(m, R[s]) = {n + 1}
      /\ \A t \in Sockets : t # s => At(m, R[t]) = {}
  <2>1. \A i \in 1..n : R[s][i] # m
    BY <1>1, <1>3
  <2>2. At(m, R[s]) = {i \in 1..(n + 1) : R[s][i] = m}
    BY <1>3 DEF At
  <2>3. At(m, R[s]) = {n + 1}
    BY <1>3, <1>4, <2>1, <2>2
  <2>4. ASSUME NEW t \in Sockets, t # s
        PROVE  At(m, R[t]) = {}
    BY <1>1, <1>2, <2>4 DEF At
  <2>5. QED
    BY <2>3, <2>4
<1>6. ASSUME NEW x \in Taken(S), NEW t \in Sockets
      PROVE  At(x, R[t]) = At(x, S[t])
  <2>1. CASE t = s
    BY <1>1, <1>3, <1>4, <2>1, Zenon DEF At
  <2>2. CASE t # s
    BY <1>2, <2>2, Zenon DEF At
  <2>3. QED
    BY <2>1, <2>2
<1>7. ASSUME NEW x \in Taken(S)
      PROVE  Before(R, x, m)
  <2>1. SUFFICES ASSUME NEW t \in Sockets, NEW a \in At(x, R[t]),
                        NEW b \in At(m, R[t])
                 PROVE  a < b
    BY Zenon DEF Before
  <2>2. t = s
    BY <1>5
  <2>3. b = n + 1 /\ a \in At(x, S[s])
    BY <1>5, <1>6, <2>2
  <2>4. a \in 1..n
    BY <1>3, <2>3 DEF At
  <2>5. QED
    BY <1>3, <2>3, <2>4
<1>8. \A x, y \in Taken(S) : Before(S, x, y) => Before(R, x, y)
  BY <1>6, Zenon DEF Before
<1>9. Taken(R) = Taken(S) \cup {m}
  <2>1. ToSet(R[s]) = ToSet(S[s]) \cup {m}
    <3>1. S[s] \in Seq(1..MaxSent)
      OBVIOUS
    <3>2. QED
      BY <1>0, <3>1, ToSetMsg, Zenon
  <2>2. \A t \in Sockets : t # s => ToSet(R[t]) = ToSet(S[t])
    BY <1>2
  <2>3. QED
    BY <2>1, <2>2 DEF Taken
<1>10. QED
  BY <1>7, <1>8, <1>9

-----------------------------------------------------------------------------
(* The invariant of Direct.                                                *)

\* A message a receive has got and the application has not.
Between(s) == {inbox[s], recovered[s]} \ {NoMsg}

\* The messages of the line that ends in socket s.
Line(s) == Members(got[s], Between(s), rqueue[s])

\* Messages that NNG has not taken: in the nng_aio, or given back.
Unsent(s) == {out[s], back[s]} \ {NoMsg}

\* An nng_aio has a message only during the operation it belongs to, and a
\* receive is started only without a recovered message.
AioInv ==
  \A s \in Sockets :
    /\ out[s] # NoMsg => op[s] = "send" /\ out[s] # back[s]
    /\ inbox[s] # NoMsg => op[s] = "recv"
    /\ op[s] = "recv" => recovered[s] = NoMsg

(***************************************************************************)
(* Messages are numbered as they are made, and what was not taken is held  *)
(* by one socket.                                                          *)
(***************************************************************************)
FreshInv ==
  /\ \A s \in Sockets : Unsent(s) \subseteq (1..made) \ Taken(sent)
  /\ \A s, t \in Sockets : s # t => Unsent(s) \cap Unsent(t) = {}
  /\ Taken(sent) \subseteq 1..made

(***************************************************************************)
(* Lines hold messages that were taken, in order; those of a pair or a     *)
(* pipeline have no message in common.                                     *)
(***************************************************************************)
LineInv ==
  /\ \A s \in Sockets : /\ Line(s) \subseteq Taken(sent)
                        /\ InLine(sent, got[s], Between(s), rqueue[s])
  /\ proto # "bus0" =>
       \A s, t \in Sockets : s # t => Line(s) \cap Line(t) = {}

DirectInv == DirectTypeOK /\ AioInv /\ FreshInv /\ LineInv /\ NoWorkLost

\* No socket exists and no message was made.
LEMMA DirectInitInd == DirectInit => DirectInv
<1> SUFFICES ASSUME DirectInit
             PROVE  DirectInv
  OBVIOUS
<1>1. \A s \in Sockets :
        /\ op[s] = "idle" /\ life[s] = "none" /\ handed[s] = {}
        /\ out[s] = NoMsg /\ inbox[s] = NoMsg
        /\ recovered[s] = NoMsg /\ back[s] = NoMsg
        /\ sent[s] = <<>> /\ got[s] = <<>> /\ rqueue[s] = <<>>
  BY DEF DirectInit
<1>2. DirectTypeOK
  BY DirectAssumption DEF DirectInit, DirectTypeOK, NoMsg
<1>3. ToSet(<<>>) = {}
  BY DEF ToSet
<1>4. \A s \in Sockets : Unsent(s) = {} /\ Between(s) = {} /\ Line(s) = {}
  BY <1>1, <1>3 DEF Unsent, Between, Line, Members
<1>5. Taken(sent) = {}
  BY <1>1, <1>3 DEF Taken
<1>6. AioInv /\ FreshInv
  BY <1>1, <1>4, <1>5 DEF AioInv, FreshInv
<1>7. LineInv
  BY <1>1, <1>4, <1>5 DEF LineInv, InLine
<1>8. NoWorkLost
  BY <1>1, <1>3 DEF NoWorkLost
<1>9. QED
  BY <1>2, <1>6, <1>7, <1>8 DEF DirectInv

\* The type invariant, variable by variable.
LEMMA DirectTypes ==
  ASSUME DirectTypeOK
  PROVE  /\ out \in [Sockets -> 0..MaxSent] /\ inbox \in [Sockets -> 0..MaxSent]
         /\ recovered \in [Sockets -> 0..MaxSent]
         /\ back \in [Sockets -> 0..MaxSent]
         /\ rqueue \in [Sockets -> Seq(1..MaxSent)]
         /\ sent \in [Sockets -> Seq(1..MaxSent)]
         /\ got \in [Sockets -> Seq(1..MaxSent)]
BY DEF DirectTypeOK

\* Where nothing is made, sent or given back, and where no line changes.
LEMMA FreshKept ==
  ASSUME FreshInv, UNCHANGED <<made, out, back, sent>>
  PROVE  FreshInv'
<1>1. Taken(sent)' = Taken(sent) /\ \A s \in Sockets : Unsent(s)' = Unsent(s)
  BY DEF Taken, Unsent
<1>2. QED
  BY <1>1 DEF FreshInv

\* Steps that move no message keep the line of messages.
LEMMA LineKept ==
  ASSUME LineInv, UNCHANGED <<proto, sent, got, inbox, recovered, rqueue>>
  PROVE  LineInv'
<1>1. \A s \in Sockets : Between(s)' = Between(s) /\ Line(s)' = Line(s)
  BY DEF Between, Line
<1>2. QED
  BY <1>1 DEF LineInv

\* One line changes, and gains nothing.
LEMMA LineShrinks ==
  ASSUME LineInv, NEW s \in Sockets, UNCHANGED <<proto, sent>>,
         \A t \in Sockets : t # s =>
           /\ got'[t] = got[t] /\ rqueue'[t] = rqueue[t]
           /\ inbox'[t] = inbox[t] /\ recovered'[t] = recovered[t],
         Line(s)' \subseteq Line(s),
         InLine(sent, got'[s], Between(s)', rqueue'[s])
  PROVE  LineInv'
<1>1. \A t \in Sockets : t # s => Between(t)' = Between(t) /\ Line(t)' = Line(t)
  BY DEF Between, Line
<1>2. ASSUME NEW t \in Sockets
      PROVE  /\ Line(t)' \subseteq Taken(sent)'
             /\ InLine(sent, got[t], Between(t), rqueue[t])'
  <2>1. CASE t = s
    BY <2>1 DEF LineInv
  <2>2. CASE t # s
    BY <1>1, <2>2 DEF LineInv
  <2>3. QED
    BY <2>1, <2>2
<1>3. ASSUME proto' # "bus0", NEW t \in Sockets, NEW u \in Sockets, t # u
      PROVE  Line(t)' \cap Line(u)' = {}
  <2>1. Line(t)' \subseteq Line(t) /\ Line(u)' \subseteq Line(u)
    BY <1>1
  <2>2. QED
    BY <1>3, <2>1 DEF LineInv
<1>4. QED
  BY <1>2, <1>3 DEF LineInv

\* Constructors and pipes: no message moves.
LEMMA LifeStep ==
  ASSUME DirectInv, NEW s \in Sockets,
         Listen(s) \/ Dial(s) \/ (s \in Others /\ (Attach(s) \/ Detach(s)))
  PROVE  DirectInv'
<1>1. UNCHANGED <<proto, op, sendVars, recvVars, rqueue, handed>>
  BY DEF Listen, Dial, Attach, Detach
<1>2. DirectTypeOK'
  <2>1. /\ life' \in [Sockets -> {"none", "dialing", "open", "closed"}]
        /\ pipes' \subseteq Others
    BY DEF DirectInv, DirectTypeOK, Listen, Dial, Attach, Detach
  <2>2. QED
    BY <1>1, <2>1 DEF DirectInv, DirectTypeOK, sendVars, recvVars
<1>3. AioInv'
  BY <1>1 DEF DirectInv, AioInv, sendVars, recvVars
<1>4. FreshInv' /\ LineInv'
  BY <1>1, FreshKept, LineKept DEF DirectInv, sendVars, recvVars
<1>5. NoWorkLost'
  <2>1. \A t \in Sockets : life'[t] # "closed" => life[t] # "closed"
    BY DEF DirectInv, DirectTypeOK, Listen, Dial, Attach, Detach
  <2>2. QED
    BY <1>1, <2>1 DEF DirectInv, NoWorkLost, recvVars
<1>6. QED
  BY <1>2, <1>3, <1>4, <1>5 DEF DirectInv

\* The socket goes: its line ends with what was returned.
LEMMA CloseStep ==
  ASSUME DirectInv, NEW s \in Sockets, DialEnds(s) \/ Drop(s)
  PROVE  DirectInv'
<1>1. /\ UNCHANGED <<proto, op, made, out, sent, inbox, got, handed>>
      /\ life' \in [Sockets -> {"none", "dialing", "open", "closed"}]
      /\ \A t \in Sockets : life'[t] # "closed" => life[t] # "closed"
      /\ pipes' \subseteq Others
      /\ \A t \in Sockets : t # s => life'[t] = life[t]
      /\ recovered' \in {recovered, [recovered EXCEPT ![s] = NoMsg]}
      /\ back' \in {back, [back EXCEPT ![s] = NoMsg]}
      /\ rqueue' \in {rqueue, [rqueue EXCEPT ![s] = <<>>]}
      /\ recovered' # recovered => life'[s] = "closed" /\ rqueue'[s] = <<>>
  BY DirectTypes
  DEF DirectInv, DirectTypeOK, DialEnds, Drop, NngClose, sendVars,
                     recvVars
<1>2. DirectTypeOK'
  <2>1. /\ recovered' \in [Sockets -> 0..MaxSent]
        /\ back' \in [Sockets -> 0..MaxSent]
    <3>1. /\ [recovered EXCEPT ![s] = NoMsg] \in [Sockets -> 0..MaxSent]
          /\ [back EXCEPT ![s] = NoMsg] \in [Sockets -> 0..MaxSent]
      BY DirectTypes, DirectAssumption DEF DirectInv, NoMsg
    <3>2. QED
      BY <1>1, <3>1, DirectTypes, Zenon DEF DirectInv
  <2>2. rqueue' \in [Sockets -> Seq(1..MaxSent)]
    <3>1. [rqueue EXCEPT ![s] = <<>>] \in [Sockets -> Seq(1..MaxSent)]
      BY DirectTypes DEF DirectInv
    <3>2. QED
      BY <1>1, <3>1, DirectTypes, Zenon DEF DirectInv
  <2>3. QED
    BY <1>1, <2>1, <2>2 DEF DirectInv, DirectTypeOK
<1>3. AioInv'
  BY <1>1, DirectTypes DEF DirectInv, AioInv
<1>4. FreshInv'
  <2>1. Taken(sent)' = Taken(sent) /\ \A t \in Sockets : Unsent(t)' \subseteq Unsent(t)
    BY <1>1, DirectTypes DEF DirectInv, Taken, Unsent
  <2>2. QED
    BY <1>1, <2>1 DEF DirectInv, FreshInv
<1>5. LineInv'
  <2>1. CASE rqueue'[s] = rqueue[s]
    <3>1. rqueue' = rqueue
      BY <1>1, <2>1, DirectTypes DEF DirectInv
    <3>2. Between(s)' \subseteq Between(s)
      BY <1>1, DirectTypes DEF DirectInv, Between
    <3>3. Line(s)' \subseteq Line(s)
      BY <1>1, <3>1, <3>2 DEF Line, Members
    <3>4. InLine(sent, got'[s], Between(s)', rqueue'[s])
      BY <1>1, <3>1, <3>2 DEF DirectInv, LineInv, InLine
    <3>5. QED
      BY <1>1, <3>1, <3>3, <3>4, LineShrinks, DirectTypes DEF DirectInv
  <2>2. CASE rqueue'[s] = <<>>
    <3>1. Between(s)' \in SUBSET Between(s)
      BY <1>1, DirectTypes DEF DirectInv, Between
    <3>2. InLine(sent, got'[s], Between(s)', rqueue'[s])
      BY <1>1, <2>2, <3>1, LineEmpty DEF DirectInv, LineInv
    <3>3. Line(s)' \subseteq Line(s)
      <4>1. ToSet(<<>>) = {}
        BY DEF ToSet
      <4>2. QED
        BY <1>1, <2>2, <3>1, <4>1 DEF Line, Members
    <3>4. QED
      BY <1>1, <3>2, <3>3, LineShrinks, DirectTypes DEF DirectInv
  <2>3. QED
    BY <1>1, <2>1, <2>2, DirectTypes DEF DirectInv
<1>6. NoWorkLost'
  BY <1>1, DirectTypes DEF DirectInv, NoWorkLost
<1>7. QED
  BY <1>2, <1>3, <1>4, <1>5, <1>6 DEF DirectInv

\* send and push, up to NNG: no line changes.
LEMMA SendStep ==
  ASSUME DirectInv, NEW s \in Sockets,
         Send(s) \/ SendOk(s) \/ SendErr(s) \/ CancelSend(s)
  PROVE  DirectInv'
<1> USE DirectAssumption DEF NoMsg
<1>1. UNCHANGED <<proto, life, pipes, sent, recvVars, rqueue, handed>>
  BY DEF Send, SendOk, SendErr, CancelSend, sendVars
<1>2. /\ out \in [Sockets -> 0..MaxSent] /\ back \in [Sockets -> 0..MaxSent]
      /\ made \in 0..MaxSent /\ op \in [Sockets -> {"idle", "send", "recv"}]
  BY DirectTypes DEF DirectInv, DirectTypeOK
<1>3. /\ out' \in [Sockets -> 0..MaxSent] /\ back' \in [Sockets -> 0..MaxSent]
      /\ made' \in 0..MaxSent /\ op' \in [Sockets -> {"idle", "send", "recv"}]
      /\ \A t \in Sockets : t # s =>
           out'[t] = out[t] /\ back'[t] = back[t] /\ op'[t] = op[t]
      /\ made <= made'
  <2>1. CASE Send(s)
    BY <1>2, <2>1 DEF Send
  <2>2. CASE SendOk(s)
    BY <1>2, <2>2 DEF SendOk, sendVars
  <2>3. CASE SendErr(s)
    BY <1>2, <2>3 DEF SendErr
  <2>4. CASE CancelSend(s)
    BY <1>2, <2>4 DEF CancelSend
  <2>5. QED
    BY <2>1, <2>2, <2>3, <2>4
<1>4. DirectTypeOK'
  BY <1>1, <1>3 DEF DirectInv, DirectTypeOK, recvVars
<1>5. LineInv' /\ NoWorkLost'
  BY <1>1, LineKept DEF DirectInv, NoWorkLost, recvVars
<1>6. /\ Taken(sent)' = Taken(sent) /\ Taken(sent) \subseteq 1..made
      /\ \A t \in Sockets : t # s => Unsent(t)' = Unsent(t)
  BY <1>1, <1>3 DEF DirectInv, FreshInv, Taken, Unsent
<1>7. Unsent(s)' \subseteq Unsent(s) \cup ({made'} \ (1..made))
  <2>1. CASE Send(s)
    BY <1>2, <2>1 DEF Send, Unsent
  <2>2. CASE SendOk(s)
    BY <1>2, <2>2 DEF SendOk, Unsent, sendVars
  <2>3. CASE SendErr(s)
    BY <1>2, <2>3 DEF SendErr, Unsent
  <2>4. CASE CancelSend(s)
    BY <1>2, <2>4 DEF CancelSend, Unsent
  <2>5. QED
    BY <2>1, <2>2, <2>3, <2>4
<1>8. FreshInv'
  <2>1. Unsent(s)' \subseteq 1..made'
    BY <1>2, <1>3, <1>7 DEF DirectInv, FreshInv, Unsent
  <2>2. ASSUME NEW t \in Sockets
        PROVE  Unsent(t)' \subseteq (1..made') \ Taken(sent)
    <3>1. CASE t = s
      BY <1>6, <1>7, <2>1, <3>1 DEF DirectInv, FreshInv
    <3>2. CASE t # s
      BY <1>2, <1>3, <1>6, <3>2 DEF DirectInv, FreshInv
    <3>3. QED
      BY <3>1, <3>2
  <2>3. \A t \in Sockets : t # s => Unsent(s)' \cap Unsent(t)' = {}
    BY <1>6, <1>7 DEF DirectInv, FreshInv
  <2>4. \A t, u \in Sockets : t # u => Unsent(t)' \cap Unsent(u)' = {}
    BY <1>6, <2>3 DEF DirectInv, FreshInv
  <2>5. Taken(sent) \subseteq 1..made'
    BY <1>2, <1>3, <1>6
  <2>6. QED
    BY <1>6, <2>2, <2>4, <2>5 DEF FreshInv
<1>9. AioInv'
  <2>1. inbox' = inbox /\ recovered' = recovered
    BY <1>1 DEF recvVars
  <2>2. CASE Send(s)
    <3>1. back[s] # NoMsg => back[s] \in 1..made
      BY <1>2 DEF DirectInv, FreshInv, Unsent
    <3>2. QED
      BY <1>2, <2>1, <2>2, <3>1 DEF DirectInv, AioInv, Send
  <2>3. CASE SendOk(s)
    BY <1>2, <2>1, <2>3 DEF DirectInv, AioInv, SendOk, sendVars
  <2>4. CASE SendErr(s)
    BY <1>2, <2>1, <2>4 DEF DirectInv, AioInv, SendErr
  <2>5. CASE CancelSend(s)
    BY <1>2, <2>1, <2>5 DEF DirectInv, AioInv, CancelSend
  <2>6. QED
    BY <2>2, <2>3, <2>4, <2>5
<1>10. QED
  BY <1>4, <1>5, <1>8, <1>9 DEF DirectInv

\* A step of the receiving side of socket s that keeps the line of s in
\* order, adds nothing to it and loses nothing that was handed over.
LEMMA ReceiveKeeps ==
  ASSUME DirectInv, NEW s \in Sockets, UNCHANGED <<proto, life, pipes, sendVars>>,
         /\ op' \in [Sockets -> {"idle", "send", "recv"}]
         /\ inbox' \in [Sockets -> 0..MaxSent]
         /\ recovered' \in [Sockets -> 0..MaxSent]
         /\ got' \in [Sockets -> Seq(1..MaxSent)]
         /\ rqueue' \in [Sockets -> Seq(1..MaxSent)]
         /\ handed' \in [Sockets -> SUBSET (1..MaxSent)],
         \A t \in Sockets : t # s =>
           /\ op'[t] = op[t] /\ inbox'[t] = inbox[t]
           /\ recovered'[t] = recovered[t] /\ got'[t] = got[t]
           /\ rqueue'[t] = rqueue[t] /\ handed'[t] = handed[t],
         out[s] = NoMsg, inbox'[s] # NoMsg => op'[s] = "recv",
         op'[s] = "recv" => recovered'[s] = NoMsg,
         InLine(sent, got'[s], Between(s)', rqueue'[s]),
         Line(s)' \subseteq Line(s),
         life[s] # "closed" => handed'[s] = Between(s)' \cup ToSet(got'[s])
  PROVE  DirectInv'
<1>1. UNCHANGED <<made, out, back, sent>>
  BY DEF sendVars
<1>2. DirectTypeOK'
  BY <1>1 DEF DirectInv, DirectTypeOK
<1>3. AioInv'
  BY <1>1 DEF DirectInv, AioInv
<1>4. FreshInv'
  BY <1>1, FreshKept DEF DirectInv
<1>5. LineInv'
  BY <1>1, LineShrinks DEF DirectInv
<1>6. NoWorkLost'
  BY DEF DirectInv, NoWorkLost, Between
<1>7. QED
  BY <1>2, <1>3, <1>4, <1>5, <1>6 DEF DirectInv

\* receive, pull and their try_ forms, the cancellation of a receive, and
\* NNG's part of it.
LEMMA ReceiveStep ==
  ASSUME DirectInv, NEW s \in Sockets,
         \/ ReceiveRecovered(s) \/ Receive(s) \/ TryReceive(s) \/ ReceiveOk(s)
         \/ ReceiveErr(s) \/ CancelReceive(s) \/ NngSocketRecv(s)
  PROVE  DirectInv'
<1>1. /\ inbox \in [Sockets -> 0..MaxSent] /\ recovered \in [Sockets -> 0..MaxSent]
      /\ got \in [Sockets -> Seq(1..MaxSent)]
      /\ rqueue \in [Sockets -> Seq(1..MaxSent)]
      /\ handed \in [Sockets -> SUBSET (1..MaxSent)]
      /\ op \in [Sockets -> {"idle", "send", "recv"}]
  BY DirectTypes DEF DirectInv, DirectTypeOK
<1>2. /\ NoMsg \in 0..MaxSent /\ NoMsg \notin 1..MaxSent
      /\ \A m \in 0..MaxSent : m # NoMsg => m \in 1..MaxSent
  BY DirectAssumption DEF NoMsg
<1>3. /\ InLine(sent, got[s], Between(s), rqueue[s])
      /\ Line(s) = ToSet(got[s]) \cup Between(s) \cup ToSet(rqueue[s])
      /\ life[s] # "closed" => handed[s] = Between(s) \cup ToSet(got[s])
  BY DEF DirectInv, LineInv, Line, Members, NoWorkLost, Between
<1>4. out[s] = NoMsg /\ UNCHANGED <<proto, life, pipes, sendVars>>
  BY DEF DirectInv, AioInv, ReceiveRecovered, Receive, TryReceive, ReceiveOk,
         ReceiveErr, CancelReceive, NngSocketRecv
<1>5. /\ inbox[s] # NoMsg => op[s] = "recv"
      /\ op[s] = "recv" => recovered[s] = NoMsg
  BY DEF DirectInv, AioInv
\* The message in between is returned.
<1>6. ASSUME NEW m \in 1..MaxSent, Between(s) = {m}, UNCHANGED <<rqueue, handed>>,
             got' = [got EXCEPT ![s] = Append(got[s], m)],
             inbox' = [inbox EXCEPT ![s] = NoMsg],
             recovered' = [recovered EXCEPT ![s] = NoMsg],
             op' = [op EXCEPT ![s] = "idle"]
      PROVE  DirectInv'
  <2>1. got'[s] \in Seq(1..MaxSent) /\ got'[s] = Append(got[s], m)
    BY <1>1, <1>6
  <2>2. ToSet(got'[s]) = ToSet(got[s]) \cup {m}
    <3>1. got[s] \in Seq(1..MaxSent)
      BY <1>1
    <3>2. QED
      BY <2>1, <3>1, ToSetMsg, Zenon
  <2>3. Between(s)' = {}
    BY <1>1, <1>6 DEF Between
  <2>4. InLine(sent, got'[s], Between(s)', rqueue'[s])
    <3>1. got[s] \in Seq(1..MaxSent) /\ rqueue[s] \in Seq(1..MaxSent)
      BY <1>1
    <3>2. InLine(sent, got[s], {m}, rqueue[s])
      BY <1>3, <1>6
    <3>3. InLine(sent, Append(got[s], m), {}, rqueue[s])
      BY <3>1, <3>2, LineReturn
    <3>4. QED
      BY <1>6, <2>1, <2>3, <3>3
  <2>5. Line(s)' \subseteq Line(s)
    BY <1>3, <1>6, <2>2, <2>3 DEF Line, Members
  <2>6. life[s] # "closed" => handed'[s] = Between(s)' \cup ToSet(got'[s])
    BY <1>3, <1>6, <2>2, <2>3
  <2>7. got' \in [Sockets -> Seq(1..MaxSent)]
    BY <1>1, <1>6, <2>1
  <2>8. QED
    BY <1>1, <1>2, <1>4, <1>6, <2>4, <2>5, <2>6, <2>7, ReceiveKeeps
<1>7. CASE ReceiveRecovered(s)
  <2>1. op[s] = "idle" /\ inbox[s] = NoMsg /\ recovered[s] \in 1..MaxSent
    BY <1>1, <1>2, <1>5, <1>7 DEF ReceiveRecovered
  <2>2. Between(s) = {recovered[s]}
    BY <1>2, <2>1 DEF Between
  <2>3. /\ inbox' = [inbox EXCEPT ![s] = NoMsg]
        /\ op' = [op EXCEPT ![s] = "idle"]
    BY <1>1, <1>7, <2>1 DEF ReceiveRecovered
  <2>4. QED
    BY <1>6, <1>7, <2>1, <2>2, <2>3 DEF ReceiveRecovered, Return
<1>8. CASE ReceiveOk(s)
  <2>1. recovered[s] = NoMsg /\ inbox[s] \in 1..MaxSent
    BY <1>1, <1>2, <1>5, <1>8 DEF ReceiveOk
  <2>2. Between(s) = {inbox[s]}
    BY <1>2, <2>1 DEF Between
  <2>3. recovered' = [recovered EXCEPT ![s] = NoMsg]
    BY <1>1, <1>8, <2>1 DEF ReceiveOk
  <2>4. QED
    BY <1>6, <1>8, <2>1, <2>2, <2>3 DEF ReceiveOk, Return
\* Nothing enters or leaves the line.
<1>9. CASE Receive(s) \/ ReceiveErr(s) \/ CancelReceive(s)
  <2>1. /\ op' \in [Sockets -> {"idle", "send", "recv"}]
        /\ inbox' \in [Sockets -> 0..MaxSent]
        /\ recovered' \in [Sockets -> 0..MaxSent]
        /\ UNCHANGED <<got, rqueue, handed>>
        /\ \A t \in Sockets : t # s =>
             /\ op'[t] = op[t] /\ inbox'[t] = inbox[t]
             /\ recovered'[t] = recovered[t]
    BY <1>1, <1>2, <1>9 DEF Receive, ReceiveErr, CancelReceive, Guard, recvVars
  <2>2. /\ Between(s)' = Between(s) /\ inbox'[s] = NoMsg
        /\ op'[s] = "recv" => recovered'[s] = NoMsg
    BY <1>1, <1>5, <1>9
    DEF Between, Receive, ReceiveErr, CancelReceive, Guard, recvVars
  <2>3. Line(s)' = Line(s)
    BY <2>1, <2>2 DEF Line
  <2>4. QED
    BY <1>1, <1>3, <1>4, <2>1, <2>2, <2>3, ReceiveKeeps
\* The oldest message leaves the queue.
<1>10. ASSUME Between(s) = {}, rqueue[s] # <<>>
       PROVE  /\ Head(rqueue[s]) \in 1..MaxSent
              /\ Tail(rqueue[s]) \in Seq(1..MaxSent)
              /\ InLine(sent, got[s], {Head(rqueue[s])}, Tail(rqueue[s]))
              /\ ToSet(rqueue[s]) = ToSet(Tail(rqueue[s])) \cup {Head(rqueue[s])}
  <2>1. rqueue[s] \in Seq(1..MaxSent) /\ got[s] \in Seq(1..MaxSent)
    BY <1>1
  <2>2. /\ Head(rqueue[s]) \in 1..MaxSent
        /\ ToSet(rqueue[s]) = ToSet(Tail(rqueue[s])) \cup {Head(rqueue[s])}
    BY <1>10, <2>1, ToSetTail, Zenon
  <2>3. Tail(rqueue[s]) \in Seq(1..MaxSent)
    BY <1>10, <2>1, HeadTailProperties, Zenon
  <2>4. InLine(sent, got[s], {Head(rqueue[s])}, Tail(rqueue[s]))
    BY <1>3, <1>10, <2>1, LineTake, Zenon
  <2>5. QED
    BY <2>2, <2>3, <2>4
<1>11. CASE NngSocketRecv(s)
  <2>1. /\ op[s] = "recv" /\ inbox[s] = NoMsg /\ recovered[s] = NoMsg
        /\ rqueue[s] # <<>> /\ Between(s) = {}
    BY <1>5, <1>11 DEF NngSocketRecv, Between
  <2>2. /\ Head(rqueue[s]) \in 1..MaxSent
        /\ Tail(rqueue[s]) \in Seq(1..MaxSent)
        /\ InLine(sent, got[s], {Head(rqueue[s])}, Tail(rqueue[s]))
        /\ ToSet(rqueue[s]) = ToSet(Tail(rqueue[s])) \cup {Head(rqueue[s])}
    BY <1>10, <2>1
  <2> DEFINE m == Head(rqueue[s])
             q == Tail(rqueue[s])
  <2> HIDE DEF m, q
  <2>3. /\ inbox' = [inbox EXCEPT ![s] = m] /\ UNCHANGED <<op, got, recovered>>
        /\ handed' = [handed EXCEPT ![s] = handed[s] \cup {m}]
        /\ rqueue' = [rqueue EXCEPT ![s] = q]
    BY <1>11 DEF NngSocketRecv, m, q
  <2>4. /\ m \in 1..MaxSent /\ q \in Seq(1..MaxSent)
        /\ InLine(sent, got[s], {m}, q) /\ ToSet(rqueue[s]) = ToSet(q) \cup {m}
    BY <2>2 DEF m, q
  <2>5. /\ inbox' \in [Sockets -> 0..MaxSent]
        /\ rqueue' \in [Sockets -> Seq(1..MaxSent)]
        /\ handed' \in [Sockets -> SUBSET (1..MaxSent)]
        /\ inbox'[s] = m /\ rqueue'[s] = q /\ handed'[s] = handed[s] \cup {m}
        /\ \A t \in Sockets : t # s => /\ inbox'[t] = inbox[t]
                                       /\ rqueue'[t] = rqueue[t]
                                       /\ handed'[t] = handed[t]
    BY <1>1, <2>3, <2>4
  <2>6. Between(s)' = {m}
    BY <1>2, <2>1, <2>3, <2>4, <2>5 DEF Between
  <2>7. Line(s)' \subseteq Line(s)
    BY <1>3, <2>1, <2>3, <2>4, <2>5, <2>6 DEF Line, Members
  <2>8. /\ InLine(sent, got'[s], Between(s)', rqueue'[s])
        /\ life[s] # "closed" => handed'[s] = Between(s)' \cup ToSet(got'[s])
    BY <1>3, <2>1, <2>3, <2>4, <2>5, <2>6
  <2>9. QED
    BY <1>1, <1>4, <2>1, <2>3, <2>5, <2>7, <2>8, ReceiveKeeps
<1>12. CASE TryReceive(s)
  <2>1. /\ op[s] = "idle" /\ inbox[s] = NoMsg /\ recovered[s] = NoMsg
        /\ rqueue[s] # <<>> /\ Between(s) = {}
    BY <1>5, <1>12 DEF TryReceive, Between
  <2>2. /\ Head(rqueue[s]) \in 1..MaxSent
        /\ Tail(rqueue[s]) \in Seq(1..MaxSent)
        /\ InLine(sent, got[s], {Head(rqueue[s])}, Tail(rqueue[s]))
        /\ ToSet(rqueue[s]) = ToSet(Tail(rqueue[s])) \cup {Head(rqueue[s])}
    BY <1>10, <2>1
  <2> DEFINE m == Head(rqueue[s])
             q == Tail(rqueue[s])
             g == Append(got[s], m)
  <2> HIDE DEF m, q, g
  <2>3. /\ UNCHANGED <<op, inbox, recovered>>
        /\ got' = [got EXCEPT ![s] = g]
        /\ handed' = [handed EXCEPT ![s] = handed[s] \cup {m}]
        /\ rqueue' = [rqueue EXCEPT ![s] = q]
    BY <1>12 DEF TryReceive, Return, m, q, g
  <2>4. /\ m \in 1..MaxSent /\ q \in Seq(1..MaxSent)
        /\ InLine(sent, got[s], {m}, q) /\ ToSet(rqueue[s]) = ToSet(q) \cup {m}
    BY <2>2 DEF m, q
  <2>5. g \in Seq(1..MaxSent) /\ ToSet(g) = ToSet(got[s]) \cup {m}
    <3>1. got[s] \in Seq(1..MaxSent)
      BY <1>1
    <3>2. ToSet(g) = ToSet(got[s]) \cup {m}
      BY <2>4, <3>1, ToSetMsg, Zenon DEF g
    <3>3. QED
      BY <2>4, <3>1, <3>2 DEF g
  <2>6. InLine(sent, g, {}, q)
    BY <1>1, <2>4, LineReturn DEF g
  <2>7. /\ got' \in [Sockets -> Seq(1..MaxSent)]
        /\ rqueue' \in [Sockets -> Seq(1..MaxSent)]
        /\ handed' \in [Sockets -> SUBSET (1..MaxSent)]
        /\ got'[s] = g /\ rqueue'[s] = q /\ handed'[s] = handed[s] \cup {m}
        /\ \A t \in Sockets : t # s => /\ got'[t] = got[t]
                                       /\ rqueue'[t] = rqueue[t]
                                       /\ handed'[t] = handed[t]
    BY <1>1, <2>3, <2>4, <2>5
  <2>8. Between(s)' = {}
    BY <2>1, <2>3 DEF Between
  <2>9. Line(s)' \subseteq Line(s)
    BY <1>3, <2>1, <2>4, <2>5, <2>7, <2>8 DEF Line, Members
  <2>10. /\ InLine(sent, got'[s], Between(s)', rqueue'[s])
         /\ life[s] # "closed" => handed'[s] = Between(s)' \cup ToSet(got'[s])
    BY <1>3, <2>1, <2>5, <2>6, <2>7, <2>8
  <2>11. QED
    BY <1>1, <1>4, <2>1, <2>3, <2>7, <2>9, <2>10, ReceiveKeeps
<1>13. QED
  BY <1>7, <1>8, <1>9, <1>11, <1>12

\* A set of at most one element has no two.
LEMMA AtMostOne ==
  ASSUME NEW R, IsFiniteSet(R), Cardinality(R) <= 1,
         NEW t \in R, NEW u \in R
  PROVE  t = u
<1>1. Cardinality(R) \in Nat
  BY FS_CardinalityType
<1>2. /\ IsFiniteSet(R \ {t})
      /\ Cardinality(R \ {t}) = Cardinality(R) - 1
      /\ Cardinality(R \ {t}) \in Nat
  BY FS_RemoveElement, FS_CardinalityType
<1>3. R \ {t} = {}
  BY <1>1, <1>2, FS_EmptySet
<1>4. QED
  BY <1>3

\* NNG takes a message: it comes last in the lines it joins.
LEMMA TakeStep ==
  ASSUME DirectInv, NEW s \in Sockets, NngSocketSend(s)
  PROVE  DirectInv'
<1> DEFINE m == out[s]
<1>1. PICK R \in SUBSET PeersOf(s) :
        /\ proto # "bus0" => Cardinality(R) <= 1
        /\ rqueue' = [r \in Sockets |-> IF r \in R THEN Append(rqueue[r], m)
                                        ELSE rqueue[r]]
  BY DEF NngSocketSend
<1>2. /\ m # NoMsg /\ op[s] = "send"
      /\ out' = [out EXCEPT ![s] = NoMsg]
      /\ sent' = [sent EXCEPT ![s] = Append(@, m)]
      /\ UNCHANGED <<proto, life, pipes, made, op, back, recvVars, handed>>
  BY DEF NngSocketSend
<1> HIDE DEF m
<1>3. /\ out \in [Sockets -> 0..MaxSent] /\ back \in [Sockets -> 0..MaxSent]
      /\ inbox \in [Sockets -> 0..MaxSent] /\ recovered \in [Sockets -> 0..MaxSent]
      /\ rqueue \in [Sockets -> Seq(1..MaxSent)]
      /\ sent \in [Sockets -> Seq(1..MaxSent)]
      /\ got \in [Sockets -> Seq(1..MaxSent)]
  BY DirectTypes DEF DirectInv
<1>4. /\ m \in 1..MaxSent /\ m \in 1..made /\ m \notin Taken(sent)
      /\ m \in Unsent(s) /\ m # back[s]
  <2>1. m \in Unsent(s) /\ m # back[s]
    BY <1>2 DEF DirectInv, AioInv, Unsent, m
  <2>2. m \in 1..made /\ m \notin Taken(sent)
    BY <2>1 DEF DirectInv, FreshInv
  <2>3. QED
    BY <2>1, <2>2, DirectAssumption DEF DirectInv, DirectTypeOK
<1>5. /\ Taken(sent') = Taken(sent) \cup {m}
      /\ \A x \in Taken(sent) : Before(sent', x, m)
      /\ \A x, y \in Taken(sent) : Before(sent, x, y) => Before(sent', x, y)
  <2>1. /\ sent'[s] = Append(sent[s], m)
        /\ \A t \in Sockets : t # s => sent'[t] = sent[t]
    BY <1>2, <1>3
  <2>2. sent' \in [Sockets -> Seq(1..MaxSent)]
    BY <1>2, <1>3, <1>4
  <2>3. QED
    BY <1>3, <1>4, <2>1, <2>2, LineSend, Zenon
<1>6. DirectTypeOK'
  <2>1. out' \in [Sockets -> 0..MaxSent]
    BY <1>2, <1>3, DirectAssumption DEF NoMsg
  <2>2. rqueue' \in [Sockets -> Seq(1..MaxSent)]
    <3>1. \A r \in Sockets : /\ rqueue[r] \in Seq(1..MaxSent)
                             /\ Append(rqueue[r], m) \in Seq(1..MaxSent)
      BY <1>3, <1>4
    <3>2. QED
      BY <1>1, <3>1, Zenon
  <2>3. sent' \in [Sockets -> Seq(1..MaxSent)]
    BY <1>2, <1>3, <1>4
  <2>4. QED
    BY <1>2, <1>3, <2>1, <2>2, <2>3 DEF DirectInv, DirectTypeOK, recvVars
<1>7. AioInv'
  BY <1>2, <1>3 DEF DirectInv, AioInv, recvVars
<1>8. FreshInv'
  <2>1. Unsent(s)' = Unsent(s) \ {m}
    BY <1>2, <1>3, <1>4 DEF Unsent, m
  <2>2. \A t \in Sockets : t # s => Unsent(t)' = Unsent(t) /\ m \notin Unsent(t)
    BY <1>2, <1>3, <1>4 DEF DirectInv, FreshInv, Unsent
  <2>3. \A t \in Sockets : Unsent(t)' = Unsent(t) \ {m}
    BY <2>1, <2>2
  <2>4. Taken(sent)' = Taken(sent) \cup {m}
    BY <1>5
  <2>5. made' = made
    BY <1>2
  <2>6. \A t \in Sockets : Unsent(t)' \subseteq (1..made') \ Taken(sent)'
    BY <2>3, <2>4, <2>5 DEF DirectInv, FreshInv
  <2>7. \A t, u \in Sockets : t # u => Unsent(t)' \cap Unsent(u)' = {}
    BY <2>3 DEF DirectInv, FreshInv
  <2>8. Taken(sent)' \subseteq 1..made'
    BY <1>4, <2>4, <2>5 DEF DirectInv, FreshInv
  <2>9. QED
    BY <2>6, <2>7, <2>8 DEF FreshInv
<1>9. ASSUME NEW t \in Sockets
      PROVE  /\ Line(t)' \subseteq Taken(sent')
             /\ t \notin R => Line(t)' = Line(t)
             /\ Line(t)' \subseteq Line(t) \cup {m} /\ m \notin Line(t)
             /\ InLine(sent', got'[t], Between(t)', rqueue'[t])
  <2>1. /\ got'[t] = got[t] /\ Between(t)' = Between(t)
        /\ Line(t) \subseteq Taken(sent)
        /\ Line(t) = Members(got[t], Between(t), rqueue[t])
    BY <1>2 DEF Between, Line, DirectInv, LineInv, recvVars
  <2>2. got[t] \in Seq(1..MaxSent) /\ rqueue[t] \in Seq(1..MaxSent)
    BY <1>3
  <2>3. InLine(sent', got[t], Between(t), rqueue[t])
    <3>1. InLine(sent, got[t], Between(t), rqueue[t])
      BY DEF DirectInv, LineInv
    <3>2. QED
      BY <1>5, <2>1, <2>2, <3>1, LineMonotonic
  <2>4. CASE t \in R
    <3>1. rqueue'[t] = Append(rqueue[t], m)
      BY <1>1, <2>4
    <3>2. ToSet(rqueue'[t]) = ToSet(rqueue[t]) \cup {m}
      BY <1>4, <2>2, <3>1, ToSetMsg, Zenon
    <3>3. Line(t)' = Line(t) \cup {m}
      BY <2>1, <3>2 DEF Line, Members
    <3>4. \A x \in Members(got[t], Between(t), rqueue[t]) : Before(sent', x, m)
      BY <1>5, <2>1
    <3>5. InLine(sent', got[t], Between(t), Append(rqueue[t], m))
      BY <1>4, <2>2, <2>3, <3>4, LineEnqueue
    <3>6. QED
      BY <1>4, <1>5, <2>1, <2>4, <3>1, <3>3, <3>5
  <2>5. CASE t \notin R
    <3>1. rqueue'[t] = rqueue[t]
      BY <1>1, <2>5
    <3>2. Line(t)' = Line(t)
      BY <2>1, <3>1 DEF Line
    <3>3. QED
      BY <1>4, <1>5, <2>1, <2>3, <3>1, <3>2
  <2>6. QED
    BY <2>4, <2>5
<1>10. LineInv'
  <2>1. ASSUME proto # "bus0", NEW t \in Sockets, NEW u \in Sockets, t # u
        PROVE  Line(t)' \cap Line(u)' = {}
    <3>1. Line(t) \cap Line(u) = {}
      BY <2>1 DEF DirectInv, LineInv
    <3>2. t \notin R \/ u \notin R
      <4>1. IsFiniteSet(Sockets)
        BY DirectAssumption, FS_AddElement DEF Sockets
      <4>2. R \in SUBSET Sockets
        BY DEF DirectInv, DirectTypeOK, PeersOf, Sockets
      <4>3. IsFiniteSet(R) /\ Cardinality(R) <= 1
        BY <1>1, <2>1, <4>1, <4>2, FS_Subset
      <4>4. QED
        BY <2>1, <4>3, AtMostOne
    <3>3. QED
      BY <1>9, <3>1, <3>2
  <2>2. \A t \in Sockets : /\ Line(t)' \subseteq Taken(sent)'
                          /\ InLine(sent, got[t], Between(t), rqueue[t])'
    BY <1>9
  <2>3. QED
    BY <1>2, <2>1, <2>2 DEF LineInv
<1>11. NoWorkLost'
  BY <1>2 DEF DirectInv, NoWorkLost, recvVars
<1>12. QED
  BY <1>6, <1>7, <1>8, <1>10, <1>11 DEF DirectInv

\* Every step keeps the invariant.
LEMMA DirectStepInd == DirectInv /\ [DirectNext]_directVars => DirectInv'
<1> SUFFICES ASSUME DirectInv, [DirectNext]_directVars
             PROVE  DirectInv'
  OBVIOUS
<1>1. CASE UNCHANGED directVars
  <2>1. UNCHANGED <<proto, life, pipes, op, sendVars, recvVars, rqueue, handed>>
    BY <1>1 DEF directVars
  <2>2. DirectTypeOK' /\ AioInv' /\ NoWorkLost'
    BY <2>1 DEF DirectInv, DirectTypeOK, AioInv, NoWorkLost, sendVars, recvVars
  <2>3. QED
    BY <2>1, <2>2, FreshKept, LineKept DEF DirectInv, sendVars, recvVars
<1>2. CASE DirectNext
  BY <1>2, LifeStep, CloseStep, SendStep, ReceiveStep, TakeStep DEF DirectNext
<1>3. QED
  BY <1>1, <1>2

-----------------------------------------------------------------------------
(***************************************************************************)
(* The inductive invariant holds in every reachable state.                 *)
(***************************************************************************)
THEOREM DirectInvariance == DirectSpec => []DirectInv
<1>1. QED
  BY DirectInitInd, DirectStepInd, PTL DEF DirectSpec

(***************************************************************************)
(* Type correctness.                                                       *)
(***************************************************************************)
THEOREM DirectTypeCorrect == DirectSpec => []DirectTypeOK
<1>1. DirectInv => DirectTypeOK
  BY DEF DirectInv
<1>2. QED
  BY DirectInvariance, <1>1, PTL

(***************************************************************************)
(* Pair, pipeline and bus deliver what one sender sent in the order NNG    *)
(* took it, and nothing twice; a pair and a pipeline give each message to  *)
(* one socket.                                                             *)
(***************************************************************************)
THEOREM OrderedDelivery == DirectSpec => []DeliveredInOrder
<1>1. DirectInv => DeliveredInOrder
  <2>1. SUFFICES ASSUME DirectInv
                 PROVE  DeliveredInOrder
    OBVIOUS
  <2>2. ASSUME NEW r \in Sockets, NEW s \in Sockets, NEW i \in DOMAIN got[r],
               NEW j \in DOMAIN got[r], i < j,
               NEW a \in At(got[r][i], sent[s]), NEW b \in At(got[r][j], sent[s])
        PROVE  a < b
    <3>1. DOMAIN got[r] = 1..Len(got[r])
      BY <2>1, DirectTypes DEF DirectInv
    <3>2. Before(sent, got[r][i], got[r][j])
      BY <2>1, <2>2, <3>1 DEF DirectInv, LineInv, InLine
    <3>3. QED
      BY <2>2, <3>2 DEF Before
  <2>3. ASSUME proto # "bus0", NEW r \in Sockets, NEW s \in Sockets, r # s
        PROVE  ToSet(got[r]) \cap ToSet(got[s]) = {}
    BY <2>1, <2>3 DEF DirectInv, LineInv, Line, Members
  <2>4. QED
    BY <2>2, <2>3 DEF DeliveredInOrder
<1>2. QED
  BY DirectInvariance, <1>1, PTL

(***************************************************************************)
(* A message that NNG handed to receive or pull is not lost when the       *)
(* future is dropped.                                                      *)
(***************************************************************************)
THEOREM WorkKept == DirectSpec => []NoWorkLost
<1>1. DirectInv => NoWorkLost
  BY DEF DirectInv
<1>2. QED
  BY DirectInvariance, <1>1, PTL

-----------------------------------------------------------------------------
(* The invariant of PubSub.                                                *)

Rising(q) == \A i, j \in 1..Len(q) : i < j => q[i] < q[j]

Less(A, B) == \A a \in A, b \in B : a < b

\* A message a receive has got and the application has not.
Held == {aio, rec} \ {None}

\* The number of the first message that NNG has not been given.
Upcoming == IF ppc = "sending" THEN Len(log) ELSE Len(log) + 1

\* A receive is pending as long as its nng_aio has a message, and is started
\* only without a recovered message.
ReceiveInv ==
  /\ spc = "recv" => rec = None
  /\ aio # None => spc = "recv"
  /\ ppc = "sending" => log # <<>>

(***************************************************************************)
(* From what the application got to what is on the network, numbers rise.  *)
(***************************************************************************)
RisingInv ==
  /\ Rising(seen) /\ Rising(queue) /\ Rising(net)
  /\ Less(ToSet(seen), Held \cup ToSet(queue) \cup ToSet(net))
  /\ Less(Held, ToSet(queue) \cup ToSet(net))
  /\ Less(ToSet(queue), ToSet(net))
  /\ Less(ToSet(seen) \cup Held \cup ToSet(queue) \cup ToSet(net), {Upcoming})

PubSubInv == PubSubTypeOK /\ ReceiveInv /\ RisingInv

\* A queue of numbers that grows or shrinks.
LEMMA RisingAppend ==
  \A q \in Seq(Ids) : \A n \in Ids :
    /\ Append(q, n) \in Seq(Ids) /\ Len(Append(q, n)) = Len(q) + 1
    /\ ToSet(Append(q, n)) = ToSet(q) \cup {n}
    /\ Rising(q) /\ Less(ToSet(q), {n}) => Rising(Append(q, n))
<1> SUFFICES ASSUME NEW q \in Seq(Ids), NEW n \in Ids
             PROVE  /\ Append(q, n) \in Seq(Ids)
                    /\ Len(Append(q, n)) = Len(q) + 1
                    /\ ToSet(Append(q, n)) = ToSet(q) \cup {n}
                    /\ Rising(q) /\ Less(ToSet(q), {n}) => Rising(Append(q, n))
  OBVIOUS
<1>1. ToSet(Append(q, n)) = ToSet(q) \cup {n}
  BY ToSetAppend
<1>2. /\ Append(q, n) \in Seq(Ids) /\ Len(Append(q, n)) = Len(q) + 1
      /\ Len(q) \in Nat /\ DOMAIN q = 1..Len(q)
      /\ \A i \in 1..Len(q) : Append(q, n)[i] = q[i]
      /\ Append(q, n)[Len(q) + 1] = n
  OBVIOUS
<1>3. ASSUME Rising(q), Less(ToSet(q), {n})
      PROVE  Rising(Append(q, n))
  <2>1. \A i \in 1..Len(q) : q[i] < n
    BY <1>2, <1>3 DEF Less, ToSet
  <2>2. QED
    BY <1>2, <1>3, <2>1 DEF Rising
<1>4. QED
  BY <1>1, <1>2, <1>3

\* A rising queue keeps rising when its head is taken out.
LEMMA RisingTail ==
  \A q \in Seq(Ids) : q # <<>> =>
    /\ Tail(q) \in Seq(Ids) /\ Head(q) \in Ids
    /\ Len(q) \in Nat /\ Len(Tail(q)) = Len(q) - 1
    /\ ToSet(q) = ToSet(Tail(q)) \cup {Head(q)}
    /\ Rising(q) => Rising(Tail(q)) /\ Less({Head(q)}, ToSet(Tail(q)))
<1>0. SUFFICES ASSUME NEW q \in Seq(Ids), q # <<>>
               PROVE  /\ Tail(q) \in Seq(Ids) /\ Head(q) \in Ids
                      /\ Len(q) \in Nat /\ Len(Tail(q)) = Len(q) - 1
                      /\ ToSet(q) = ToSet(Tail(q)) \cup {Head(q)}
                      /\ Rising(q) => /\ Rising(Tail(q))
                                      /\ Less({Head(q)}, ToSet(Tail(q)))
  OBVIOUS
<1>1. /\ Head(q) = q[1] /\ Tail(q) \in Seq(Ids) /\ Len(q) \in Nat \ {0}
      /\ Len(Tail(q)) = Len(q) - 1
      /\ \A i \in 1..Len(Tail(q)) : Tail(q)[i] = q[i + 1]
  BY <1>0, HeadTailProperties
<1>2. Head(q) \in Ids /\ ToSet(q) = ToSet(Tail(q)) \cup {Head(q)}
  BY <1>0, ToSetTail
<1>3. \A i \in 1..Len(Tail(q)) : i + 1 \in 1..Len(q) /\ 1 < i + 1 /\ 1 \in 1..Len(q)
  BY <1>1
<1>4. ASSUME Rising(q)
      PROVE  Rising(Tail(q)) /\ Less({Head(q)}, ToSet(Tail(q)))
  <2>1. \A i \in 1..Len(Tail(q)) : q[1] < Tail(q)[i]
    BY <1>1, <1>3, <1>4 DEF Rising
  <2>2. DOMAIN Tail(q) = 1..Len(Tail(q))
    BY <1>1, LenProperties
  <2>3. Less({Head(q)}, ToSet(Tail(q)))
    BY <1>1, <2>1, <2>2, Zenon DEF Less, ToSet
  <2>4. Rising(Tail(q))
    BY <1>1, <1>3, <1>4 DEF Rising
  <2>5. QED
    BY <2>3, <2>4
<1>5. QED
  BY <1>1, <1>2, <1>4

\* Some of n places are at most n.
LEMMA PlacesFinite ==
  \A n \in Nat : \A P \in SUBSET (1..n) :
    Cardinality(P) \in Nat /\ Cardinality(P) <= n
<1> SUFFICES ASSUME NEW n \in Nat, NEW P \in SUBSET (1..n)
             PROVE  Cardinality(P) \in Nat /\ Cardinality(P) <= n
  OBVIOUS
<1>1. IsFiniteSet(1..n) /\ Cardinality(1..n) = n
  BY FS_Interval
<1>2. IsFiniteSet(P) /\ Cardinality(P) <= n
  BY <1>1, FS_Subset, Zenon
<1>3. QED
  BY <1>2, FS_CardinalityType

\* Places of a queue taken in order make a queue of fewer of its messages.
LEMMA RisingKept ==
  ASSUME NEW q \in Seq(Ids), NEW places \in SUBSET (1..Len(q)),
         NEW kept \in [1..Cardinality(places) -> places],
         \A i, j \in DOMAIN kept : i < j => kept[i] < kept[j],
         NEW r, r = [i \in DOMAIN kept |-> q[kept[i]]]
  PROVE  /\ r \in Seq(Ids) /\ Len(r) <= Len(q)
         /\ ToSet(r) \subseteq ToSet(q)
         /\ Rising(q) => Rising(r)
<1>1. /\ Len(q) \in Nat /\ DOMAIN q = 1..Len(q)
      /\ \A i \in 1..Len(q) : q[i] \in Ids
  OBVIOUS
<1>3. Cardinality(places) \in Nat /\ Cardinality(places) <= Len(q)
  BY <1>1, PlacesFinite, Zenon
<1> DEFINE k == Cardinality(places)
<1> HIDE DEF k
<1>4. k \in Nat /\ DOMAIN kept = 1..k /\ k <= Len(q)
  BY <1>3 DEF k
<1>5. \A i \in 1..k : kept[i] \in 1..Len(q) /\ r[i] = q[kept[i]]
  BY <1>4 DEF k
<1>6. r \in [1..k -> Ids]
  BY <1>1, <1>4, <1>5
<1>7. r \in Seq(Ids) /\ Len(r) = k
  BY <1>4, <1>6
<1>8. ToSet(r) \subseteq ToSet(q)
  BY <1>1, <1>4, <1>5, <1>6 DEF ToSet
<1>9. Rising(q) => Rising(r)
  BY <1>4, <1>5, <1>7 DEF Rising
<1>10. QED
  BY <1>4, <1>7, <1>8, <1>9

\* Publications are numbers wherever they are.
LEMMA NumbersTyped ==
  PubSubInv => ToSet(seen) \cup Held \cup ToSet(queue) \cup ToSet(net) \subseteq Nat
<1> SUFFICES ASSUME PubSubInv
             PROVE  ToSet(seen) \cup Held \cup ToSet(queue) \cup ToSet(net) \subseteq Nat
  OBVIOUS
<1>1. \A q \in Seq(Ids) : ToSet(q) \subseteq Nat
  <2>1. SUFFICES ASSUME NEW q \in Seq(Ids), NEW i \in DOMAIN q
                 PROVE  q[i] \in Nat
    BY DEF ToSet
  <2>2. q[i] \in Ids
    OBVIOUS
  <2>3. QED
    BY <2>2, PubAssumption DEF Ids
<1>2. Held \subseteq Nat
  BY DEF PubSubInv, PubSubTypeOK, Held
<1>3. QED
  BY <1>1, <1>2 DEF PubSubInv, PubSubTypeOK

\* At the start nothing was published.
LEMMA PubSubInitInd == PubSubInit => PubSubInv
<1> SUFFICES ASSUME PubSubInit
             PROVE  PubSubInv
  OBVIOUS
<1>1. ToSet(<<>>) = {} /\ Rising(<<>>)
  BY DEF ToSet, Rising
<1>2. PubSubTypeOK
  BY PubAssumption DEF PubSubInit, PubSubTypeOK, None
<1>3. ReceiveInv
  BY DEF PubSubInit, ReceiveInv
<1>4. RisingInv
  BY <1>1 DEF PubSubInit, RisingInv, Held, Less
<1>5. QED
  BY <1>2, <1>3, <1>4 DEF PubSubInv

\* Where the messages of the subscriber stay as they are.
LEMMA RisingStays ==
  ASSUME RisingInv, UNCHANGED <<seen, aio, rec, queue, net>>, Upcoming' = Upcoming
  PROVE  RisingInv'
BY DEF RisingInv, Held

\* The publisher.
LEMMA PublisherStep ==
  ASSUME PubSubInv, Publisher
  PROVE  PubSubInv'
<1>1. /\ log \in Seq(Contents) /\ Len(log) \in Nat /\ Len(log) <= MaxPub
      /\ MaxPub \in Nat /\ net \in Seq(Ids)
  BY PubAssumption DEF PubSubInv, PubSubTypeOK
<1>2. CASE \E b \in Contents : Publish(b)
  <2>1. PICK b \in Contents : Publish(b)
    BY <1>2
  <2>2. /\ log' \in Seq(Contents) /\ Len(log') = Len(log) + 1 /\ log' # <<>>
    BY <1>1, <2>1 DEF Publish
  <2>3. Upcoming' = Upcoming
    BY <2>1, <2>2 DEF Publish, Upcoming
  <2>4. PubSubTypeOK'
    BY <1>1, <2>1, <2>2 DEF PubSubInv, PubSubTypeOK, Publish, ctxVars
  <2>5. ReceiveInv'
    BY <2>1, <2>2 DEF PubSubInv, ReceiveInv, Publish
  <2>6. RisingInv'
    BY <2>1, <2>3, RisingStays DEF PubSubInv, Publish
  <2>7. QED
    BY <2>4, <2>5, <2>6 DEF PubSubInv
<1>3. CASE PublishEnds
  <2>1. /\ ppc = "sending" /\ ppc' = "idle"
        /\ UNCHANGED <<log, ctxVars, queue, spc, aio, rec, seen>>
        /\ net' = Append(net, Len(log)) \/ net' = net
    BY <1>3 DEF PublishEnds
  <2>2. Len(log) \in Ids
    BY <1>1, <2>1 DEF PubSubInv, ReceiveInv, Ids
  <2>3. /\ Upcoming = Len(log) /\ Upcoming' = Len(log) + 1
    BY <2>1 DEF Upcoming
  <2> DEFINE top == Len(log)
             old == ToSet(seen) \cup Held \cup ToSet(queue) \cup ToSet(net)
             new == (ToSet(seen) \cup Held \cup ToSet(queue) \cup ToSet(net))'
  <2>4. Less(ToSet(net), {top})
    BY <2>3 DEF PubSubInv, RisingInv, Less
  <2>5. net' \in Seq(Ids) /\ Rising(net') /\ ToSet(net') \subseteq ToSet(net) \cup {top}
    <3>1. Rising(net)
      BY DEF PubSubInv, RisingInv
    <3>2. QED
      BY <1>1, <2>1, <2>2, <2>4, <3>1, RisingAppend, Zenon
  <2>6. Held' = Held /\ ToSet(seen)' = ToSet(seen) /\ ToSet(queue)' = ToSet(queue)
    BY <2>1 DEF Held
  <2>7. PubSubTypeOK'
    BY <2>1, <2>5 DEF PubSubInv, PubSubTypeOK, ctxVars
  <2>8. ReceiveInv'
    BY <2>1 DEF PubSubInv, ReceiveInv
  <2>9. RisingInv'
    <3>1. /\ Rising(seen)' /\ Rising(queue)' /\ Rising(net)'
      BY <2>1, <2>5 DEF PubSubInv, RisingInv
    <3>2. Less(ToSet(seen)', (Held \cup ToSet(queue) \cup ToSet(net))')
      BY <2>3, <2>5, <2>6 DEF PubSubInv, RisingInv, Less
    <3>3. Less(Held', (ToSet(queue) \cup ToSet(net))')
      BY <2>3, <2>5, <2>6 DEF PubSubInv, RisingInv, Less
    <3>4. Less(ToSet(queue)', ToSet(net)')
      BY <2>3, <2>5, <2>6 DEF PubSubInv, RisingInv, Less
    <3>5. \A n \in old : n \in Nat /\ n < top
      <4>1. old \subseteq Nat
        BY NumbersTyped
      <4>2. QED
        BY <2>3, <4>1 DEF PubSubInv, RisingInv, Less
    <3>6. new \subseteq old \cup {top}
      BY <2>5, <2>6
    <3>7. Less(new, {top + 1})
      BY <1>1, <3>5, <3>6 DEF Less
    <3>8. QED
      BY <2>3, <3>1, <3>2, <3>3, <3>4, <3>7 DEF RisingInv
  <2>10. QED
    BY <2>7, <2>8, <2>9 DEF PubSubInv
<1>4. QED
  BY <1>2, <1>3 DEF Publisher

(***************************************************************************)
(* A message reaches the queue or is dropped.                              *)
(***************************************************************************)
LEMMA ArriveStep ==
  ASSUME PubSubInv, Arrive
  PROVE  PubSubInv'
<1> DEFINE n == Head(net)
<1>1. /\ net # <<>> /\ net' = Tail(net)
      /\ UNCHANGED <<pubVars, ctxVars, spc, aio, rec, seen>>
      /\ \/ queue' = queue
         \/ queue' = Append(queue, n) /\ Len(queue) < Capacity
         \/ queue' = Append(Tail(queue), n) /\ ~(Len(queue) < Capacity)
  BY DEF Arrive, Enqueue
<1>2. /\ net \in Seq(Ids) /\ queue \in Seq(Ids) /\ Len(queue) <= Capacity
      /\ Capacity \in Nat \ {0} /\ Len(queue) \in Nat
      /\ Rising(net) /\ Rising(queue)
      /\ Less(ToSet(queue), ToSet(net))
  BY PubAssumption DEF PubSubInv, PubSubTypeOK, RisingInv
<1>3. /\ net' \in Seq(Ids) /\ n \in Ids /\ Rising(net')
      /\ ToSet(net) = ToSet(net') \cup {n} /\ Less({n}, ToSet(net'))
  BY <1>1, <1>2, RisingTail, Zenon
<1> HIDE DEF n
<1>4. Less(ToSet(queue), {n})
  BY <1>2, <1>3 DEF Less
<1>5. /\ queue' \in Seq(Ids) /\ Len(queue') <= Capacity /\ Rising(queue')
      /\ ToSet(queue') \subseteq ToSet(queue) \cup {n}
  <2>1. CASE queue' = queue
    BY <1>2, <2>1
  <2>2. CASE queue' = Append(queue, n) /\ Len(queue) < Capacity
    <3>1. /\ queue' \in Seq(Ids) /\ Rising(queue') /\ Len(queue') = Len(queue) + 1
          /\ ToSet(queue') = ToSet(queue) \cup {n}
      BY <1>2, <1>3, <1>4, <2>2, RisingAppend, Zenon
    <3>2. QED
      BY <1>2, <2>2, <3>1
  <2>3. CASE queue' = Append(Tail(queue), n) /\ ~(Len(queue) < Capacity)
    <3> DEFINE q == Tail(queue)
    <3>1. queue # <<>>
      BY <1>2, <2>3
    <3>2. /\ q \in Seq(Ids) /\ Len(q) = Len(queue) - 1 /\ Rising(q)
          /\ ToSet(q) \subseteq ToSet(queue)
      BY <1>2, <3>1, RisingTail, Zenon
    <3> HIDE DEF q
    <3>3. Less(ToSet(q), {n})
      BY <1>4, <3>2 DEF Less
    <3>4. /\ queue' \in Seq(Ids) /\ Rising(queue') /\ Len(queue') = Len(q) + 1
          /\ ToSet(queue') = ToSet(q) \cup {n}
      BY <1>3, <2>3, <3>2, <3>3, RisingAppend, Zenon DEF q
    <3>5. QED
      BY <1>2, <3>2, <3>4
  <2>4. QED
    BY <1>1, <2>1, <2>2, <2>3
<1>6. /\ Held' = Held /\ ToSet(seen)' = ToSet(seen) /\ Upcoming' = Upcoming
  BY <1>1 DEF Held, Upcoming, pubVars
<1>7. PubSubTypeOK' /\ ReceiveInv'
  BY <1>1, <1>3, <1>5
     DEF PubSubInv, PubSubTypeOK, ReceiveInv, pubVars, ctxVars
<1>8. RisingInv'
  <2>1. /\ Less(ToSet(seen), Held \cup ToSet(queue) \cup ToSet(net))
        /\ Less(Held, ToSet(queue) \cup ToSet(net))
        /\ Less(ToSet(seen) \cup Held \cup ToSet(queue) \cup ToSet(net), {Upcoming})
        /\ Rising(seen)
    BY DEF PubSubInv, RisingInv
  <2>2. ToSet(queue') \cup ToSet(net') \subseteq ToSet(queue) \cup ToSet(net)
    BY <1>3, <1>5
  <2>3. /\ Less(ToSet(seen)', (Held \cup ToSet(queue) \cup ToSet(net))')
        /\ Less(Held', (ToSet(queue) \cup ToSet(net))')
    BY <1>6, <2>1, <2>2 DEF Less
  <2>4. Less(ToSet(queue)', ToSet(net)')
    BY <1>2, <1>3, <1>5 DEF Less
  <2>5. Less((ToSet(seen) \cup Held \cup ToSet(queue) \cup ToSet(net))', {Upcoming}')
    BY <1>6, <2>1, <2>2 DEF Less
  <2>6. Rising(seen)' /\ Rising(queue)' /\ Rising(net)'
    BY <1>1, <1>3, <1>5, <2>1
  <2>7. QED
    BY <2>3, <2>4, <2>5, <2>6 DEF RisingInv
<1>9. QED
  BY <1>7, <1>8 DEF PubSubInv

(***************************************************************************)
(* The oldest message of the queue is taken, by a receive or by try_next:  *)
(* what is held and what was got before are smaller.                       *)
(***************************************************************************)
LEMMA DequeueStep ==
  ASSUME PubSubInv, NngRecv \/ TryNext
  PROVE  PubSubInv'
<1> DEFINE n == Head(queue)
<1>1. /\ queue # <<>> /\ queue' = Tail(queue)
      /\ UNCHANGED <<pubVars, net, ctxVars, spc, rec>>
  BY DEF NngRecv, TryNext
<1>2. /\ queue \in Seq(Ids) /\ Len(queue) <= Capacity
      /\ Capacity \in Nat \ {0} /\ seen \in Seq(Ids)
      /\ Rising(seen) /\ Rising(queue) /\ Rising(net)
      /\ Less(ToSet(seen), ToSet(queue) \cup ToSet(net))
      /\ Less(ToSet(queue), ToSet(net))
      /\ Less(ToSet(seen) \cup ToSet(queue) \cup ToSet(net), {Upcoming})
  BY PubAssumption DEF PubSubInv, PubSubTypeOK, RisingInv, Less
<1>3. /\ queue' \in Seq(Ids) /\ n \in Ids /\ Rising(queue')
      /\ Len(queue) \in Nat /\ Len(queue') = Len(queue) - 1
      /\ ToSet(queue) = ToSet(queue') \cup {n} /\ Less({n}, ToSet(queue'))
  BY <1>1, <1>2, RisingTail, Zenon
<1>4. Len(queue') <= Capacity
  BY <1>2, <1>3
<1>5. Less(ToSet(seen), {n}) /\ n # None
  BY <1>2, <1>3 DEF Less, Ids, None
<1>6. Held = {}
  BY DEF NngRecv, TryNext, PubSubInv, ReceiveInv, Held
<1>7. Upcoming' = Upcoming
  BY <1>1 DEF Upcoming, pubVars
<1>8. CASE NngRecv
  <2>1. aio' = n /\ seen' = seen /\ spc = "recv" /\ rec = None
    BY <1>8 DEF NngRecv, PubSubInv, ReceiveInv
  <2> HIDE DEF n
  <2>2. Held' = {n}
    BY <1>1, <1>5, <2>1 DEF Held
  <2>3. PubSubTypeOK' /\ ReceiveInv'
    BY <1>1, <1>3, <1>4, <2>1
       DEF PubSubInv, PubSubTypeOK, ReceiveInv, pubVars, ctxVars, Ids
  <2>4. RisingInv'
    BY <1>1, <1>2, <1>3, <1>5, <1>7, <2>1, <2>2 DEF RisingInv, Less
  <2>5. QED
    BY <2>3, <2>4 DEF PubSubInv
<1>9. CASE TryNext
  <2>1. seen' = Append(seen, n) /\ aio' = aio
    BY <1>9 DEF TryNext
  <2> HIDE DEF n
  <2>2. /\ seen' \in Seq(Ids) /\ Rising(seen') /\ ToSet(seen') = ToSet(seen) \cup {n}
    BY <1>2, <1>3, <1>5, <2>1, RisingAppend, Zenon
  <2>3. Held' = {}
    BY <1>1, <1>6, <2>1 DEF Held
  <2>4. PubSubTypeOK' /\ ReceiveInv'
    BY <1>1, <1>3, <1>4, <2>1, <2>2
       DEF PubSubInv, PubSubTypeOK, ReceiveInv, pubVars, ctxVars
  <2>5. RisingInv'
    BY <1>1, <1>2, <1>3, <1>5, <1>7, <2>2, <2>3 DEF RisingInv, Less
  <2>6. QED
    BY <2>4, <2>5 DEF PubSubInv
<1>10. QED
  BY <1>8, <1>9

(***************************************************************************)
(* The application gets the message that was held.                         *)
(***************************************************************************)
LEMMA ReturnStep ==
  ASSUME PubSubInv, NextRecovered \/ NextOk
  PROVE  PubSubInv'
<1>1. PICK n \in Ids : /\ seen' = Append(seen, n) /\ Held = {n}
                       /\ rec' = None /\ aio' = None
  <2>1. CASE NextRecovered
    <3>1. /\ rec \in Ids /\ Held = {rec} /\ aio = None
      BY <2>1
      DEF NextRecovered, PubSubInv, PubSubTypeOK, ReceiveInv, Held, Ids, None
    <3>2. QED
      BY <2>1, <3>1 DEF NextRecovered
  <2>2. CASE NextOk
    <3>1. /\ aio \in Ids /\ Held = {aio} /\ rec = None
      BY <2>2 DEF NextOk, PubSubInv, PubSubTypeOK, ReceiveInv, Held, Ids, None
    <3>2. QED
      BY <2>2, <3>1 DEF NextOk
  <2>3. QED
    BY <2>1, <2>2
<1>2. /\ UNCHANGED <<pubVars, net, ctxVars, queue>> /\ spc' = "idle"
  BY DEF NextRecovered, NextOk
<1>3. /\ seen \in Seq(Ids) /\ Rising(seen) /\ Less(ToSet(seen), {n})
  BY <1>1 DEF PubSubInv, PubSubTypeOK, RisingInv, Less
<1>4. /\ seen' \in Seq(Ids) /\ Rising(seen') /\ ToSet(seen') = ToSet(seen) \cup {n}
  BY <1>1, <1>3, RisingAppend, Zenon
<1>5. Held' = {} /\ Upcoming' = Upcoming
  BY <1>1, <1>2 DEF Held, Upcoming, pubVars
<1>6. PubSubTypeOK' /\ ReceiveInv'
  BY <1>1, <1>2, <1>4, PubAssumption
     DEF PubSubInv, PubSubTypeOK, ReceiveInv, pubVars, ctxVars, None
<1>7. RisingInv'
  BY <1>1, <1>2, <1>4, <1>5 DEF PubSubInv, RisingInv, Less
<1>8. QED
  BY <1>6, <1>7 DEF PubSubInv

\* The messages only match fewer topics, or none moves.
LEMMA UnsubscribeStep ==
  ASSUME PubSubInv, NEW t, UnsubscribeFrom(t)
  PROVE  PubSubInv'
<1> DEFINE places == {i \in DOMAIN queue : Matches(queue[i], subs \ {t})}
<1>1. PICK kept \in [1..Cardinality(places) -> places] :
        /\ \A i, j \in DOMAIN kept : i < j => kept[i] < kept[j]
        /\ queue' = [i \in DOMAIN kept |-> queue[kept[i]]]
  BY DEF UnsubscribeFrom, KeepMatching
<1>2. /\ queue \in Seq(Ids) /\ Len(queue) <= Capacity /\ Capacity \in Nat
      /\ Len(queue) \in Nat /\ Rising(queue)
  BY PubAssumption DEF PubSubInv, PubSubTypeOK, RisingInv
<1>3. places \in SUBSET (1..Len(queue))
  BY <1>2
<1> HIDE DEF places
<1>4. /\ queue' \in Seq(Ids) /\ Len(queue') <= Len(queue)
      /\ ToSet(queue') \subseteq ToSet(queue) /\ Rising(queue')
  BY <1>1, <1>2, <1>3, RisingKept
<1>5. /\ subs' \subseteq subs
      /\ UNCHANGED <<pubVars, net, preferNew, spc, aio, rec, seen>>
  BY DEF UnsubscribeFrom
<1>6. Held' = Held /\ Upcoming' = Upcoming
  BY <1>5 DEF Held, Upcoming, pubVars
<1>7. Len(queue') <= Capacity
  BY <1>2, <1>4
<1>8. PubSubTypeOK' /\ ReceiveInv'
  BY <1>4, <1>5, <1>7 DEF PubSubInv, PubSubTypeOK, ReceiveInv, pubVars
<1>9. RisingInv'
  BY <1>4, <1>5, <1>6 DEF PubSubInv, RisingInv, Less
<1>10. QED
  BY <1>8, <1>9 DEF PubSubInv

\* Every step preserves the invariant.
LEMMA PubSubStepInd ==
  PubSubInv /\ [PubSubNext]_pubSubVars => PubSubInv'
<1> SUFFICES ASSUME PubSubInv, [PubSubNext]_pubSubVars
             PROVE  PubSubInv'
  OBVIOUS
<1>1. CASE UNCHANGED pubSubVars
  <2>1. Upcoming' = Upcoming
    BY <1>1 DEF pubSubVars, pubVars, Upcoming
  <2>2. QED
    BY <1>1, <2>1, RisingStays
       DEF PubSubInv, PubSubTypeOK, ReceiveInv, pubSubVars, pubVars, ctxVars
<1>2. CASE Publisher
  BY <1>2, PublisherStep
<1>3. CASE Nng
  BY <1>3, ArriveStep, DequeueStep DEF Nng
<1>4. CASE Subscriber
  <2>1. ASSUME NEW t \in Topics \cup {<<>>}, SubscribeTo(t)
        PROVE  PubSubInv'
    <3>1. subs' \subseteq Topics \cup {<<>>}
      BY <2>1 DEF SubscribeTo, PubSubInv, PubSubTypeOK
    <3>2. Upcoming' = Upcoming
      BY <2>1 DEF SubscribeTo, pubVars, Upcoming
    <3>3. QED
      BY <2>1, <3>1, <3>2, RisingStays
         DEF SubscribeTo, PubSubInv, PubSubTypeOK, ReceiveInv, pubVars
  <2>2. ASSUME NEW prefer \in BOOLEAN, PreferNew(prefer)
        PROVE  PubSubInv'
    <3>1. Upcoming' = Upcoming
      BY <2>2 DEF PreferNew, pubVars, Upcoming
    <3>2. QED
      BY <2>2, <3>1, RisingStays
         DEF PreferNew, PubSubInv, PubSubTypeOK, ReceiveInv, pubVars
  <2>3. CASE StartNext
    <3>1. Upcoming' = Upcoming
      BY <2>3 DEF StartNext, pubVars, Upcoming
    <3>2. QED
      BY <2>3, <3>1, RisingStays
         DEF StartNext, PubSubInv, PubSubTypeOK, ReceiveInv, pubVars, ctxVars
  <2>4. CASE NextFails
    <3>1. Upcoming' = Upcoming /\ Held' = Held
      BY <2>4
      DEF NextFails, KeepMessage, pubVars, Upcoming, Held, PubSubInv, ReceiveInv
    <3>2. PubSubTypeOK' /\ ReceiveInv'
      BY <2>4, PubAssumption
         DEF NextFails, KeepMessage, PubSubInv, PubSubTypeOK, ReceiveInv,
             pubVars,
             ctxVars, None
    <3>3. RisingInv'
      BY <2>4, <3>1 DEF NextFails, PubSubInv, RisingInv
    <3>4. QED
      BY <3>2, <3>3 DEF PubSubInv
  <2>5. QED
    BY <1>4, <2>1, <2>2, <2>3, <2>4, UnsubscribeStep, DequeueStep, ReturnStep
       DEF Subscriber, DisableFiltering
<1>5. QED
  BY <1>1, <1>2, <1>3, <1>4 DEF PubSubNext

-----------------------------------------------------------------------------
(***************************************************************************)
(* The inductive invariant of PubSub holds in every reachable state.       *)
(***************************************************************************)
THEOREM PubSubInvariance == PubSubSpec => []PubSubInv
<1>1. QED
  BY PubSubInitInd, PubSubStepInd, PTL DEF PubSubSpec

(***************************************************************************)
(* Type correctness of PubSub; the queue never grows past its capacity.    *)
(***************************************************************************)
THEOREM PubSubTypeCorrect == PubSubSpec => []PubSubTypeOK
<1>1. PubSubInv => PubSubTypeOK
  BY DEF PubSubInv
<1>2. QED
  BY PubSubInvariance, <1>1, PTL

(***************************************************************************)
(* next and try_next return the messages of a publisher in order and none  *)
(* twice, whatever the queue drops, the filter takes and the application   *)
(* cancels.                                                                *)
(***************************************************************************)
THEOREM SubscriptionOrdered == PubSubSpec => []ArrivalOrder
<1>1. PubSubInv => ArrivalOrder
  <2>1. SUFFICES ASSUME PubSubInv
                 PROVE  ArrivalOrder
    OBVIOUS
  <2>2. DOMAIN seen = 1..Len(seen) /\ Rising(seen)
    BY <2>1 DEF PubSubInv, PubSubTypeOK, RisingInv
  <2>3. QED
    BY <2>2 DEF ArrivalOrder, Rising
<1>2. QED
  BY PubSubInvariance, <1>1, PTL
=============================================================================
