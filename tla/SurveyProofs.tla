---------------------------- MODULE SurveyProofs ----------------------------
(***************************************************************************)
(* Theorems about the survey protocol, for any respondents and any number  *)
(* of surveys.  A response begins as the survey sent to its respondent and *)
(* is then in one place at a time: with the respondent, on the network, in *)
(* NNG's queue, in the nng_aio or recovered_msg of the surveyor, returned. *)
(* Every step takes it to the next place or drops it.  And once a survey   *)
(* was said to be over, none of the places a surveyor reads from has       *)
(* anything, until the next one is sent.                                   *)
(***************************************************************************)
EXTENDS Survey, TLAPS

\* The survey a respondent has received and not answered.
Current(r) ==
  CASE rpc[r] = "recv" -> raio[r]
    [] rpc[r] = "idle" -> rrec[r]
    [] rpc[r] \in {"responder", "responding"} -> holds[r]
    [] OTHER -> None

\* The places of a response.
InHand   == {x \in Responses : Current(x[2]) = x[1]}
Answered == {a[2] : a \in answers}
Kept     == aio \cup rec
ReadIn(q) == {q[i][2] : i \in 1..Len(q)}

\* Six places with nothing in common.
Apart(A, B, C, D, E, F) ==
  /\ A \cap (B \cup C \cup D \cup E \cup F) = {}
  /\ B \cap (C \cup D \cup E \cup F) = {}
  /\ C \cap (D \cup E \cup F) = {}
  /\ D \cap (E \cup F) = {}
  /\ E \cap F = {}

\* Responses of surveys that NNG was given.
Sent(A) == \A x \in A : x[1] <= issued /\ (pc = "sending" => x[1] # issued)

Once(q) == \A i, j \in 1..Len(q) : q[i][2] = q[j][2] => i = j

\* The variables of a call have something only while it is pending.
CallInv ==
  /\ pc # "recv" => aio = {} /\ ~over
  /\ pc = "recv" => rec = {}
  /\ \A x, y \in Kept : x = y
  /\ \A r \in Respondents :
       /\ rpc[r] # "recv" => raio[r] = None
       /\ rpc[r] # "idle" => rrec[r] = None
       /\ rpc[r] \in {"responder", "responding"} => holds[r] # None

(***************************************************************************)
(* A response is in one place.                                             *)
(***************************************************************************)
PlaceInv ==
  /\ Apart(surveys, InHand, Answered, queue, Kept, ReadIn(seen))
  /\ \A a, b \in answers : a[2] = b[2] => a = b
  /\ Once(seen)
  /\ Sent(surveys \cup InHand \cup Answered \cup queue \cup Kept \cup ReadIn(seen))

(***************************************************************************)
(* NNG collects for the survey sent last, or for none, and SurveyResponses *)
(* is the one of that survey.  When it has said that the survey is over    *)
(* there is nothing left to return.                                        *)
(***************************************************************************)
EndInv ==
  /\ active \in {None, issued}
  /\ active = None => queue = {}
  /\ pc \in {"stream", "recv"} => asked = issued
  /\ pc # "idle" => issued # 0
  /\ over => active = None /\ aio = {}
  /\ ended \subseteq 1..issued
  /\ issued \in ended => /\ active = None /\ rec = {} /\ aio = {}
                         /\ pc \notin {"sending", "sent"}

IndInv == TypeOK /\ CallInv /\ PlaceInv /\ EndInv

-----------------------------------------------------------------------------
\* The variables of the type invariant, one by one.
LEMMA Types ==
  ASSUME TypeOK
  PROVE  /\ raio \in [Respondents -> 0..MaxSurvey]
         /\ rrec \in [Respondents -> 0..MaxSurvey]
         /\ holds \in [Respondents -> 0..MaxSurvey]
         /\ peer \in [Respondents -> 0..MaxSurvey]
         /\ rpc \in [Respondents -> {"idle", "recv", "responder", "responding",
                                     "responded"}]
         /\ seen \in Seq(Ids \X Responses)
         /\ issued \in Nat /\ issued <= MaxSurvey /\ MaxSurvey \in Nat
BY SurveyAssumption DEF TypeOK

\* What was returned, after one more response.
LEMMA ReadAppend ==
  \A q \in Seq(Ids \X Responses) : \A e \in Ids \X Responses :
    /\ Append(q, e) \in Seq(Ids \X Responses)
    /\ ReadIn(Append(q, e)) = ReadIn(q) \cup {e[2]}
    /\ Once(q) /\ e[2] \notin ReadIn(q) => Once(Append(q, e))
<1>0. SUFFICES ASSUME NEW q \in Seq(Ids \X Responses), NEW e \in Ids \X Responses
               PROVE  /\ Append(q, e) \in Seq(Ids \X Responses)
                      /\ ReadIn(Append(q, e)) = ReadIn(q) \cup {e[2]}
                      /\ Once(q) /\ e[2] \notin ReadIn(q) => Once(Append(q, e))
  OBVIOUS
<1> DEFINE s == Append(q, e)
           n == Len(q)
<1>1. /\ s \in Seq(Ids \X Responses) /\ Len(s) = n + 1 /\ n \in Nat
      /\ \A i \in 1..n : s[i] = q[i]
      /\ s[n + 1] = e
  OBVIOUS
<1> HIDE DEF s, n
<1>2. 1..(n + 1) = (1..n) \cup {n + 1}
  BY <1>1
<1>3. ReadIn(s) = ReadIn(q) \cup {e[2]}
  <2>1. ReadIn(s) = {s[i][2] : i \in (1..n) \cup {n + 1}}
    BY <1>1, <1>2 DEF ReadIn
  <2>2. ReadIn(q) = {s[i][2] : i \in 1..n}
    BY <1>1 DEF ReadIn, n
  <2>3. QED
    BY <1>1, <2>1, <2>2
<1>4. ASSUME Once(q), e[2] \notin ReadIn(q)
      PROVE  Once(s)
  <2>1. \A i \in 1..n : q[i][2] # e[2]
    BY <1>4, Zenon DEF ReadIn, n
  <2>2. \A i, j \in 1..n : q[i][2] = q[j][2] => i = j
    BY <1>4 DEF Once, n
  <2>3. SUFFICES ASSUME NEW i \in (1..n) \cup {n + 1}, NEW j \in (1..n) \cup {n + 1},
                        s[i][2] = s[j][2]
                 PROVE  i = j
    BY <1>1, <1>2, Zenon DEF Once
  <2>4. CASE i \in 1..n /\ j \in 1..n
    BY <1>1, <2>2, <2>3, <2>4
  <2>5. CASE i \in 1..n /\ j = n + 1
    BY <1>1, <2>1, <2>3, <2>5
  <2>6. CASE i = n + 1 /\ j \in 1..n
    BY <1>1, <2>1, <2>3, <2>6
  <2>7. QED
    BY <2>3, <2>4, <2>5, <2>6
<1>5. QED
  BY <1>1, <1>3, <1>4 DEF s

\* At the start there is no survey.
LEMMA InitInd == Init => IndInv
<1> SUFFICES ASSUME Init
             PROVE  IndInv
  OBVIOUS
<1>1. /\ peer = [r \in Respondents |-> None] /\ raio = [r \in Respondents |-> None]
      /\ rrec = [r \in Respondents |-> None] /\ holds = [r \in Respondents |-> None]
  BY DEF Init
<1>2. TypeOK
  <2>1. [r \in Respondents |-> None] \in [Respondents -> 0..MaxSurvey]
    BY SurveyAssumption DEF None
  <2>2. \A f \in {peer, raio, rrec, holds} : f \in [Respondents -> 0..MaxSurvey]
    BY <1>1, <2>1
  <2>3. /\ active \in 0..MaxSurvey /\ asked \in 0..MaxSurvey
        /\ issued \in 0..MaxSurvey
    BY SurveyAssumption DEF Init, None
  <2>4. /\ seen \in Seq(Ids \X Responses)
        /\ rpc \in [Respondents -> {"idle", "recv", "responder", "responding",
                                    "responded"}]
    BY DEF Init
  <2>5. pc \in {"idle", "sending", "sent", "stream", "recv"} /\ over \in BOOLEAN
    BY Zenon DEF Init
  <2>6. /\ queue \subseteq Responses /\ aio \subseteq Responses
        /\ rec \subseteq Responses /\ ended \subseteq Ids
        /\ surveys \subseteq Responses /\ answers \subseteq Ids \X Responses
    BY DEF Init
  <2>7. QED
    BY <2>2, <2>3, <2>4, <2>5, <2>6 DEF TypeOK
<1>3. InHand = {}
  BY <1>1, SurveyAssumption DEF Init, InHand, Current, Responses, Ids, None
<1>4. Answered = {} /\ ReadIn(seen) = {} /\ Kept = {}
  BY DEF Init, Answered, ReadIn, Kept
<1>5. CallInv
  BY <1>1, <1>4 DEF Init, CallInv
<1>6. PlaceInv
  BY <1>3, <1>4 DEF Init, PlaceInv, Apart, Sent, Once
<1>7. EndInv
  BY DEF Init, EndInv, None
<1>8. QED
  BY <1>2, <1>5, <1>6, <1>7 DEF IndInv

(***************************************************************************)
(* The surveyor.                                                           *)
(***************************************************************************)

\* Wherever a survey or response is, it names a survey and a respondent.
LEMMA Places ==
  ASSUME IndInv
  PROVE  \A x \in surveys \cup InHand \cup Answered \cup queue \cup Kept \cup ReadIn(seen) :
           x \in Responses /\ x[1] \in Nat
<1>1. /\ surveys \subseteq Responses /\ InHand \subseteq Responses
      /\ queue \subseteq Responses /\ Kept \subseteq Responses
  BY DEF IndInv, TypeOK, InHand, Kept
<1>2. Answered \subseteq Responses
  BY DEF IndInv, TypeOK, Answered
<1>3. ReadIn(seen) \subseteq Responses
  <2>1. \A i \in 1..Len(seen) : seen[i] \in Ids \X Responses
    BY Types DEF IndInv
  <2>2. QED
    BY <2>1 DEF ReadIn
<1>4. \A x \in Responses : x[1] \in Nat
  BY DEF Responses, Ids
<1>5. QED
  BY <1>1, <1>2, <1>3, <1>4

\* Nothing comes to a place where nothing was.
LEMMA PlacesShrink ==
  ASSUME IndInv, surveys' \subseteq surveys, InHand' \subseteq InHand,
         answers' \subseteq answers, queue' \subseteq queue, Kept' \subseteq Kept,
         seen' = seen, issued' \in Nat, issued <= issued',
         pc' = "sending" => issued' # issued \/ pc = "sending"
  PROVE  PlaceInv'
<1> DEFINE U == surveys \cup InHand \cup Answered \cup queue \cup Kept \cup ReadIn(seen)
<1>1. Answered' \subseteq Answered /\ ReadIn(seen)' = ReadIn(seen)
  BY DEF Answered
<1>2. Apart(surveys, InHand, Answered, queue, Kept, ReadIn(seen))'
  BY <1>1 DEF IndInv, PlaceInv, Apart
<1>3. \A a, b \in answers' : a[2] = b[2] => a = b
  BY DEF IndInv, PlaceInv
<1>4. Once(seen)'
  BY DEF IndInv, PlaceInv
<1>5. U' \subseteq U /\ Sent(U)
  BY <1>1 DEF IndInv, PlaceInv
<1>6. \A x \in U : x[1] \in Nat
  BY Places
<1> HIDE DEF U
<1>7. issued \in Nat
  BY Types DEF IndInv
<1>8. Sent(U)'
  BY <1>5, <1>6, <1>7 DEF Sent
<1>9. QED
  BY <1>2, <1>3, <1>4, <1>8 DEF PlaceInv, U

\* Steps that leave the respondents alone leave what they have in hand.
LEMMA HandKept ==
  ASSUME UNCHANGED <<rpc, raio, rrec, holds>>
  PROVE  InHand' = InHand
BY DEF InHand, Current

\* Steps of the surveyor that move no response keep the invariant.
LEMMA SurveyorQuiet ==
  ASSUME IndInv, SendSurvey \/ SurveyOk \/ SurveyFails \/ StartNext \/ NextEnds
                 \/ CancelNext \/ DropStream \/ Expire
  PROVE  IndInv'
<1>1. UNCHANGED <<seen, respondentVars, netVars>>
  BY DEF SendSurvey, SurveyOk, SurveyFails, StartNext, NextEnds, CancelNext,
         DropStream, Expire, outcomeVars
<1>2. issued \in Nat /\ MaxSurvey \in Nat /\ issued <= MaxSurvey
  BY Types DEF IndInv
<1>3. CASE SendSurvey
  <2>1. TypeOK'
    BY <1>1, <1>2, <1>3
       DEF IndInv, TypeOK, EndInv, SendSurvey, outcomeVars, respondentVars,
           netVars,
           Ids, None
  <2>2. CallInv'
    BY <1>1, <1>3 DEF IndInv, CallInv, Kept, SendSurvey, respondentVars
  <2>3. EndInv'
    BY <1>1, <1>2, <1>3
    DEF IndInv, TypeOK, CallInv, EndInv, SendSurvey, outcomeVars, None
  <2>4. /\ queue' \subseteq queue /\ Kept' \subseteq Kept /\ issued' \in Nat
        /\ issued <= issued' /\ (pc' = "sending" => issued' # issued \/ pc = "sending")
    BY <1>2, <1>3 DEF IndInv, CallInv, Kept, SendSurvey
  <2>5. PlaceInv'
    BY <1>1, <2>4, PlacesShrink, HandKept DEF respondentVars, netVars
  <2>6. QED
    BY <2>1, <2>2, <2>3, <2>5 DEF IndInv
<1>4. CASE SurveyOk
  <2>1. TypeOK'
    BY <1>1, <1>2, <1>4
       DEF IndInv, TypeOK, EndInv, SurveyOk, outcomeVars, respondentVars,
           netVars,
           Ids, None
  <2>2. CallInv'
    BY <1>1, <1>4 DEF IndInv, CallInv, Kept, SurveyOk, respondentVars
  <2>3. EndInv'
    BY <1>1, <1>2, <1>4
    DEF IndInv, TypeOK, CallInv, EndInv, SurveyOk, outcomeVars, None
  <2>4. /\ queue' \subseteq queue /\ Kept' \subseteq Kept /\ issued' \in Nat
        /\ issued <= issued' /\ (pc' = "sending" => issued' # issued \/ pc = "sending")
    BY <1>2, <1>4 DEF IndInv, CallInv, Kept, SurveyOk
  <2>5. PlaceInv'
    BY <1>1, <2>4, PlacesShrink, HandKept DEF respondentVars, netVars
  <2>6. QED
    BY <2>1, <2>2, <2>3, <2>5 DEF IndInv
<1>5. CASE SurveyFails
  <2>1. TypeOK'
    BY <1>1, <1>2, <1>5
       DEF IndInv, TypeOK, EndInv, SurveyFails, outcomeVars, respondentVars,
           netVars,
           Ids, None
  <2>2. CallInv'
    BY <1>1, <1>5 DEF IndInv, CallInv, Kept, SurveyFails, respondentVars
  <2>3. EndInv'
    BY <1>1, <1>2, <1>5
    DEF IndInv, TypeOK, CallInv, EndInv, SurveyFails, outcomeVars, None
  <2>4. /\ queue' \subseteq queue /\ Kept' \subseteq Kept /\ issued' \in Nat
        /\ issued <= issued' /\ (pc' = "sending" => issued' # issued \/ pc = "sending")
    BY <1>2, <1>5 DEF IndInv, CallInv, Kept, SurveyFails
  <2>5. PlaceInv'
    BY <1>1, <2>4, PlacesShrink, HandKept DEF respondentVars, netVars
  <2>6. QED
    BY <2>1, <2>2, <2>3, <2>5 DEF IndInv
<1>6. CASE StartNext
  <2>1. TypeOK'
    BY <1>1, <1>2, <1>6
       DEF IndInv, TypeOK, EndInv, StartNext, outcomeVars, respondentVars,
           netVars,
           Ids, None
  <2>2. CallInv'
    BY <1>1, <1>6 DEF IndInv, CallInv, Kept, StartNext, respondentVars
  <2>3. EndInv'
    BY <1>1, <1>2, <1>6
    DEF IndInv, TypeOK, CallInv, EndInv, StartNext, outcomeVars, None
  <2>4. /\ queue' \subseteq queue /\ Kept' \subseteq Kept /\ issued' \in Nat
        /\ issued <= issued' /\ (pc' = "sending" => issued' # issued \/ pc = "sending")
    BY <1>2, <1>6 DEF IndInv, CallInv, Kept, StartNext
  <2>5. PlaceInv'
    BY <1>1, <2>4, PlacesShrink, HandKept DEF respondentVars, netVars
  <2>6. QED
    BY <2>1, <2>2, <2>3, <2>5 DEF IndInv
<1>7. CASE NextEnds
  <2>1. TypeOK'
    <3>1. asked \in Ids
      BY <1>2, <1>7 DEF IndInv, EndInv, NextEnds, Ids
    <3>2. ended' \subseteq Ids
      BY <1>7, <3>1 DEF IndInv, TypeOK, NextEnds
    <3>3. QED
      BY <1>1, <1>7, <3>2 DEF IndInv, TypeOK, NextEnds, respondentVars, netVars
  <2>2. CallInv'
    BY <1>1, <1>7 DEF IndInv, CallInv, Kept, NextEnds, IsOver, respondentVars
  <2>3. EndInv'
    BY <1>1, <1>2, <1>7
    DEF IndInv, TypeOK, CallInv, EndInv, NextEnds, IsOver, outcomeVars, None
  <2>4. /\ queue' \subseteq queue /\ Kept' \subseteq Kept /\ issued' \in Nat
        /\ issued <= issued' /\ (pc' = "sending" => issued' # issued \/ pc = "sending")
    BY <1>2, <1>7 DEF IndInv, CallInv, Kept, NextEnds, IsOver
  <2>5. PlaceInv'
    BY <1>1, <2>4, PlacesShrink, HandKept DEF respondentVars, netVars
  <2>6. QED
    BY <2>1, <2>2, <2>3, <2>5 DEF IndInv
<1>8. CASE CancelNext
  <2>1. TypeOK'
    BY <1>1, <1>2, <1>8
       DEF IndInv, TypeOK, CancelNext, TakeResponse, outcomeVars,
           respondentVars,
           netVars
  <2>2. CallInv'
    BY <1>1, <1>8
    DEF IndInv, CallInv, Kept, CancelNext, TakeResponse, respondentVars
  <2>3. EndInv'
    BY <1>1, <1>2, <1>8
    DEF IndInv, TypeOK, CallInv, EndInv, CancelNext, TakeResponse,
        outcomeVars, None
  <2>4. /\ queue' \subseteq queue /\ Kept' \subseteq Kept /\ issued' \in Nat
        /\ issued <= issued' /\ (pc' = "sending" => issued' # issued \/ pc = "sending")
    BY <1>2, <1>8 DEF IndInv, CallInv, Kept, CancelNext, TakeResponse
  <2>5. PlaceInv'
    BY <1>1, <2>4, PlacesShrink, HandKept DEF respondentVars, netVars
  <2>6. QED
    BY <2>1, <2>2, <2>3, <2>5 DEF IndInv
<1>9. CASE DropStream
  <2>1. TypeOK'
    BY <1>1, <1>2, <1>9
       DEF IndInv, TypeOK, EndInv, DropStream, outcomeVars, respondentVars,
           netVars,
           Ids, None
  <2>2. CallInv'
    BY <1>1, <1>9 DEF IndInv, CallInv, Kept, DropStream, respondentVars
  <2>3. EndInv'
    BY <1>1, <1>2, <1>9
    DEF IndInv, TypeOK, CallInv, EndInv, DropStream, outcomeVars, None
  <2>4. /\ queue' \subseteq queue /\ Kept' \subseteq Kept /\ issued' \in Nat
        /\ issued <= issued' /\ (pc' = "sending" => issued' # issued \/ pc = "sending")
    BY <1>2, <1>9 DEF IndInv, CallInv, Kept, DropStream
  <2>5. PlaceInv'
    BY <1>1, <2>4, PlacesShrink, HandKept DEF respondentVars, netVars
  <2>6. QED
    BY <2>1, <2>2, <2>3, <2>5 DEF IndInv
<1>10. CASE Expire
  <2>1. TypeOK'
    BY <1>1, <1>2, <1>10
       DEF IndInv, TypeOK, Expire, EndReceive, outcomeVars, respondentVars,
           netVars,
           None
  <2>2. CallInv'
    BY <1>1, <1>10 DEF IndInv, CallInv, Kept, Expire, EndReceive, respondentVars
  <2>3. EndInv'
    BY <1>1, <1>2, <1>10
    DEF IndInv, TypeOK, CallInv, EndInv, Expire, EndReceive, outcomeVars, None
  <2>4. /\ queue' \subseteq queue /\ Kept' \subseteq Kept /\ issued' \in Nat
        /\ issued <= issued' /\ (pc' = "sending" => issued' # issued \/ pc = "sending")
    BY <1>2, <1>10 DEF IndInv, CallInv, Kept, Expire, EndReceive
  <2>5. PlaceInv'
    BY <1>1, <2>4, PlacesShrink, HandKept DEF respondentVars, netVars
  <2>6. QED
    BY <2>1, <2>2, <2>3, <2>5 DEF IndInv
<1>11. QED
  BY <1>3, <1>4, <1>5, <1>6, <1>7, <1>8, <1>9, <1>10

\* NNG broadcasts a survey, which nothing has answered.
LEMMA BroadcastStep ==
  ASSUME IndInv, NngSendSurvey
  PROVE  IndInv'
<1>1. /\ pc = "sending" /\ pc' = "sent" /\ active' = issued
      /\ surveys' = surveys \cup ({issued} \X Respondents)
      /\ UNCHANGED <<queue, aio, over, rec, asked, issued, seen, ended, rpc, peer,
                     raio, rrec, holds, answers>>
  BY DEF NngSendSurvey, outcomeVars, respondentVars
<1>2. /\ issued \in Nat /\ issued <= MaxSurvey /\ MaxSurvey \in Nat /\ issued # 0
  BY <1>1, Types DEF IndInv, EndInv
<1>3. {issued} \X Respondents \subseteq Responses
  BY <1>2 DEF Responses, Ids
<1>4. TypeOK'
  <2>1. surveys' \subseteq Responses /\ active' \in 0..MaxSurvey
    BY <1>1, <1>2, <1>3 DEF IndInv, TypeOK
  <2>2. QED
    BY <1>1, <2>1 DEF IndInv, TypeOK
<1>5. CallInv'
  BY <1>1 DEF IndInv, CallInv, Kept
<1>6. EndInv'
  BY <1>1, <1>2 DEF IndInv, CallInv, EndInv, None
<1>7. PlaceInv'
  <2> DEFINE V == InHand \cup Answered \cup queue \cup Kept \cup ReadIn(seen)
             N == {issued} \X Respondents
  <2>1. /\ InHand' = InHand /\ Answered' = Answered /\ Kept' = Kept
        /\ ReadIn(seen)' = ReadIn(seen) /\ queue' = queue
    BY <1>1, HandKept DEF Answered, Kept
  <2>2. N \cap V = {}
    BY <1>1 DEF IndInv, PlaceInv, Sent
  <2>3. Apart(surveys, InHand, Answered, queue, Kept, ReadIn(seen))'
    BY <1>1, <2>1, <2>2 DEF IndInv, PlaceInv, Apart
  <2>4. \A x \in surveys \cup V : x[1] <= issued
    BY DEF IndInv, PlaceInv, Sent
  <2>5. \A x \in N : x[1] <= issued
    BY <1>2
  <2>6. Sent(surveys \cup V)'
    BY <1>1, <2>1, <2>4, <2>5 DEF Sent
  <2>7. (\A a, b \in answers : a[2] = b[2] => a = b)' /\ Once(seen)'
    BY <1>1 DEF IndInv, PlaceInv
  <2>8. QED
    BY <2>3, <2>6, <2>7 DEF PlaceInv
<1>8. QED
  BY <1>4, <1>5, <1>6, <1>7 DEF IndInv

\* NNG completes a receive: a response leaves the queue.
LEMMA DeliverStep ==
  ASSUME IndInv, NngRecvResponse
  PROVE  IndInv'
<1>1. PICK x \in queue : aio' = {x} /\ queue' = queue \ {x}
  BY DEF NngRecvResponse
<1>2. /\ pc = "recv" /\ aio = {} /\ ~over /\ rec = {}
      /\ UNCHANGED <<pc, active, over, rec, asked, issued, seen, ended, rpc, peer,
                     raio, rrec, holds, surveys, answers>>
  BY DEF NngRecvResponse, IndInv, CallInv, outcomeVars, respondentVars, netVars
<1>3. TypeOK'
  <2>1. aio' \subseteq Responses /\ queue' \subseteq Responses
    BY <1>1 DEF IndInv, TypeOK
  <2>2. QED
    BY <1>2, <2>1 DEF IndInv, TypeOK
<1>4. Kept = {} /\ Kept' = {x}
  BY <1>1, <1>2 DEF Kept
<1>5. CallInv'
  BY <1>2, <1>4 DEF IndInv, CallInv
<1>6. EndInv'
  BY <1>1, <1>2 DEF IndInv, EndInv
<1>7. PlaceInv'
  <2>1. /\ InHand' = InHand /\ Answered' = Answered /\ surveys' = surveys
        /\ ReadIn(seen)' = ReadIn(seen)
    BY <1>2, HandKept DEF Answered
  <2>2. Apart(surveys, InHand, Answered, queue, Kept, ReadIn(seen))'
    BY <1>1, <1>4, <2>1 DEF IndInv, PlaceInv, Apart
  <2>3. Sent(surveys \cup InHand \cup Answered \cup queue \cup Kept \cup ReadIn(seen))'
    BY <1>1, <1>2, <1>4, <2>1 DEF IndInv, PlaceInv, Sent
  <2>4. QED
    BY <1>2, <2>2, <2>3 DEF IndInv, PlaceInv
<1>8. QED
  BY <1>3, <1>5, <1>6, <1>7 DEF IndInv

\* SurveyResponses returns a response: recovered, received, or from the queue.
LEMMA YieldStep ==
  ASSUME IndInv, NextRecovered \/ NextOk \/ TryNext
  PROVE  IndInv' /\ (seen' # seen => asked \notin ended)
<1>1. CASE TryNext /\ seen' = seen /\ queue' = queue
  <2>1. /\ active = None /\ ended' = ended \cup {asked} /\ rec = {} /\ pc = "stream"
        /\ UNCHANGED <<pc, active, queue, aio, over, rec, asked, issued, seen, rpc,
                       peer, raio, rrec, holds, surveys, answers>>
    <3>1. ~ \E x \in queue : Yield(x) /\ queue' = queue \ {x}
      BY <1>1
    <3>2. QED
      BY <1>1, <3>1 DEF TryNext, respondentVars, netVars
  <2>2. asked \in 1..issued /\ issued \in Nat /\ issued <= MaxSurvey /\ MaxSurvey \in Nat
    BY <2>1, Types DEF IndInv, EndInv
  <2>3. TypeOK'
    <3>1. ended' \subseteq Ids
      BY <2>1, <2>2 DEF IndInv, TypeOK, Ids
    <3>2. QED
      BY <2>1, <3>1 DEF IndInv, TypeOK
  <2>4. CallInv'
    BY <2>1 DEF IndInv, CallInv, Kept
  <2>5. EndInv'
    BY <2>1, <2>2 DEF IndInv, EndInv, CallInv
  <2>6. PlaceInv'
    BY <2>1, <2>2, PlacesShrink, HandKept DEF Kept
  <2>7. QED
    BY <1>1, <2>3, <2>4, <2>5, <2>6 DEF IndInv
<1>2. CASE ~(TryNext /\ seen' = seen /\ queue' = queue)
  <2>1. PICK x \in Responses :
          /\ seen' = Append(seen, <<asked, x>>)
          /\ \/ x \in Kept /\ Kept' = {} /\ queue' = queue
             \/ x \in queue /\ queue' = queue \ {x} /\ Kept = {} /\ Kept' = {}
    <3>1. CASE NextRecovered
      <4>1. PICK x \in rec : seen' = Append(seen, <<asked, x>>)
        BY <3>1 DEF NextRecovered, Yield
      <4>2. aio = {} /\ aio' = {} /\ rec' = {} /\ queue' = queue /\ x \in Responses
        BY <3>1 DEF NextRecovered, IndInv, CallInv, TypeOK
      <4>3. QED
        BY <4>1, <4>2 DEF Kept
    <3>2. CASE NextOk
      <4>1. PICK x \in aio : seen' = Append(seen, <<asked, x>>)
        BY <3>2 DEF NextOk, Yield
      <4>2. rec = {} /\ aio' = {} /\ rec' = {} /\ queue' = queue /\ x \in Responses
        BY <3>2 DEF NextOk, TakeResponse, IndInv, CallInv, TypeOK
      <4>3. QED
        BY <4>1, <4>2 DEF Kept
    <3>3. CASE TryNext
      <4>1. PICK x \in queue : seen' = Append(seen, <<asked, x>>) /\ queue' = queue \ {x}
        BY <1>2, <3>3 DEF TryNext, Yield
      <4>2. rec = {} /\ aio = {} /\ rec' = {} /\ aio' = {} /\ x \in Responses
        BY <3>3 DEF TryNext, IndInv, CallInv, TypeOK
      <4>3. QED
        BY <4>1, <4>2 DEF Kept
    <3>4. QED
      BY <3>1, <3>2, <3>3
  <2>2. /\ pc \in {"stream", "recv"} /\ pc' = "stream" /\ ended' = ended
        /\ UNCHANGED <<active, over, asked, issued, rpc, peer, raio, rrec, holds,
                       surveys, answers>>
        /\ aio' = {} /\ rec' = {}
    <3>1. aio' = {} /\ rec' = {}
      BY <2>1 DEF Kept
    <3>2. CASE NextRecovered
      BY <3>1, <3>2 DEF NextRecovered, Yield, respondentVars, netVars
    <3>3. CASE NextOk
      BY <3>1, <3>3 DEF NextOk, Yield, respondentVars, netVars
    <3>4. CASE TryNext
      BY <1>2, <3>1, <3>4 DEF TryNext, Yield, respondentVars, netVars
    <3>5. QED
      BY <3>2, <3>3, <3>4
  <2>3. /\ asked = issued /\ asked \in Ids /\ issued \in Nat
    BY <2>2, Types DEF IndInv, EndInv, Ids
  <2>4. asked \notin ended
    BY <2>1, <2>2, <2>3 DEF IndInv, EndInv, Kept
  <2>5. ~over
    BY <2>1, <2>2 DEF IndInv, CallInv, EndInv, Kept
  <2> DEFINE e == <<asked, x>>
  <2>6. e \in Ids \X Responses /\ e[2] = x
    BY <2>3
  <2>7. x \notin ReadIn(seen) /\ seen \in Seq(Ids \X Responses) /\ Once(seen)
    BY <2>1, Types DEF IndInv, PlaceInv, Apart
  <2>8. /\ seen' \in Seq(Ids \X Responses) /\ Once(seen')
        /\ ReadIn(seen') = ReadIn(seen) \cup {x}
    <3>1. seen' = Append(seen, e)
      BY <2>1
    <3> HIDE DEF e
    <3>2. QED
      BY <2>6, <2>7, <3>1, ReadAppend, Zenon
  <2>9. TypeOK'
    <3>1. queue' \subseteq Responses
      BY <2>1 DEF IndInv, TypeOK
    <3>2. QED
      BY <2>2, <2>8, <3>1 DEF IndInv, TypeOK
  <2>10. CallInv'
    BY <2>2, <2>5 DEF IndInv, CallInv, Kept
  <2>11. EndInv'
    BY <2>1, <2>2, <2>3, <2>4, <2>5 DEF IndInv, EndInv
  <2>12. PlaceInv'
    <3>1. /\ InHand' = InHand /\ Answered' = Answered /\ surveys' = surveys
          /\ queue' \subseteq queue /\ Kept' = {} /\ x \notin queue'
          /\ x \notin surveys \cup InHand \cup Answered
      <4>1. InHand' = InHand /\ Answered' = Answered /\ surveys' = surveys
        BY <2>2, HandKept DEF Answered
      <4>2. x \notin surveys \cup InHand \cup Answered
        BY <2>1 DEF IndInv, PlaceInv, Apart
      <4>3. queue' \subseteq queue /\ Kept' = {} /\ x \notin queue'
        BY <2>1 DEF IndInv, PlaceInv, Apart
      <4>4. QED
        BY <4>1, <4>2, <4>3
    <3>2. Apart(surveys, InHand, Answered, queue, Kept, ReadIn(seen))'
      BY <2>8, <3>1 DEF IndInv, PlaceInv, Apart
    <3>3. x \in queue \cup Kept
      BY <2>1
    <3>4. Sent(surveys \cup InHand \cup Answered \cup queue \cup Kept \cup ReadIn(seen))'
      BY <2>2, <2>8, <3>1, <3>3 DEF IndInv, PlaceInv, Sent
    <3>5. QED
      BY <2>2, <2>8, <3>2, <3>4 DEF IndInv, PlaceInv
  <2>13. QED
    BY <2>4, <2>9, <2>10, <2>11, <2>12 DEF IndInv
<1>3. QED
  BY <1>1, <1>2

\* A response arrives: it is queued if it is one to the active survey.
LEMMA CollectStep ==
  ASSUME IndInv, Collect
  PROVE  IndInv'
<1>1. PICK a \in answers :
        /\ answers' = answers \ {a}
        /\ queue' = IF a[1] = active THEN queue \cup {a[2]} ELSE queue
  BY DEF Collect
<1>2. UNCHANGED <<pc, active, aio, over, rec, asked, issued, seen, ended, rpc, peer,
                  raio, rrec, holds, surveys>>
  BY DEF Collect, outcomeVars, respondentVars
<1>3. a[1] \in Ids /\ a[2] \in Responses
  BY DEF IndInv, TypeOK
<1>4. a[1] # None
  BY <1>3 DEF Ids, None
<1>5. TypeOK'
  <2>1. queue' \subseteq Responses /\ answers' \subseteq Ids \X Responses
    BY <1>1, <1>3 DEF IndInv, TypeOK
  <2>2. QED
    BY <1>2, <2>1 DEF IndInv, TypeOK
<1>6. CallInv'
  BY <1>2 DEF IndInv, CallInv, Kept
<1>7. EndInv'
  BY <1>1, <1>2, <1>4 DEF IndInv, EndInv
<1>8. PlaceInv'
  <2>1. /\ InHand' = InHand /\ Kept' = Kept /\ surveys' = surveys
        /\ ReadIn(seen)' = ReadIn(seen)
    BY <1>2, HandKept DEF Kept
  <2>2. Answered = Answered' \cup {a[2]} /\ a[2] \notin Answered'
    BY <1>1 DEF IndInv, PlaceInv, Answered
  <2>3. queue' \subseteq queue \cup {a[2]}
    BY <1>1
  <2> DEFINE x == a[2]
  <2> HIDE DEF x
  <2>4. /\ Answered = Answered' \cup {x} /\ x \notin Answered'
        /\ queue' \subseteq queue \cup {x}
    BY <2>2, <2>3 DEF x
  <2>5. Apart(surveys, InHand, Answered, queue, Kept, ReadIn(seen))'
    BY <2>1, <2>4 DEF IndInv, PlaceInv, Apart
  <2>6. Sent(surveys \cup InHand \cup Answered \cup queue \cup Kept \cup ReadIn(seen))'
    BY <1>2, <2>1, <2>4 DEF IndInv, PlaceInv, Sent
  <2>7. (\A b, c \in answers : b[2] = c[2] => b = c)' /\ Once(seen)'
    BY <1>1, <1>2 DEF IndInv, PlaceInv
  <2>8. QED
    BY <2>5, <2>6, <2>7 DEF PlaceInv
<1>9. QED
  BY <1>5, <1>6, <1>7, <1>8 DEF IndInv

(***************************************************************************)
(* The respondents.                                                        *)
(***************************************************************************)

\* What respondent r has in hand, when only its variables change.
LEMMA HandStep ==
  ASSUME NEW r \in Respondents, TypeOK,
         \A q \in Respondents : q # r =>
           rpc'[q] = rpc[q] /\ raio'[q] = raio[q] /\ rrec'[q] = rrec[q]
             /\ holds'[q] = holds[q]
  PROVE  /\ Current(r)' = Current(r) => InHand' = InHand
         /\ Current(r)' = None =>
              InHand' = InHand \ {<<Current(r), r>>}
         /\ Current(r) = None => InHand' \subseteq InHand \cup {<<Current(r)', r>>}
<1>1. \A q \in Respondents : q # r => Current(q)' = Current(q)
  BY DEF Current
<1>2. \A x \in Responses : /\ x = <<x[1], x[2]>> /\ x[1] # None
                           /\ x[2] \in Respondents
  BY DEF Responses, Ids, None
<1>3. Current(r)' = Current(r) => InHand' = InHand
  BY <1>1, <1>2 DEF InHand
<1>4. Current(r)' = None => InHand' = InHand \ {<<Current(r), r>>}
  BY <1>1, <1>2 DEF InHand
<1>5. Current(r) = None => InHand' \subseteq InHand \cup {<<Current(r)', r>>}
  BY <1>1, <1>2 DEF InHand
<1>6. QED
  BY <1>3, <1>4, <1>5

\* Where only the respondents' variables change.
LEMMA SurveyorRests ==
  ASSUME IndInv, UNCHANGED <<surveyorVars, outcomeVars>>
  PROVE  /\ EndInv' /\ Kept' = Kept
         /\ UNCHANGED <<pc, active, queue, aio, over, rec, asked, issued, seen, ended>>
         /\ issued' \in Nat /\ issued <= issued'
<1>1. issued \in Nat
  BY Types DEF IndInv
<1>2. QED
  BY <1>1 DEF IndInv, EndInv, Kept, surveyorVars, outcomeVars

\* The survey a respondent has in hand stays or goes.
LEMMA RespondentQuiet ==
  ASSUME IndInv, NEW r \in Respondents,
         NextSurveyRecovered(r) \/ NextSurvey(r) \/ NextSurveyOk(r)
         \/ NextSurveyFails(r) \/ Respond(r) \/ RespondFails(r) \/ ResponderGone(r)
  PROVE  IndInv'
<1>1. UNCHANGED <<surveyorVars, outcomeVars, netVars>>
  BY
  DEF NextSurveyRecovered, NextSurvey, NextSurveyOk, NextSurveyFails, Respond,
         RespondFails, ResponderGone
<1>2. /\ raio \in [Respondents -> 0..MaxSurvey]
      /\ rrec \in [Respondents -> 0..MaxSurvey]
      /\ holds \in [Respondents -> 0..MaxSurvey]
      /\ peer \in [Respondents -> 0..MaxSurvey]
      /\ rpc \in [Respondents -> {"idle", "recv", "responder", "responding",
                                  "responded"}]
      /\ None \in 0..MaxSurvey
  BY Types, SurveyAssumption DEF IndInv, None
<1>3. \A q \in Respondents :
        /\ rpc[q] # "recv" => raio[q] = None
        /\ rpc[q] # "idle" => rrec[q] = None
        /\ rpc[q] \in {"responder", "responding"} => holds[q] # None
  BY DEF IndInv, CallInv
<1>4. /\ raio' \in [Respondents -> 0..MaxSurvey]
      /\ rrec' \in [Respondents -> 0..MaxSurvey]
      /\ holds' \in [Respondents -> 0..MaxSurvey]
      /\ peer' \in [Respondents -> 0..MaxSurvey]
      /\ rpc' \in [Respondents -> {"idle", "recv", "responder", "responding",
                                   "responded"}]
      /\ \A q \in Respondents :
           /\ rpc'[q] # "recv" => raio'[q] = None
           /\ rpc'[q] # "idle" => rrec'[q] = None
           /\ rpc'[q] \in {"responder", "responding"} => holds'[q] # None
      /\ \A q \in Respondents : q # r =>
           rpc'[q] = rpc[q] /\ raio'[q] = raio[q] /\ rrec'[q] = rrec[q]
             /\ holds'[q] = holds[q]
      /\ Current(r)' \in {Current(r), None}
  <2>1. CASE NextSurveyRecovered(r)
    BY <1>2, <1>3, <2>1 DEF NextSurveyRecovered, Responder, Set, Current
  <2>2. CASE NextSurvey(r)
    BY <1>2, <1>3, <2>2 DEF NextSurvey, Set, Current
  <2>3. CASE NextSurveyOk(r)
    BY <1>2, <1>3, <2>3 DEF NextSurveyOk, Responder, Set, Current
  <2>4. CASE NextSurveyFails(r)
    BY <1>2, <1>3, <2>4 DEF NextSurveyFails, KeepSurvey, Set, Current
  <2>5. CASE Respond(r)
    BY <1>2, <1>3, <2>5 DEF Respond, Set, Current
  <2>6. CASE RespondFails(r)
    BY <1>2, <1>3, <2>6 DEF RespondFails, Set, Current
  <2>7. CASE ResponderGone(r)
    BY <1>2, <1>3, <2>7 DEF ResponderGone, Set, Current
  <2>8. QED
    BY <2>1, <2>2, <2>3, <2>4, <2>5, <2>6, <2>7
<1>5. TypeOK'
  BY <1>1, <1>4, SurveyorRests DEF IndInv, TypeOK, netVars
<1>6. CallInv'
  BY <1>1, <1>4, SurveyorRests DEF IndInv, CallInv
<1>7. InHand' \subseteq InHand
  BY <1>4, HandStep DEF IndInv
<1>8. PlaceInv'
  BY <1>1, <1>7, SurveyorRests, PlacesShrink DEF netVars
<1>9. QED
  BY <1>1, <1>5, <1>6, <1>8, SurveyorRests DEF IndInv

\* A respondent receives a survey.
LEMMA RespondentTakes ==
  ASSUME IndInv, NEW r \in Respondents, NngRecvSurvey(r) \/ TryNextSurvey(r)
  PROVE  IndInv'
<1>1. UNCHANGED <<surveyorVars, outcomeVars, answers, rrec>>
  BY DEF NngRecvSurvey, TryNextSurvey
<1>2. /\ raio \in [Respondents -> 0..MaxSurvey]
      /\ rrec \in [Respondents -> 0..MaxSurvey]
      /\ holds \in [Respondents -> 0..MaxSurvey]
      /\ peer \in [Respondents -> 0..MaxSurvey]
      /\ rpc \in [Respondents -> {"idle", "recv", "responder", "responding",
                                  "responded"}]
  BY Types DEF IndInv
<1>3. \A q \in Respondents :
        /\ rpc[q] # "recv" => raio[q] = None
        /\ rpc[q] # "idle" => rrec[q] = None
        /\ rpc[q] \in {"responder", "responding"} => holds[q] # None
  BY DEF IndInv, CallInv
<1>4. PICK k \in Ids :
        /\ <<k, r>> \in surveys /\ surveys' = surveys \ {<<k, r>>}
        /\ peer' = Set(peer, r, k)
        /\ NngRecvSurvey(r) => raio' = Set(raio, r, k)
        /\ TryNextSurvey(r) => Responder(r, k)
  <2>1. CASE NngRecvSurvey(r)
    <3>1. PICK k \in Ids :
            /\ <<k, r>> \in surveys /\ surveys' = surveys \ {<<k, r>>}
            /\ raio' = Set(raio, r, k) /\ peer' = Set(peer, r, k)
      BY <2>1 DEF NngRecvSurvey
    <3>2. ~TryNextSurvey(r)
      BY <2>1 DEF NngRecvSurvey, TryNextSurvey
    <3>3. QED
      BY <3>1, <3>2
  <2>2. CASE TryNextSurvey(r)
    <3>1. PICK k \in Ids :
            /\ <<k, r>> \in surveys /\ surveys' = surveys \ {<<k, r>>}
            /\ peer' = Set(peer, r, k) /\ Responder(r, k)
      BY <2>2 DEF TryNextSurvey
    <3>2. ~NngRecvSurvey(r)
      BY <2>2 DEF NngRecvSurvey, TryNextSurvey
    <3>3. QED
      BY <3>1, <3>2
  <2>3. QED
    BY <2>1, <2>2
<1>5. k \in 0..MaxSurvey /\ k # None
  BY <1>4 DEF Ids, None
<1>6. /\ raio' \in [Respondents -> 0..MaxSurvey]
      /\ holds' \in [Respondents -> 0..MaxSurvey]
      /\ peer' \in [Respondents -> 0..MaxSurvey]
      /\ rpc' \in [Respondents -> {"idle", "recv", "responder", "responding",
                                   "responded"}]
      /\ \A q \in Respondents :
           /\ rpc'[q] # "recv" => raio'[q] = None
           /\ rpc'[q] # "idle" => rrec'[q] = None
           /\ rpc'[q] \in {"responder", "responding"} => holds'[q] # None
      /\ \A q \in Respondents : q # r =>
           rpc'[q] = rpc[q] /\ raio'[q] = raio[q] /\ rrec'[q] = rrec[q]
             /\ holds'[q] = holds[q]
      /\ Current(r) = None /\ Current(r)' = k
  <2>1. CASE NngRecvSurvey(r)
    BY <1>1, <1>2, <1>3, <1>4, <1>5, <2>1 DEF NngRecvSurvey, Set, Current
  <2>2. CASE TryNextSurvey(r)
    BY <1>1, <1>2, <1>3, <1>4, <1>5, <2>2
    DEF TryNextSurvey, Responder, Set, Current
  <2>3. QED
    BY <2>1, <2>2
<1>7. TypeOK'
  <2>1. surveys' \subseteq Responses
    BY <1>4 DEF IndInv, TypeOK
  <2>2. QED
    BY <1>1, <1>2, <1>6, <2>1, SurveyorRests DEF IndInv, TypeOK
<1>8. CallInv'
  BY <1>1, <1>6, SurveyorRests DEF IndInv, CallInv
<1>9. PlaceInv'
  <2> DEFINE x == <<k, r>>
  <2>1. InHand' \subseteq InHand \cup {x}
    BY <1>6, HandStep DEF IndInv
  <2>2. x \in surveys /\ surveys' = surveys \ {x}
    BY <1>4
  <2> HIDE DEF x
  <2>3. /\ queue' = queue /\ Kept' = Kept /\ ReadIn(seen)' = ReadIn(seen)
        /\ Answered' = Answered /\ pc' = pc /\ issued' = issued
        /\ seen' = seen /\ answers' = answers
    BY <1>1, SurveyorRests DEF Answered
  <2>4. Apart(surveys, InHand, Answered, queue, Kept, ReadIn(seen))'
    BY <2>1, <2>2, <2>3 DEF IndInv, PlaceInv, Apart
  <2>5. Sent(surveys \cup InHand \cup Answered \cup queue \cup Kept \cup ReadIn(seen))'
    BY <2>1, <2>2, <2>3 DEF IndInv, PlaceInv, Sent
  <2>6. (\A b, c \in answers : b[2] = c[2] => b = c)' /\ Once(seen)'
    BY <2>3 DEF IndInv, PlaceInv
  <2>7. QED
    BY <2>4, <2>5, <2>6 DEF PlaceInv
<1>10. QED
  BY <1>1, <1>7, <1>8, <1>9, SurveyorRests DEF IndInv

\* NNG sends a response: the respondent has nothing in hand any more.
LEMMA RespondentAnswers ==
  ASSUME IndInv, NEW r \in Respondents, NngSendResponse(r)
  PROVE  IndInv'
<1> DEFINE x == <<holds[r], r>>
           a == <<peer[r], x>>
<1>1. /\ UNCHANGED <<surveyorVars, outcomeVars, raio, rrec, holds, surveys>>
      /\ answers' = answers \cup {a} /\ rpc[r] = "responding"
      /\ peer' = [peer EXCEPT ![r] = None]
      /\ rpc' = [rpc EXCEPT ![r] = "responded"] /\ peer[r] # None
  BY DEF NngSendResponse, HasPeer, Set
<1>2. /\ raio \in [Respondents -> 0..MaxSurvey]
      /\ rrec \in [Respondents -> 0..MaxSurvey]
      /\ holds \in [Respondents -> 0..MaxSurvey]
      /\ peer \in [Respondents -> 0..MaxSurvey]
      /\ rpc \in [Respondents -> {"idle", "recv", "responder", "responding",
                                  "responded"}]
      /\ None \in 0..MaxSurvey
  BY Types, SurveyAssumption DEF IndInv, None
<1>3. holds[r] \in Ids /\ peer[r] \in Ids
  BY <1>1, <1>2 DEF IndInv, CallInv, Ids, None
<1>4. x \in Responses /\ a \in Ids \X Responses /\ a[2] = x
  BY <1>3 DEF Responses
<1>5. /\ \A q \in Respondents : q # r =>
           rpc'[q] = rpc[q] /\ raio'[q] = raio[q] /\ rrec'[q] = rrec[q]
             /\ holds'[q] = holds[q]
      /\ Current(r) = holds[r] /\ Current(r)' = None
  BY <1>1, <1>2 DEF Current
<1>6. InHand' = InHand \ {x} /\ x \in InHand
  <2>1. InHand' = InHand \ {x}
    BY <1>5, HandStep DEF IndInv
  <2>2. x \in InHand
    BY <1>4, <1>5 DEF InHand
  <2>3. QED
    BY <2>1, <2>2
<1>7. Answered' = Answered \cup {x}
  BY <1>1, <1>4 DEF Answered
<1> HIDE DEF x, a
<1>8. TypeOK'
  <2>1. /\ peer' \in [Respondents -> 0..MaxSurvey]
        /\ rpc' \in [Respondents -> {"idle", "recv", "responder", "responding",
                                     "responded"}]
        /\ answers' \subseteq Ids \X Responses
    BY <1>1, <1>2, <1>4 DEF IndInv, TypeOK
  <2>2. QED
    BY <1>1, <1>2, <2>1, SurveyorRests DEF IndInv, TypeOK
<1>9. CallInv'
  <2>1. \A q \in Respondents :
          /\ rpc'[q] # "recv" => raio'[q] = None
          /\ rpc'[q] # "idle" => rrec'[q] = None
          /\ rpc'[q] \in {"responder", "responding"} => holds'[q] # None
    BY <1>1, <1>2 DEF IndInv, CallInv
  <2>2. QED
    BY <1>1, <2>1, SurveyorRests DEF IndInv, CallInv
<1>10. PlaceInv'
  <2>1. /\ queue' = queue /\ Kept' = Kept /\ ReadIn(seen)' = ReadIn(seen)
        /\ pc' = pc /\ issued' = issued /\ seen' = seen /\ surveys' = surveys
    BY <1>1, SurveyorRests
  <2>2. Apart(surveys, InHand, Answered, queue, Kept, ReadIn(seen))'
    BY <1>6, <1>7, <2>1 DEF IndInv, PlaceInv, Apart
  <2>3. Sent(surveys \cup InHand \cup Answered \cup queue \cup Kept \cup ReadIn(seen))'
    BY <1>6, <1>7, <2>1 DEF IndInv, PlaceInv, Sent
  <2>4. \A b \in answers : b[2] # x
    BY <1>6 DEF IndInv, PlaceInv, Apart, Answered
  <2>5. (\A b, c \in answers : b[2] = c[2] => b = c)' /\ Once(seen)'
    BY <1>1, <1>4, <2>1, <2>4 DEF IndInv, PlaceInv
  <2>6. QED
    BY <2>2, <2>3, <2>5 DEF PlaceInv
<1>11. QED
  BY <1>1, <1>8, <1>9, <1>10, SurveyorRests DEF IndInv

\* The network loses something.
LEMMA LoseStep ==
  ASSUME IndInv, Lose
  PROVE  IndInv'
<1>1. /\ surveys' \subseteq surveys /\ answers' \subseteq answers
      /\ UNCHANGED <<surveyorVars, outcomeVars, rpc, peer, raio, rrec, holds>>
  BY DEF Lose, respondentVars
<1>2. TypeOK'
  BY <1>1, SurveyorRests DEF IndInv, TypeOK
<1>3. CallInv'
  BY <1>1, SurveyorRests DEF IndInv, CallInv
<1>4. PlaceInv'
  BY <1>1, SurveyorRests, HandKept, PlacesShrink
<1>5. QED
  BY <1>1, <1>2, <1>3, <1>4, SurveyorRests DEF IndInv

\* Every step preserves the invariant.
LEMMA StepInd == IndInv /\ [Next]_vars => IndInv'
<1> SUFFICES ASSUME IndInv, [Next]_vars
             PROVE  IndInv'
  OBVIOUS
<1>1. CASE Surveyor
  BY <1>1, SurveyorQuiet, BroadcastStep, DeliverStep, YieldStep,
      CollectStep DEF Surveyor
<1>2. CASE \E r \in Respondents : Respondent(r)
  BY <1>2, RespondentQuiet, RespondentTakes, RespondentAnswers DEF Respondent
<1>3. CASE Lose
  BY <1>3, LoseStep
<1>4. CASE UNCHANGED vars
  <2>1. UNCHANGED <<surveyorVars, outcomeVars, rpc, peer, raio, rrec, holds, surveys,
                    answers>>
    BY <1>4 DEF vars, respondentVars, netVars
  <2>2. TypeOK'
    BY <2>1, SurveyorRests DEF IndInv, TypeOK
  <2>3. CallInv'
    BY <2>1, SurveyorRests DEF IndInv, CallInv
  <2>4. PlaceInv'
    BY <2>1, SurveyorRests, HandKept, PlacesShrink
  <2>5. QED
    BY <2>1, <2>2, <2>3, <2>4, SurveyorRests DEF IndInv
<1>5. QED
  BY <1>1, <1>2, <1>3, <1>4 DEF Next

-----------------------------------------------------------------------------
(***************************************************************************)
(* The inductive invariant holds in every reachable state.                 *)
(***************************************************************************)
THEOREM Invariance == Spec => []IndInv
<1>1. QED
  BY InitInd, StepInd, PTL DEF Spec

(***************************************************************************)
(* Type correctness.                                                       *)
(***************************************************************************)
THEOREM TypeCorrect == Spec => []TypeOK
<1>1. IndInv => TypeOK
  BY DEF IndInv
<1>2. QED
  BY Invariance, <1>1, PTL

(***************************************************************************)
(* SurveyResponses returns a respondent's response to a survey at most     *)
(* once, whichever of next, try_next and recovery from a dropped next it   *)
(* comes from.                                                             *)
(***************************************************************************)
THEOREM ResponsesOnce == Spec => []ResponseOnce
<1>1. IndInv => ResponseOnce
  <2>1. SUFFICES ASSUME IndInv
                 PROVE  ResponseOnce
    OBVIOUS
  <2>2. DOMAIN seen = 1..Len(seen) /\ Once(seen)
    BY <2>1, Types DEF IndInv, PlaceInv
  <2>3. QED
    BY <2>2 DEF ResponseOnce, Once
<1>2. QED
  BY Invariance, <1>1, PTL

(***************************************************************************)
(* A None of next, or Some(Ok(None)) of try_next, is the last word on a    *)
(* survey: NNG does not collect for it again and no response follows.      *)
(***************************************************************************)
THEOREM NoneIsLast == Spec => EndIsFinal
<1>1. IndInv /\ [Next]_vars /\ IndInv' =>
        [active' \notin ended' /\ (seen' # seen => asked \notin ended)]_vars
  <2>1. SUFFICES ASSUME IndInv, Next, IndInv'
                 PROVE  active' \notin ended' /\ (seen' # seen => asked \notin ended)
    OBVIOUS
  <2>2. active' \notin ended'
    <3>1. active' \in {None, issued'} /\ ended' \subseteq 1..issued'
      BY <2>1 DEF IndInv, EndInv
    <3>2. issued' \in ended' => active' = None
      BY <2>1 DEF IndInv, EndInv
    <3>3. None \notin ended'
      BY <3>1 DEF None
    <3>4. QED
      BY <3>1, <3>2, <3>3
  <2>3. ASSUME seen' # seen
        PROVE  asked \notin ended
    <3>1. NextRecovered \/ NextOk \/ TryNext
      BY <2>1, <2>3
         DEF Next, Surveyor, Respondent, Lose, SendSurvey, NngSendSurvey,
             SurveyOk,
             SurveyFails, StartNext, NngRecvResponse, NextEnds, CancelNext,
             DropStream, Expire, Collect, NextSurveyRecovered, NextSurvey,
             NngRecvSurvey, NextSurveyOk, NextSurveyFails, TryNextSurvey, Respond,
             NngSendResponse, RespondFails, ResponderGone, outcomeVars
    <3>2. QED
      BY <2>1, <2>3, <3>1, YieldStep
  <2>4. QED
    BY <2>2, <2>3
<1>2. QED
  BY Invariance, <1>1, PTL DEF Spec, EndIsFinal
=============================================================================
