------------------------------- MODULE Survey -------------------------------
(***************************************************************************)
(* The survey protocol (anng/src/protocols/survey0.rs): one Surveyor0      *)
(* context, which broadcasts surveys and reads their responses through a   *)
(* SurveyResponses, and the Respondent0 contexts Respondents.  The grain   *)
(* is that of ReqRep: a send or receive is started, NNG may complete it,   *)
(* and then the task notices, or its future is dropped.                    *)
(*                                                                         *)
(* Surveys are numbered.  A response is <<survey it answers, respondent>>. *)
(* An option holding at most one response is a set.  External are NNG's    *)
(* surveyor0 and respondent0: a new survey resets the context, the survey  *)
(* timer ends a survey and with it the responses nobody has read.          *)
(***************************************************************************)
EXTENDS Naturals, Sequences

CONSTANTS Respondents,   \* Respondent0 contexts
          MaxSurvey      \* bound on the surveys sent

ASSUME SurveyAssumption == MaxSurvey \in Nat

Ids  == 1..MaxSurvey
None == 0
Responses == Ids \X Respondents

VARIABLES
  \* surveyor: pending call, survey NNG collects for, responses NNG queued
  pc, active, queue,
  \* receive that has completed: with a response, or because the survey is over
  aio, over,
  \* recovered_msg, survey of the SurveyResponses, surveys sent
  rec, asked, issued,
  \* what SurveyResponses has returned, and the surveys it has said are over
  seen, ended,
  \* respondents: pending call, survey NNG routes the response to, completed
  \* receive, recovered_msg, survey the SurveyResponder stands for
  rpc, peer, raio, rrec, holds,
  \* the network: surveys per respondent, responses with their routing
  surveys, answers

surveyorVars   == <<pc, active, queue, aio, over, rec, asked, issued>>
outcomeVars    == <<seen, ended>>
respondentVars == <<rpc, peer, raio, rrec, holds>>
netVars        == <<surveys, answers>>
vars == <<surveyorVars, outcomeVars, respondentVars, netVars>>

TypeOK ==
  /\ pc \in {"idle", "sending", "sent", "stream", "recv"}
  /\ active \in 0..MaxSurvey
  /\ queue \subseteq Responses /\ aio \subseteq Responses /\ rec \subseteq Responses
  /\ over \in BOOLEAN
  /\ asked \in 0..MaxSurvey /\ issued \in 0..MaxSurvey
  /\ seen \in Seq(Ids \X Responses)
  /\ ended \subseteq Ids
  /\ rpc \in [Respondents -> {"idle", "recv", "responder", "responding",
                              "responded"}]
  /\ \A f \in {peer, raio, rrec, holds} : f \in [Respondents -> 0..MaxSurvey]
  /\ surveys \subseteq Responses
  /\ answers \subseteq Ids \X Responses

Init ==
  /\ pc = "idle" /\ active = None /\ queue = {}
  /\ aio = {} /\ over = FALSE
  /\ rec = {} /\ asked = None /\ issued = 0
  /\ seen = <<>> /\ ended = {}
  /\ rpc = [r \in Respondents |-> "idle"]
  /\ \E none \in {[r \in Respondents |-> None]} :
       peer = none /\ raio = none /\ rrec = none /\ holds = none
  /\ surveys = {} /\ answers = {}

-----------------------------------------------------------------------------
(* The surveyor.  Definitions named Faulty... are seeded faults.           *)

\* survey, up to the await of send_msg: NNG ends the survey in progress.
SendSurvey ==
  /\ pc = "idle" /\ issued < MaxSurvey
  /\ pc' = "sending"
  /\ issued' = issued + 1
  /\ active' = None
  /\ queue' = {}
  /\ UNCHANGED <<aio, over, rec, asked, outcomeVars, respondentVars, netVars>>

\* NNG (external) broadcasts the survey and starts its timer.
NngSendSurvey ==
  /\ pc = "sending"
  /\ pc' = "sent"
  /\ active' = issued
  /\ surveys' = surveys \cup ({issued} \X Respondents)
  /\ UNCHANGED <<queue, aio, over, rec, asked, issued, outcomeVars,
                 respondentVars, answers>>

\* survey returns the SurveyResponses.
SurveyOk ==
  /\ pc = "sent"
  /\ pc' = "stream"
  /\ asked' = issued
  /\ UNCHANGED <<active, queue, aio, over, rec, issued, outcomeVars,
                 respondentVars, netVars>>

\* survey returns an error and the message, or its future is dropped.
SurveyFails ==
  /\ pc \in {"sending", "sent"}
  /\ pc' = "idle"
  /\ UNCHANGED <<active, queue, aio, over, rec, asked, issued, outcomeVars,
                 respondentVars, netVars>>

\* SurveyResponses returns the response x.
Yield(x) == seen' = Append(seen, <<asked, x>>) /\ UNCHANGED ended

\* next or try_next returns the response recovered from a cancelled next.
NextRecovered ==
  /\ pc = "stream"
  /\ \E x \in rec : Yield(x)
  /\ rec' = {}
  /\ UNCHANGED <<pc, active, queue, aio, over, asked, issued, respondentVars,
                 netVars>>

\* next starts to receive; on a context without survey NNG says ESTATE.
StartNext ==
  /\ pc = "stream" /\ rec = {}
  /\ pc' = "recv"
  /\ over' = (active = None)
  /\ UNCHANGED <<active, queue, aio, rec, asked, issued, outcomeVars,
                 respondentVars, netVars>>

\* NNG (external) completes the receive with a response.
NngRecvResponse ==
  /\ pc = "recv" /\ aio = {} /\ ~over
  /\ \E x \in queue : aio' = {x} /\ queue' = queue \ {x}
  /\ UNCHANGED <<pc, active, over, rec, asked, issued, outcomeVars,
                 respondentVars, netVars>>

\* The receive hands over the message but leaves it in the nng_aio.
FaultyTake == UNCHANGED aio

TakeResponse == aio' = {}

\* next returns the response.
NextOk ==
  /\ pc = "recv"
  /\ \E x \in aio : Yield(x)
  /\ TakeResponse
  /\ pc' = "stream"
  /\ UNCHANGED <<active, queue, over, rec, asked, issued, respondentVars,
                 netVars>>

\* Any failed receive is taken for the end of the survey.
FaultyIsOver == aio = {}

\* AioError::TimedOut or ESTATE.
IsOver == over

\* next returns None, or an error that is not the end of the survey.
NextEnds ==
  /\ pc = "recv" /\ aio = {}
  /\ ended' = IF IsOver THEN ended \cup {asked} ELSE ended
  /\ over' = FALSE
  /\ pc' = "stream"
  /\ UNCHANGED <<active, queue, aio, rec, asked, issued, seen, respondentVars,
                 netVars>>

\* The future of next is dropped; the guard keeps a response just received.
CancelNext ==
  /\ pc = "recv"
  /\ rec' = aio
  /\ TakeResponse
  /\ over' = FALSE
  /\ pc' = "stream"
  /\ UNCHANGED <<active, queue, asked, issued, outcomeVars, respondentVars,
                 netVars>>

\* try_next without recovered message: a response, or the survey has ended.
TryNext ==
  /\ pc = "stream" /\ rec = {}
  /\ \/ \E x \in queue : Yield(x) /\ queue' = queue \ {x}
     \/ active = None /\ ended' = ended \cup {asked} /\ UNCHANGED <<queue, seen>>
  /\ UNCHANGED <<pc, active, aio, over, rec, asked, issued, respondentVars,
                 netVars>>

\* The SurveyResponses is dropped; the survey stays active.
DropStream ==
  /\ pc = "stream"
  /\ pc' = "idle"
  /\ UNCHANGED <<active, queue, aio, over, rec, asked, issued, outcomeVars,
                 respondentVars, netVars>>

FaultyExpire == UNCHANGED over

\* The timer ends the receive that waits (external).
EndReceive == over' = (over \/ (pc = "recv" /\ aio = {}))

\* The survey's time is over (external).
Expire ==
  /\ active # None
  /\ active' = None
  /\ queue' = {}
  /\ EndReceive
  /\ UNCHANGED <<pc, aio, rec, asked, issued, outcomeVars, respondentVars,
                 netVars>>

\* A response to the active survey arrives; any other is discarded (external).
Collect ==
  /\ \E a \in answers :
       /\ answers' = answers \ {a}
       /\ queue' = IF a[1] = active THEN queue \cup {a[2]} ELSE queue
  /\ UNCHANGED <<pc, active, aio, over, rec, asked, issued, outcomeVars,
                 respondentVars, surveys>>

-----------------------------------------------------------------------------
(* The respondents.                                                        *)

Set(f, r, v) == [f EXCEPT ![r] = v]

\* A SurveyResponder for survey k.
Responder(r, k) ==
  /\ rpc' = Set(rpc, r, "responder")
  /\ holds' = Set(holds, r, k)

\* next_survey or try_next_survey returns the recovered survey.
NextSurveyRecovered(r) ==
  /\ rpc[r] = "idle" /\ rrec[r] # None
  /\ Responder(r, rrec[r])
  /\ rrec' = Set(rrec, r, None)
  /\ UNCHANGED <<surveyorVars, outcomeVars, peer, raio, netVars>>

NextSurvey(r) ==
  /\ rpc[r] = "idle" /\ rrec[r] = None
  /\ rpc' = Set(rpc, r, "recv")
  /\ UNCHANGED <<surveyorVars, outcomeVars, peer, raio, rrec, holds, netVars>>

\* NNG (external) completes the receive and remembers the surveyor.
NngRecvSurvey(r) ==
  /\ rpc[r] = "recv" /\ raio[r] = None
  /\ \E k \in Ids :
       /\ <<k, r>> \in surveys
       /\ surveys' = surveys \ {<<k, r>>}
       /\ raio' = Set(raio, r, k)
       /\ peer' = Set(peer, r, k)
  /\ UNCHANGED <<surveyorVars, outcomeVars, rpc, rrec, holds, answers>>

NextSurveyOk(r) ==
  /\ rpc[r] = "recv" /\ raio[r] # None
  /\ Responder(r, raio[r])
  /\ raio' = Set(raio, r, None)
  /\ UNCHANGED <<surveyorVars, outcomeVars, peer, rrec, netVars>>

\* The guard of recv_msg keeps a survey that has already arrived.
KeepSurvey(r) == rrec' = Set(rrec, r, raio[r])

\* The receive fails, or the future of next_survey is dropped.
NextSurveyFails(r) ==
  /\ rpc[r] = "recv"
  /\ rpc' = Set(rpc, r, "idle")
  /\ KeepSurvey(r)
  /\ raio' = Set(raio, r, None)
  /\ UNCHANGED <<surveyorVars, outcomeVars, peer, holds, netVars>>

\* try_next_survey when NNG has a survey.
TryNextSurvey(r) ==
  /\ rpc[r] = "idle" /\ rrec[r] = None
  /\ \E k \in Ids :
       /\ <<k, r>> \in surveys
       /\ surveys' = surveys \ {<<k, r>>}
       /\ peer' = Set(peer, r, k)
       /\ Responder(r, k)
  /\ UNCHANGED <<surveyorVars, outcomeVars, raio, rrec, answers>>

\* respond, up to the await of send_msg.
Respond(r) ==
  /\ rpc[r] = "responder"
  /\ rpc' = Set(rpc, r, "responding")
  /\ UNCHANGED <<surveyorVars, outcomeVars, peer, raio, rrec, holds, netVars>>

\* NNG (external) refuses a response on a context that owes none (ESTATE).
HasPeer(r) == peer[r] # None

\* NNG (external) sends the response to the surveyor it remembers.
NngSendResponse(r) ==
  /\ rpc[r] = "responding" /\ HasPeer(r)
  /\ answers' = answers \cup {<<peer[r], <<holds[r], r>> >>}
  /\ peer' = Set(peer, r, None)
  /\ rpc' = Set(rpc, r, "responded")
  /\ UNCHANGED <<surveyorVars, outcomeVars, raio, rrec, holds, surveys>>

\* The send fails: respond gives back the SurveyResponder.
RespondFails(r) ==
  /\ rpc[r] = "responding"
  /\ rpc' = Set(rpc, r, "responder")
  /\ peer' \in {peer, Set(peer, r, None)}
  /\ UNCHANGED <<surveyorVars, outcomeVars, raio, rrec, holds, netVars>>

\* The SurveyResponder goes: dropped, respond has returned or is dropped.
ResponderGone(r) ==
  /\ rpc[r] \in {"responder", "responding", "responded"}
  /\ rpc' = Set(rpc, r, "idle")
  /\ holds' = Set(holds, r, None)
  /\ UNCHANGED <<surveyorVars, outcomeVars, peer, raio, rrec, netVars>>

\* The network loses a survey or a response (external).
Lose ==
  /\ \/ \E x \in surveys : surveys' = surveys \ {x} /\ UNCHANGED answers
     \/ \E a \in answers : answers' = answers \ {a} /\ UNCHANGED surveys
  /\ UNCHANGED <<surveyorVars, outcomeVars, respondentVars>>

-----------------------------------------------------------------------------
Surveyor ==
  \/ SendSurvey \/ NngSendSurvey \/ SurveyOk \/ SurveyFails
  \/ NextRecovered \/ StartNext \/ NngRecvResponse \/ NextOk \/ NextEnds
  \/ CancelNext \/ TryNext \/ DropStream \/ Expire \/ Collect

Respondent(r) ==
  \/ NextSurveyRecovered(r) \/ NextSurvey(r) \/ NngRecvSurvey(r)
  \/ NextSurveyOk(r) \/ NextSurveyFails(r) \/ TryNextSurvey(r)
  \/ Respond(r) \/ NngSendResponse(r) \/ RespondFails(r) \/ ResponderGone(r)

Next == Surveyor \/ (\E r \in Respondents : Respondent(r)) \/ Lose

Spec == Init /\ [][Next]_vars

\* NNG's survey timer fires, and a receive that has completed is noticed.
FairSpec == Spec /\ WF_vars(Expire) /\ WF_vars(NextOk) /\ WF_vars(NextEnds /\ over)

-----------------------------------------------------------------------------
(* Properties.                                                             *)

(***************************************************************************)
(* A respondent's response to a survey is returned at most once, whether   *)
(* read by next or try_next or recovered from a cancelled next.            *)
(***************************************************************************)
ResponseOnce == \A i, j \in DOMAIN seen : seen[i][2] = seen[j][2] => i = j

(***************************************************************************)
(* next returns None (try_next Some(Ok(None))) only when NNG no longer     *)
(* collects responses for that survey, and no response follows: a caller   *)
(* that stops at None misses nothing.                                      *)
(***************************************************************************)
EndIsFinal ==
  [][/\ active' \notin ended'
     /\ seen' # seen => asked \notin ended]_vars

(***************************************************************************)
(* The time given to survey bounds next: it always returns, a response or  *)
(* the end of the survey, even if no respondent ever answers.              *)
(***************************************************************************)
NextReturns == pc = "recv" ~> pc # "recv"
=============================================================================
