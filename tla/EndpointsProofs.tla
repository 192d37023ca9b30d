-------------------------- MODULE EndpointsProofs ---------------------------
(***************************************************************************)
(* Theorems about dial and listen, for any number of calls of either.  A   *)
(* worker, its future and the nng_dialer are changed by different actors;  *)
(* the invariant says which combinations of the three are possible.        *)
(***************************************************************************)
EXTENDS Endpoints, TLAPS

(***************************************************************************)
(* Future, worker and dialer of one dial.  The worker alone starts the     *)
(* dialer; only the drop of the socket, or a future that saw the worker    *)
(* fail, closes it, and neither happens under a future that would then     *)
(* report success.                                                         *)
(***************************************************************************)
DialInv(d) ==
  /\ fut[d] = "none" => work[d] = "none" /\ dialer[d] = "none"
  /\ fut[d] = "awaiting" => sock = "open" /\ work[d] # "none"
  /\ fut[d] = "ok" => work[d] = "ok"
  /\ fut[d] = "err" => /\ work[d] \in {"none", "err", "panicked"}
                       /\ dialer[d] \in {"none", "closed"}
  /\ work[d] = "ok" /\ sock = "open" => dialer[d] = "started"
  /\ dialer[d] = "started" => work[d] = "ok"

IndInv == TypeOK /\ NothingSurvives /\ \A d \in Dials : DialInv(d)

-----------------------------------------------------------------------------
\* Nothing has been dialled.
LEMMA InitInd == Init => IndInv
  BY DEF Init, IndInv, TypeOK, NothingSurvives, DialInv

\* Every step of a future, a worker or the socket keeps it.
LEMMA StepInd == IndInv /\ [Next]_vars => IndInv'
<1> SUFFICES ASSUME IndInv, [Next]_vars
             PROVE  IndInv'
  OBVIOUS
<1> USE DEF IndInv, TypeOK, NothingSurvives, DialInv
<1>1. ASSUME NEW c \in Dials, Dial(c)
      PROVE  IndInv'
  <2>1. TypeOK'
    BY <1>1 DEF Dial, Set
  <2>2. NothingSurvives'
    BY <1>1 DEF Dial, Set
  <2>3. (\A d \in Dials : DialInv(d))'
    BY <1>1 DEF Dial, Set
  <2>4. QED
    BY <2>1, <2>2, <2>3
<1>2. ASSUME NEW c \in Dials, DialRefused(c)
      PROVE  IndInv'
  <2>1. TypeOK'
    BY <1>2 DEF DialRefused, Set
  <2>2. NothingSurvives'
    BY <1>2 DEF DialRefused, Set
  <2>3. (\A d \in Dials : DialInv(d))'
    BY <1>2 DEF DialRefused, Set
  <2>4. QED
    BY <2>1, <2>2, <2>3
<1>3. ASSUME NEW c \in Dials, RunWorker(c)
      PROVE  IndInv'
  <2>1. TypeOK'
    BY <1>3 DEF RunWorker, Set
  <2>2. NothingSurvives'
    BY <1>3 DEF RunWorker, Set
  <2>3. (\A d \in Dials : DialInv(d))'
    BY <1>3 DEF RunWorker, Set
  <2>4. QED
    BY <2>1, <2>2, <2>3
<1>4. ASSUME NEW c \in Dials, WorkerAborted(c)
      PROVE  IndInv'
  <2>1. TypeOK'
    BY <1>4 DEF WorkerAborted, Set
  <2>2. NothingSurvives'
    BY <1>4 DEF WorkerAborted, Set
  <2>3. (\A d \in Dials : DialInv(d))'
    BY <1>4 DEF WorkerAborted, Set
  <2>4. QED
    BY <2>1, <2>2, <2>3
<1>5. ASSUME NEW c \in Dials, WorkerEnds(c)
      PROVE  IndInv'
  <2>1. TypeOK'
    BY <1>5 DEF WorkerEnds, Set
  <2>2. NothingSurvives'
    BY <1>5 DEF WorkerEnds, Set
  <2>3. (\A d \in Dials : DialInv(d))'
    BY <1>5 DEF WorkerEnds, Set
  <2>4. QED
    BY <2>1, <2>2, <2>3
<1>6. ASSUME NEW c \in Dials, DialReturns(c)
      PROVE  IndInv'
  <2>1. TypeOK'
    BY <1>6 DEF DialReturns, CloseDialer, Set
  <2>2. NothingSurvives'
    BY <1>6 DEF DialReturns, CloseDialer, Set
  <2>3. (\A d \in Dials : DialInv(d))'
    BY <1>6 DEF DialReturns, CloseDialer, Set
  <2>4. QED
    BY <2>1, <2>2, <2>3
<1>7. ASSUME NEW c \in Dials, DropFuture(c)
      PROVE  IndInv'
  <2>1. TypeOK'
    BY <1>7 DEF DropFuture, Set
  <2>2. NothingSurvives'
    BY <1>7 DEF DropFuture, Set
  <2>3. (\A d \in Dials : DialInv(d))'
    BY <1>7 DEF DropFuture, Set
  <2>4. QED
    BY <2>1, <2>2, <2>3
<1>8. ASSUME NEW l \in Listens, Listen(l)
      PROVE  IndInv'
  <2>1. TypeOK'
    BY <1>8 DEF Listen, Set
  <2>2. NothingSurvives'
    BY <1>8 DEF Listen, Set
  <2>3. (\A d \in Dials : DialInv(d))'
    BY <1>8 DEF Listen, Set
  <2>4. QED
    BY <2>1, <2>2, <2>3
<1>9. CASE DropSocket
  <2>1. TypeOK'
    BY <1>9 DEF DropSocket, Unborrowed, Closed
  <2>2. NothingSurvives'
    BY <1>9 DEF DropSocket, Unborrowed, Closed
  <2>3. (\A d \in Dials : DialInv(d))'
    BY <1>9 DEF DropSocket, Unborrowed, Closed
  <2>4. QED
    BY <2>1, <2>2, <2>3
<1>10. CASE UNCHANGED vars
  BY <1>10 DEF vars
<1>11. QED
  BY <1>1, <1>2, <1>3, <1>4, <1>5, <1>6, <1>7, <1>8, <1>9, <1>10
  DEF Next, DialStep

-----------------------------------------------------------------------------
(***************************************************************************)
(* The inductive invariant holds in every reachable state.                 *)
(***************************************************************************)
THEOREM Invariance == Spec => []IndInv
<1>1. QED
  BY InitInd, StepInd, PTL DEF Spec

(***************************************************************************)
(* Type correctness: in particular no worker finds its dialer started      *)
(* already, the case the code calls unreachable.                           *)
(***************************************************************************)
THEOREM TypeCorrect == Spec => []TypeOK
<1>1. IndInv => TypeOK
  BY DEF IndInv
<1>2. QED
  BY Invariance, <1>1, PTL

(***************************************************************************)
(* dial tells the truth: Ok means a started dialer for as long as the      *)
(* socket lives, an error that no dialer is left to connect later.         *)
(***************************************************************************)
THEOREM DialTruthful == Spec => []DialResultHolds
<1>1. IndInv => DialResultHolds
  BY DEF IndInv, TypeOK, DialInv, DialResultHolds
<1>2. QED
  BY Invariance, <1>1, PTL

(***************************************************************************)
(* A dropped socket leaves no open endpoint behind, and no detached worker *)
(* starts one later.                                                       *)
(***************************************************************************)
THEOREM SocketDropFinal == Spec => []NothingSurvives
<1>1. IndInv => NothingSurvives
  BY DEF IndInv
<1>2. QED
  BY Invariance, <1>1, PTL
=============================================================================
