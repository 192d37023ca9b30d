----------------------------- MODULE Endpoints -----------------------------
(***************************************************************************)
(* How dialers and listeners are added to one anng Socket                  *)
(* (anng/src/protocols/mod.rs).  A dial creates the dialer and starts it,  *)
(* blocking, on a worker of tokio's pool, which the future awaits.  A      *)
(* dropped future detaches its worker; the socket may then be dropped      *)
(* while that worker is queued, or parked in nng_dialer_start.  A listen   *)
(* does not wait for anything and is one step.                             *)
(***************************************************************************)
CONSTANTS Dials,      \* calls of dial
          Listens     \* calls of listen or listen_tcp

VARIABLES
  sock,      \* the Socket: "open" or "dropped"
  fut,       \* future of each dial
  work,      \* its worker, and what nng_dialer_start returned
  dialer,    \* the nng_dialer (external)
  listen,    \* result of each listen
  listener   \* the nng_listener (external)

vars == <<sock, fut, work, dialer, listen, listener>>

TypeOK ==
  /\ sock \in {"open", "dropped"}
  /\ fut \in [Dials -> {"none", "awaiting", "ok", "err", "dropped"}]
  /\ work \in [Dials -> {"none", "queued", "running", "ok", "err", "panicked"}]
  /\ dialer \in [Dials -> {"none", "created", "started", "closed"}]
  /\ listen \in [Listens -> {"none", "ok", "err"}]
  /\ listener \in [Listens -> {"none", "created", "started", "closed"}]

Init ==
  /\ sock = "open"
  /\ fut = [d \in Dials |-> "none"]
  /\ work = [d \in Dials |-> "none"]
  /\ dialer = [d \in Dials |-> "none"]
  /\ listen = [l \in Listens |-> "none"]
  /\ listener = [l \in Listens |-> "none"]

Set(f, x, v) == [f EXCEPT ![x] = v]

-----------------------------------------------------------------------------
(* dial: add_dialer_to_socket.  Faulty... are seeded faults.               *)

\* nng_dialer_create and pre_start succeed, and the worker is spawned.
Dial(d) ==
  /\ sock = "open" /\ fut[d] = "none"
  /\ dialer' = Set(dialer, d, "created")
  /\ work' = Set(work, d, "queued")
  /\ fut' = Set(fut, d, "awaiting")
  /\ UNCHANGED <<sock, listen, listener>>

\* nng_dialer_create fails, or pre_start does and the dialer is closed.
DialRefused(d) ==
  /\ sock = "open" /\ fut[d] = "none"
  /\ dialer' \in {dialer, Set(dialer, d, "closed")}
  /\ fut' = Set(fut, d, "err")
  /\ UNCHANGED <<sock, work, listen, listener>>

\* The worker calls nng_dialer_start.
RunWorker(d) ==
  /\ work[d] = "queued"
  /\ work' = Set(work, d, IF dialer[d] = "started" THEN "unreachable"
                          ELSE "running")
  /\ UNCHANGED <<sock, fut, dialer, listen, listener>>

\* The runtime shuts down before the worker has run (external).
WorkerAborted(d) ==
  /\ work[d] = "queued"
  /\ work' = Set(work, d, "panicked")
  /\ UNCHANGED <<sock, fut, dialer, listen, listener>>

(***************************************************************************)
(* nng_dialer_start returns (NNG external): connected, refused, or, on a   *)
(* dialer that was closed meanwhile, ECANCELED, ECLOSED or ESTOPPED.  The  *)
(* worker panics on ENOMEM.                                                *)
(***************************************************************************)
WorkerEnds(d) ==
  /\ work[d] = "running"
  /\ \/ /\ dialer[d] = "created"
        /\ dialer' = Set(dialer, d, "started")
        /\ work' = Set(work, d, "ok")
     \/ /\ \E r \in {"err", "panicked"} : work' = Set(work, d, r)
        /\ UNCHANGED dialer
  /\ UNCHANGED <<sock, fut, listen, listener>>

FaultyClose(d) == UNCHANGED dialer

\* "if we failed to start, make sure the dialer is properly closed"
CloseDialer(d) == dialer' = Set(dialer, d, "closed")

\* The future is polled once its worker is done.
DialReturns(d) ==
  /\ fut[d] = "awaiting"
  /\ \/ /\ work[d] = "ok"
        /\ fut' = Set(fut, d, "ok")
        /\ UNCHANGED dialer
     \/ /\ work[d] \in {"err", "panicked"}
        /\ CloseDialer(d)
        /\ fut' = Set(fut, d, "err")
  /\ UNCHANGED <<sock, work, listen, listener>>

\* The future is dropped: the JoinHandle goes, the worker stays.
DropFuture(d) ==
  /\ fut[d] = "awaiting"
  /\ fut' = Set(fut, d, "dropped")
  /\ UNCHANGED <<sock, work, dialer, listen, listener>>

-----------------------------------------------------------------------------
(* listen: add_listener_to_socket.                                         *)

\* create fails; pre_start fails and the listener is closed; start fails
\* (EADDRINUSE, EPERM) and the listener is left as it is; or all succeed.
Listen(l) ==
  /\ sock = "open" /\ listen[l] = "none"
  /\ \/ /\ listener' \in {Set(listener, l, s) : s \in {"none", "closed", "created"}}
        /\ listen' = Set(listen, l, "err")
     \/ /\ listener' = Set(listener, l, "started")
        /\ listen' = Set(listen, l, "ok")
  /\ UNCHANGED <<sock, fut, work, dialer>>

-----------------------------------------------------------------------------
\* Only the future's own borrow keeps the socket: a worker has none.
Unborrowed == \A d \in Dials : fut[d] # "awaiting"

\* f with every endpoint of the socket closed.
Closed(f) == [x \in DOMAIN f |-> IF f[x] = "none" THEN "none" ELSE "closed"]

FaultyDropSocket ==
  /\ sock = "open" /\ Unborrowed
  /\ sock' = "dropped"
  /\ UNCHANGED <<fut, work, dialer, listen, listener>>

\* Drop of the Socket: nng_socket_close closes its dialers and listeners.
DropSocket ==
  /\ sock = "open"
  /\ Unborrowed
  /\ sock' = "dropped"
  /\ dialer' = Closed(dialer)
  /\ listener' = Closed(listener)
  /\ UNCHANGED <<fut, work, listen>>

DialStep(d) ==
  \/ Dial(d) \/ DialRefused(d) \/ RunWorker(d) \/ WorkerAborted(d)
  \/ WorkerEnds(d) \/ DialReturns(d) \/ DropFuture(d)

Next ==
  \/ \E d \in Dials : DialStep(d)
  \/ \E l \in Listens : Listen(l)
  \/ DropSocket

Spec == Init /\ [][Next]_vars

\* tokio runs queued workers and polls woken futures, and NNG ends the
\* nng_dialer_start of a dialer that is closed.
Fairness ==
  \A d \in Dials :
    /\ WF_vars(RunWorker(d))
    /\ WF_vars(dialer[d] = "closed" /\ WorkerEnds(d))
    /\ WF_vars(DialReturns(d))

FairSpec == Spec /\ Fairness

-----------------------------------------------------------------------------
(* Properties.                                                             *)

(***************************************************************************)
(* What dial returns is true: Ok only for a dialer that is started and     *)
(* stays so until the socket is dropped, an error only when no dialer is   *)
(* left that could connect later ("if we failed to start, make sure the    *)
(* dialer is properly closed").                                            *)
(***************************************************************************)
DialResultHolds ==
  \A d \in Dials :
    /\ fut[d] = "ok" /\ sock = "open" => dialer[d] = "started"
    /\ fut[d] = "err" => dialer[d] \in {"none", "closed"}

(***************************************************************************)
(* Nothing survives the socket: once it is dropped its endpoints are       *)
(* closed, those of cancelled dials and of failed listens included, and a  *)
(* detached worker that gets to run afterwards starts none.                *)
(***************************************************************************)
NothingSurvives ==
  sock = "dropped" =>
    /\ \A d \in Dials : dialer[d] \in {"none", "closed"}
    /\ \A l \in Listens : listener[l] \in {"none", "closed"}

(***************************************************************************)
(* A worker detached by a cancelled dial does not outlive the socket for   *)
(* ever: dropping the socket ends the nng_dialer_start it is parked in.    *)
(***************************************************************************)
WorkersEnd ==
  sock = "dropped" ~> \A d \in Dials : work[d] \notin {"queued", "running"}
=============================================================================
