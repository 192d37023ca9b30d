----------------------------- MODULE PipeNotify -----------------------------
(***************************************************************************)
(* The pipe event callback of one nng::Socket (nng/src/socket.rs).  Inner  *)
(* keeps the closure behind an RwLock; threads replace it in pipe_notify,  *)
(* NNG's threads call it through the trampoline with a bare pointer to     *)
(* Inner, and dropping the socket frees both.                              *)
(***************************************************************************)
EXTENDS Naturals, Sequences

CONSTANTS Callers,   \* application threads that call pipe_notify
          Pipes,     \* connections of the socket
          MaxGen     \* bound: calls of pipe_notify

ASSUME MaxGenAssumption == MaxGen \in Nat

VARIABLES
  inner,     \* "live", "closing" (inside nng_socket_close), "freed"
  closure,   \* content of the RwLock: a closure's number, 0 for None
  gen,       \* closures made so far
  dropped,   \* closures that have been dropped
  pc,        \* each thread: "idle", "lock", "hook"
  mine,      \* the closure a thread is registering
  todo,      \* events it has not hooked yet
  hooked,    \* events for which NNG has the trampoline (external)
  stage,     \* each pipe's last event (external), "new" before the first
  call,      \* its trampoline: "none", "entered", "running"
  uses,     \* the closure the trampoline runs
  returned,  \* some pipe_notify has returned
  missed     \* an event came after that and was not passed on

thread == <<pc, mine, todo>>
tramp == <<call, uses>>
notifyVars == <<inner, closure, gen, dropped, thread, hooked, stage, tramp,
          returned, missed>>

\* NNG_PIPE_EV_ADD_PRE, NNG_PIPE_EV_ADD_POST and NNG_PIPE_EV_REM_POST.
EventList == <<"pre", "post", "rem">>

Events == {"pre", "post", "rem"}

NotifyTypeOK ==
  /\ inner \in {"live", "closing", "freed"}
  /\ gen \in 0..MaxGen /\ closure \in 0..gen /\ dropped \subseteq 1..gen
  /\ pc \in [Callers -> {"idle", "lock", "hook"}]
  /\ mine \in [Callers -> 0..gen]
  /\ todo \in [Callers -> {SubSeq(EventList, i, 3) : i \in 1..4}]
  /\ hooked \subseteq Events
  /\ stage \in [Pipes -> {"new"} \cup Events]
  /\ call \in [Pipes -> {"none", "entered", "running"}]
  /\ uses \in [Pipes -> 0..gen]
  /\ returned \in BOOLEAN /\ missed \in BOOLEAN

NotifyInit ==
  /\ inner = "live" /\ closure = 0 /\ gen = 0 /\ dropped = {}
  /\ pc = [t \in Callers |-> "idle"] /\ mine = [t \in Callers |-> 0]
  /\ todo = [t \in Callers |-> <<>>] /\ hooked = {}
  /\ stage = [p \in Pipes |-> "new"]
  /\ call = [p \in Pipes |-> "none"] /\ uses = [p \in Pipes |-> 0]
  /\ returned = FALSE /\ missed = FALSE

Set(f, x, v) == [f EXCEPT ![x] = v]

-----------------------------------------------------------------------------
(* pipe_notify.  Faulty... are seeded faults.                              *)

Register(t) ==
  /\ inner = "live" /\ pc[t] = "idle" /\ gen < MaxGen
  /\ gen' = gen + 1
  /\ mine' = Set(mine, t, gen + 1)
  /\ pc' = Set(pc, t, "lock")
  /\ UNCHANGED <<inner, closure, dropped, todo, hooked, stage, tramp,
                 returned, missed>>

FaultyWritable == TRUE

\* write(): no trampoline holds the lock for reading.
Writable == \A p \in Pipes : call[p] # "running"

FaultyHooks == SubSeq(EventList, 2, 3)

\* What pipe_notify tells NNG of: every event, one call each, in order.
Hooks == EventList

\* The stored closure, if there is one.
Stored == {closure} \ {0}

\* The new closure replaces, and drops, the old one.
Replace(t) ==
  /\ pc[t] = "lock" /\ Writable
  /\ closure' = mine[t]
  /\ dropped' = dropped \cup Stored
  /\ pc' = Set(pc, t, "hook") /\ todo' = Set(todo, t, Hooks)
  /\ UNCHANGED <<inner, gen, mine, hooked, stage, tramp, returned, missed>>

\* nng_pipe_notify for one event; after the last, pipe_notify returns.
Hook(t) ==
  /\ pc[t] = "hook"
  /\ hooked' = hooked \cup {Head(todo[t])}
  /\ todo' = Set(todo, t, Tail(todo[t]))
  /\ pc' = IF todo'[t] = <<>> THEN Set(pc, t, "idle") ELSE pc
  /\ returned' = (returned \/ todo'[t] = <<>>)
  /\ UNCHANGED <<inner, closure, gen, dropped, mine, stage, tramp, missed>>

-----------------------------------------------------------------------------
(* The trampoline.                                                         *)

\* NNG reports the next event of a pipe (external).  A closing socket makes
\* no pipes, and a pipe may be closed before it was added.
Event(p, e) ==
  /\ call[p] = "none"
  /\ \/ e = "pre" /\ stage[p] = "new" /\ inner = "live"
     \/ e = "post" /\ stage[p] = "pre"
     \/ e = "rem" /\ stage[p] \in {"pre", "post"}
  /\ stage' = Set(stage, p, e)
  /\ call' = IF e \in hooked THEN Set(call, p, "entered") ELSE call
  /\ missed' = (missed \/ (returned /\ e \notin hooked))
  /\ UNCHANGED <<inner, closure, gen, dropped, thread, hooked, uses, returned>>

\* read(), and the callback is called.
Enter(p) ==
  /\ call[p] = "entered"
  /\ call' = Set(call, p, IF closure = 0 THEN "none" ELSE "running")
  /\ uses' = Set(uses, p, closure)
  /\ UNCHANGED <<inner, closure, gen, dropped, thread, hooked, stage,
                 returned, missed>>

FaultyRelease(p) == "running"

\* The state of the trampoline when the callback has returned.
Release(p) == "none"

Return(p) ==
  /\ call[p] = "running"
  /\ call' = Set(call, p, Release(p))
  /\ UNCHANGED <<inner, closure, gen, dropped, thread, hooked, stage, uses,
                 returned, missed>>

-----------------------------------------------------------------------------
(* Inner::drop.                                                            *)

\* The last reference goes, so no thread is inside pipe_notify.
DropInner ==
  /\ inner = "live"
  /\ \A t \in Callers : pc[t] = "idle"
  /\ inner' = "closing"
  /\ UNCHANGED <<closure, gen, dropped, thread, hooked, stage, tramp,
                 returned, missed>>

\* nng_socket_close returns once the pipes and their callbacks are gone.
Quiet == \A p \in Pipes : stage[p] \in {"new", "rem"} /\ call[p] = "none"

\* Inner is freed, and with it the closure.
FreeSocket ==
  /\ inner = "closing" /\ Quiet
  /\ inner' = "freed"
  /\ dropped' = dropped \cup Stored
  /\ UNCHANGED <<closure, gen, thread, hooked, stage, tramp, returned, missed>>

ThreadStep(t) == Register(t) \/ Replace(t) \/ Hook(t)

PipeStep(p) == (\E e \in Events : Event(p, e)) \/ Enter(p) \/ Return(p)

NotifyNext ==
  \/ \E t \in Callers : ThreadStep(t)
  \/ \E p \in Pipes : PipeStep(p)
  \/ DropInner \/ FreeSocket

NotifySpec == NotifyInit /\ [][NotifyNext]_notifyVars

\* Callers and callbacks run on, and closing removes every pipe.
NotifyFairness ==
  /\ \A t \in Callers : WF_notifyVars(Replace(t)) /\ WF_notifyVars(Hook(t))
  /\ \A p \in Pipes :
       /\ WF_notifyVars(Enter(p)) /\ WF_notifyVars(Return(p))
       /\ WF_notifyVars(inner = "closing" /\ Event(p, "rem"))
  /\ WF_notifyVars(FreeSocket)

NotifyFairSpec == NotifySpec /\ NotifyFairness

-----------------------------------------------------------------------------
(* Properties.                                                             *)

(***************************************************************************)
(* The trampoline never touches a freed Inner and never runs a closure     *)
(* that pipe_notify has replaced ("implicitly unregisters any previously   *)
(* registered") or Inner::drop has freed.                                  *)
(***************************************************************************)
ClosureAlive ==
  \A p \in Pipes :
    /\ call[p] # "none" => inner # "freed"
    /\ call[p] = "running" => uses[p] \notin dropped

(***************************************************************************)
(* Once a pipe_notify has returned every later event of every pipe is      *)
(* passed on, and to a closure, whatever else is registered meanwhile.     *)
(***************************************************************************)
NoEventMissed == ~missed /\ (returned => closure # 0)

(***************************************************************************)
(* pipe_notify returns, although trampolines hold the lock while they run  *)
(* callbacks, and the drop of the socket comes to an end.                  *)
(***************************************************************************)
RegisterReturns ==
  /\ \A t \in Callers : pc[t] = "lock" ~> pc[t] = "idle"
  /\ inner = "closing" ~> inner = "freed"
=============================================================================
