----------------------------- MODULE NngSocket -----------------------------
(***************************************************************************)
(* The life of the objects of the nng crate: sockets (nng/src/socket.rs),  *)
(* the contexts, dialers and listeners made from them (ctx.rs, dialer.rs,  *)
(* listener.rs), the handles that pipes give to endpoints (pipe.rs),       *)
(* devices (device.rs), and the library itself, which NNG keeps            *)
(* initialised while nng_init has been called more often than nng_fini.    *)
(* Any thread may take any step; the drop of a socket's Inner is two calls *)
(* into NNG, and other threads run between them.                           *)
(***************************************************************************)
EXTENDS Naturals, Sequences, FiniteSets

CONSTANTS Sockets,    \* Inner objects of nng::Socket
          Parts,      \* contexts, dialers and listeners
          MaxRefs,    \* bound: references to one Inner, or to a context
          MaxFailed   \* bound: Socket::new that fail

ASSUME BoundsAssumption == MaxRefs \in Nat \ {0} /\ MaxFailed \in Nat
ASSUME NamesAssumption == {"none", "closed"} \cap Sockets = {}

VARIABLES
  count,    \* nng_init calls not yet undone (external)
  failed,   \* Socket::new that returned an error
  params,   \* the guard returned by Params::init
  raw,      \* sockets made by RawSocket::new
  phase,    \* each Inner: "new", "live", "dropping" (after nng_fini), "gone"
  refs,     \* references to it
  open,     \* sockets that NNG holds open (external)
  closed,   \* sockets on which the application called Socket::close
  device,   \* sockets that a running forwarder or reflector still holds
  handle,   \* Rust handle of a part: "none", "builder", "context", "started",
            \* "unheld" for an endpoint that was started without one
  shared,   \* references to a context
  part      \* the part in NNG (external): "none", "closed", or its socket

library == <<count, failed, params>>
inners == <<raw, phase, refs, device>>
vars == <<library, inners, open, closed, handle, shared, part>>

\* The sockets whose Inner has not undone its nng_init yet.
Live == {s \in Sockets : phase[s] = "live"}

TypeOK ==
  /\ count \in Nat /\ failed \in 0..MaxFailed
  /\ params \in {"none", "held", "dropped"}
  /\ phase \in [Sockets -> {"new", "live", "dropping", "gone"}]
  /\ refs \in [Sockets -> 0..MaxRefs]
  /\ raw \subseteq Sockets /\ open \subseteq Sockets /\ closed \subseteq Sockets
  /\ device \in Seq(Sockets) /\ Len(device) <= 2
  /\ handle \in
       [Parts -> {"none", "builder", "context", "started", "unheld"}]
  /\ shared \in [Parts -> 0..MaxRefs]
  /\ part \in [Parts -> {"none", "closed"} \cup Sockets]
  /\ \A s \in Sockets : phase[s] = "live" <=> refs[s] > 0

Init ==
  /\ count = 0 /\ failed = 0 /\ params = "none"
  /\ phase = [s \in Sockets |-> "new"]
  /\ refs = [s \in Sockets |-> 0]
  /\ raw = {} /\ open = {} /\ closed = {} /\ device = <<>>
  /\ shared = [p \in Parts |-> 0]
  /\ handle = [p \in Parts |-> "none"]
  /\ part = [p \in Parts |-> "none"]

Set(f, x, v) == [f EXCEPT ![x] = v]

-----------------------------------------------------------------------------
(* NNG.  Faulty... are seeded faults.                                      *)

\* nng_socket_close of the sockets of S; ECLOSED where they are closed.
NngClose(S) ==
  /\ open' = open \ S
  /\ part' = [p \in Parts |-> IF part[p] \in S THEN "closed" ELSE part[p]]

\* nng_fini.  The last one releases the library and closes what is open.
NngFini ==
  /\ count' = IF count = 0 THEN 0 ELSE count - 1
  /\ IF count > 1 THEN UNCHANGED <<open, part>> ELSE NngClose(Sockets)

-----------------------------------------------------------------------------
(* The library and the sockets.                                            *)

\* Params::init, which returns Busy if the library is initialised.
ParamsInit ==
  /\ params = "none" /\ count = 0
  /\ params' = "held" /\ count' = 1
  /\ UNCHANGED <<failed, inners, open, closed, handle, shared, part>>

\* Drop of the guard.
DropParams ==
  /\ params = "held"
  /\ params' = "dropped"
  /\ NngFini
  /\ UNCHANGED <<failed, inners, closed, handle, shared>>

FaultySocketInit == UNCHANGED count

\* nng_init(NULL) never fails.
SocketInit == count' = count + 1

\* Socket::new.
NewSocket(s) ==
  /\ phase[s] = "new"
  /\ SocketInit
  /\ phase' = Set(phase, s, "live") /\ refs' = Set(refs, s, 1)
  /\ open' = open \cup {s}
  /\ UNCHANGED <<failed, params, raw, device, closed, handle, shared, part>>

\* Socket::new whose nng_..._open fails, after nng_init.
NewSocketFails ==
  /\ failed < MaxFailed
  /\ failed' = failed + 1 /\ count' = count + 1
  /\ UNCHANGED <<params, inners, open, closed, handle, shared, part>>

\* RawSocket::new, which needs an initialised library and does not call
\* nng_init.
NewRawSocket(s) ==
  /\ phase[s] = "new" /\ count > 0
  /\ phase' = Set(phase, s, "live") /\ refs' = Set(refs, s, 1)
  /\ raw' = raw \cup {s} /\ open' = open \cup {s}
  /\ UNCHANGED <<library, device, closed, handle, shared, part>>

CloneSocket(s) ==
  /\ phase[s] = "live" /\ refs[s] < MaxRefs
  /\ refs' = Set(refs, s, refs[s] + 1)
  /\ UNCHANGED <<library, raw, phase, device, open, closed, handle, shared, part>>

\* The references of a device, which no one else can drop.
Lent(s) == Cardinality({i \in DOMAIN device : device[i] = s})

\* Whether dropping a reference to s drops the Inner.
IsLast(s) == refs[s] = 1

\* A reference goes; with the last one, Inner::drop calls nng_fini.
Release(s) ==
  /\ refs' = Set(refs, s, refs[s] - 1)
  /\ IF IsLast(s)
     THEN phase' = Set(phase, s, "dropping") /\ NngFini
     ELSE UNCHANGED <<count, phase, open, part>>
  /\ UNCHANGED <<failed, params, raw, closed, handle, shared>>

\* Drop of a Socket or RawSocket.
DropSocket(s) ==
  /\ phase[s] = "live" /\ refs[s] > Lent(s)
  /\ Release(s)
  /\ UNCHANGED device

\* The rest of Inner::drop: close.
DropClose(s) ==
  /\ phase[s] = "dropping"
  /\ phase' = Set(phase, s, "gone")
  /\ NngClose({s})
  /\ UNCHANGED <<library, raw, refs, device, closed, handle, shared>>

\* Socket::close.
Close(s) ==
  /\ phase[s] = "live" /\ s \notin closed
  /\ closed' = closed \cup {s}
  /\ NngClose({s})
  /\ UNCHANGED <<library, inners, handle, shared>>

\* RawSocket::try_from, into_raw: the Socket is taken, and dropped unless NNG
\* says that it is raw, which it does of an open one only.
TryFrom(s) ==
  /\ phase[s] = "live" /\ s \notin raw \cap open
  /\ DropSocket(s)

-----------------------------------------------------------------------------
(* Devices.                                                                *)

\* forwarder(s1, s2), reflector(s1): the sockets go into the call.
StartDevice(d) ==
  /\ device = <<>>
  /\ \A i \in DOMAIN d : d[i] \in raw /\ phase[d[i]] = "live"
  /\ device' = d
  /\ UNCHANGED <<library, raw, phase, refs, open, closed, handle, shared, part>>

\* nng_device returns an error, as when a socket is closed or two do not fit:
\* s1 is dropped, then s2, and the function returns the error.
DropDevice ==
  /\ device # <<>>
  /\ Release(Head(device))
  /\ device' = Tail(device)

-----------------------------------------------------------------------------
(* Contexts, dialers and listeners.                                        *)

\* A part is made on an open socket, behind a handle of kind h.
NewPart(p, s, h) ==
  /\ phase[s] = "live" /\ s \in open
  /\ handle[p] = "none" /\ part[p] = "none"
  /\ handle' = Set(handle, p, h) /\ part' = Set(part, p, s)
  /\ UNCHANGED <<library, inners, open, closed>>

\* Context::new; NNG has no contexts for raw sockets.
NewContext(p, s) ==
  /\ s \notin raw
  /\ NewPart(p, s, "context")
  /\ shared' = Set(shared, p, 1)

\* DialerBuilder::new and ListenerBuilder::new.
NewBuilder(p, s) == NewPart(p, s, "builder") /\ UNCHANGED shared

\* Dialer::new and Listener::new: made and started.
NewStarted(p, s) == NewPart(p, s, "started") /\ UNCHANGED shared

\* Socket::dial, dial_async and listen: NNG is not asked for the handle.
Dial(p, s) == NewPart(p, s, "unheld") /\ UNCHANGED shared

\* Pipe::dialer, Pipe::listener, in a callback or from a message.
FromPipe(p) ==
  /\ handle[p] = "unheld" /\ part[p] \in Sockets
  /\ handle' = Set(handle, p, "started")
  /\ UNCHANGED <<library, inners, open, closed, shared, part>>

\* nng_dialer_start returns 0: not for an endpoint that is closed.
StartOk(p) == part[p] \in Sockets

\* start of a builder; if it fails the builder is handed back.
Start(p) ==
  /\ handle[p] = "builder" /\ StartOk(p)
  /\ handle' = Set(handle, p, "started")
  /\ UNCHANGED <<library, inners, open, closed, shared, part>>

FaultyDropPart(p) == UNCHANGED part

\* nng_ctx_close, nng_dialer_close, nng_listener_close.
DropPart(p) == part' = Set(part, p, "closed")

\* Drop of a DialerBuilder or ListenerBuilder.
DropBuilder(p) ==
  /\ handle[p] = "builder"
  /\ handle' = Set(handle, p, "none")
  /\ DropPart(p)
  /\ UNCHANGED <<library, inners, open, closed, shared>>

CloneContext(p) ==
  /\ handle[p] = "context" /\ shared[p] < MaxRefs
  /\ shared' = Set(shared, p, shared[p] + 1)
  /\ UNCHANGED <<library, inners, open, closed, handle, part>>

\* Drop of a reference to a context; the last one closes it.
DropContext(p) ==
  /\ handle[p] = "context"
  /\ shared' = Set(shared, p, shared[p] - 1)
  /\ IF shared[p] = 1
     THEN handle' = Set(handle, p, "none") /\ DropPart(p)
     ELSE UNCHANGED <<handle, part>>
  /\ UNCHANGED <<library, inners, open, closed>>

\* Context::close, Dialer::close, Listener::close.
ClosePart(p) ==
  /\ handle[p] \in {"context", "started"}
  /\ part[p] # "closed"
  /\ DropPart(p)
  /\ UNCHANGED <<library, inners, open, closed, handle, shared>>

SocketStep(s) ==
  \/ NewSocket(s) \/ NewRawSocket(s) \/ CloneSocket(s) \/ DropSocket(s)
  \/ DropClose(s) \/ Close(s) \/ TryFrom(s)

PartStep(p) ==
  \/ \E s \in Sockets :
       NewContext(p, s) \/ NewBuilder(p, s) \/ NewStarted(p, s) \/ Dial(p, s)
  \/ FromPipe(p) \/ Start(p) \/ DropBuilder(p)
  \/ CloneContext(p) \/ DropContext(p) \/ ClosePart(p)

DeviceStep ==
  \/ \E s, t \in Sockets : s # t /\ StartDevice(<<s, t>>)
  \/ \E s \in Sockets : StartDevice(<<s>>)
  \/ DropDevice

Next ==
  \/ ParamsInit \/ DropParams \/ NewSocketFails
  \/ \E s \in Sockets : SocketStep(s)
  \/ \E p \in Parts : PartStep(p)
  \/ DeviceStep

Spec == Init /\ [][Next]_vars

-----------------------------------------------------------------------------
(* Properties.                                                             *)

\* The Inner of a raw socket has been dropped, and has called nng_fini.
RawDropped == \E s \in raw : phase[s] \in {"dropping", "gone"}

(***************************************************************************)
(* A socket that the application holds and has not closed is open, however *)
(* other threads drop theirs, close theirs or release the library, as long *)
(* as they drop no raw socket.                                             *)
(***************************************************************************)
LiveSocketUsable ==
  ~RawDropped => \A s \in Live \ raw : s \in open \/ s \in closed

(***************************************************************************)
(* "This is paired with an init when the socket was created" (Inner::drop):*)
(* the nng_fini of a drop undoes that socket's own nng_init, so no other   *)
(* Socket that is held and not closed loses the library.                   *)
(***************************************************************************)
FiniPaired == Live \ raw \subseteq open \cup closed

(***************************************************************************)
(* A context, or an endpoint that was not started, is open in NNG only     *)
(* while its handle is held; nothing is open on a closed socket.           *)
(***************************************************************************)
NoStrayPart ==
  \A p \in Parts :
    part[p] \in Sockets => part[p] \in open /\ handle[p] # "none"
=============================================================================
