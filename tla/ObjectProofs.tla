---------------------------- MODULE ObjectProofs ----------------------------
(***************************************************************************)
(* Theorems about the objects of the nng crate, for any number of sockets, *)
(* parts and references.  The argument counts: as long as no raw socket    *)
(* has been dropped, NNG's count of nng_init calls is at least the number  *)
(* of Sockets that are held, and one more while the guard of Params::init  *)
(* is.  So the nng_fini that releases the library is the last of them, and *)
(* finds no Socket that anyone holds.  Then theorems about the Message of  *)
(* nng, for any set of pointers and variables: an nng_msg that is          *)
(* allocated has one owner, a variable, the call that sends it, or NNG.    *)
(* Last the Message of anng, its read cursor and the buffer its body is    *)
(* in, for any number of messages and bytes.                               *)
(***************************************************************************)
EXTENDS NngSocket, NngMessage, Message, FiniteSetTheorems, SequenceTheorems,
        WellFoundedInduction, TLAPS

\* The Sockets that are held, and the guard's share of the count.
Counted == Live \ raw
Guard   == IF params = "held" THEN 1 ELSE 0

(***************************************************************************)
(* The library.  Sockets may be infinite; those made so far are not.       *)
(***************************************************************************)
LibInv ==
  ~RawDropped =>
    /\ IsFiniteSet(Counted)
    /\ count >= Cardinality(Counted) + Guard
    /\ Counted \subseteq open \cup closed

(***************************************************************************)
(* A running device holds different raw sockets, none of them dropped.     *)
(***************************************************************************)
DeviceInv ==
  \A i \in 1..Len(device) :
    /\ device[i] \in raw /\ phase[device[i]] = "live"
    /\ \A j \in 1..Len(device) : device[i] = device[j] => i = j

\* A context has a reference as long as its handle is there.
ContextInv == \A p \in Parts : handle[p] = "context" => shared[p] > 0

IndInv == TypeOK /\ LibInv /\ DeviceInv /\ ContextInv /\ NoStrayPart

-----------------------------------------------------------------------------
\* Nothing has been made.
LEMMA InitInd == Init => IndInv
<1> SUFFICES ASSUME Init
             PROVE  IndInv
  OBVIOUS
<1>1. TypeOK
  BY BoundsAssumption DEF Init, TypeOK
<1>2. LibInv
  <2>1. Counted = {} /\ Guard = 0 /\ count = 0
    BY DEF Init, Counted, Live, Guard
  <2>2. QED
    BY <2>1, FS_EmptySet DEF LibInv
<1>3. DeviceInv /\ ContextInv
  BY DEF Init, DeviceInv, ContextInv
<1>4. NoStrayPart
  BY NamesAssumption DEF Init, NoStrayPart
<1>5. QED
  BY <1>1, <1>2, <1>3, <1>4 DEF IndInv

\* What touches neither the library, the Inners nor the open sockets.
LEMMA LibKept ==
  ASSUME LibInv, UNCHANGED <<count, params, raw, phase>>,
         open \cup closed \subseteq open' \cup closed'
  PROVE  LibInv'
<1>1. Counted' = Counted /\ Guard' = Guard /\ RawDropped' = RawDropped
  BY DEF Counted, Live, Guard, RawDropped
<1>2. QED
  BY <1>1 DEF LibInv

\* nng_fini or nng_socket_close never leaves a part on a closed socket.
LEMMA NoStrayKept ==
  ASSUME TypeOK, NoStrayPart, UNCHANGED handle,
         NngFini \/ (\E S \in SUBSET Sockets : NngClose(S))
  PROVE  /\ NoStrayPart'
         /\ open' \subseteq open
         /\ part' \in [Parts -> {"none", "closed"} \cup Sockets]
<1>1. ASSUME NEW S \in SUBSET Sockets, NngClose(S)
      PROVE  /\ NoStrayPart'
             /\ open' \subseteq open
             /\ part' \in [Parts -> {"none", "closed"} \cup Sockets]
  BY <1>1, NamesAssumption DEF TypeOK, NoStrayPart, NngClose
<1>2. CASE NngFini /\ count > 1
  BY <1>2 DEF TypeOK, NoStrayPart, NngFini
<1>3. CASE NngFini /\ ~(count > 1)
  BY <1>1, <1>3 DEF NngFini
<1>4. QED
  BY <1>1, <1>2, <1>3

(***************************************************************************)
(* The nng_fini that goes with the drop of a Socket, or of the guard,      *)
(* takes one from a count that has it, and releases the library only when  *)
(* nothing else is counted.                                                *)
(***************************************************************************)
LEMMA FiniKeepsLib ==
  ASSUME TypeOK, LibInv, NngFini, UNCHANGED <<raw, closed>>,
         RawDropped => RawDropped',
         ~RawDropped' =>
           \/ \E s \in Counted : Counted' = Counted \ {s} /\ Guard' = Guard
           \/ Counted' = Counted /\ Guard = 1 /\ Guard' = 0
  PROVE  LibInv'
<1> SUFFICES ASSUME ~RawDropped'
             PROVE  /\ IsFiniteSet(Counted')
                    /\ count' >= Cardinality(Counted') + Guard'
                    /\ Counted' \subseteq open' \cup closed'
  BY DEF LibInv
<1>1. /\ IsFiniteSet(Counted) /\ Cardinality(Counted) \in Nat
      /\ count >= Cardinality(Counted) + Guard
      /\ Counted \subseteq open \cup closed
  BY FS_CardinalityType DEF LibInv
<1>2. /\ IsFiniteSet(Counted') /\ Counted' \subseteq Counted
      /\ Guard \in Nat /\ Guard' \in Nat
      /\ Cardinality(Counted') + Guard' = Cardinality(Counted) + Guard - 1
  <2>1. Guard \in Nat /\ Guard' \in Nat
    BY DEF Guard
  <2>2. CASE \E s \in Counted : Counted' = Counted \ {s} /\ Guard' = Guard
    <3>1. PICK s \in Counted : Counted' = Counted \ {s} /\ Guard' = Guard
      BY <2>2
    <3>2. /\ IsFiniteSet(Counted \ {s})
          /\ Cardinality(Counted \ {s}) = Cardinality(Counted) - 1
      BY <1>1, FS_RemoveElement
    <3>3. QED
      BY <1>1, <2>1, <3>1, <3>2
  <2>3. CASE Counted' = Counted /\ Guard = 1 /\ Guard' = 0
    BY <1>1, <2>3
  <2>4. QED
    BY <2>2, <2>3
<1>3. Cardinality(Counted') \in Nat
  BY <1>2, FS_CardinalityType
<1>4. count' = count - 1 /\ count' >= Cardinality(Counted') + Guard'
  BY <1>1, <1>2, <1>3 DEF NngFini, TypeOK
<1>5. Counted' \subseteq open' \cup closed'
  <2>1. CASE count > 1
    BY <1>1, <1>2, <2>1 DEF NngFini
  <2>2. CASE ~(count > 1)
    <3>1. Cardinality(Counted') = 0
      BY <1>2, <1>3, <1>4, <2>2 DEF TypeOK
    <3>2. QED
      BY <1>2, <3>1, FS_EmptySet
  <2>3. QED
    BY <2>1, <2>2
<1>6. QED
  BY <1>2, <1>4, <1>5

\* What the drop of a reference keeps, by whomever, if no device is left
\* with a socket whose Inner is dropped.
LEMMA ReleaseKeeps ==
  ASSUME IndInv, NEW s \in Sockets, phase[s] = "live", Release(s),
         device' \in Seq(Sockets), Len(device') <= 2,
         \A i \in 1..Len(device') :
           /\ device'[i] \in raw /\ phase[device'[i]] = "live"
           /\ refs[s] = 1 => device'[i] # s
           /\ \A j \in 1..Len(device') : device'[i] = device'[j] => i = j
  PROVE  IndInv'
<1>1. CASE ~IsLast(s)
  <2>1. refs[s] \in 0..MaxRefs /\ refs[s] > 1
    BY <1>1 DEF IndInv, TypeOK, IsLast
  <2>2. TypeOK'
    BY <1>1, <2>1, BoundsAssumption DEF IndInv, TypeOK, Release, Set
  <2>3. LibInv'
    BY <1>1, LibKept DEF IndInv, Release
  <2>4. DeviceInv' /\ ContextInv' /\ NoStrayPart'
    BY <1>1 DEF IndInv, Release, DeviceInv, ContextInv, NoStrayPart
  <2>5. QED
    BY <2>2, <2>3, <2>4 DEF IndInv
<1>2. CASE IsLast(s)
  <2>1. /\ NngFini /\ phase' = [phase EXCEPT ![s] = "dropping"] /\ raw' = raw
        /\ refs' = [refs EXCEPT ![s] = 0] /\ refs[s] = 1
        /\ UNCHANGED <<failed, params, raw, closed, handle, shared>>
    BY <1>2 DEF Release, IsLast, Set
  <2>2. /\ NoStrayPart'
        /\ open' \subseteq open
        /\ part' \in [Parts -> {"none", "closed"} \cup Sockets]
    BY <2>1, NoStrayKept DEF IndInv
  <2>3. TypeOK'
    <3>1. count' \in Nat
      BY <2>1 DEF IndInv, TypeOK, NngFini
    <3>2. QED
      BY <2>1, <2>2, <3>1, BoundsAssumption DEF IndInv, TypeOK
  <2>4. LibInv'
    <3>1. RawDropped => RawDropped'
      BY <2>1 DEF IndInv, TypeOK, RawDropped
    <3>2. ASSUME ~RawDropped'
          PROVE  s \in Counted /\ Counted' = Counted \ {s} /\ Guard' = Guard
      <4>1. s \notin raw
        BY <2>1, <3>2 DEF IndInv, TypeOK, RawDropped
      <4>2. QED
        BY <2>1, <4>1 DEF IndInv, TypeOK, Counted, Live, Guard
    <3>3. QED
      BY <2>1, <3>1, <3>2, FiniKeepsLib DEF IndInv
  <2>5. DeviceInv' /\ ContextInv'
    BY <2>1 DEF IndInv, TypeOK, DeviceInv, ContextInv
  <2>6. QED
    BY <2>2, <2>3, <2>4, <2>5 DEF IndInv
<1>3. QED
  BY <1>1, <1>2

\* What a step that changes only parts and their handles keeps.
LEMMA PartKeeps ==
  ASSUME IndInv, UNCHANGED <<library, inners, open, closed>>,
         handle' \in
           [Parts -> {"none", "builder", "context", "started", "unheld"}],
         shared' \in [Parts -> 0..MaxRefs],
         part' \in [Parts -> {"none", "closed"} \cup Sockets],
         ContextInv', NoStrayPart'
  PROVE  IndInv'
<1>1. TypeOK'
  BY DEF IndInv, TypeOK, library, inners
<1>2. LibInv'
  BY LibKept DEF IndInv, library, inners
<1>3. DeviceInv'
  BY DEF IndInv, DeviceInv, inners
<1>4. QED
  BY <1>1, <1>2, <1>3 DEF IndInv

\* A part is made.
LEMMA NewPartKeeps ==
  ASSUME IndInv, NEW p \in Parts, NEW s \in Sockets,
         NEW h \in {"builder", "context", "started", "unheld"},
         NewPart(p, s, h),
         \/ h # "context" /\ UNCHANGED shared
         \/ shared' = Set(shared, p, 1)
  PROVE  IndInv'
<1>1. shared' \in [Parts -> 0..MaxRefs] /\ ContextInv'
  BY BoundsAssumption DEF IndInv, TypeOK, ContextInv, NewPart, Set
<1>2. NoStrayPart'
  BY DEF IndInv, TypeOK, NoStrayPart, NewPart, Set
<1>3. QED
  BY <1>1, <1>2, PartKeeps DEF IndInv, TypeOK, NewPart, Set

\* The steps of the library.
LEMMA LibraryStep ==
  ASSUME IndInv, ParamsInit \/ DropParams \/ NewSocketFails
  PROVE  IndInv'
<1>1. CASE ParamsInit
  <2>1. TypeOK' /\ DeviceInv' /\ ContextInv' /\ NoStrayPart'
    BY <1>1 DEF IndInv, TypeOK, DeviceInv, ContextInv, NoStrayPart, ParamsInit,
                inners
  <2>2. LibInv'
    <3>1. /\ Counted' = Counted /\ Guard = 0 /\ Guard' = 1
          /\ RawDropped' = RawDropped /\ count = 0 /\ count' = 1
          /\ UNCHANGED <<open, closed>>
      BY <1>1 DEF ParamsInit, inners, Counted, Live, Guard, RawDropped
    <3>2. IsFiniteSet(Counted) => Cardinality(Counted) \in Nat
      BY FS_CardinalityType
    <3>3. QED
      BY <3>1, <3>2 DEF IndInv, LibInv
  <2>3. QED
    BY <2>1, <2>2 DEF IndInv
<1>2. CASE DropParams
  <2>1. /\ NoStrayPart'
        /\ open' \subseteq open
        /\ part' \in [Parts -> {"none", "closed"} \cup Sockets]
    BY <1>2, NoStrayKept DEF IndInv, DropParams
  <2>2. TypeOK'
    <3>1. count' \in Nat
      BY <1>2 DEF IndInv, TypeOK, DropParams, NngFini
    <3>2. QED
      BY <1>2, <2>1, <3>1 DEF IndInv, TypeOK, DropParams, inners
  <2>3. LibInv'
    <3>1. /\ Counted' = Counted /\ Guard = 1 /\ Guard' = 0
          /\ RawDropped' = RawDropped
      BY <1>2 DEF DropParams, inners, Counted, Live, Guard, RawDropped
    <3>2. QED
      BY <1>2, <3>1, FiniKeepsLib DEF IndInv, DropParams, inners
  <2>4. DeviceInv' /\ ContextInv'
    BY <1>2 DEF IndInv, DeviceInv, ContextInv, DropParams, inners
  <2>5. QED
    BY <2>1, <2>2, <2>3, <2>4 DEF IndInv
<1>3. CASE NewSocketFails
  <2>1. TypeOK' /\ DeviceInv' /\ ContextInv' /\ NoStrayPart'
    BY <1>3, BoundsAssumption
    DEF IndInv, TypeOK, DeviceInv, ContextInv, NoStrayPart, NewSocketFails,
        inners
  <2>2. LibInv'
    <3>1. /\ Counted' = Counted /\ Guard' = Guard /\ Guard \in Nat
          /\ RawDropped' = RawDropped /\ count \in Nat /\ count' = count + 1
          /\ UNCHANGED <<open, closed>>
      BY <1>3 DEF IndInv, TypeOK, NewSocketFails, inners, Counted, Live, Guard,
                  RawDropped
    <3>2. IsFiniteSet(Counted) => Cardinality(Counted) \in Nat
      BY FS_CardinalityType
    <3>3. QED
      BY <3>1, <3>2 DEF IndInv, LibInv
  <2>3. QED
    BY <2>1, <2>2 DEF IndInv
<1>4. QED
  BY <1>1, <1>2, <1>3

\* The steps of a socket and its references.
LEMMA SocketStepInd ==
  ASSUME IndInv, NEW s \in Sockets, SocketStep(s)
  PROVE  IndInv'
<1>1. CASE NewSocket(s)
  <2>1. TypeOK'
    BY <1>1, BoundsAssumption DEF IndInv, TypeOK, NewSocket, SocketInit, Set
  <2>2. LibInv'
    <3>1. /\ RawDropped' => RawDropped
          /\ RawDropped => RawDropped'
      BY <1>1 DEF IndInv, TypeOK, NewSocket, Set, RawDropped
    <3>2. /\ Counted' \in {Counted, Counted \cup {s}} /\ s \notin Counted
          /\ Guard' = Guard /\ Guard \in Nat
          /\ count \in Nat /\ count' = count + 1
          /\ open' = open \cup {s} /\ closed' = closed
      BY <1>1 DEF IndInv, TypeOK, NewSocket, SocketInit, Set, Counted, Live,
                  Guard
    <3>3. ASSUME IsFiniteSet(Counted)
          PROVE  /\ IsFiniteSet(Counted')
                 /\ Cardinality(Counted) \in Nat
                 /\ Cardinality(Counted') \in
                      {Cardinality(Counted), Cardinality(Counted) + 1}
      BY <3>2, <3>3, FS_CardinalityType, FS_AddElement
    <3>4. QED
      BY <3>1, <3>2, <3>3 DEF IndInv, LibInv
  <2>3. DeviceInv' /\ ContextInv' /\ NoStrayPart'
    BY <1>1 DEF IndInv, TypeOK, DeviceInv, ContextInv, NoStrayPart, NewSocket,
                Set
  <2>4. QED
    BY <2>1, <2>2, <2>3 DEF IndInv
<1>2. CASE NewRawSocket(s)
  <2>1. TypeOK'
    BY <1>2, BoundsAssumption DEF IndInv, TypeOK, NewRawSocket, Set, library
  <2>2. LibInv'
    <3>1. /\ RawDropped => RawDropped'
          /\ Counted' \subseteq Counted
      BY <1>2 DEF IndInv, TypeOK, NewRawSocket, Set, RawDropped, Counted, Live
    <3>2. Guard' = Guard /\ Guard \in Nat /\ count \in Nat /\ count' = count
      BY <1>2 DEF IndInv, TypeOK, NewRawSocket, library, Guard
    <3>3. open \subseteq open' /\ closed' = closed
      BY <1>2 DEF NewRawSocket
    <3>4. ASSUME IsFiniteSet(Counted)
          PROVE  /\ IsFiniteSet(Counted')
                 /\ Cardinality(Counted) \in Nat /\ Cardinality(Counted') \in Nat
                 /\ Cardinality(Counted') <= Cardinality(Counted)
      BY <3>1, <3>4, FS_CardinalityType, FS_Subset
    <3>5. QED
      BY <3>1, <3>2, <3>3, <3>4 DEF IndInv, LibInv
  <2>3. DeviceInv' /\ ContextInv' /\ NoStrayPart'
    BY <1>2 DEF IndInv, TypeOK, DeviceInv, ContextInv, NoStrayPart,
                NewRawSocket, Set
  <2>4. QED
    BY <2>1, <2>2, <2>3 DEF IndInv
<1>3. CASE CloneSocket(s)
  <2>1. TypeOK'
    BY <1>3, BoundsAssumption DEF IndInv, TypeOK, CloneSocket, Set, library
  <2>2. LibInv'
    BY <1>3, LibKept DEF IndInv, CloneSocket, library
  <2>3. DeviceInv' /\ ContextInv' /\ NoStrayPart'
    BY <1>3 DEF IndInv, DeviceInv, ContextInv, NoStrayPart, CloneSocket
  <2>4. QED
    BY <2>1, <2>2, <2>3 DEF IndInv
<1>4. CASE DropSocket(s)
  \* The guard keeps what a device holds: a lent reference is not the last.
  <2>1. ASSUME NEW i \in 1..Len(device), device[i] = s
        PROVE  refs[s] # 1
    <3> DEFINE I == {j \in DOMAIN device : device[j] = s}
    <3>1. device \in Seq(Sockets) /\ DOMAIN device = 1..Len(device)
      BY DEF IndInv, TypeOK
    <3>2. IsFiniteSet(I) /\ I # {}
      <4>1. IsFiniteSet(1..Len(device))
        BY <3>1, FS_Interval
      <4>2. QED
        BY <2>1, <3>1, <4>1, FS_Subset
    <3>3. Cardinality(I) \in Nat /\ Cardinality(I) # 0
      BY <3>2, FS_EmptySet, FS_CardinalityType
    <3>4. refs[s] > Cardinality(I)
      BY <1>4 DEF DropSocket, Lent
    <3>5. QED
      BY <3>3, <3>4
  <2>2. QED
    BY <1>4, <2>1, ReleaseKeeps DEF IndInv, TypeOK, DeviceInv, DropSocket
<1>5. CASE DropClose(s)
  <2>1. /\ NoStrayPart'
        /\ open' \subseteq open
        /\ part' \in [Parts -> {"none", "closed"} \cup Sockets]
    BY <1>5, NoStrayKept DEF IndInv, DropClose
  <2>2. TypeOK'
    BY <1>5, <2>1 DEF IndInv, TypeOK, DropClose, Set, library
  <2>3. LibInv'
    <3>1. Counted' = Counted /\ Guard' = Guard /\ RawDropped' = RawDropped
      BY <1>5 DEF IndInv, TypeOK, DropClose, Set, library, Counted, Live,
                  Guard, RawDropped
    <3>2. s \notin Counted /\ open' = open \ {s} /\ closed' = closed
      BY <1>5 DEF DropClose, NngClose, Counted, Live
    <3>3. QED
      BY <1>5, <3>1, <3>2 DEF IndInv, LibInv, DropClose, library
  <2>4. DeviceInv' /\ ContextInv'
    BY <1>5 DEF IndInv, TypeOK, DeviceInv, ContextInv, DropClose, Set
  <2>5. QED
    BY <2>1, <2>2, <2>3, <2>4 DEF IndInv
<1>6. CASE Close(s)
  <2>1. /\ NoStrayPart'
        /\ open' \subseteq open
        /\ part' \in [Parts -> {"none", "closed"} \cup Sockets]
    BY <1>6, NoStrayKept DEF IndInv, Close
  <2>2. TypeOK'
    BY <1>6, <2>1 DEF IndInv, TypeOK, Close, library, inners
  <2>3. LibInv'
    BY <1>6, LibKept DEF IndInv, Close, NngClose, library, inners
  <2>4. DeviceInv' /\ ContextInv'
    BY <1>6 DEF IndInv, DeviceInv, ContextInv, Close, inners
  <2>5. QED
    BY <2>1, <2>2, <2>3, <2>4 DEF IndInv
<1>7. CASE TryFrom(s)
  BY <1>4, <1>7 DEF TryFrom
<1>8. QED
  BY <1>1, <1>2, <1>3, <1>4, <1>5, <1>6, <1>7 DEF SocketStep

\* The steps of a part.
LEMMA PartStepInd ==
  ASSUME IndInv, NEW p \in Parts, PartStep(p)
  PROVE  IndInv'
<1>1. ASSUME NEW s \in Sockets,
             NewContext(p, s) \/ NewBuilder(p, s) \/ NewStarted(p, s) \/ Dial(p, s)
      PROVE  IndInv'
  BY <1>1, NewPartKeeps DEF NewContext, NewBuilder, NewStarted, Dial
<1>2. CASE FromPipe(p)
  <2>1. /\ handle' \in
             [Parts -> {"none", "builder", "context", "started", "unheld"}]
        /\ shared' \in [Parts -> 0..MaxRefs]
        /\ part' \in [Parts -> {"none", "closed"} \cup Sockets]
    BY <1>2, BoundsAssumption DEF IndInv, TypeOK, ContextInv, FromPipe, Set
  <2>2. ContextInv' /\ NoStrayPart'
    BY <1>2, NamesAssumption
    DEF IndInv, TypeOK, ContextInv, NoStrayPart, FromPipe, Set
  <2>3. QED
    BY <1>2, <2>1, <2>2, PartKeeps DEF FromPipe
<1>3. CASE Start(p)
  <2>1. /\ handle' \in
             [Parts -> {"none", "builder", "context", "started", "unheld"}]
        /\ shared' \in [Parts -> 0..MaxRefs]
        /\ part' \in [Parts -> {"none", "closed"} \cup Sockets]
    BY <1>3, BoundsAssumption DEF IndInv, TypeOK, ContextInv, Start, Set
  <2>2. ContextInv' /\ NoStrayPart'
    BY <1>3, NamesAssumption
    DEF IndInv, TypeOK, ContextInv, NoStrayPart, Start, Set
  <2>3. QED
    BY <1>3, <2>1, <2>2, PartKeeps DEF Start
<1>4. CASE DropBuilder(p)
  <2>1. /\ handle' \in
             [Parts -> {"none", "builder", "context", "started", "unheld"}]
        /\ shared' \in [Parts -> 0..MaxRefs]
        /\ part' \in [Parts -> {"none", "closed"} \cup Sockets]
    BY <1>4, BoundsAssumption
    DEF IndInv, TypeOK, ContextInv, DropBuilder, Set, DropPart
  <2>2. ContextInv' /\ NoStrayPart'
    BY <1>4, NamesAssumption
    DEF IndInv, TypeOK, ContextInv, NoStrayPart, DropBuilder, Set, DropPart
  <2>3. QED
    BY <1>4, <2>1, <2>2, PartKeeps DEF DropBuilder
<1>5. CASE CloneContext(p)
  <2>1. /\ handle' \in
             [Parts -> {"none", "builder", "context", "started", "unheld"}]
        /\ shared' \in [Parts -> 0..MaxRefs]
        /\ part' \in [Parts -> {"none", "closed"} \cup Sockets]
    BY <1>5, BoundsAssumption DEF IndInv, TypeOK, ContextInv, CloneContext, Set
  <2>2. ContextInv' /\ NoStrayPart'
    BY <1>5, NamesAssumption
    DEF IndInv, TypeOK, ContextInv, NoStrayPart, CloneContext, Set
  <2>3. QED
    BY <1>5, <2>1, <2>2, PartKeeps DEF CloneContext
<1>6. CASE DropContext(p)
  <2>1. /\ handle' \in
             [Parts -> {"none", "builder", "context", "started", "unheld"}]
        /\ shared' \in [Parts -> 0..MaxRefs]
        /\ part' \in [Parts -> {"none", "closed"} \cup Sockets]
    <3>1. shared[p] - 1 \in 0..MaxRefs
      BY <1>6, BoundsAssumption DEF IndInv, TypeOK, ContextInv, DropContext
    <3>2. CASE shared[p] = 1
      BY <1>6, <3>1, <3>2 DEF IndInv, TypeOK, DropContext, Set, DropPart
    <3>3. CASE shared[p] # 1
      BY <1>6, <3>1, <3>3 DEF IndInv, TypeOK, DropContext, Set
    <3>4. QED
      BY <3>2, <3>3
  <2>2. ContextInv' /\ NoStrayPart'
    BY <1>6, NamesAssumption
    DEF IndInv, TypeOK, ContextInv, NoStrayPart, DropContext,
        Set, DropPart
  <2>3. QED
    BY <1>6, <2>1, <2>2, PartKeeps DEF DropContext
<1>7. CASE ClosePart(p)
  <2>1. /\ handle' \in
             [Parts -> {"none", "builder", "context", "started", "unheld"}]
        /\ shared' \in [Parts -> 0..MaxRefs]
        /\ part' \in [Parts -> {"none", "closed"} \cup Sockets]
    BY <1>7, BoundsAssumption
    DEF IndInv, TypeOK, ContextInv, ClosePart, Set, DropPart
  <2>2. ContextInv' /\ NoStrayPart'
    BY <1>7, NamesAssumption
    DEF IndInv, TypeOK, ContextInv, NoStrayPart, ClosePart, Set, DropPart
  <2>3. QED
    BY <1>7, <2>1, <2>2, PartKeeps DEF ClosePart
<1>8. QED
  BY <1>1, <1>2, <1>3, <1>4, <1>5, <1>6, <1>7 DEF PartStep

\* The steps of a device: it starts with sockets that are live, and gives
\* the first one back.
LEMMA DeviceStepInd ==
  ASSUME IndInv, DeviceStep
  PROVE  IndInv'
<1>1. ASSUME NEW d \in Seq(Sockets), Len(d) <= 2, StartDevice(d),
             \A i, j \in 1..Len(d) : d[i] = d[j] => i = j
      PROVE  IndInv'
  <2>1. TypeOK'
    BY <1>1 DEF IndInv, TypeOK, StartDevice, library
  <2>2. LibInv'
    BY <1>1, LibKept DEF IndInv, StartDevice, library
  <2>3. DeviceInv' /\ ContextInv' /\ NoStrayPart'
    BY <1>1 DEF IndInv, DeviceInv, ContextInv, NoStrayPart, StartDevice
  <2>4. QED
    BY <2>1, <2>2, <2>3 DEF IndInv
<1>2. ASSUME NEW s \in Sockets, NEW t \in Sockets, s # t, StartDevice(<<s, t>>)
      PROVE  IndInv'
  <2>1. /\ <<s, t>> \in Seq(Sockets) /\ Len(<<s, t>>) <= 2
        /\ \A i, j \in 1..Len(<<s, t>>) : <<s, t>>[i] = <<s, t>>[j] => i = j
    BY <1>2
  <2>2. QED
    BY <1>1, <1>2, <2>1, Zenon
<1>3. ASSUME NEW s \in Sockets, StartDevice(<<s>>)
      PROVE  IndInv'
  <2>1. /\ <<s>> \in Seq(Sockets) /\ Len(<<s>>) <= 2
        /\ \A i, j \in 1..Len(<<s>>) : <<s>>[i] = <<s>>[j] => i = j
    OBVIOUS
  <2>2. QED
    BY <1>1, <1>3, <2>1, Zenon
<1>4. CASE DropDevice
  <2>1. device \in Seq(Sockets) /\ device # <<>> /\ Len(device) <= 2
    BY <1>4 DEF IndInv, TypeOK, DropDevice
  <2>2. /\ Head(device) = device[1] /\ 1 \in 1..Len(device)
        /\ device' = Tail(device) /\ device' \in Seq(Sockets)
        /\ Len(device') = Len(device) - 1
        /\ \A i \in 1..Len(device') : device'[i] = device[i + 1]
    BY <1>4, <2>1, HeadTailProperties DEF DropDevice
  <2>3. Head(device) \in Sockets /\ phase[Head(device)] = "live"
    BY <2>1, <2>2 DEF IndInv, DeviceInv
  <2>4. \A i \in 1..Len(device') :
          /\ device'[i] \in raw /\ phase[device'[i]] = "live"
          /\ device'[i] # Head(device)
          /\ \A j \in 1..Len(device') : device'[i] = device'[j] => i = j
    BY <2>1, <2>2 DEF IndInv, DeviceInv
  <2>5. Release(Head(device)) /\ Len(device') <= 2
    BY <1>4, <2>1, <2>2 DEF DropDevice
  <2>6. QED
    BY <2>2, <2>3, <2>4, <2>5, ReleaseKeeps, Zenon
<1>5. QED
  BY <1>2, <1>3, <1>4 DEF DeviceStep

\* Every step keeps the invariant.
LEMMA StepInd == IndInv /\ [Next]_vars => IndInv'
<1> SUFFICES ASSUME IndInv, [Next]_vars
             PROVE  IndInv'
  OBVIOUS
<1>1. CASE UNCHANGED vars
  <2>1. UNCHANGED <<library, inners, open, closed, handle, shared, part>>
    BY <1>1 DEF vars
  <2>2. ContextInv' /\ NoStrayPart'
    BY <2>1 DEF IndInv, ContextInv, NoStrayPart
  <2>3. QED
    BY <2>1, <2>2, PartKeeps DEF IndInv, TypeOK
<1>2. QED
  BY <1>1, LibraryStep, SocketStepInd, PartStepInd, DeviceStepInd DEF Next

-----------------------------------------------------------------------------
(***************************************************************************)
(* The inductive invariant holds in every reachable state.                 *)
(***************************************************************************)
THEOREM Invariance == Spec => []IndInv
<1>1. QED
  BY InitInd, StepInd, PTL DEF Spec

(***************************************************************************)
(* Type correctness: in particular an Inner is live exactly as long as it  *)
(* has references, a device's among them.                                  *)
(***************************************************************************)
THEOREM TypeCorrect == Spec => []TypeOK
<1>1. IndInv => TypeOK
  BY DEF IndInv
<1>2. QED
  BY Invariance, <1>1, PTL

(***************************************************************************)
(* As long as no raw socket is dropped, the nng_fini of other drops never  *)
(* takes the library from a Socket that is held.                           *)
(***************************************************************************)
THEOREM LibraryKept == Spec => []LiveSocketUsable
<1>1. IndInv => LiveSocketUsable
  BY DEF IndInv, LibInv, Counted, LiveSocketUsable
<1>2. QED
  BY Invariance, <1>1, PTL

(***************************************************************************)
(* NNG keeps no context or endpoint that its socket or its handle has      *)
(* left behind.                                                            *)
(***************************************************************************)
THEOREM PartsAccountedFor == Spec => []NoStrayPart
<1>1. IndInv => NoStrayPart
  BY DEF IndInv
<1>2. QED
  BY Invariance, <1>1, PTL

-----------------------------------------------------------------------------
(* The invariant of NngMessage.                                            *)

\* The pointer the variable h has: that of its Message, or the one its call
\* has passed to NNG.
Ptr(h) == IF lent[h] # Null THEN lent[h] ELSE held[h].msgp

Allocated == {p \in Pointers : heap[p] # Null}

\* A call has a pointer while it sends, and no Message while it lasts.
CallInv ==
  \A h \in Holders : /\ doing[h] = "send" <=> lent[h] # Null
                     /\ doing[h] # "nothing" => held[h] = NoMessage

(***************************************************************************)
(* What is allocated is NNG's or that of one variable, and nothing else is *)
(* reached.                                                                *)
(***************************************************************************)
OwnerInv ==
  /\ \A h \in Holders : Ptr(h) \in Allocated \cup {Null} /\ Ptr(h) \notin queue
  /\ \A g, h \in Holders : Ptr(g) = Ptr(h) /\ Ptr(g) # Null => g = h
  /\ queue \subseteq Allocated
  /\ Allocated \subseteq queue \cup {Ptr(h) : h \in Holders}
  /\ freed = {}

NngMessageInv == NngMessageTypeOK /\ CallInv /\ OwnerInv

\* A Message has one pointer, twice.
LEMMA HeldCases ==
  ASSUME NngMessageTypeOK, NEW h \in Holders
  PROVE  /\ held[h] # NoMessage => /\ held[h].msgp \in Pointers
                                   /\ held[h].header = held[h].msgp
                                   /\ held[h] = FromPtr(held[h].msgp)
         /\ held[h] = NoMessage => held[h].msgp = Null /\ held[h].header = Null
BY DEF NngMessageTypeOK, FromPtr, NoMessage

\* A holder has one pointer, as Message and Header or lent to a call of NNG.
LEMMA OnePointer ==
  ASSUME NngMessageTypeOK, CallInv, NEW p \in Pointers
  PROVE  HoldersOf(p) = {h \in Holders : Ptr(h) = p}
<1>1. ASSUME NEW h \in Holders
      PROVE  (held[h].msgp = p \/ held[h].header = p \/ lent[h] = p) <=> Ptr(h) = p
  <2>1. CASE lent[h] # Null
    <3>1. held[h].msgp = Null /\ held[h].header = Null /\ Ptr(h) = lent[h]
      BY <2>1, HeldCases DEF CallInv, Ptr
    <3>2. QED
      BY <3>1, NngMessageAssumption
  <2>2. CASE lent[h] = Null
    <3>1. Ptr(h) = held[h].msgp /\ held[h].header = held[h].msgp
      BY <2>2, HeldCases DEF Ptr
    <3>2. QED
      BY <2>2, <3>1, NngMessageAssumption
  <2>3. QED
    BY <2>1, <2>2
<1>2. QED
  BY <1>1 DEF HoldersOf

\* What an editing call makes of bytes are bytes.
LEMMA EditedTyped ==
  ASSUME NEW s \in Seq(Bytes)
  PROVE  Edited(s) \subseteq Seq(Bytes)
<1>1. Len(s) \in Nat /\ \A i \in 1..Len(s) : s[i] \in Bytes
  OBVIOUS
<1>2. \A n \in 0..Len(s) : SubSeq(s, 1, n) \in Seq(Bytes)
  BY <1>1, SubSeqProperties
<1>3. \A n \in 0..Len(s) : SubSeq(s, n + 1, Len(s)) \in Seq(Bytes)
  BY <1>1, SubSeqProperties
<1>4. ASSUME NEW len \in 0..MaxLen + 1
      PROVE  TruncatedTo(s, len) \in Seq(Bytes) /\ TrimmedBy(s, len) \in Seq(Bytes)
  <2>1. len \in Nat
    BY NngMessageAssumption
  <2>2. PICK n \in 0..Len(s) : TruncatedTo(s, len) = SubSeq(s, 1, n)
    <3>1. CASE Len(s) > len
      BY <1>1, <2>1, <3>1 DEF TruncatedTo, Chop
    <3>2. CASE ~(Len(s) > len)
      BY <1>1, <3>2 DEF TruncatedTo, Chop
    <3>3. QED
      BY <3>1, <3>2
  <2> DEFINE m == IF len < Len(s) THEN len ELSE Len(s)
  <2>3. m \in 0..Len(s) /\ TrimmedBy(s, len) = SubSeq(s, m + 1, Len(s))
    <3>1. m \in 0..Len(s)
      BY <1>1, <2>1
    <3>2. TrimmedBy(s, len) = SubSeq(s, m + 1, Len(s))
      BY Zenon DEF TrimmedBy
    <3>3. QED
      BY <3>1, <3>2
  <2> HIDE DEF m
  <2>4. QED
    BY <1>2, <1>3, <2>2, <2>3
<1>5. \A b \in Bytes : \A u \in Pushed(s, b) : u \in Seq(Bytes)
  <2>1. ASSUME NEW b \in Bytes
        PROVE  Append(s, b) \in Seq(Bytes) /\ <<b>> \o s \in Seq(Bytes)
    <3>1. <<b>> \in Seq(Bytes)
      OBVIOUS
    <3>2. <<b>> \o s \in Seq(Bytes)
      BY <3>1, ConcatProperties
    <3>3. QED
      BY <3>2, AppendProperties
  <2>2. QED
    BY <2>1, Zenon DEF Pushed
<1>6. \A i \in DOMAIN s, b \in Bytes : [s EXCEPT ![i] = b] \in Seq(Bytes)
  OBVIOUS
<1>7. SUFFICES ASSUME NEW u \in Edited(s)
               PROVE  u \in Seq(Bytes)
  OBVIOUS
<1>8. \/ \E len \in 0..MaxLen + 1 : u = TruncatedTo(s, len) \/ u = TrimmedBy(s, len)
      \/ u = <<>>
      \/ \E b \in Bytes : u \in Pushed(s, b)
      \/ \E i \in DOMAIN s, b \in Bytes : u = [s EXCEPT ![i] = b]
  BY DEF Edited
<1>9. <<>> \in Seq(Bytes)
  OBVIOUS
<1>10. QED
  BY <1>4, <1>5, <1>6, <1>8, <1>9, Zenon

\* No message is allocated at the start.
LEMMA NngMessageInitInd == NngMessageInit => NngMessageInv
<1> SUFFICES ASSUME NngMessageInit
             PROVE  NngMessageInv
  OBVIOUS
<1>1. NngMessageTypeOK
  BY DEF NngMessageInit, NngMessageTypeOK
<1>2. \A h \in Holders : Ptr(h) = Null
  BY DEF NngMessageInit, Ptr, NoMessage
<1>3. Allocated = {} /\ queue = {} /\ freed = {}
  BY DEF NngMessageInit, Allocated
<1>4. CallInv
  BY DEF NngMessageInit, CallInv
<1>5. OwnerInv
  BY <1>2, <1>3 DEF OwnerInv
<1>6. QED
  BY <1>1, <1>4, <1>5 DEF NngMessageInv

\* Every pointer stays where it is.
LEMMA OwnerKept ==
  ASSUME OwnerInv, \A g \in Holders : Ptr(g)' = Ptr(g), Allocated' = Allocated,
         UNCHANGED <<queue, freed>>
  PROVE  OwnerInv'
<1>1. {Ptr(g) : g \in Holders}' = {Ptr(g) : g \in Holders}
  OBVIOUS
<1>2. QED
  BY <1>1 DEF OwnerInv

\* A pointer comes to h, where there was none.
LEMMA OwnerGains ==
  ASSUME OwnerInv, NEW h \in Holders, NEW p \in Pointers, Ptr(h) = Null,
         \A g \in Holders : Ptr(g)' = IF g = h THEN p ELSE Ptr(g),
         freed' = freed,
         \/ p \notin Allocated /\ Allocated' = Allocated \cup {p} /\ queue' = queue
         \/ p \in queue /\ Allocated' = Allocated /\ queue' = queue \ {p}
  PROVE  OwnerInv'
<1>1. \A g \in Holders : Ptr(g) # p
  BY NngMessageAssumption DEF OwnerInv
<1>2. {Ptr(g) : g \in Holders} \ {Null} \subseteq {Ptr(g) : g \in Holders}'
      /\ p \in {Ptr(g) : g \in Holders}'
  OBVIOUS
<1>3. Null \notin Allocated
  BY NngMessageAssumption DEF Allocated
<1>4. p \in Allocated' /\ p \notin queue'
  BY DEF OwnerInv
<1>5. \A g \in Holders : (Ptr(g) \in Allocated \cup {Null} /\ Ptr(g) \notin queue)'
  BY <1>4 DEF OwnerInv
<1>6. (\A f, g \in Holders : Ptr(f) = Ptr(g) /\ Ptr(f) # Null => f = g)'
  BY <1>1 DEF OwnerInv
<1>7. /\ queue' \subseteq Allocated'
      /\ Allocated' \subseteq queue' \cup {Ptr(g) : g \in Holders}'
  BY <1>2, <1>3 DEF OwnerInv
<1>8. QED
  BY <1>5, <1>6, <1>7 DEF OwnerInv

\* The pointer of h is freed, or NNG takes it.
LEMMA OwnerLoses ==
  ASSUME OwnerInv, NEW h \in Holders, NEW p \in Pointers, Ptr(h) = p,
         \A g \in Holders : Ptr(g)' = IF g = h THEN Null ELSE Ptr(g),
         freed' = freed,
         \/ Allocated' = Allocated \ {p} /\ queue' = queue
         \/ Allocated' = Allocated /\ queue' = queue \cup {p}
  PROVE  OwnerInv'
<1>1. \A g \in Holders : g # h => Ptr(g) # p
  BY NngMessageAssumption DEF OwnerInv
<1>2. {Ptr(g) : g \in Holders} \ {p} \subseteq {Ptr(g) : g \in Holders}'
  OBVIOUS
<1>3. p \in Allocated /\ p \notin queue /\ Null \notin Allocated
  BY NngMessageAssumption DEF OwnerInv, Allocated
<1>4. \A g \in Holders : (Ptr(g) \in Allocated \cup {Null} /\ Ptr(g) \notin queue)'
  BY <1>1, <1>3 DEF OwnerInv
<1>5. (\A f, g \in Holders : Ptr(f) = Ptr(g) /\ Ptr(f) # Null => f = g)'
  BY DEF OwnerInv
<1>6. /\ queue' \subseteq Allocated'
      /\ Allocated' \subseteq queue' \cup {Ptr(g) : g \in Holders}'
  BY <1>2, <1>3 DEF OwnerInv
<1>7. QED
  BY <1>4, <1>5, <1>6 DEF OwnerInv

\* h is the only one to reach its pointer, and NNG does not have it.
LEMMA SoleHolder ==
  ASSUME NngMessageInv, NEW h \in Holders, NEW p \in Pointers, Ptr(h) = p
  PROVE  p \notin queue /\ HoldersOf(p) = {h} /\ heap[p] # Null /\ heap[p] \in NngMsgs
<1>1. HoldersOf(p) = {g \in Holders : Ptr(g) = p}
  BY OnePointer DEF NngMessageInv
<1>2. \A g \in Holders : Ptr(g) = p => g = h
  BY NngMessageAssumption DEF NngMessageInv, OwnerInv
<1>3. p \in Allocated /\ p \notin queue
  BY NngMessageAssumption DEF NngMessageInv, OwnerInv
<1>4. heap[p] # Null /\ heap[p] \in NngMsgs
  BY <1>3 DEF Allocated, NngMessageInv, NngMessageTypeOK
<1>5. QED
  BY <1>1, <1>2, <1>3, <1>4

\* A message is made: new, or by Clone.
LEMMA AllocStep ==
  ASSUME NngMessageInv, NEW h \in Holders, NEW p \in Pointers, NEW m \in NngMsgs,
         Free(h), heap[p] = Null,
         heap' = [heap EXCEPT ![p] = m], held' = [held EXCEPT ![h] = FromPtr(p)],
         UNCHANGED <<doing, lent, queue, isOpen, freed>>
  PROVE  NngMessageInv'
<1>1. NngMessageTypeOK'
  BY DEF NngMessageInv, NngMessageTypeOK
<1>2. lent[h] = Null /\ held[h].msgp = Null
  BY HeldCases DEF NngMessageInv, CallInv, Free, Idle
<1>3. \A g \in Holders : Ptr(g)' = IF g = h THEN p ELSE Ptr(g)
  BY <1>2 DEF Ptr, FromPtr, NngMessageInv, NngMessageTypeOK
<1>4. p \notin Allocated /\ Allocated' = Allocated \cup {p}
  BY NngMessageAssumption DEF Allocated, NngMessageInv, NngMessageTypeOK
<1>5. CallInv'
  BY DEF NngMessageInv, NngMessageTypeOK, CallInv, Free, Idle
<1>6. OwnerInv'
  <2>1. Ptr(h) = Null
    BY <1>2 DEF Ptr
  <2>2. QED
    BY <1>3, <1>4, <2>1, OwnerGains DEF NngMessageInv
<1>7. QED
  BY <1>1, <1>5, <1>6 DEF NngMessageInv

\* A message is freed: a Message is dropped, or the result of a send is.
LEMMA FreeStep ==
  ASSUME NngMessageInv, NEW h \in Holders, DropMessage(h) \/ DropResult(h)
  PROVE  NngMessageInv'
<1> DEFINE p == Ptr(h)
<1>1. /\ p \in Pointers /\ heap' = [heap EXCEPT ![p] = Null]
      /\ freed' = freed \cup (IF p \in queue \/ HoldersOf(p) # {h} THEN {p} ELSE {})
      /\ held' = [held EXCEPT ![h] = NoMessage]
      /\ lent' = [lent EXCEPT ![h] = Null]
      /\ doing' = [doing EXCEPT ![h] = "nothing"]
      /\ UNCHANGED <<queue, isOpen>>
  <2>1. CASE DropMessage(h)
    <3>1. lent[h] = Null /\ doing[h] = "nothing" /\ held[h] # NoMessage
      BY <2>1 DEF DropMessage, Has, Idle, NngMessageInv, CallInv
    <3>2. Ptr(h) = held[h].msgp /\ held[h].msgp \in Pointers
      BY <3>1, HeldCases DEF Ptr, NngMessageInv
    <3>3. lent' = [lent EXCEPT ![h] = Null] /\ doing' = [doing EXCEPT ![h] = "nothing"]
      BY <2>1, <3>1 DEF DropMessage, NngMessageInv, NngMessageTypeOK
    <3>4. QED
      BY <2>1, <3>2, <3>3 DEF DropMessage
  <2>2. CASE DropResult(h)
    <3>1. lent[h] # Null /\ held[h] = NoMessage
      BY <2>2 DEF DropResult, NngMessageInv, CallInv
    <3>2. Ptr(h) = lent[h] /\ lent[h] \in Pointers
      BY <3>1 DEF Ptr, NngMessageInv, NngMessageTypeOK
    <3>3. held' = [held EXCEPT ![h] = NoMessage]
      BY <2>2, <3>1 DEF DropResult, NngMessageInv, NngMessageTypeOK
    <3>4. QED
      BY <2>2, <3>2, <3>3 DEF DropResult
  <2>3. QED
    BY <2>1, <2>2
<1>2. NngMessageTypeOK' /\ CallInv'
  <2>1. freed' \subseteq Pointers
    BY <1>1 DEF NngMessageInv, NngMessageTypeOK
  <2>2. NngMessageTypeOK'
    BY <1>1, <2>1 DEF NngMessageInv, NngMessageTypeOK
  <2>3. CallInv'
    BY <1>1 DEF NngMessageInv, NngMessageTypeOK, CallInv
  <2>4. QED
    BY <2>2, <2>3
<1>3. freed' = freed
  BY <1>1, SoleHolder
<1>4. \A g \in Holders : Ptr(g)' = IF g = h THEN Null ELSE Ptr(g)
  BY <1>1 DEF Ptr, NoMessage, NngMessageInv, NngMessageTypeOK
<1>5. Allocated' = Allocated \ {p}
  BY <1>1 DEF Allocated, NngMessageInv, NngMessageTypeOK
<1> HIDE DEF p
<1>6. OwnerInv'
  BY <1>1, <1>3, <1>4, <1>5, OwnerLoses DEF NngMessageInv, p
<1>7. QED
  BY <1>2, <1>6 DEF NngMessageInv

\* The contents of a message are edited, through its one holder.
LEMMA EditStep ==
  ASSUME NngMessageInv, NEW h \in Holders, EditBody(h) \/ EditHeader(h) \/ SetPipe(h)
  PROVE  NngMessageInv'
<1> DEFINE p == held[h].msgp
<1>1. /\ p \in Pointers /\ held[h].header = p /\ Ptr(h) = p
      /\ UNCHANGED <<held, doing, lent, queue, isOpen, freed>>
  <2>1. /\ Has(h) /\ UNCHANGED <<held, doing, lent, queue, isOpen, freed>>
    BY DEF EditBody, EditHeader, SetPipe
  <2>2. lent[h] = Null
    BY <2>1 DEF Has, Idle, NngMessageInv, CallInv
  <2>3. p \in Pointers /\ held[h].header = p
    BY <2>1, HeldCases DEF Has, NngMessageInv
  <2>4. QED
    BY <2>1, <2>2, <2>3 DEF Ptr
<1>2. heap[p] \in NngMsgs /\ heap[p] # Null
  BY <1>1, SoleHolder
<1>3. \E m \in NngMsgs : heap' = [heap EXCEPT ![p] = m]
  <2>1. heap[p].body \in Seq(Bytes) /\ heap[p].header \in Seq(Bytes)
    BY <1>2 DEF NngMsgs
  <2>2. CASE EditBody(h)
    <3>1. PICK s \in Edited(heap[p].body) : heap' = [heap EXCEPT ![p].body = s]
      BY <2>2 DEF EditBody
    <3>2. [heap[p] EXCEPT !.body = s] \in NngMsgs
      BY <1>2, <2>1, <3>1, EditedTyped DEF NngMsgs
    <3>3. heap' = [heap EXCEPT ![p] = [heap[p] EXCEPT !.body = s]]
      BY <3>1
    <3>4. QED
      BY <3>2, <3>3
  <2>3. CASE EditHeader(h)
    <3>1. PICK s \in Edited(heap[p].header) : heap' = [heap EXCEPT ![p].header = s]
      BY <1>1, <2>3 DEF EditHeader
    <3>2. [heap[p] EXCEPT !.header = s] \in NngMsgs
      BY <1>2, <2>1, <3>1, EditedTyped DEF NngMsgs
    <3>3. heap' = [heap EXCEPT ![p] = [heap[p] EXCEPT !.header = s]]
      BY <3>1
    <3>4. QED
      BY <3>2, <3>3
  <2>4. CASE SetPipe(h)
    <3>1. [heap[p] EXCEPT !.pipe = TRUE] \in NngMsgs
      BY <1>2 DEF NngMsgs
    <3>2. heap' = [heap EXCEPT ![p] = [heap[p] EXCEPT !.pipe = TRUE]]
      BY <2>4 DEF SetPipe
    <3>3. QED
      BY <3>1, <3>2
  <2>5. QED
    BY <2>2, <2>3, <2>4
<1> HIDE DEF p
<1>4. NngMessageTypeOK' /\ CallInv'
  BY <1>1, <1>3 DEF NngMessageInv, NngMessageTypeOK, CallInv
<1>5. Allocated' = Allocated
  BY <1>1, <1>2, <1>3, NngMessageAssumption
  DEF Allocated, NngMessageInv, NngMessageTypeOK
<1>6. \A g \in Holders : Ptr(g)' = Ptr(g)
  BY <1>1 DEF Ptr
<1>7. OwnerInv'
  BY <1>1, <1>5, <1>6, OwnerKept DEF NngMessageInv
<1>8. QED
  BY <1>4, <1>7 DEF NngMessageInv

\* Calls that start, and those that fail: the pointer stays with h.
LEMMA KeepStep ==
  ASSUME NngMessageInv, NEW h \in Holders, Send(h) \/ SendErr(h) \/ Recv(h) \/ RecvErr(h)
  PROVE  NngMessageInv'
<1>1. UNCHANGED <<heap, queue, isOpen, freed>>
  BY DEF Send, SendErr, Recv, RecvErr
<1>2. /\ held \in [Holders -> {NoMessage} \cup {FromPtr(p) : p \in Pointers}]
      /\ doing \in [Holders -> {"nothing", "send", "recv"}]
      /\ lent \in [Holders -> Pointers \cup {Null}]
      /\ CallInv
      /\ held[h] # NoMessage => held[h].msgp \in Pointers
      /\ held[h] = NoMessage => held[h].msgp = Null
  BY HeldCases DEF NngMessageInv, NngMessageTypeOK
<1>3. /\ held' \in [Holders -> {NoMessage} \cup {FromPtr(p) : p \in Pointers}]
      /\ doing' \in [Holders -> {"nothing", "send", "recv"}]
      /\ lent' \in [Holders -> Pointers \cup {Null}]
      /\ CallInv'
      /\ \A g \in Holders : Ptr(g)' = Ptr(g)
  <2>1. CASE Send(h)
    BY <1>2, <2>1, NngMessageAssumption
    DEF Send, Has, Idle, CallInv, Ptr, NoMessage
  <2>2. CASE SendErr(h)
    BY <1>2, <2>2, NngMessageAssumption
    DEF SendErr, CallInv, Ptr, NoMessage, FromPtr
  <2>3. CASE Recv(h)
    BY <1>2, <2>3 DEF Recv, Free, Idle, CallInv, Ptr
  <2>4. CASE RecvErr(h)
    BY <1>2, <2>4 DEF RecvErr, CallInv, Ptr
  <2>5. QED
    BY <2>1, <2>2, <2>3, <2>4
<1>4. NngMessageTypeOK'
  BY <1>1, <1>3 DEF NngMessageInv, NngMessageTypeOK
<1>5. Allocated' = Allocated
  BY <1>1 DEF Allocated
<1>6. OwnerInv'
  BY <1>1, <1>3, <1>5, OwnerKept DEF NngMessageInv
<1>7. QED
  BY <1>3, <1>4, <1>6 DEF NngMessageInv

\* NNG takes the message of a send.
LEMMA SendOkStep ==
  ASSUME NngMessageInv, NEW h \in Holders, SendOk(h)
  PROVE  NngMessageInv'
<1> DEFINE p == lent[h]
<1>1. /\ doing[h] = "send" /\ queue' = queue \cup {p}
      /\ lent' = [lent EXCEPT ![h] = Null]
      /\ doing' = [doing EXCEPT ![h] = "nothing"]
      /\ UNCHANGED <<heap, held, isOpen, freed>>
  BY DEF SendOk
<1>2. p \in Pointers /\ Ptr(h) = p /\ held[h] = NoMessage
  BY <1>1 DEF NngMessageInv, CallInv, NngMessageTypeOK, Ptr
<1> HIDE DEF p
<1>3. NngMessageTypeOK' /\ CallInv'
  BY <1>1, <1>2 DEF NngMessageInv, NngMessageTypeOK, CallInv
<1>4. \A g \in Holders : Ptr(g)' = IF g = h THEN Null ELSE Ptr(g)
  BY <1>1, <1>2 DEF Ptr, NoMessage, NngMessageInv, NngMessageTypeOK
<1>5. Allocated' = Allocated
  BY <1>1 DEF Allocated
<1>6. OwnerInv'
  BY <1>1, <1>2, <1>4, <1>5, OwnerLoses DEF NngMessageInv
<1>7. QED
  BY <1>3, <1>6 DEF NngMessageInv

\* A receive gets a message NNG has.
LEMMA RecvOkStep ==
  ASSUME NngMessageInv, NEW h \in Holders, NEW p \in Pointers, RecvOk(h, p)
  PROVE  NngMessageInv'
<1>1. /\ doing[h] = "recv" /\ p \in queue /\ queue' = queue \ {p}
      /\ heap' = [heap EXCEPT ![p].pipe = TRUE]
      /\ held' = [held EXCEPT ![h] = FromPtr(p)]
      /\ doing' = [doing EXCEPT ![h] = "nothing"]
      /\ UNCHANGED <<lent, isOpen, freed>>
  BY DEF RecvOk
<1>2. held[h] = NoMessage /\ lent[h] = Null /\ Ptr(h) = Null
  BY <1>1 DEF NngMessageInv, CallInv, Ptr, NoMessage
<1>3. heap[p] \in NngMsgs
  BY <1>1 DEF NngMessageInv, OwnerInv, NngMessageTypeOK, Allocated
<1>4. [heap[p] EXCEPT !.pipe = TRUE] \in NngMsgs
  BY <1>3 DEF NngMsgs
<1>5. heap' \in [Pointers -> NngMsgs \cup {Null}]
  BY <1>1, <1>4 DEF NngMessageInv, NngMessageTypeOK
<1>6. NngMessageTypeOK' /\ CallInv'
  BY <1>1, <1>2, <1>5 DEF NngMessageInv, NngMessageTypeOK, CallInv
<1>7. \A g \in Holders : Ptr(g)' = IF g = h THEN p ELSE Ptr(g)
  BY <1>1, <1>2 DEF Ptr, FromPtr, NngMessageInv, NngMessageTypeOK
<1>8. Allocated' = Allocated
  BY <1>1, <1>3, <1>4, NngMessageAssumption
  DEF Allocated, NngMessageInv, NngMessageTypeOK
<1>9. OwnerInv'
  BY <1>1, <1>2, <1>7, <1>8, OwnerGains DEF NngMessageInv
<1>10. QED
  BY <1>6, <1>9 DEF NngMessageInv

\* NNG frees what it has queued.
LEMMA CloseStep ==
  ASSUME NngMessageInv, CloseSocket
  PROVE  NngMessageInv'
<1>1. /\ queue' = {} /\ isOpen' = FALSE
      /\ heap' = [p \in Pointers |-> IF p \in queue THEN Null ELSE heap[p]]
      /\ freed' = freed \cup {p \in queue : HoldersOf(p) # {}}
      /\ UNCHANGED <<held, doing, lent>>
  BY DEF CloseSocket
<1>2. \A p \in queue : HoldersOf(p) = {}
  <2>1. SUFFICES ASSUME NEW p \in queue
                 PROVE  HoldersOf(p) = {}
    OBVIOUS
  <2>2. p \in Pointers
    BY DEF NngMessageInv, NngMessageTypeOK
  <2>3. HoldersOf(p) = {g \in Holders : Ptr(g) = p}
    BY <2>2, OnePointer DEF NngMessageInv
  <2>4. QED
    BY <2>3 DEF NngMessageInv, OwnerInv
<1>3. freed' = freed
  BY <1>1, <1>2
<1>4. NngMessageTypeOK' /\ CallInv'
  <2>1. heap' \in [Pointers -> NngMsgs \cup {Null}]
    BY <1>1 DEF NngMessageInv, NngMessageTypeOK
  <2>2. isOpen' \in BOOLEAN
    BY <1>1, Zenon
  <2>3. QED
    BY <1>1, <1>3, <2>1, <2>2 DEF NngMessageInv, NngMessageTypeOK, CallInv
<1>5. \A g \in Holders : Ptr(g)' = Ptr(g)
  BY <1>1 DEF Ptr
<1>6. Allocated' = Allocated \ queue
  BY <1>1 DEF Allocated
<1>7. {Ptr(g) : g \in Holders}' = {Ptr(g) : g \in Holders}
  BY <1>5
<1>8. OwnerInv'
  BY <1>1, <1>3, <1>5, <1>6, <1>7 DEF NngMessageInv, OwnerInv
<1>9. QED
  BY <1>4, <1>8 DEF NngMessageInv

\* Every step preserves the invariant.
LEMMA NngMessageStepInd ==
  NngMessageInv /\ [NngMessageNext]_nngMessageVars => NngMessageInv'
<1> SUFFICES ASSUME NngMessageInv, [NngMessageNext]_nngMessageVars
             PROVE  NngMessageInv'
  OBVIOUS
<1>1. ASSUME NEW h \in Holders, NEW p \in Pointers, NEW body \in Filled,
             Alloc(h, p, body)
      PROVE  NngMessageInv'
  <2> DEFINE m == [body |-> body, header |-> <<>>, pipe |-> FALSE]
  <2>1. m \in NngMsgs
    <3>1. 0 \in Bytes /\ 1 \in Bytes
      BY DEF Bytes
    <3>2. <<>> \in Seq(Bytes) /\ <<0>> \in Seq(Bytes) /\ <<1>> \in Seq(Bytes)
      BY <3>1
    <3>3. body = <<>> \/ body = <<0>> \/ body = <<1>>
      BY Zenon DEF Filled
    <3>4. QED
      BY <3>2, <3>3 DEF NngMsgs
  <2>2. heap' = [heap EXCEPT ![p] = m]
    BY <1>1 DEF Alloc
  <2> HIDE DEF m
  <2>3. QED
    BY <1>1, <2>1, <2>2, AllocStep DEF Alloc
<1>2. ASSUME NEW h \in Holders, NEW p \in Pointers, NEW to \in Holders,
             CloneMessage(h, to, p)
      PROVE  NngMessageInv'
  <2> DEFINE m == heap[held[h].msgp]
  <2>1. m \in NngMsgs
    <3>1. held[h].msgp \in Pointers /\ Ptr(h) = held[h].msgp
      BY <1>2, HeldCases
      DEF CloneMessage, Has, Idle, NngMessageInv, CallInv, Ptr
    <3>2. QED
      BY <3>1, SoleHolder
  <2>2. heap' = [heap EXCEPT ![p] = m]
    BY <1>2 DEF CloneMessage
  <2> HIDE DEF m
  <2>3. QED
    BY <1>2, <2>1, <2>2, AllocStep DEF CloneMessage
<1>3. CASE UNCHANGED nngMessageVars
  <2>1. NngMessageTypeOK' /\ CallInv'
    BY <1>3 DEF NngMessageInv, NngMessageTypeOK, CallInv, nngMessageVars
  <2>2. (\A g \in Holders : Ptr(g)' = Ptr(g)) /\ Allocated' = Allocated
    BY <1>3 DEF Ptr, Allocated, nngMessageVars
  <2>3. OwnerInv'
    BY <1>3, <2>2, OwnerKept DEF NngMessageInv, nngMessageVars
  <2>4. QED
    BY <2>1, <2>3 DEF NngMessageInv
<1>4. QED
  BY <1>1, <1>2, <1>3, FreeStep, EditStep, KeepStep, SendOkStep, RecvOkStep,
      CloseStep
     DEF NngMessageNext

-----------------------------------------------------------------------------
(***************************************************************************)
(* The inductive invariant of NngMessage holds in every reachable state.   *)
(***************************************************************************)
THEOREM NngMessageInvariance == NngMessageSpec => []NngMessageInv
<1>1. QED
  BY NngMessageInitInd, NngMessageStepInd, PTL DEF NngMessageSpec

(***************************************************************************)
(* Type correctness of NngMessage: what truncate, trim, push and writes    *)
(* make of a message are bytes.                                            *)
(***************************************************************************)
THEOREM NngMessageTypeCorrect == NngMessageSpec => []NngMessageTypeOK
<1>1. NngMessageInv => NngMessageTypeOK
  BY DEF NngMessageInv
<1>2. QED
  BY NngMessageInvariance, <1>1, PTL

(***************************************************************************)
(* An nng_msg is held once, by a Message or by NNG, and freed once,        *)
(* whatever threads send, receive, clone and drop.                         *)
(***************************************************************************)
THEOREM MessageHeldOnce == NngMessageSpec => []OneHolder
<1>1. NngMessageInv => OneHolder
  <2>1. SUFFICES ASSUME NngMessageInv, NEW p \in Pointers
                 PROVE  Cardinality(HoldersOf(p)) + (IF p \in queue THEN 1 ELSE 0)
                          = IF heap[p] = Null THEN 0 ELSE 1
    BY DEF OneHolder, NngMessageInv, OwnerInv
  <2>2. HoldersOf(p) = {h \in Holders : Ptr(h) = p}
    BY <2>1, OnePointer DEF NngMessageInv
  <2>3. CASE \E h \in Holders : Ptr(h) = p
    <3>1. PICK h \in Holders : Ptr(h) = p
      BY <2>3
    <3>2. HoldersOf(p) = {h} /\ p \notin queue /\ heap[p] # Null
      BY <2>1, <3>1, SoleHolder
    <3>3. Cardinality({h}) = 1
      BY FS_Singleton
    <3>4. QED
      BY <3>2, <3>3
  <2>4. CASE ~ \E h \in Holders : Ptr(h) = p
    <3>1. HoldersOf(p) = {}
      BY <2>2, <2>4
    <3>2. Cardinality(HoldersOf(p)) = 0
      BY <3>1, FS_EmptySet
    <3>3. p \in queue <=> heap[p] # Null
      BY <2>1, <2>4 DEF NngMessageInv, OwnerInv, Allocated
    <3>4. QED
      BY <3>2, <3>3
  <2>5. QED
    BY <2>3, <2>4
<1>2. QED
  BY NngMessageInvariance, <1>1, PTL

-----------------------------------------------------------------------------
(* The reader's place in a Message of anng: sequences.                     *)

Distinct(b) == \A i, j \in 1..Len(b) : b[i] = b[j] => i = j

Read(b, p)   == {b[i] : i \in 1..p}
Unread(b, p) == {b[i] : i \in p + 1..Len(b)}

\* The elements of a slice, by their places in the whole.
LEMMA SliceAt ==
  ASSUME NEW S, NEW b \in Seq(S), NEW k \in Nat, NEW n \in Nat, k + n <= Len(b)
  PROVE  /\ SubSeq(b, k + 1, k + n) \in Seq(S)
         /\ Len(SubSeq(b, k + 1, k + n)) = n
         /\ DOMAIN SubSeq(b, k + 1, k + n) = 1..n
         /\ \A i \in 1..n : SubSeq(b, k + 1, k + n)[i] = b[k + i]
<1> DEFINE t == SubSeq(b, k + 1, k + n)
<1>1. Len(b) \in Nat /\ \A i \in 1..Len(b) : b[i] \in S
  BY LenProperties
<1>2. \A i \in k + 1..k + n : b[i] \in S
  BY <1>1
<1>3. /\ t \in Seq(S)
      /\ Len(t) = IF k + 1 <= k + n THEN (k + n) - (k + 1) + 1 ELSE 0
      /\ \A i \in 1..(k + n) - (k + 1) + 1 : t[i] = b[(k + 1) + i - 1]
  BY <1>2, SubSeqProperties
<1> HIDE DEF t
<1>4. Len(t) = n /\ DOMAIN t = 1..n
  BY <1>3, LenProperties
<1>5. ASSUME NEW i \in 1..n
      PROVE  t[i] = b[k + i]
  <2>1. i \in 1..(k + n) - (k + 1) + 1 /\ (k + 1) + i - 1 = k + i
    OBVIOUS
  <2>2. QED
    BY <1>3, <2>1
<1>6. QED
  BY <1>3, <1>4, <1>5 DEF t

\* Bytes written are new: larger than any byte made before.
LEMMA FreshAt ==
  ASSUME NEW top \in Nat, NEW n \in Nat
  PROVE  /\ [i \in 1..n |-> top + i] \in Seq(1..top + n)
         /\ Len([i \in 1..n |-> top + i]) = n
         /\ \A j \in 1..n : [i \in 1..n |-> top + i][j] = top + j
<1> DEFINE f == [i \in 1..n |-> top + i]
<1>1. \A i \in 1..n : top + i \in 1..top + n
  OBVIOUS
<1>2. f \in [1..n -> 1..top + n]
  BY <1>1
<1> HIDE DEF f
<1>3. f \in Seq(1..top + n)
  BY <1>2
<1>4. Len(f) = n
  BY <1>2, <1>3, LenProperties
<1>5. QED
  BY <1>3, <1>4 DEF f

\* In a body without repeated bytes the read and the unread ones are apart.
LEMMA ReadApart ==
  ASSUME NEW S, NEW b \in Seq(S), NEW p \in 0..Len(b), Distinct(b)
  PROVE  /\ ToSet(SubSeq(b, 1, p)) = Read(b, p)
         /\ ToSet(SubSeq(b, p + 1, Len(b))) = Unread(b, p)
         /\ Read(b, p) \cap Unread(b, p) = {}
<1>1. Len(b) \in Nat /\ p \in Nat /\ p <= Len(b)
  BY LenProperties
<1>2. ToSet(SubSeq(b, 1, p)) = Read(b, p)
  <2> DEFINE t == SubSeq(b, 0 + 1, 0 + p)
  <2>1. DOMAIN t = 1..p /\ \A i \in 1..p : t[i] = b[0 + i] /\ 0 + i = i
    BY <1>1, SliceAt
  <2>2. t = SubSeq(b, 1, p)
    BY <1>1
  <2> HIDE DEF t
  <2>3. \A i \in 1..p : t[i] = b[i]
    BY <2>1
  <2>4. QED
    BY <2>1, <2>2, <2>3 DEF Read, ToSet
<1>3. ToSet(SubSeq(b, p + 1, Len(b))) = Unread(b, p)
  <2> DEFINE n == Len(b) - p
             t == SubSeq(b, p + 1, p + n)
  <2>1. n \in Nat /\ p + n = Len(b)
    BY <1>1
  <2>2. SubSeq(b, p + 1, Len(b)) = t
    BY <2>1
  <2> HIDE DEF n
  <2>3. DOMAIN t = 1..n /\ \A i \in 1..n : t[i] = b[p + i]
    BY <1>1, <2>1, SliceAt
  <2> HIDE DEF t
  <2>4. ASSUME NEW i \in 1..n
        PROVE  t[i] \in Unread(b, p)
    <3>1. p + i \in p + 1..Len(b) /\ t[i] = b[p + i]
      BY <1>1, <2>1, <2>3
    <3>2. QED
      BY <3>1 DEF Unread
  <2>5. ASSUME NEW j \in p + 1..Len(b)
        PROVE  \E i \in 1..n : b[j] = t[i]
    <3>1. j - p \in 1..n /\ p + (j - p) = j
      BY <1>1, <2>1
    <3>2. t[j - p] = b[p + (j - p)]
      BY <2>3, <3>1
    <3>3. QED
      BY <3>1, <3>2
  <2>6. ToSet(t) = {t[i] : i \in 1..n}
    BY <2>3 DEF ToSet
  <2>7. QED
    BY <2>2, <2>4, <2>5, <2>6 DEF Unread
<1>4. Read(b, p) \cap Unread(b, p) = {}
  BY <1>1 DEF Distinct, Read, Unread
<1>5. QED
  BY <1>2, <1>3, <1>4

\* Two sequences with nothing in common, one after the other.
LEMMA ApartSeq ==
  ASSUME NEW T, NEW b \in Seq(T), NEW f \in Seq(T), Distinct(b), Distinct(f),
         \A i \in 1..Len(b), j \in 1..Len(f) : b[i] # f[j]
  PROVE  /\ b \o f \in Seq(T) /\ Len(b \o f) = Len(b) + Len(f)
         /\ \A i \in 1..Len(b) : (b \o f)[i] = b[i]
         /\ Distinct(b \o f)
<1> DEFINE c == b \o f
           k == Len(b)
           n == Len(f)
<1>1. k \in Nat /\ n \in Nat
  BY LenProperties
<1>2. /\ c \in Seq(T) /\ Len(c) = k + n
      /\ \A i \in 1..k + n : c[i] = IF i <= k THEN b[i] ELSE f[i - k]
  BY ConcatProperties
<1>3. /\ \A i, j \in 1..k : b[i] = b[j] => i = j
      /\ \A i, j \in 1..n : f[i] = f[j] => i = j
      /\ \A i \in 1..k, j \in 1..n : b[i] # f[j]
  BY DEF Distinct
<1> HIDE DEF c, k, n
<1>4. \A i \in 1..k : c[i] = b[i]
  BY <1>1, <1>2
<1>5. \A i \in k + 1..k + n : i - k \in 1..n /\ c[i] = f[i - k]
  BY <1>1, <1>2
<1>6. \A i \in 1..k + n : i \in 1..k \/ i \in k + 1..k + n
  BY <1>1
<1>7. ASSUME NEW i \in 1..k + n, NEW j \in 1..k + n, c[i] = c[j]
      PROVE  i = j
  <2>1. CASE i \in 1..k /\ j \in 1..k
    BY <1>3, <1>4, <1>7, <2>1
  <2>2. CASE i \in k + 1..k + n /\ j \in k + 1..k + n
    <3>1. i - k = j - k
      BY <1>3, <1>5, <1>7, <2>2
    <3>2. QED
      BY <1>1, <3>1
  <2>3. CASE i \in 1..k /\ j \in k + 1..k + n
    BY <1>3, <1>4, <1>5, <1>7, <2>3
  <2>4. CASE i \in k + 1..k + n /\ j \in 1..k
    BY <1>3, <1>4, <1>5, <1>7, <2>4
  <2>5. QED
    BY <1>6, <2>1, <2>2, <2>3, <2>4
<1>8. Distinct(c)
  BY <1>2, <1>7 DEF Distinct
<1>9. QED
  BY <1>2, <1>4, <1>8 DEF c, k, n

\* New bytes after the body, or before it.
LEMMA AddedSeq ==
  ASSUME NEW top \in Nat, NEW n \in Nat, NEW b \in Seq(1..top), Distinct(b),
         NEW f \in Seq(1..top + n), Len(f) = n, \A j \in 1..n : f[j] = top + j
  PROVE  /\ b \o f \in Seq(1..top + n) /\ Distinct(b \o f)
         /\ Len(b \o f) = Len(b) + n
         /\ \A i \in 1..Len(b) : (b \o f)[i] = b[i]
         /\ f \o b \in Seq(1..top + n) /\ Distinct(f \o b)
         /\ Len(f \o b) = n + Len(b)
<1>1. Len(b) \in Nat /\ \A i \in 1..Len(b) : b[i] \in 1..top
  BY LenProperties
<1>2. b \in Seq(1..top + n)
  BY <1>1
<1>3. Distinct(f)
  BY DEF Distinct
<1>4. \A i \in 1..Len(b), j \in 1..Len(f) : b[i] # f[j] /\ f[j] # b[i]
  <2> TAKE i \in 1..Len(b), j \in 1..Len(f)
  <2>1. f[j] = top + j /\ j \in 1..n /\ b[i] \in 1..top
    BY <1>1
  <2>2. QED
    BY <2>1
<1> DEFINE T == 1..top + n
<1>5. b \in Seq(T) /\ f \in Seq(T)
  BY <1>2
<1> HIDE DEF T
<1>6. b \o f \in Seq(T) /\ Len(b \o f) = Len(b) + Len(f) /\ Distinct(b \o f)
  BY <1>3, <1>4, <1>5, ApartSeq
<1>7. \A i \in 1..Len(b) : (b \o f)[i] = b[i]
  BY <1>1, <1>5
<1>8. f \o b \in Seq(T) /\ Len(f \o b) = Len(f) + Len(b) /\ Distinct(f \o b)
  BY <1>3, <1>4, <1>5, ApartSeq
<1>9. QED
  BY <1>6, <1>7, <1>8 DEF T

\* What is read of a body, and what is not, is so when something is added.
LEMMA LongerSeq ==
  ASSUME NEW S, NEW b \in Seq(S), NEW f \in Seq(S), NEW p \in 0..Len(b)
  PROVE  /\ Read(b, p) \subseteq Read(b \o f, p)
         /\ Unread(b, p) \subseteq Unread(b \o f, p)
<1> DEFINE c == b \o f
<1>1. /\ Len(b) \in Nat /\ Len(c) \in Nat /\ Len(b) <= Len(c)
      /\ \A i \in 1..Len(b) : c[i] = b[i]
  BY LenProperties, ConcatProperties
<1> HIDE DEF c
<1>2. ASSUME NEW i \in 1..p PROVE b[i] \in Read(c, p)
  BY <1>1 DEF Read
<1>3. ASSUME NEW i \in p + 1..Len(b) PROVE b[i] \in Unread(c, p)
  <2>1. i \in p + 1..Len(c) /\ c[i] = b[i]
    BY <1>1
  <2>2. QED
    BY <2>1 DEF Unread
<1>4. QED
  BY <1>2, <1>3 DEF Read, Unread, c

-----------------------------------------------------------------------------
(* The reader's place: messages.                                           *)

Fields == {"body", "pos", "header", "head", "cap"}

\* Bytes up to top, each once, and a cursor that is not beyond the end.
Place(r, top) ==
  /\ DOMAIN r = Fields
  /\ r.body \in Seq(1..top) /\ Distinct(r.body)
  /\ r.pos \in 0..Len(r.body)

\* s is r after a step that makes nothing read or unread.
Undisturbed(r, s) ==
  /\ Consumed(r) \cap Remaining(s) = {}
  /\ Consumed(s) \cap Remaining(r) = {}

(***************************************************************************)
(* Every message has its place; chunk(), which slices the body from the    *)
(* cursor, does not panic.                                                 *)
(***************************************************************************)
ReaderInv ==
  /\ made \in Nat /\ DOMAIN msg = Messages
  /\ \A m \in Messages : Place(msg[m], made)

\* The bytes before and after the cursor of a message that keeps its place.
LEMMA PlaceSets ==
  ASSUME NEW r, NEW top, Place(r, top)
  PROVE  /\ Consumed(r) = Read(r.body, r.pos)
         /\ Remaining(r) = Unread(r.body, r.pos)
         /\ Consumed(r) \cap Remaining(r) = {}
BY ReadApart DEF Place, Consumed, Remaining

\* A cursor in the same place, in a body that lost or gained bytes.
LEMMA PlaceApart ==
  ASSUME NEW r, NEW s, NEW t, NEW u, Place(r, t), Place(s, u),
         \/ /\ Read(r.body, r.pos) \subseteq Read(s.body, s.pos)
            /\ Unread(r.body, r.pos) \subseteq Unread(s.body, s.pos)
         \/ /\ Read(s.body, s.pos) \subseteq Read(r.body, r.pos)
            /\ Unread(s.body, s.pos) \subseteq Unread(r.body, r.pos)
  PROVE  Undisturbed(r, s)
<1>1. /\ Consumed(r) = Read(r.body, r.pos) /\ Remaining(r) = Unread(r.body, r.pos)
      /\ Consumed(r) \cap Remaining(r) = {}
  BY PlaceSets
<1>2. /\ Consumed(s) = Read(s.body, s.pos) /\ Remaining(s) = Unread(s.body, s.pos)
      /\ Consumed(s) \cap Remaining(s) = {}
  BY PlaceSets
<1>3. QED
  BY <1>1, <1>2 DEF Undisturbed

\* An edit of header or capacity leaves the reader where it was.
LEMMA SamePlace ==
  ASSUME NEW r, NEW s, NEW top, Place(r, top), DOMAIN s = Fields,
         s.body = r.body, s.pos = r.pos
  PROVE  Place(s, top) /\ Undisturbed(r, s)
<1>1. Place(s, top)
  BY DEF Place
<1>2. QED
  BY <1>1, PlaceApart

\* New bytes elsewhere do not disturb a message.
LEMMA MorePlace ==
  ASSUME NEW r, NEW top \in Nat, NEW n \in Nat, Place(r, top)
  PROVE  Place(r, top + n)
<1>1. r.body \in Seq(1..top + n)
  <2>1. Len(r.body) \in Nat /\ \A i \in 1..Len(r.body) : r.body[i] \in 1..top
    BY LenProperties DEF Place
  <2>2. QED
    BY <2>1 DEF Place
<1>2. QED
  BY <1>1 DEF Place

\* Growing the buffer leaves the body and the cursor alone.
LEMMA ReserveKeeps ==
  ASSUME NEW r, NEW n, DOMAIN r = Fields
  PROVE  /\ DOMAIN NngReserve(r, n) = Fields
         /\ NngReserve(r, n).body = r.body /\ NngReserve(r, n).pos = r.pos
         /\ DOMAIN Reserve(r, n) = Fields
         /\ Reserve(r, n).body = r.body /\ Reserve(r, n).pos = r.pos
<1>1. \A k : /\ DOMAIN NngReserve(r, k) = Fields
             /\ NngReserve(r, k).body = r.body /\ NngReserve(r, k).pos = r.pos
  BY DEF NngReserve, Fields
<1>2. QED
  BY <1>1 DEF Reserve

\* nng_msg_append and io::Write add at the end and leave the cursor.
LEMMA AppendKeeps ==
  ASSUME NEW r, NEW bytes, DOMAIN r = Fields
  PROVE  /\ DOMAIN NngAppend(r, bytes) = Fields
         /\ NngAppend(r, bytes).body = r.body \o bytes
         /\ NngAppend(r, bytes).pos = r.pos
         /\ DOMAIN WriteTo(r, bytes) = Fields
         /\ WriteTo(r, bytes).body = r.body \o bytes
         /\ WriteTo(r, bytes).pos = r.pos
<1>1. ASSUME NEW s, DOMAIN s = Fields
      PROVE  /\ DOMAIN NngAppend(s, bytes) = Fields
             /\ NngAppend(s, bytes).body = s.body \o bytes
             /\ NngAppend(s, bytes).pos = s.pos
  <2> DEFINE t == NngReserve(s, Len(s.body) + Len(bytes))
  <2>1. DOMAIN t = Fields /\ t.body = s.body /\ t.pos = s.pos
    BY <1>1, ReserveKeeps
  <2>2. NngAppend(s, bytes) = [t EXCEPT !.body = @ \o bytes]
    BY DEF NngAppend
  <2> HIDE DEF t
  <2>3. QED
    BY <2>1, <2>2 DEF Fields
<1>2. /\ DOMAIN Reserve(r, Len(bytes)) = Fields
      /\ Reserve(r, Len(bytes)).body = r.body /\ Reserve(r, Len(bytes)).pos = r.pos
  BY ReserveKeeps
<1>3. QED
  BY <1>1, <1>2 DEF WriteTo

\* New bytes at the end are unread, and the others stay as they were.
LEMMA AppendedPlace ==
  ASSUME NEW r, NEW s, NEW n \in Nat, made \in Nat, Place(r, made),
         DOMAIN s = Fields, s.pos = r.pos, s.body = r.body \o Fresh(n)
  PROVE  Place(s, made + n) /\ Undisturbed(r, s)
<1> DEFINE b == r.body
           f == Fresh(n)
<1>1. f \in Seq(1..made + n) /\ Len(f) = n /\ \A j \in 1..n : f[j] = made + j
  BY FreshAt DEF Fresh
<1>2. b \in Seq(1..made) /\ Distinct(b) /\ r.pos \in 0..Len(b) /\ Len(b) \in Nat
  BY LenProperties DEF Place
<1> HIDE DEF b, f
<1>3. /\ b \o f \in Seq(1..made + n) /\ Distinct(b \o f)
      /\ Len(b \o f) = Len(b) + n
      /\ \A i \in 1..Len(b) : (b \o f)[i] = b[i]
  BY <1>1, <1>2, AddedSeq
<1> DEFINE c == s.body
<1>4. c = b \o f
  BY DEF b, f
<1>5. /\ c \in Seq(1..made + n) /\ Distinct(c) /\ Len(c) = Len(b) + n
      /\ \A i \in 1..Len(b) : c[i] = b[i]
  BY <1>3, <1>4, Zenon
<1> HIDE DEF c
<1>6. r.pos \in 0..Len(c) /\ Len(b) <= Len(c)
  BY <1>2, <1>5
<1>7. Place(s, made + n)
  BY <1>5, <1>6 DEF Place, c
<1>8. b \in Seq(1..made + n)
  BY MorePlace DEF Place, b
<1>9. /\ Read(b, r.pos) \subseteq Read(c, r.pos)
      /\ Unread(b, r.pos) \subseteq Unread(c, r.pos)
  <2> DEFINE T == 1..made + n
             p == r.pos
  <2>1. b \in Seq(T) /\ f \in Seq(T) /\ p \in 0..Len(b)
    BY <1>1, <1>2, <1>8
  <2> HIDE DEF T, p
  <2>2. /\ Read(b, p) \subseteq Read(b \o f, p)
        /\ Unread(b, p) \subseteq Unread(b \o f, p)
    BY <2>1, LongerSeq
  <2>3. QED
    BY <1>4, <2>2, Zenon DEF p
<1>10. QED
  BY <1>7, <1>9, PlaceApart DEF b, c

\* New bytes at the front keep the cursor inside the body.
LEMMA PrependedPlace ==
  ASSUME NEW r, NEW n \in Nat, made \in Nat, Place(r, made)
  PROVE  Place(PrependTo(r, Fresh(n)), made + n)
<1> DEFINE b == r.body
           f == Fresh(n)
           s == PrependTo(r, f)
<1>1. f \in Seq(1..made + n) /\ Len(f) = n /\ \A j \in 1..n : f[j] = made + j
  BY FreshAt DEF Fresh
<1>2. b \in Seq(1..made) /\ Distinct(b) /\ r.pos \in 0..Len(b) /\ Len(b) \in Nat
  BY LenProperties DEF Place
<1> HIDE DEF f
<1>3. DOMAIN s = Fields /\ s.body = f \o b /\ s.pos = r.pos
  BY DEF PrependTo, Place, Fields
<1> HIDE DEF b, s
<1>4. f \o b \in Seq(1..made + n) /\ Distinct(f \o b) /\ Len(f \o b) = n + Len(b)
  BY <1>1, <1>2, AddedSeq
<1>5. r.pos \in 0..n + Len(b)
  BY <1>2
<1>6. Place(s, made + n)
  BY <1>3, <1>4, <1>5, Zenon DEF Place
<1>7. QED
  BY <1>6 DEF s, f

\* The smaller of two numbers.
LEMMA LesserOf ==
  ASSUME NEW x \in Int, NEW y \in Int
  PROVE  Min({x, y}) = IF x <= y THEN x ELSE y
<1>1. \E z \in {x, y} : \A w \in {x, y} : z =< w
  BY SMT
<1>2. Min({x, y}) \in {x, y} /\ \A w \in {x, y} : Min({x, y}) =< w
  BY <1>1 DEF Min
<1>3. QED
  BY <1>2

\* A part of the body stays, and of the read bytes those in it.
LEMMA CutPlace ==
  ASSUME NEW r, NEW s, NEW top, Place(r, top), DOMAIN s = Fields,
         NEW trim \in Nat, NEW len \in Nat, trim + len <= Len(r.body),
         s.body = SubSeq(r.body, trim + 1, trim + len), s.pos \in 0..len,
         s.pos = 0 \/ trim + s.pos <= r.pos, s.pos = len \/ trim + s.pos >= r.pos
  PROVE  Place(s, top) /\ Undisturbed(r, s)
<1> DEFINE T == 1..top
           b == r.body
           c == s.body
           p == r.pos
           q == s.pos
           k == Len(b)
<1>1. /\ b \in Seq(T) /\ k \in Nat /\ p \in 0..k
      /\ \A i, j \in 1..k : b[i] = b[j] => i = j
  BY LenProperties DEF Place, Distinct
<1>2. /\ q \in 0..len /\ trim + len <= k
      /\ q = 0 \/ trim + q <= p
      /\ q = len \/ trim + q >= p
  OBVIOUS
<1>3. c = SubSeq(b, trim + 1, trim + len)
  OBVIOUS
<1>4. c \in Seq(T) /\ Len(c) = len /\ \A i \in 1..len : c[i] = b[trim + i]
  <2>1. b \in Seq(T) /\ trim + len <= Len(b)
    BY <1>1, <1>2
  <2> HIDE DEF b, c, T
  <2>2. /\ SubSeq(b, trim + 1, trim + len) \in Seq(T)
        /\ Len(SubSeq(b, trim + 1, trim + len)) = len
        /\ \A i \in 1..len : SubSeq(b, trim + 1, trim + len)[i] = b[trim + i]
    BY <2>1, SliceAt
  <2>3. QED
    BY <1>3, <2>2
<1>5. Read(b, p) = {b[i] : i \in 1..p} /\ Unread(b, p) = {b[i] : i \in p + 1..k}
  BY DEF Read, Unread
<1>6. Place(s, top) <=> c \in Seq(T) /\ Distinct(c) /\ q \in 0..Len(c)
  BY DEF Place
<1>7. /\ Read(c, q) \subseteq Read(b, p) /\ Unread(c, q) \subseteq Unread(b, p)
           /\ Place(s, top) => Undisturbed(r, s)
  BY PlaceApart
<1> HIDE DEF T, b, c, p, q, k
<1>8. ASSUME NEW i \in 1..len, NEW j \in 1..len, c[i] = c[j]
      PROVE  i = j
  <2>1. trim + i \in 1..k /\ trim + j \in 1..k
    BY <1>1, <1>2
  <2>2. trim + i = trim + j
    BY <1>1, <1>4, <1>8, <2>1
  <2>3. QED
    BY <2>2
<1>9. ASSUME NEW i \in 1..q
      PROVE  c[i] \in Read(b, p)
  <2>1. trim + i \in 1..p /\ i \in 1..len
    BY <1>1, <1>2
  <2>2. QED
    BY <1>4, <1>5, <2>1
<1>10. ASSUME NEW i \in q + 1..len
       PROVE  c[i] \in Unread(b, p)
  <2>1. trim + i \in p + 1..k /\ i \in 1..len
    BY <1>1, <1>2
  <2>2. QED
    BY <1>4, <1>5, <2>1
<1>11. /\ Distinct(c) /\ Read(c, q) \subseteq Read(b, p)
       /\ Unread(c, q) \subseteq Unread(b, p)
  BY <1>4, <1>8, <1>9, <1>10 DEF Distinct, Read, Unread
<1>12. QED
  BY <1>2, <1>4, <1>6, <1>7, <1>11

\* A cut at the end keeps the cursor inside and returns no read byte.
LEMMA TruncatedPlace ==
  ASSUME NEW r, NEW top, Place(r, top), NEW len \in 0..Len(r.body)
  PROVE  /\ Place(TruncateTo(r, len), top) /\ Undisturbed(r, TruncateTo(r, len))
         /\ TruncateTo(r, len).body = SubSeq(r.body, 1, len)
<1> DEFINE s == TruncateTo(r, len)
           trim == 0
<1>1. r.pos \in 0..Len(r.body) /\ Len(r.body) \in Nat
  BY LenProperties DEF Place
<1>2. /\ DOMAIN s = Fields /\ s.body = SubSeq(r.body, 1, len)
      /\ s.pos = Min({r.pos, len})
  BY DEF TruncateTo, Place, Fields
<1>3. s.pos = IF r.pos <= len THEN r.pos ELSE len
  BY <1>1, <1>2, LesserOf
<1> HIDE DEF s
<1>4. /\ trim \in Nat /\ len \in Nat /\ trim + len <= Len(r.body)
      /\ s.body = SubSeq(r.body, trim + 1, trim + len) /\ s.pos \in 0..len
      /\ s.pos = 0 \/ trim + s.pos <= r.pos
      /\ s.pos = len \/ trim + s.pos >= r.pos
  BY <1>1, <1>2, <1>3
<1> HIDE DEF trim
<1>5. Place(s, top) /\ Undisturbed(r, s)
  BY <1>2, <1>4, CutPlace
<1>6. QED
  BY <1>2, <1>5 DEF s

\* A cut at the front moves the cursor with the bytes.
LEMMA FrontPlace ==
  ASSUME NEW r, NEW top, Place(r, top), NEW len \in 0..Len(r.body)
  PROVE  /\ Place(TruncateFrontTo(r, len), top)
         /\ Undisturbed(r, TruncateFrontTo(r, len))
<1> DEFINE s == TruncateFrontTo(r, len)
           trim == Len(r.body) - len
<1>1. r.pos \in 0..Len(r.body) /\ Len(r.body) \in Nat
  BY LenProperties DEF Place
<1>2. /\ DOMAIN s = Fields /\ s.body = SubSeq(r.body, trim + 1, Len(r.body))
      /\ s.pos = IF r.pos >= trim THEN r.pos - trim ELSE 0
  BY DEF TruncateFrontTo, Place, Fields
<1> HIDE DEF s
<1>3. trim \in Nat /\ len \in Nat /\ trim + len = Len(r.body)
  BY <1>1
<1> HIDE DEF trim
<1>4. s.body = SubSeq(r.body, trim + 1, trim + len)
  BY <1>2, <1>3
<1>5. /\ s.pos \in 0..len /\ trim + len <= Len(r.body)
      /\ s.pos = 0 \/ trim + s.pos <= r.pos
      /\ s.pos = len \/ trim + s.pos >= r.pos
  BY <1>1, <1>2, <1>3
<1>6. Place(s, top) /\ Undisturbed(r, s)
  BY <1>2, <1>3, <1>4, <1>5, CutPlace
<1>7. QED
  BY <1>6 DEF s

\* Buf::advance passes over bytes that are not read again.
LEMMA AdvancedPlace ==
  ASSUME NEW r, NEW top, Place(r, top), NEW n \in 1..Len(r.body) - r.pos
  PROVE  /\ Place([r EXCEPT !.pos = @ + n], top)
         /\ Consumed(r) \cap Remaining([r EXCEPT !.pos = @ + n]) = {}
<1> DEFINE s == [r EXCEPT !.pos = @ + n]
           b == r.body
           p == r.pos
<1>1. DOMAIN s = Fields /\ s.body = b /\ s.pos = p + n
  BY DEF Place, Fields
<1>2. b \in Seq(1..top) /\ Distinct(b) /\ p \in 0..Len(b) /\ Len(b) \in Nat
  BY LenProperties DEF Place
<1>3. p + n \in 0..Len(b) /\ p <= p + n /\ p \in Nat /\ n \in Nat
  BY <1>2
<1> HIDE DEF s
<1>4. Place(s, top)
  BY <1>1, <1>2, <1>3 DEF Place
<1>5. Read(b, p) \subseteq Read(b, p + n)
  BY <1>3 DEF Read
<1>6. /\ Consumed(s) \cap Remaining(s) = {} /\ Consumed(s) = Read(b, p + n)
      /\ Consumed(r) = Read(b, p)
  BY <1>1, <1>4, PlaceSets
<1>7. QED
  BY <1>4, <1>5, <1>6 DEF s

\* A clone has the bytes and the cursor of its source.
LEMMA ClonedPlace ==
  ASSUME NEW r, NEW s, NEW top, Place(r, top), Place(s, top)
  PROVE  Place(Cloned(r, s), top)
<1> DEFINE t == TruncateTo(r, 0)
           w == WriteTo(t, s.body)
           c == Cloned(r, s)
<1>1. 0 \in 0..Len(r.body)
  BY LenProperties DEF Place
<1>2. DOMAIN t = Fields /\ t.body = SubSeq(r.body, 1, 0)
  BY <1>1, TruncatedPlace DEF Place
<1>3. t.body = <<>>
  <2>1. 0 < 1 /\ 0 \in Int /\ 1 \in Int
    OBVIOUS
  <2>2. QED
    BY <1>2, <2>1, SubSeqEmpty, Zenon
<1> HIDE DEF t
<1>4. DOMAIN w = Fields /\ w.body = t.body \o s.body
  BY <1>2, AppendKeeps
<1>5. w.body = s.body
  BY <1>3, <1>4, ConcatEmptySeq DEF Place
<1>6. c = [w EXCEPT !.header = s.header, !.pos = s.pos]
  BY DEF Cloned, t
<1> HIDE DEF w, c
<1>7. DOMAIN c = Fields /\ c.body = s.body /\ c.pos = s.pos
  BY <1>4, <1>5, <1>6 DEF Fields
<1>8. Place(c, top)
  BY <1>7, SamePlace
<1>9. QED
  BY <1>8 DEF c

-----------------------------------------------------------------------------
(* The reader's place: steps.                                              *)

\* One message is replaced.
LEMMA PutStep ==
  ASSUME ReaderInv, NEW m \in Messages, NEW r, Put(m, r),
         NEW n \in Nat, made' = made + n, Place(r, made + n)
  PROVE  /\ ReaderInv' /\ msg'[m] = r
         /\ \A k \in Messages \ {m} : Undisturbed(msg[k], msg'[k])
<1>1. made \in Nat /\ DOMAIN msg = Messages /\ \A k \in Messages : Place(msg[k], made)
  BY DEF ReaderInv
<1>2. /\ DOMAIN msg' = Messages /\ msg'[m] = r
      /\ \A k \in Messages \ {m} : msg'[k] = msg[k]
  BY <1>1 DEF Put
<1>3. \A k \in Messages : Place(msg'[k], made + n)
  BY <1>1, <1>2, MorePlace
<1>4. ASSUME NEW k \in Messages \ {m}
      PROVE  Undisturbed(msg[k], msg'[k])
  <2>1. Place(msg[k], made)
    BY <1>1
  <2>2. Undisturbed(msg[k], msg[k])
    BY <2>1, PlaceApart
  <2>3. QED
    BY <1>2, <2>2
<1>5. ReaderInv'
  BY <1>1, <1>2, <1>3 DEF ReaderInv
<1>6. QED
  BY <1>2, <1>4, <1>5

\* What KeepsPlace says of a message in a step.
Kept(m) ==
  \/ Prepend(m)
  \/ \E source \in Messages : CloneFrom(m, source) \/ Clone(m, source)
  \/ /\ Consumed(msg[m]) \cap Remaining(msg'[m]) = {}
     /\ Consumed(msg'[m]) \cap Remaining(msg[m]) = {} \/ Advance(m)

\* The common case: the replaced message is where it was.
LEMMA QuietStep ==
  ASSUME ReaderInv, NEW m \in Messages, NEW r, Put(m, r),
         NEW n \in Nat, made' = made + n, Place(r, made + n), Undisturbed(msg[m], r)
  PROVE  ReaderInv' /\ \A k \in Messages : Kept(k)
<1>1. /\ ReaderInv' /\ msg'[m] = r
      /\ \A k \in Messages \ {m} : Undisturbed(msg[k], msg'[k])
  BY PutStep
<1>2. \A k \in Messages : Undisturbed(msg[k], msg'[k])
  BY <1>1
<1>3. QED
  BY <1>1, <1>2 DEF Undisturbed, Kept

\* A message gets fields that are not about its body.
LEMMA SameStep ==
  ASSUME ReaderInv, NEW m \in Messages, NEW r, Put(m, r), made' = made,
         DOMAIN r = Fields, r.body = msg[m].body, r.pos = msg[m].pos
  PROVE  ReaderInv' /\ \A k \in Messages : Kept(k)
<1>1. made \in Nat /\ made' = made + 0 /\ made + 0 = made /\ Place(msg[m], made)
  BY DEF ReaderInv
<1>2. Place(r, made + 0) /\ Undisturbed(msg[m], r)
  BY <1>1, SamePlace
<1>3. QED
  BY <1>1, <1>2, QuietStep

\* truncate, truncate_front, pop and trim keep every reader's place.
LEMMA CutStep ==
  ASSUME ReaderInv, NEW m \in Messages, NEW len \in 0..Len(msg[m].body), made' = made,
         Put(m, TruncateTo(msg[m], len)) \/ Put(m, TruncateFrontTo(msg[m], len))
  PROVE  ReaderInv' /\ \A k \in Messages : Kept(k)
<1>1. made \in Nat /\ made' = made + 0 /\ made + 0 = made /\ Place(msg[m], made)
  BY DEF ReaderInv
<1>2. CASE Put(m, TruncateTo(msg[m], len))
  <2>1. /\ Place(TruncateTo(msg[m], len), made + 0)
        /\ Undisturbed(msg[m], TruncateTo(msg[m], len))
    BY <1>1, TruncatedPlace
  <2>2. QED
    BY <1>1, <1>2, <2>1, QuietStep
<1>3. CASE Put(m, TruncateFrontTo(msg[m], len))
  <2>1. /\ Place(TruncateFrontTo(msg[m], len), made + 0)
        /\ Undisturbed(msg[m], TruncateFrontTo(msg[m], len))
    BY <1>1, FrontPlace
  <2>2. QED
    BY <1>1, <1>3, <2>1, QuietStep
<1>4. QED
  BY <1>2, <1>3

\* Writes keep every reader's place.
LEMMA AppendStep ==
  ASSUME ReaderInv, NEW m \in Messages, NEW n \in Nat, made' = made + n,
         \/ Put(m, WriteTo(msg[m], Fresh(n)))
         \/ Put(m, NngAppend(msg[m], Fresh(n)))
  PROVE  ReaderInv' /\ \A k \in Messages : Kept(k)
<1>1. made \in Nat /\ Place(msg[m], made) /\ DOMAIN msg[m] = Fields
  BY DEF ReaderInv, Place
<1>2. CASE Put(m, WriteTo(msg[m], Fresh(n)))
  <2>1. /\ Place(WriteTo(msg[m], Fresh(n)), made + n)
        /\ Undisturbed(msg[m], WriteTo(msg[m], Fresh(n)))
    BY <1>1, AppendKeeps, AppendedPlace
  <2>2. QED
    BY <1>2, <2>1, QuietStep
<1>3. CASE Put(m, NngAppend(msg[m], Fresh(n)))
  <2>1. /\ Place(NngAppend(msg[m], Fresh(n)), made + n)
        /\ Undisturbed(msg[m], NngAppend(msg[m], Fresh(n)))
    BY <1>1, AppendKeeps, AppendedPlace
  <2>2. QED
    BY <1>3, <2>1, QuietStep
<1>4. QED
  BY <1>2, <1>3

\* clear keeps every reader's place: it leaves nothing to read.
LEMMA ClearStep ==
  ASSUME ReaderInv, NEW m \in Messages, Clear(m)
  PROVE  ReaderInv' /\ \A k \in Messages : Kept(k)
<1> DEFINE t == TruncateTo(msg[m], 0)
           r == [t EXCEPT !.header = 0]
<1>1. made \in Nat /\ made' = made + 0 /\ made + 0 = made /\ Place(msg[m], made)
  BY DEF ReaderInv, Clear
<1>2. 0 \in 0..Len(msg[m].body)
  BY <1>1, LenProperties DEF Place
<1>3. Place(t, made) /\ Undisturbed(msg[m], t)
  BY <1>1, <1>2, TruncatedPlace
<1>4. Put(m, r)
  BY DEF Clear
<1> HIDE DEF t
<1>5. DOMAIN r = Fields /\ r.body = t.body /\ r.pos = t.pos
  BY <1>3 DEF Place, Fields
<1> HIDE DEF r
<1>6. Place(r, made)
  BY <1>3, <1>5, SamePlace
<1>7. Consumed(r) = Consumed(t) /\ Remaining(r) = Remaining(t)
  BY <1>5 DEF Consumed, Remaining
<1>8. Undisturbed(msg[m], r)
  BY <1>3, <1>7 DEF Undisturbed
<1>9. QED
  BY <1>1, <1>4, <1>6, <1>8, QuietStep

\* Reads keep the place of every other message, and of their own.
LEMMA AdvanceStep ==
  ASSUME ReaderInv, NEW m \in Messages, Advance(m)
  PROVE  ReaderInv' /\ \A k \in Messages : Kept(k)
<1>1. PICK n \in 1..Len(msg[m].body) - msg[m].pos :
        Put(m, [msg[m] EXCEPT !.pos = @ + n])
  BY DEF Advance
<1>2. made \in Nat /\ made' = made + 0 /\ made + 0 = made /\ Place(msg[m], made)
  BY DEF ReaderInv, Advance
<1> DEFINE r == [msg[m] EXCEPT !.pos = @ + n]
<1>3. Place(r, made) /\ Consumed(msg[m]) \cap Remaining(r) = {} /\ Put(m, r)
  BY <1>1, <1>2, AdvancedPlace
<1> HIDE DEF r
<1>4. /\ ReaderInv' /\ msg'[m] = r
      /\ \A k \in Messages \ {m} : Undisturbed(msg[k], msg'[k])
  BY <1>2, <1>3, PutStep
<1>5. Kept(m)
  BY <1>3, <1>4 DEF Kept
<1>6. \A k \in Messages \ {m} : Kept(k)
  BY <1>4 DEF Undisturbed, Kept
<1>7. QED
  BY <1>4, <1>5, <1>6

\* A step that KeepsPlace makes an exception for.
LEMMA LooseStep ==
  ASSUME ReaderInv, NEW m \in Messages, NEW r, Put(m, r),
         NEW n \in Nat, made' = made + n, Place(r, made + n),
         \/ Prepend(m)
         \/ \E source \in Messages : CloneFrom(m, source) \/ Clone(m, source)
  PROVE  ReaderInv' /\ \A k \in Messages : Kept(k)
<1>1. ReaderInv' /\ \A k \in Messages \ {m} : Undisturbed(msg[k], msg'[k])
  BY PutStep
<1>2. Kept(m)
  BY DEF Kept
<1>3. \A k \in Messages \ {m} : Kept(k)
  BY <1>1 DEF Undisturbed, Kept
<1>4. QED
  BY <1>1, <1>2, <1>3

\* Every operation of Message keeps the cursor inside and every reader's place.
LEMMA ReaderStep ==
  ASSUME ReaderInv, MessageNext
  PROVE  ReaderInv' /\ \A k \in Messages : Kept(k)
<1>0. PICK m \in Messages :
        \/ Write(m) \/ ReserveMore(m) \/ Prepend(m) \/ Truncate(m) \/ TruncateFront(m)
        \/ SetLen(m)
        \/ WriteHeader(m) \/ HeaderTruncate(m) \/ Clear(m) \/ Advance(m) \/ ChunkMut(m)
        \/ \E source \in Messages : CloneFrom(m, source) \/ Clone(m, source)
  BY DEF MessageNext
<1>a. made \in Nat /\ Place(msg[m], made) /\ DOMAIN msg[m] = Fields /\ MaxBytes \in Nat
  BY MessageBounds DEF ReaderInv, Place
<1>1. CASE Write(m)
  BY <1>1, <1>a, AppendStep DEF Write
<1>2. CASE ReserveMore(m)
  <2>1. PICK n \in 1..MaxBytes :
          \E r \in {Reserve(msg[m], n), NngReserve(msg[m], Len(msg[m].body) + n)} :
            Put(m, r)
    BY <1>2 DEF ReserveMore
  <2>2. PICK r \in {Reserve(msg[m], n), NngReserve(msg[m], Len(msg[m].body) + n)} :
          Put(m, r)
    BY <2>1
  <2>3. DOMAIN r = Fields /\ r.body = msg[m].body /\ r.pos = msg[m].pos
    BY <1>a, ReserveKeeps
  <2>4. made' = made
    BY <1>2 DEF ReserveMore
  <2>5. QED
    BY <2>2, <2>3, <2>4, SameStep
<1>3. CASE Prepend(m)
  <2>1. PICK n \in 1..MaxBytes - made :
          Put(m, PrependTo(msg[m], Fresh(n))) /\ made' = made + n
    BY <1>3 DEF Prepend
  <2>2. n \in Nat
    BY <1>a
  <2>3. Place(PrependTo(msg[m], Fresh(n)), made + n)
    BY <1>a, <2>2, PrependedPlace
  <2>4. QED
    BY <1>3, <2>1, <2>2, <2>3, LooseStep
<1>4. CASE Truncate(m)
  BY <1>4, CutStep DEF Truncate
<1>5. CASE TruncateFront(m)
  BY <1>5, CutStep DEF TruncateFront
<1>6. CASE SetLen(m)
  <2>1. CASE \E n \in 1..MaxBytes - made :
               Put(m, NngAppend(msg[m], Fresh(n))) /\ made' = made + n
    BY <1>a, <2>1, AppendStep
  <2>2. CASE \E len \in 0..Len(msg[m].body) :
               Put(m, TruncateTo(msg[m], len)) /\ UNCHANGED made
    BY <2>2, CutStep
  <2>3. QED
    BY <1>6, <2>1, <2>2 DEF SetLen
<1>7. CASE WriteHeader(m) \/ HeaderTruncate(m)
  <2>1. PICK h : Put(m, [msg[m] EXCEPT !.header = h])
    BY <1>7 DEF WriteHeader, HeaderTruncate
  <2> DEFINE r == [msg[m] EXCEPT !.header = h]
  <2>2. DOMAIN r = Fields /\ r.body = msg[m].body /\ r.pos = msg[m].pos
    BY <1>a DEF Fields
  <2>3. made' = made /\ Put(m, r)
    BY <1>7, <2>1 DEF WriteHeader, HeaderTruncate
  <2> HIDE DEF r
  <2>4. QED
    BY <2>2, <2>3, SameStep
<1>8. CASE Clear(m) \/ Advance(m)
  BY <1>8, ClearStep, AdvanceStep
<1>9. CASE ChunkMut(m)
  <2> DEFINE r == IF Len(msg[m].body) >= msg[m].cap THEN Reserve(msg[m], Grow) ELSE msg[m]
  <2>1. DOMAIN r = Fields /\ r.body = msg[m].body /\ r.pos = msg[m].pos
    BY <1>a, ReserveKeeps
  <2>2. made' = made /\ Put(m, r)
    BY <1>9 DEF ChunkMut
  <2> HIDE DEF r
  <2>3. QED
    BY <2>1, <2>2, SameStep
<1>10. ASSUME NEW source \in Messages, CloneFrom(m, source) \/ Clone(m, source)
       PROVE  ReaderInv' /\ \A k \in Messages : Kept(k)
  <2>1. Place(msg[source], made) /\ made' = made + 0 /\ made + 0 = made
    BY <1>a, <1>10 DEF ReaderInv, CloneFrom, Clone
  <2>2. CASE CloneFrom(m, source)
    <3>1. Place(Cloned(msg[m], msg[source]), made + 0)
      BY <1>a, <2>1, ClonedPlace
    <3>2. Put(m, Cloned(msg[m], msg[source]))
      BY <2>2 DEF CloneFrom
    <3>3. QED
      BY <2>1, <2>2, <3>1, <3>2, LooseStep
  <2>3. CASE Clone(m, source)
    <3>1. Put(m, msg[source])
      BY <2>3 DEF Clone
    <3>2. QED
      BY <2>1, <2>3, <3>1, LooseStep
  <2>4. QED
    BY <1>10, <2>2, <2>3
<1>11. QED
  BY <1>0, <1>1, <1>2, <1>3, <1>4, <1>5, <1>6, <1>7, <1>8, <1>9, <1>10

(***************************************************************************)
(* Whatever is written, cut, reserved and cloned, the cursor of Buf is     *)
(* never beyond the end of the body, and no byte is in a body twice.       *)
(***************************************************************************)
THEOREM ReaderInBody == MessageSpec => []ReaderInv
<1>1. MessageInit => ReaderInv
  <2> SUFFICES ASSUME MessageInit
               PROVE  ReaderInv
    OBVIOUS
  <2>1. made = 0 /\ DOMAIN msg = Messages /\ \A m \in Messages : msg[m] = Empty
    BY DEF MessageInit
  <2>2. DOMAIN Empty = Fields /\ Empty.body = <<>> /\ Empty.pos = 0
    BY DEF Empty, Fields
  <2>3. <<>> \in Seq(1..0) /\ Len(<<>>) = 0
    BY EmptySeq
  <2>4. Place(Empty, 0)
    BY <2>2, <2>3 DEF Place, Distinct
  <2>5. QED
    BY <2>1, <2>4 DEF ReaderInv
<1>2. ReaderInv /\ [MessageNext]_messageVars => ReaderInv'
  <2> SUFFICES ASSUME ReaderInv, UNCHANGED messageVars
               PROVE  ReaderInv'
    BY ReaderStep
  <2> QED
    BY DEF ReaderInv, messageVars
<1>3. QED
  BY <1>1, <1>2, PTL DEF MessageSpec

(***************************************************************************)
(* For any number of messages, bytes and operations, nothing but advance   *)
(* makes a byte read, and nothing makes one unread but a prepend or the    *)
(* replacement of the message by a clone.                                  *)
(***************************************************************************)
THEOREM PlaceKept == MessageSpec => KeepsPlace
<1>1. ReaderInv /\ [MessageNext]_messageVars =>
        [\A m \in Messages : Kept(m)]_messageVars
  BY ReaderStep
<1>2. MessageSpec => [][\A m \in Messages : Kept(m)]_messageVars
  BY <1>1, ReaderInBody, PTL DEF MessageSpec
<1>3. QED
  BY <1>2 DEF KeepsPlace, Kept

-----------------------------------------------------------------------------
(* The buffer of a Message of anng.                                        *)

\* A set of numbers that is not empty has a least element.
LEMMA LeastElement ==
  ASSUME NEW T, T \subseteq Nat, T # {}
  PROVE  \E x \in T : \A y \in T : ~ (y < x)
<1> DEFINE R == OpToRel(<, Nat)
<1>1. IsWellFoundedOn(R, Nat)
  BY NatLessThanWellFounded, Zenon
<1>2. \A y, x \in Nat : y < x => <<y, x>> \in R
  BY DEF OpToRel
<1> HIDE DEF R
<1>3. \E x \in T : \A y \in T : ~ (<<y, x>> \in R)
  BY <1>1, WFMin
<1>4. QED
  BY <1>2, <1>3

\* The growth of reserve is a size, also where there is no power of two left.
LEMMA NextPowerTyped ==
  ASSUME NEW c \in Nat
  PROVE  NextPowerOfTwo(c) \in Nat
<1> DEFINE powers == {p \in PowersOfTwo : p >= c}
<1>1. UsizeMax \in Nat
  BY MessageBounds
<1>a. powers \subseteq Nat
  <2>1. PowersOfTwo \subseteq Nat
    BY <1>1, PowersAssumption
  <2>2. QED
    BY <2>1, Zenon
<1>2. CASE powers # {}
  <2>1. PICK x \in powers : \A y \in powers : ~ (y < x)
    <3> HIDE DEF powers
    <3>1. QED
      BY <1>a, <1>2, LeastElement
  <2>2. \A y \in powers : x <= y
    BY <1>a, <2>1
  <2> HIDE DEF powers
  <2>3. Min(powers) \in powers
    BY <2>1, <2>2 DEF Min
  <2>4. QED
    BY <1>a, <1>2, <2>3 DEF NextPowerOfTwo, powers
<1>3. CASE powers = {}
  BY <1>1, <1>3 DEF NextPowerOfTwo
<1>4. QED
  BY <1>2, <1>3

\* The greater of two sizes.
LEMMA GreaterOf ==
  ASSUME NEW x \in Nat, NEW y \in Nat
  PROVE  Max({x, y}) \in Nat /\ Max({x, y}) >= x /\ Max({x, y}) >= y
<1>1. \E z \in {x, y} : \A w \in {x, y} : z >= w
  BY SMT
<1>2. /\ Max({x, y}) \in {x, y}
      /\ \A w \in {x, y} : Max({x, y}) >= w
  BY <1>1 DEF Max
<1>3. QED
  BY <1>2

\* The body and what precedes it fit the buffer.
Buffered(r) ==
  /\ r.head \in Nat /\ r.cap \in Nat /\ r.header \in 0..MaxHeader
  /\ r.head + Len(r.body) <= r.cap

(***************************************************************************)
(* The buffers of all messages, and the counters of the model.  With       *)
(* ReaderInv it is inductive and implies MessageTypeOK.                    *)
(***************************************************************************)
BufferInv ==
  /\ made \in 0..MaxBytes /\ slice \in [end : Nat, cap : Nat]
  /\ \A m \in Messages : Buffered(msg[m])

\* Growing the buffer moves nothing and makes the room asked for.
LEMMA ReserveBuffered ==
  ASSUME NEW r, NEW n \in Nat, DOMAIN r = Fields, Len(r.body) \in Nat, Buffered(r)
  PROVE  /\ Buffered(NngReserve(r, n)) /\ NngReserve(r, n).head = r.head
         /\ r.head + n <= NngReserve(r, n).cap
         /\ Buffered(Reserve(r, n)) /\ Reserve(r, n).head = r.head
<1>1. ASSUME NEW k \in Nat
      PROVE  /\ Buffered(NngReserve(r, k)) /\ NngReserve(r, k).head = r.head
             /\ r.head + k <= NngReserve(r, k).cap
  <2> DEFINE c == Max({r.cap, r.head + k})
  <2>1. c \in Nat /\ c >= r.cap /\ c >= r.head + k
    <3>1. r.cap \in Nat /\ r.head + k \in Nat
      BY DEF Buffered
    <3>2. QED
      BY <3>1, GreaterOf
  <2> HIDE DEF c
  <2>2. NngReserve(r, k) = [r EXCEPT !.cap = c]
    BY DEF NngReserve, c
  <2>3. /\ NngReserve(r, k).cap = c /\ NngReserve(r, k).head = r.head
        /\ NngReserve(r, k).body = r.body /\ NngReserve(r, k).header = r.header
    BY <2>2 DEF Fields
  <2>4. QED
    BY <2>1, <2>3 DEF Buffered
<1>2. NextPowerOfTwo(r.cap) \in Nat /\ Len(r.body) + n \in Nat
  <2>1. r.cap \in Nat
    BY DEF Buffered
  <2>2. NextPowerOfTwo(r.cap) \in Nat
    BY <2>1, NextPowerTyped, Zenon
  <2>3. QED
    BY <2>2
<1>3. Max({Len(r.body) + n, NextPowerOfTwo(r.cap)}) \in Nat
  BY <1>2, GreaterOf
<1>4. QED
  BY <1>1, <1>3 DEF Reserve

\* An append, or a write that reserves first, fits the buffer it has grown.
LEMMA AppendBuffered ==
  ASSUME NEW r, NEW bytes, NEW V, bytes \in Seq(V), r.body \in Seq(V), DOMAIN r = Fields, Buffered(r)
  PROVE  /\ Buffered(NngAppend(r, bytes)) /\ NngAppend(r, bytes).head = r.head
         /\ Buffered(WriteTo(r, bytes)) /\ WriteTo(r, bytes).head = r.head
<1>1. ASSUME NEW s, s.body = r.body, DOMAIN s = Fields, Buffered(s), s.head = r.head
      PROVE  Buffered(NngAppend(s, bytes)) /\ NngAppend(s, bytes).head = r.head
  <2> DEFINE n == Len(s.body) + Len(bytes)
             t == NngReserve(s, n)
  <2>1. Len(s.body) \in Nat /\ n \in Nat
    BY <1>1
  <2>2. /\ Buffered(t) /\ t.head = s.head /\ t.head + n <= t.cap
        /\ t.body = s.body /\ DOMAIN t = Fields
    BY <1>1, <2>1, ReserveBuffered, ReserveKeeps
  <2>3. NngAppend(s, bytes) = [t EXCEPT !.body = @ \o bytes]
    BY DEF NngAppend
  <2>4. Len(s.body \o bytes) = n
    BY <1>1
  <2> HIDE DEF t, n
  <2>5. /\ NngAppend(s, bytes).body = s.body \o bytes /\ NngAppend(s, bytes).head = t.head
        /\ NngAppend(s, bytes).cap = t.cap /\ NngAppend(s, bytes).header = t.header
    BY <2>2, <2>3 DEF Fields
  <2>6. QED
    BY <1>1, <2>2, <2>4, <2>5 DEF Buffered
<1>2. Len(bytes) \in Nat /\ Len(r.body) \in Nat
  OBVIOUS
<1>3. /\ Buffered(Reserve(r, Len(bytes))) /\ Reserve(r, Len(bytes)).head = r.head
      /\ Reserve(r, Len(bytes)).body = r.body /\ DOMAIN Reserve(r, Len(bytes)) = Fields
  BY <1>2, ReserveBuffered, ReserveKeeps
<1>4. QED
  BY <1>1, <1>3 DEF WriteTo

\* A prepend takes the room in front, or else moves the body to the start.
LEMMA PrependBuffered ==
  ASSUME NEW r, NEW bytes, NEW V, bytes \in Seq(V), r.body \in Seq(V), DOMAIN r = Fields, Buffered(r)
  PROVE  /\ Buffered(PrependTo(r, bytes))
         /\ r.head = 0 => PrependTo(r, bytes).head = 0
<1> DEFINE h == IF r.head >= Len(bytes) THEN r.head - Len(bytes) ELSE 0
           c == Max({r.cap, h + Len(r.body) + Len(bytes)})
<1>1. Len(bytes) \in Nat /\ Len(r.body) \in Nat /\ Len(bytes \o r.body) = Len(bytes) + Len(r.body)
  OBVIOUS
<1>2. h \in Nat /\ (r.head = 0 => h = 0)
  BY <1>1 DEF Buffered
<1>3. h + Len(r.body) + Len(bytes) \in Nat
  BY <1>1, <1>2
<1>4. c \in Nat /\ c >= h + Len(r.body) + Len(bytes)
  BY <1>3, GreaterOf DEF Buffered
<1>5. PrependTo(r, bytes) = [r EXCEPT !.body = bytes \o @, !.head = h,
                                      !.cap = Max({@, h + Len(r.body) + Len(bytes)})]
  BY DEF PrependTo
<1> HIDE DEF h
<1>6. /\ PrependTo(r, bytes).body = bytes \o r.body /\ PrependTo(r, bytes).head = h
      /\ PrependTo(r, bytes).cap = c /\ PrependTo(r, bytes).header = r.header
  BY <1>5 DEF Fields
<1> HIDE DEF c
<1>7. QED
  BY <1>1, <1>2, <1>4, <1>6 DEF Buffered

\* Cutting either end keeps the rest in the buffer; only a cut in front makes room there.
LEMMA CutBuffered ==
  ASSUME NEW r, NEW V, r.body \in Seq(V), NEW len \in 0..Len(r.body), DOMAIN r = Fields, Buffered(r)
  PROVE  /\ Buffered(TruncateTo(r, len)) /\ TruncateTo(r, len).head = r.head
         /\ DOMAIN TruncateTo(r, len) = Fields /\ TruncateTo(r, len).body \in Seq(V)
         /\ Buffered(TruncateFrontTo(r, len))
<1>1. Len(r.body) \in Nat
  OBVIOUS
<1>2. /\ SubSeq(r.body, 1, len) \in Seq(V) /\ Len(SubSeq(r.body, 1, len)) = len
  BY <1>1
<1>3. /\ TruncateTo(r, len).body = SubSeq(r.body, 1, len)
      /\ TruncateTo(r, len).head = r.head /\ TruncateTo(r, len).cap = r.cap
      /\ TruncateTo(r, len).header = r.header /\ DOMAIN TruncateTo(r, len) = Fields
  BY DEF TruncateTo, Fields
<1> DEFINE trim == Len(r.body) - len
<1>4. trim \in Nat /\ trim + 1 \in Nat /\ trim + len = Len(r.body)
  BY <1>1
<1>5. Len(SubSeq(r.body, trim + 1, Len(r.body))) = len
  BY <1>1, <1>4
<1>6. /\ TruncateFrontTo(r, len).body = SubSeq(r.body, trim + 1, Len(r.body))
      /\ TruncateFrontTo(r, len).head = r.head + trim /\ TruncateFrontTo(r, len).cap = r.cap
      /\ TruncateFrontTo(r, len).header = r.header
  BY DEF TruncateFrontTo, Fields
<1> HIDE DEF trim
<1>7. Buffered(TruncateTo(r, len))
  BY <1>1, <1>2, <1>3 DEF Buffered
<1>8. Buffered(TruncateFrontTo(r, len))
  BY <1>1, <1>4, <1>5, <1>6 DEF Buffered
<1>9. QED
  BY <1>2, <1>3, <1>7, <1>8

\* Nothing precedes the body of any message.
NoHead == \A m \in Messages : msg[m].head = 0

\* One message is replaced.
LEMMA PutBuffered ==
  ASSUME ReaderInv, BufferInv, NEW m \in Messages, NEW r, Put(m, r), Buffered(r),
         made' \in 0..MaxBytes, slice' \in [end : Nat, cap : Nat]
  PROVE  BufferInv' /\ (NoHead /\ r.head = 0 => NoHead')
<1>1. DOMAIN msg = Messages /\ \A k \in Messages : Buffered(msg[k])
  BY DEF ReaderInv, BufferInv
<1>2. msg'[m] = r /\ \A k \in Messages \ {m} : msg'[k] = msg[k]
  BY <1>1 DEF Put
<1>3. \A k \in Messages : Buffered(msg'[k])
  BY <1>1, <1>2
<1>4. BufferInv'
  BY <1>3 DEF BufferInv, Buffered
<1>5. QED
  BY <1>2, <1>4 DEF NoHead

\* What holds of every step but truncate_front.
Headless(m) == NoHead => NoHead' /\ SliceInBuffer'

(***************************************************************************)
(* Every operation keeps the buffers, and all but truncate_front keep      *)
(* bodies at the start of theirs, so that the slice ends inside.           *)
(***************************************************************************)
LEMMA BufferStep ==
  ASSUME ReaderInv, BufferInv, MessageNext
  PROVE  /\ BufferInv'
         /\ NoHead /\ (\A m \in Messages : ~TruncateFront(m)) => NoHead' /\ SliceInBuffer'
<1>0. PICK m \in Messages :
        \/ Write(m) \/ ReserveMore(m) \/ Prepend(m) \/ Truncate(m) \/ TruncateFront(m)
        \/ SetLen(m)
        \/ WriteHeader(m) \/ HeaderTruncate(m) \/ Clear(m) \/ Advance(m) \/ ChunkMut(m)
        \/ \E source \in Messages : CloneFrom(m, source) \/ Clone(m, source)
  BY DEF MessageNext
<1> DEFINE old == msg[m]
<1>a. /\ made \in 0..MaxBytes /\ MaxBytes \in Nat /\ MaxHeader \in Nat /\ Grow \in Nat
      /\ \A k \in Messages : /\ DOMAIN msg[k] = Fields /\ Buffered(msg[k])
                             /\ msg[k].body \in Seq(Nat) /\ Len(msg[k].body) \in Nat
  <2>1. ASSUME NEW k \in Messages PROVE msg[k].body \in Seq(Nat)
    <3>1. made \in Nat /\ msg[k].body \in Seq(1..made)
      BY DEF ReaderInv, Place
    <3>2. Len(msg[k].body) \in Nat /\ \A i \in 1..Len(msg[k].body) : msg[k].body[i] \in 1..made
      BY <3>1, LenProperties
    <3>3. QED
      BY <3>1, <3>2
  <2>2. QED
    BY <2>1, MessageBounds DEF ReaderInv, Place, BufferInv
<1>b. DOMAIN old = Fields /\ Buffered(old) /\ old.body \in Seq(Nat) /\ Len(old.body) \in Nat
  BY <1>a
<1>c. /\ NoHead => old.head = 0
      /\ NoSlice \in [end : Nat, cap : Nat] /\ NoSlice.end <= NoSlice.cap
  BY DEF NoHead, NoSlice
<1>d. ASSUME NEW r, Put(m, r), Buffered(r), slice' = NoSlice, made' \in 0..MaxBytes
      PROVE  BufferInv' /\ ((NoHead => r.head = 0) => Headless(m))
  <2>1. slice' \in [end : Nat, cap : Nat] /\ SliceInBuffer'
    BY <1>c, <1>d DEF SliceInBuffer
  <2>2. QED
    BY <1>d, <2>1, PutBuffered DEF Headless
<1>e. ASSUME NEW n \in 1..MaxBytes - made
      PROVE  /\ n \in Nat /\ made + n \in 0..MaxBytes /\ Fresh(n) \in Seq(Nat)
  <2>1. n \in Nat /\ made + n \in 0..MaxBytes
    BY <1>a
  <2>2. Fresh(n) \in Seq(Nat)
    BY <1>a, <2>1 DEF Fresh
  <2>3. QED
    BY <2>1, <2>2
<1> HIDE DEF old
<1>1. CASE Write(m)
  <2>1. PICK n \in 1..MaxBytes - made :
          Put(m, WriteTo(old, Fresh(n))) /\ made' = made + n /\ slice' = NoSlice
    BY <1>1 DEF Write, old
  <2>2. Buffered(WriteTo(old, Fresh(n))) /\ WriteTo(old, Fresh(n)).head = old.head
    BY <1>b, <1>e, AppendBuffered
  <2>3. QED
    BY <1>c, <1>d, <1>e, <2>1, <2>2 DEF Headless
<1>2. CASE ReserveMore(m)
  <2>1. PICK n \in 1..MaxBytes :
          \E r \in {Reserve(old, n), NngReserve(old, Len(old.body) + n)} : Put(m, r)
    BY <1>2 DEF ReserveMore, old
  <2>2. PICK r \in {Reserve(old, n), NngReserve(old, Len(old.body) + n)} : Put(m, r)
    BY <2>1
  <2>3. n \in Nat /\ Len(old.body) + n \in Nat
    BY <1>a, <1>b
  <2>4. Buffered(r) /\ r.head = old.head
    BY <1>b, <2>3, ReserveBuffered
  <2>5. slice' = NoSlice /\ made' \in 0..MaxBytes
    BY <1>2, <1>a DEF ReserveMore
  <2>6. QED
    BY <1>c, <1>d, <2>2, <2>4, <2>5 DEF Headless
<1>3. CASE Prepend(m)
  <2>1. PICK n \in 1..MaxBytes - made :
          Put(m, PrependTo(old, Fresh(n))) /\ made' = made + n /\ slice' = NoSlice
    BY <1>3 DEF Prepend, old
  <2>2. /\ Buffered(PrependTo(old, Fresh(n)))
        /\ old.head = 0 => PrependTo(old, Fresh(n)).head = 0
    BY <1>b, <1>e, PrependBuffered
  <2>3. QED
    BY <1>c, <1>d, <1>e, <2>1, <2>2 DEF Headless
<1>4. ASSUME NEW len \in 0..Len(old.body), Put(m, TruncateTo(old, len)),
             made' = made, slice' = NoSlice
      PROVE  BufferInv' /\ Headless(m)
  <2>1. Buffered(TruncateTo(old, len)) /\ TruncateTo(old, len).head = old.head
    BY <1>b, CutBuffered
  <2>2. QED
    BY <1>a, <1>c, <1>d, <1>4, <2>1
<1>5. CASE Truncate(m)
  <2>1. PICK len \in 0..Len(old.body) : Put(m, TruncateTo(old, len))
    BY <1>5 DEF Truncate, old
  <2>2. made' = made /\ slice' = NoSlice
    BY <1>5 DEF Truncate
  <2>3. QED
    BY <1>4, <2>1, <2>2 DEF Headless
<1>6. CASE TruncateFront(m)
  <2>1. PICK len \in 0..Len(old.body) : Put(m, TruncateFrontTo(old, len))
    BY <1>6 DEF TruncateFront, old
  <2>2. Buffered(TruncateFrontTo(old, len))
    BY <1>b, CutBuffered
  <2>3. slice' = NoSlice /\ made' \in 0..MaxBytes
    BY <1>6, <1>a DEF TruncateFront
  <2>4. QED
    BY <1>6, <1>d, <2>1, <2>2, <2>3
<1>7. CASE SetLen(m)
  <2>1. slice' = NoSlice
    BY <1>7 DEF SetLen
  <2>2. ASSUME NEW n \in 1..MaxBytes - made,
               Put(m, NngAppend(old, Fresh(n))) /\ made' = made + n
        PROVE  BufferInv' /\ Headless(m)
    <3>1. Buffered(NngAppend(old, Fresh(n))) /\ NngAppend(old, Fresh(n)).head = old.head
      BY <1>b, <1>e, AppendBuffered
    <3>2. QED
      BY <1>c, <1>d, <1>e, <2>1, <2>2, <3>1
  <2>3. ASSUME NEW len \in 0..Len(old.body), Put(m, TruncateTo(old, len)), made' = made
        PROVE  BufferInv' /\ Headless(m)
    BY <1>4, <2>1, <2>3
  <2>4. \/ \E n \in 1..MaxBytes - made : Put(m, NngAppend(old, Fresh(n))) /\ made' = made + n
        \/ \E len \in 0..Len(old.body) : Put(m, TruncateTo(old, len)) /\ made' = made
    BY <1>7 DEF SetLen, old
  <2>5. CASE \E n \in 1..MaxBytes - made :
               Put(m, NngAppend(old, Fresh(n))) /\ made' = made + n
    <3>1. PICK n \in 1..MaxBytes - made :
            Put(m, NngAppend(old, Fresh(n))) /\ made' = made + n
      BY <2>5
    <3>2. QED
      BY <2>2, <3>1 DEF Headless
  <2>6. CASE \E len \in 0..Len(old.body) : Put(m, TruncateTo(old, len)) /\ made' = made
    <3>1. PICK len \in 0..Len(old.body) : Put(m, TruncateTo(old, len)) /\ made' = made
      BY <2>6
    <3>2. QED
      BY <2>3, <3>1 DEF Headless
  <2>7. QED
    BY <2>4, <2>5, <2>6
<1>8. CASE WriteHeader(m) \/ HeaderTruncate(m)
  <2>0. old.header \in 0..MaxHeader
    BY <1>b DEF Buffered
  <2>1. PICK h \in 0..MaxHeader : Put(m, [old EXCEPT !.header = h])
    <3>1. CASE WriteHeader(m)
      <4>1. Put(m, [old EXCEPT !.header = old.header + 1]) /\ old.header < MaxHeader
        BY <3>1 DEF WriteHeader, old
      <4>2. old.header + 1 \in 0..MaxHeader
        BY <2>0, <4>1, MessageBounds
      <4> HIDE DEF old
      <4>3. QED
        BY <4>1, <4>2
    <3>2. CASE HeaderTruncate(m)
      <4>1. PICK len \in 0..old.header : Put(m, [old EXCEPT !.header = len])
        BY <3>2 DEF HeaderTruncate, old
      <4>2. len \in 0..MaxHeader
        BY <2>0, MessageBounds
      <4>3. QED
        BY <4>1, <4>2
    <3>3. QED
      BY <1>8, <3>1, <3>2
  <2> DEFINE r == [old EXCEPT !.header = h]
  <2>2. r.head = old.head /\ r.cap = old.cap /\ r.body = old.body /\ r.header = h
    BY <1>b DEF Fields
  <2>3. Buffered(r)
    BY <1>b, <2>2 DEF Buffered
  <2>4. slice' = NoSlice /\ made' \in 0..MaxBytes /\ Put(m, r)
    BY <1>8, <1>a, <2>1 DEF WriteHeader, HeaderTruncate
  <2> HIDE DEF r
  <2>5. QED
    BY <1>c, <1>d, <2>2, <2>3, <2>4 DEF Headless
<1>9. CASE Clear(m)
  <2> DEFINE t == TruncateTo(old, 0)
             r == [t EXCEPT !.header = 0]
  <2>1. 0 \in 0..Len(old.body)
    BY <1>b
  <2>2. Buffered(t) /\ t.head = old.head /\ DOMAIN t = Fields
    BY <1>b, <2>1, CutBuffered
  <2> HIDE DEF t
  <2>3. r.head = t.head /\ r.cap = t.cap /\ r.body = t.body /\ r.header = 0
    BY <2>2 DEF Fields
  <2>4. Buffered(r)
    BY <1>a, <2>2, <2>3 DEF Buffered
  <2>5. slice' = NoSlice /\ made' \in 0..MaxBytes /\ Put(m, r)
    BY <1>9, <1>a DEF Clear, old, t
  <2> HIDE DEF r
  <2>6. QED
    BY <1>c, <1>d, <2>2, <2>3, <2>4, <2>5 DEF Headless
<1>10. CASE Advance(m)
  <2>1. PICK n \in 1..Len(old.body) - old.pos : Put(m, [old EXCEPT !.pos = @ + n])
    BY <1>10 DEF Advance, old
  <2> DEFINE r == [old EXCEPT !.pos = @ + n]
  <2>2. r.head = old.head /\ r.cap = old.cap /\ r.body = old.body /\ r.header = old.header
    BY <1>b DEF Fields
  <2>3. Buffered(r)
    BY <1>b, <2>2 DEF Buffered
  <2>4. slice' = NoSlice /\ made' \in 0..MaxBytes /\ Put(m, r)
    BY <1>10, <1>a, <2>1 DEF Advance
  <2> HIDE DEF r
  <2>5. QED
    BY <1>c, <1>d, <2>2, <2>3, <2>4 DEF Headless
<1>11. CASE ChunkMut(m)
  <2> DEFINE r == IF Len(old.body) >= old.cap THEN Reserve(old, Grow) ELSE old
  <2>1. Buffered(r) /\ r.head = old.head
    BY <1>a, <1>b, ReserveBuffered
  <2>2. /\ Put(m, r) /\ made' \in 0..MaxBytes
        /\ slice' = [end |-> r.head + r.cap, cap |-> r.cap]
    BY <1>11, <1>a DEF ChunkMut, old
  <2> HIDE DEF r
  <2>3. slice' \in [end : Nat, cap : Nat] /\ (r.head = 0 => SliceInBuffer')
    BY <2>1, <2>2 DEF Buffered, SliceInBuffer
  <2>4. QED
    BY <1>c, <2>1, <2>2, <2>3, PutBuffered
<1>12. ASSUME NEW source \in Messages, CloneFrom(m, source) \/ Clone(m, source)
       PROVE  BufferInv' /\ Headless(m)
  <2>1. slice' = NoSlice /\ made' \in 0..MaxBytes
    BY <1>12, <1>a DEF CloneFrom, Clone
  <2>2. CASE CloneFrom(m, source)
    <3> DEFINE s == msg[source]
               t == TruncateTo(old, 0)
               w == WriteTo(t, s.body)
               r == [w EXCEPT !.header = s.header, !.pos = s.pos]
    <3>1. 0 \in 0..Len(old.body)
      BY <1>b
    <3>2. /\ Buffered(t) /\ t.head = old.head /\ DOMAIN t = Fields /\ t.body \in Seq(Nat)
      BY <1>b, <3>1, CutBuffered
    <3>3. s.body \in Seq(Nat) /\ Buffered(s)
      BY <1>a
    <3> HIDE DEF t, s
    <3>4. Buffered(w) /\ w.head = t.head /\ DOMAIN w = Fields
      BY <3>2, <3>3, AppendBuffered, AppendKeeps
    <3> HIDE DEF w
    <3>5. r.head = w.head /\ r.cap = w.cap /\ r.body = w.body /\ r.header = s.header
      BY <3>4 DEF Fields
    <3>6. Buffered(r)
      BY <3>3, <3>4, <3>5 DEF Buffered
    <3>7. Put(m, r)
      BY <2>2 DEF CloneFrom, Cloned, old, s, t, w
    <3> HIDE DEF r
    <3>8. QED
      BY <1>c, <1>d, <2>1, <3>2, <3>4, <3>5, <3>6, <3>7
  <2>3. CASE Clone(m, source)
    <3>1. Put(m, msg[source]) /\ Buffered(msg[source])
      BY <1>a, <2>3 DEF Clone
    <3>2. NoHead => msg[source].head = 0
      BY DEF NoHead
    <3>3. QED
      BY <1>d, <2>1, <3>1, <3>2
  <2>4. QED
    BY <1>12, <2>2, <2>3
<1>13. QED
  BY <1>0, <1>1, <1>2, <1>3, <1>5, <1>6, <1>7, <1>8, <1>9, <1>10, <1>11, <1>12 DEF Headless

\* A new message has an empty body after the room NNG leaves.
LEMMA BufferInit == MessageInit => BufferInv /\ (Headroom = 0 => NoHead /\ SliceInBuffer)
<1> SUFFICES ASSUME MessageInit
             PROVE  BufferInv /\ (Headroom = 0 => NoHead /\ SliceInBuffer)
  OBVIOUS
<1>1. MaxBytes \in Nat /\ MaxHeader \in Nat /\ Headroom \in Nat
  BY MessageBounds
<1>2. made = 0 /\ slice = NoSlice /\ \A m \in Messages : msg[m] = Empty
  BY DEF MessageInit
<1>3. Buffered(Empty) /\ Empty.head = Headroom
  <2>1. /\ Empty.head = Headroom /\ Empty.cap = Headroom /\ Empty.header = 0
        /\ Empty.body = <<>> /\ Len(<<>>) = 0
    BY DEF Empty
  <2>2. QED
    BY <1>1, <2>1 DEF Buffered
<1>4. slice \in [end : Nat, cap : Nat] /\ SliceInBuffer
  BY <1>2 DEF NoSlice, SliceInBuffer
<1>5. QED
  BY <1>1, <1>2, <1>3, <1>4 DEF BufferInv, NoHead

\* The buffers stay so in every behaviour.
LEMMA BufferInvariance == MessageSpec => []BufferInv
<1>1. ReaderInv /\ BufferInv /\ [MessageNext]_messageVars => BufferInv'
  <2> SUFFICES ASSUME BufferInv, UNCHANGED messageVars
               PROVE  BufferInv'
    BY BufferStep
  <2> QED
    BY DEF BufferInv, Buffered, messageVars
<1>2. QED
  BY <1>1, BufferInit, ReaderInBody, PTL DEF MessageSpec

(***************************************************************************)
(* Type correctness of Message: whatever is written, prepended, cut,       *)
(* reserved and cloned, the cursor is in the body and the body in the      *)
(* buffer that NNG keeps for it.                                           *)
(***************************************************************************)
THEOREM MessageTypeCorrect == MessageSpec => []MessageTypeOK
<1>1. ReaderInv /\ BufferInv => MessageTypeOK
  <2> SUFFICES ASSUME ReaderInv, BufferInv, NEW m \in Messages
               PROVE  /\ msg[m].body \in Seq(1..made)
                      /\ msg[m].pos \in 0..Len(msg[m].body)
                      /\ msg[m].header \in 0..MaxHeader
                      /\ msg[m].head + Len(msg[m].body) <= msg[m].cap
    BY DEF BufferInv, MessageTypeOK
  <2>1. msg[m].body \in Seq(1..made) /\ msg[m].pos \in 0..Len(msg[m].body)
    BY DEF ReaderInv, Place
  <2>2. msg[m].header \in 0..MaxHeader /\ msg[m].head + Len(msg[m].body) <= msg[m].cap
    BY DEF BufferInv, Buffered
  <2>3. QED
    BY <2>1, <2>2
<1>2. QED
  BY <1>1, BufferInvariance, ReaderInBody, PTL

(***************************************************************************)
(* The safety comment of chunk_mut holds of a program that never cuts the  *)
(* front of a message off, if NNG leaves no room in front of a new body:   *)
(* no other operation makes the slice end outside the buffer.              *)
(***************************************************************************)
THEOREM SliceSafe ==
  ASSUME Headroom = 0
  PROVE  MessageSpec /\ [][\A m \in Messages : ~TruncateFront(m)]_messageVars
           => []SliceInBuffer
<1> DEFINE NoFront == \A m \in Messages : ~TruncateFront(m)
<1>1. /\ ReaderInv /\ BufferInv /\ NoHead /\ SliceInBuffer
      /\ [MessageNext]_messageVars /\ [NoFront]_messageVars
      => (NoHead /\ SliceInBuffer)'
  <2> SUFFICES ASSUME NoHead, SliceInBuffer, UNCHANGED messageVars
               PROVE  (NoHead /\ SliceInBuffer)'
    BY BufferStep
  <2> QED
    BY DEF NoHead, SliceInBuffer, messageVars
<1> HIDE DEF NoFront
<1>2. MessageInit => NoHead /\ SliceInBuffer
  BY BufferInit
<1>3. MessageSpec /\ [][NoFront]_messageVars => []SliceInBuffer
  BY <1>1, <1>2, BufferInvariance, ReaderInBody, PTL DEF MessageSpec
<1>4. QED
  BY <1>3 DEF NoFront
=============================================================================
