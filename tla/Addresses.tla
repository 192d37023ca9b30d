----------------------------- MODULE Addresses ------------------------------
(***************************************************************************)
(* Addresses: Message::remote_addr asks a pipe for its peer, in two calls  *)
(* of NNG between which the pipe may close, and writes a URL               *)
(* (anng/src/message.rs, Url in pipes.rs); a TCP listener reads back the   *)
(* address it was bound to through a URL; nng converts an nng_sockaddr and *)
(* shows it (nng/src/addr.rs).  Octets keep their order: a port is two of  *)
(* them, most significant first.  A name is a sequence of characters of a  *)
(* small alphabet, as the encoding of names is what one property is about. *)
(***************************************************************************)
EXTENDS Integers, Sequences, SequencesExt

CONSTANTS LittleEndian,  \* the byte order of the machine
          Octets,        \* values of an octet, 0 among them
          MaxName,       \* bound: characters of a name
          MaxUrl         \* NNG_MAXADDRSTRLEN, the buffer of local_addr

ASSUME AddressesAssumption ==
  /\ LittleEndian \in BOOLEAN /\ 0 \in Octets
  /\ MaxName \in Nat /\ MaxUrl \in Nat /\ MaxName < MaxUrl

\* Characters: of ASCII and printed as they are, and two others.
Graphic    == {"%", "0"}
Characters == Graphic \cup {"nul", "xff"}

NamesOver(chars) == UNION {[1..n -> chars] : n \in 0..MaxName}

\* What an address means; NNG fills a C string of IPC or inproc, which has no
\* nul and is valid UTF-8 or not, and a counted string of an abstract socket.
Peers ==
  [family : {"INET"}, host : Octets, port : Octets \X Octets]
    \cup [family : {"INET6"}, host : Octets, port : Octets \X Octets, scope : {0, 1}]
    \cup [family : {"IPC", "INPROC"}, name : NamesOver(Characters \ {"nul"})]
    \cup [family : {"ABSTRACT"}, name : NamesOver(Characters)]
    \cup [family : {"UNSPEC"}]

\* nng_sockaddr as the code reads it: a port is stored most significant octet
\* first, and an integer of the machine is its octets in the machine's order.
Native(octets) == IF LittleEndian THEN Reverse(octets) ELSE octets
Sockaddr(peer) ==
  IF peer.family \in {"INET", "INET6"}
  THEN [peer EXCEPT !.port = Native(peer.port)]
  ELSE peer

FromBe(native) == IF LittleEndian THEN Reverse(native) ELSE native

Schemes == [INET |-> "tcp", INET6 |-> "tls+tcp6", IPC |-> "ipc", INPROC |-> "inproc",
            ABSTRACT |-> "abstract", UNSPEC |-> "socket"]

NotUtf8(addr) == addr.family \in {"IPC", "INPROC"} /\ "xff" \in Range(addr.name)

-----------------------------------------------------------------------------
(* Text.  Faulty... are seeded faults.                                     *)

\* to_string_lossy.
Lossy(name) == [i \in DOMAIN name |-> IF name[i] = "xff" THEN "U+FFFD" ELSE name[i]]

\* A character of an abstract name: %02x unless it is_ascii_graphic.
Escaped(c) ==
  CASE c \in Graphic -> <<c>>
    [] c = "nul"     -> <<"%", "0", "0">>
    [] c = "xff"     -> <<"%", "f", "f">>

EscapedName(name) == FlattenSeq([i \in DOMAIN name |-> Escaped(name[i])])

\* Display of SocketAddrV4 and SocketAddrV6, without scope if that is 0.
Inet(host, port)         == <<host, port>>
Inet6(host, port, scope) == IF scope = 0 THEN <<host, port>> ELSE <<host, scope, port>>

NoUrl == [scheme |-> "none", text |-> <<>>]

\* Url::from_nng; None for NNG_AF_UNSPEC, and every family of NNG has an arm.
FromNng(addr, scheme) ==
  LET Url(text) == [scheme |-> scheme, text |-> text]
  IN  CASE addr.family = "UNSPEC"   -> NoUrl
        [] addr.family = "INET"     -> Url(Inet(addr.host, FromBe(addr.port)))
        [] addr.family = "INET6"    -> Url(Inet6(addr.host, FromBe(addr.port), addr.scope))
        [] addr.family = "IPC"      -> Url(Lossy(addr.name))
        [] addr.family = "ABSTRACT" -> Url(EscapedName(addr.name))
        [] addr.family = "INPROC"   -> Url(Lossy(addr.name))

\* nng_sockaddr_family::try_convert_from, which has no arm for NNG_AF_ABSTRACT.
TryConvertFrom(family) ==
  IF family \in {"UNSPEC", "INPROC", "IPC", "INET", "INET6"} THEN family ELSE "None"

\* buf_to_string: up to the nul that follows the name.
BufToString(name) == Lossy(name)

\* From<nng_sockaddr> for nng::SocketAddr: the port stays as it is in memory,
\* a scope is dropped.
FromSockaddr(addr) ==
  LET family == TryConvertFrom(addr.family)
  IN  CASE family \in {"INPROC", "IPC"} -> [family |-> family, name |-> BufToString(addr.name)]
        [] family \in {"INET", "INET6"} ->
             [family |-> family, host |-> addr.host, port |-> addr.port]
        [] family = "ABSTRACT" -> [family |-> family, name |-> addr.name]
        [] OTHER -> [family |-> "Unspecified"]

\* Display of nng::SocketAddr.
ShowSockaddr(a) ==
  LET Url(scheme, text) == [scheme |-> scheme, text |-> text]
  IN  CASE a.family = "INPROC" -> Url("inproc", a.name)
        [] a.family = "IPC"    -> Url("ipc", a.name)
        [] a.family \in {"INET", "INET6"} -> Url("tcp", Inet(a.host, a.port))
        [] a.family = "ABSTRACT" -> Url("abstract", EscapedName(a.name))
        [] OTHER               -> Url("unspecified", <<>>)

-----------------------------------------------------------------------------
VARIABLES
  peer,     \* of the pipe a message came from
  pipeOpen, \* the pipe exists (external)
  step,     \* of remote_addr, or what else is asked for
  sockaddr, \* the local addr of remote_addr
  url       \* the result

addressVars == <<peer, pipeOpen, step, sockaddr, url>>

AddressesInit ==
  /\ peer \in Peers /\ pipeOpen \in BOOLEAN
  /\ step = "idle" /\ sockaddr = [family |-> "UNSPEC"] /\ url = NoUrl

\* The connection is lost or closed; the message keeps the id of the pipe.
PipeCloses ==
  /\ pipeOpen
  /\ pipeOpen' = FALSE
  /\ UNCHANGED <<peer, step, sockaddr, url>>

Return(u) == step' = "done" /\ url' = u

\* remote_addr: pipe() and nng_pipe_peer_addr.  Without an id, of a message
\* that was not received, and on ENOENT, ENOTSUP or a system error the result
\* is None.
PeerAddr(answer) ==
  /\ step = "idle"
  /\ \/ answer = "OK" /\ pipeOpen /\ step' = "has_addr"
        /\ sockaddr' = Sockaddr(peer) /\ UNCHANGED url
     \/ answer = "ENOENT" /\ ~pipeOpen /\ Return(NoUrl) /\ UNCHANGED sockaddr
     \/ answer \in {"ENOTSUP", "ESYSERR", "no pipe"} /\ Return(NoUrl) /\ UNCHANGED sockaddr
  /\ UNCHANGED <<peer, pipeOpen>>

FaultyGetScheme(answer) ==
  /\ step = "has_addr"
  /\ \/ answer = "OK" /\ pipeOpen /\ Return(FromNng(sockaddr, Schemes[peer.family]))
     \/ answer = "ENOENT" /\ ~pipeOpen /\ Return(FromNng(sockaddr, "null"))
     \/ answer = "ENOTSUP" /\ Return(NoUrl)
  /\ UNCHANGED <<peer, pipeOpen, sockaddr>>

\* remote_addr: nng_pipe_get_scheme, which finds the pipe again, and from_nng.
GetScheme(answer) ==
  /\ step = "has_addr"
  /\ \/ answer = "OK" /\ pipeOpen /\ Return(FromNng(sockaddr, Schemes[peer.family]))
     \/ answer = "ENOENT" /\ ~pipeOpen /\ Return(NoUrl)
     \/ answer = "ENOTSUP" /\ Return(NoUrl)
  /\ UNCHANGED <<peer, pipeOpen, sockaddr>>

\* listen_tcp, or listen with a URL, at the address; port 0 asks for any.  NNG
\* keeps the URL of the listener with the port it is bound to.  The flags of
\* TcpOptions go to NNG before the start and are not read again.
Listen(bound) ==
  /\ step = "idle" /\ peer.family # "UNSPEC"
  /\ IF peer.family \in {"INET", "INET6"}
     THEN /\ bound # <<0, 0>> /\ (peer.port # <<0, 0>> => bound = peer.port)
          /\ sockaddr' = [peer EXCEPT !.port = bound]
     ELSE bound = <<0, 0>> /\ sockaddr' = peer
  /\ step' = "listening"
  /\ UNCHANGED <<peer, pipeOpen, url>>

\* nng_url_sprintf: the URL as it was given, an abstract name in its escaped
\* form.
Sprintf(addr) ==
  CASE addr.family = "INET"     -> [scheme |-> "tcp", text |-> Inet(addr.host, addr.port)]
    [] addr.family = "INET6"    -> [scheme |-> "tcp", text |-> Inet6(addr.host, addr.port, addr.scope)]
    [] addr.family = "ABSTRACT" -> [scheme |-> "abstract", text |-> EscapedName(addr.name)]
    [] OTHER                    -> [scheme |-> Schemes[addr.family], text |-> addr.name]

\* Listener::local_addr.  An error, NoUrl, if NNG writes nothing or no UTF-8;
\* a URL that does not fit the buffer panics.
LocalUrl ==
  /\ step = "listening"
  /\ LET u == Sprintf(sockaddr)
     IN  \/ Len(u.text) >= MaxUrl /\ step' = "panic" /\ UNCHANGED url
         \/ /\ Len(u.text) < MaxUrl /\ step' = "local"
            /\ \/ url' = NoUrl
               \/ url' = u /\ ~NotUtf8(sockaddr)
  /\ UNCHANGED <<peer, pipeOpen, sockaddr>>

\* parse_tcp_url accepts these schemes.
TcpSchemes == {"tcp", "tcp4", "tcp6", "tls+tcp", "tls+tcp4", "tls+tcp6"}

\* TcpListener::local_addr: the URL read back as a SocketAddr.  Its expect
\* relies on NNG writing the URL of a TCP listener.
LocalTcp ==
  /\ step = "listening" /\ sockaddr.family \in {"INET", "INET6"}
  /\ LET u == Sprintf(sockaddr)
     IN  /\ url' = IF u.scheme \in TcpSchemes THEN u ELSE NoUrl
         /\ step' = "local"
  /\ UNCHANGED <<peer, pipeOpen, sockaddr>>

\* nng: an nng_sockaddr is converted and shown.
ShowAddr ==
  /\ step = "idle"
  /\ step' = "shown" /\ url' = ShowSockaddr(FromSockaddr(Sockaddr(peer)))
  /\ UNCHANGED <<peer, pipeOpen, sockaddr>>

AddressesNext ==
  \/ PipeCloses
  \/ \E a \in {"OK", "ENOENT", "ENOTSUP", "ESYSERR", "no pipe"} :
       PeerAddr(a) \/ GetScheme(a)
  \/ \E bound \in Octets \X Octets : Listen(bound)
  \/ LocalUrl \/ LocalTcp \/ ShowAddr

AddressesSpec == AddressesInit /\ [][AddressesNext]_addressVars

-----------------------------------------------------------------------------
(* Properties.                                                             *)

\* Names that the encoding does not keep apart: an abstract name with a "%",
\* which is graphic and written as it is, and names that are not UTF-8.
Ambiguous(p) ==
  \/ p.family = "ABSTRACT" /\ "%" \in Range(p.name)
  \/ NotUtf8(p)

(***************************************************************************)
(* Whenever the pipe closes, a URL that remote_addr returns has the scheme *)
(* of the pipe and is that of the peer and of no other address, the port   *)
(* as the peer has it; the caller gets None if either call of NNG fails.   *)
(* A listener's local_addr has the port it is bound to, never 0.           *)
(***************************************************************************)
UrlNamesPeer ==
  /\ step = "done" /\ url # NoUrl /\ ~Ambiguous(peer) =>
       /\ url.scheme = Schemes[peer.family]
       /\ \A p \in {p \in Peers : p.family = peer.family} :
            ~Ambiguous(p) /\ FromNng(Sockaddr(p), url.scheme) = url => p = peer
  /\ step \in {"done", "local"} /\ url # NoUrl /\ peer.family \in {"INET", "INET6"} =>
       /\ Head(url.text) = peer.host
       /\ peer.port # <<0, 0>> => Last(url.text) = peer.port
       /\ step = "local" => Last(url.text) # <<0, 0>>
=============================================================================
