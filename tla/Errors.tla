------------------------------- MODULE Errors -------------------------------
(***************************************************************************)
(* What becomes of an error code of NNG: nng-sys sorts it by kind          *)
(* (ErrorKind), each operation of anng picks the codes it expects of its   *)
(* NNG function, wraps them as an AioError (anng/src/aio.rs,               *)
(* protocols/mod.rs) and panics for the others, nng turns every code into  *)
(* its own enum (nng/src/error.rs), and both convert to an io::Error.      *)
(* Codes are the numbers of NNG; two bits of a code mark an error of the   *)
(* system and one of the transport.                                        *)
(***************************************************************************)
EXTENDS Integers

CONSTANT Unlisted   \* codes NNG may return that its table does not name

\* The error codes of NNG.
NngErr ==
  [EINTR |-> 1, ENOMEM |-> 2, EINVAL |-> 3, EBUSY |-> 4, ETIMEDOUT |-> 5,
   ECONNREFUSED |-> 6, ECLOSED |-> 7, EAGAIN |-> 8, ENOTSUP |-> 9,
   EADDRINUSE |-> 10, ESTATE |-> 11, ENOENT |-> 12, EPROTO |-> 13,
   EUNREACHABLE |-> 14, EADDRINVAL |-> 15, EPERM |-> 16, EMSGSIZE |-> 17,
   ECONNABORTED |-> 18, ECONNRESET |-> 19, ECANCELED |-> 20, ENOFILES |-> 21,
   ENOSPC |-> 22, EEXIST |-> 23, EREADONLY |-> 24, EWRITEONLY |-> 25,
   ECRYPTO |-> 26, EPEERAUTH |-> 27, EBADTYPE |-> 30, ECONNSHUT |-> 31,
   ESTOPPED |-> 999, EINTERNAL |-> 1000]

\* Zero is success.
ASSUME UnlistedAssumption ==
  /\ Unlisted \subseteq Nat \ {0}
  /\ \A c \in DOMAIN NngErr : NngErr[c] \notin Unlisted

ESYSERR  == 268435456
ETRANERR == 536870912

\* err & flag # 0, and err & !flag.
HasFlag(err, flag) == (err \div flag) % 2 = 1
WithoutFlag(err, flag) == err - flag

\* The discriminants of the enum ErrorCode.
ErrorCode ==
  [EINTR |-> 1, ENOMEM |-> 2, EINVAL |-> 3, EBUSY |-> 4, ETIMEDOUT |-> 5,
   ECONNREFUSED |-> 6, ECLOSED |-> 7, EAGAIN |-> 8, ENOTSUP |-> 9,
   EADDRINUSE |-> 10, ESTATE |-> 11, ENOENT |-> 12, EPROTO |-> 13,
   EUNREACHABLE |-> 14, EADDRINVAL |-> 15, EPERM |-> 16, EMSGSIZE |-> 17,
   ECONNABORTED |-> 18, ECONNRESET |-> 19, ECANCELED |-> 20, ENOFILES |-> 21,
   ENOSPC |-> 22, EEXIST |-> 23, EREADONLY |-> 24, EWRITEONLY |-> 25,
   ECRYPTO |-> 26, EPEERAUTH |-> 27, EBADTYPE |-> 30, ECONNSHUT |-> 31,
   ESTOPPED |-> 999, EINTERNAL |-> 1000]

\* io::Error::from_raw_os_error(errno).kind(): the errors of Linux that stand
\* for a kind the properties tell apart.
OsKind(errno) ==
  CASE errno = 2  -> "NotFound"
    [] errno = 4  -> "Interrupted"
    [] errno = 11 -> "WouldBlock"
    [] errno = 110 -> "TimedOut"
    [] OTHER      -> "Uncategorized"

VARIABLES
  site,     \* the call that failed
  raw,      \* the code NNG returned
  failure,  \* what the application gets: an AioError, or an Error of nng
  io        \* the kind of the io::Error it is converted to

errorVars == <<site, raw, failure, io>>

\* The results of a conversion that panics: by unreachable!, and when NNG is
\* out of memory.
Unreachable == [error |-> "unreachable"]
Oom         == [error |-> "oom"]
Panics      == {Unreachable, Oom}

\* The variants of AioError; those of ErrorKind are the kinds of an Operation.
TimedOut  == [error |-> "TimedOut"]
Cancelled == [error |-> "Cancelled"]
Operation(kind, value) == [error |-> "Operation", kind |-> kind, value |-> value]

\* ErrorKind::from_nng_err, wrapped by the caller as AioError::Operation.
FromNngErr(err) ==
  IF \E c \in DOMAIN NngErr : NngErr[c] = err
  THEN Operation("NngError", CHOOSE c \in DOMAIN NngErr : NngErr[c] = err)
  ELSE IF HasFlag(err, ETRANERR)
  THEN Operation("Transport", WithoutFlag(err, ETRANERR))
  ELSE IF HasFlag(err, ESYSERR)
  THEN Operation("System", OsKind(WithoutFlag(err, ESYSERR)))
  ELSE IF err = 0 THEN Unreachable ELSE Operation("Other", err)

Is(err, codes) == \E c \in codes : err = ErrorCode[c]

-----------------------------------------------------------------------------
(* The calls.  Faulty... are seeded faults.                                *)

\* Aio::wait, of every send and receive.
Wait(err) ==
  CASE err = NngErr.ECANCELED -> Cancelled
    [] err = NngErr.ETIMEDOUT -> TimedOut
    [] OTHER                  -> FromNngErr(err)

\* nng_listener_create and nng_dialer_create.
CreateEndpoint(err) ==
  CASE Is(err, {"ENOMEM"}) -> Oom
    [] Is(err, {"ECLOSED", "EADDRINVAL", "EINVAL", "ENOTSUP"}) -> FromNngErr(err)
    [] OTHER -> Unreachable

\* nng_listener_start.
StartListener(err) ==
  IF Is(err, {"EADDRINUSE", "EPERM"}) THEN FromNngErr(err) ELSE Unreachable

FaultyStartDialer(err) == IF Is(err, {"ENOMEM"}) THEN Oom ELSE FromNngErr(err)

\* nng_dialer_start, in the worker.
StartDialer(err) ==
  CASE Is(err, {"ECANCELED"}) -> Cancelled
    [] Is(err, {"ECLOSED", "ESTOPPED"}) -> FromNngErr(err)
    [] Is(err, {"EAGAIN"})    -> Operation("NngError", "EADDRINVAL")
    [] Is(err, {"ENOMEM"})    -> Oom
    [] Is(err, {"ETIMEDOUT"}) -> TimedOut
    [] Is(err, {"EADDRINVAL", "ECONNABORTED", "ECONNSHUT", "ECRYPTO", "ECONNREFUSED",
                "ECONNRESET", "EINVAL", "EPEERAUTH", "EPROTO", "EUNREACHABLE"}) ->
         FromNngErr(err)
    [] OTHER -> Unreachable

\* nng_recvmsg and nng_ctx_recvmsg of try_recv_msg; EAGAIN is Ok(None).
TryRecv(err) ==
  CASE Is(err, {"ENOMEM"})            -> Oom
    [] Is(err, {"ENOTSUP", "ESTATE"}) -> FromNngErr(err)
    [] Is(err, {"ETIMEDOUT"})         -> TimedOut
    [] OTHER                          -> Unreachable

\* check_map_set_ms_errno, of the setters in options.rs; what it wraps is an
\* io::Error already.
SetOption(err) == IF Is(err, {"ESTATE"}) THEN FromNngErr(err) ELSE Unreachable

\* From<NonZeroU32> for nng::Error; ESTOPPED has no variant.
NngVariant ==
  [EINTR |-> "Interrupted", ENOMEM |-> "OutOfMemory", EINVAL |-> "InvalidInput",
   EBUSY |-> "Busy", ETIMEDOUT |-> "TimedOut", ECONNREFUSED |-> "ConnectionRefused",
   ECLOSED |-> "Closed", EAGAIN |-> "TryAgain", ENOTSUP |-> "NotSupported",
   EADDRINUSE |-> "AddressInUse", ESTATE |-> "IncorrectState",
   ENOENT |-> "EntryNotFound", EPROTO |-> "Protocol",
   EUNREACHABLE |-> "DestUnreachable", EADDRINVAL |-> "AddressInvalid",
   EPERM |-> "PermissionDenied", EMSGSIZE |-> "MessageTooLarge",
   ECONNABORTED |-> "ConnectionAborted", ECONNRESET |-> "ConnectionReset",
   ECANCELED |-> "Canceled", ENOFILES |-> "OutOfFiles", ENOSPC |-> "OutOfSpace",
   EEXIST |-> "ResourceExists", EREADONLY |-> "ReadOnly", EWRITEONLY |-> "WriteOnly",
   ECRYPTO |-> "Crypto", EPEERAUTH |-> "PeerAuth", EBADTYPE |-> "BadType",
   ECONNSHUT |-> "ConnectionShutdown", EINTERNAL |-> "Internal"]

FaultyNngError(err) ==
  LET known == {c \in DOMAIN NngVariant : NngErr[c] = err}
  IN  IF known # {} THEN [error |-> NngVariant[CHOOSE c \in known : TRUE]]
      ELSE IF HasFlag(err, ESYSERR) THEN [error |-> "SystemErr", code |-> err]
      ELSE IF HasFlag(err, ETRANERR) THEN [error |-> "TransportErr", code |-> err]
      ELSE [error |-> "Unknown", code |-> err]

\* The whole conversion, of rv2res! and of everything in nng that fails.
NngError(err) ==
  LET known == {c \in DOMAIN NngVariant : NngErr[c] = err}
  IN  IF known # {} THEN [error |-> NngVariant[CHOOSE c \in known : TRUE]]
      ELSE IF HasFlag(err, ESYSERR)
      THEN [error |-> "SystemErr", code |-> WithoutFlag(err, ESYSERR)]
      ELSE IF HasFlag(err, ETRANERR)
      THEN [error |-> "TransportErr", code |-> WithoutFlag(err, ETRANERR)]
      ELSE [error |-> "Unknown", code |-> err]

-----------------------------------------------------------------------------
(* The conversions to io::Error.                                           *)

\* From<AioError> for io::Error, the arm of AioError::Operation(NngError).
IoKindOf ==
  [EBUSY |-> "ResourceBusy", EAGAIN |-> "WouldBlock", ENOTSUP |-> "Unsupported",
   EADDRINUSE |-> "AddrInUse", ENOENT |-> "NotFound", EPERM |-> "PermissionDenied",
   EMSGSIZE |-> "InvalidData", ECONNABORTED |-> "ConnectionAborted",
   ENOFILES |-> "QuotaExceeded", ENOSPC |-> "StorageFull", EEXIST |-> "AlreadyExists",
   EREADONLY |-> "Unsupported", EWRITEONLY |-> "Unsupported",
   EBADTYPE |-> "InvalidInput", EADDRINVAL |-> "InvalidInput", EINVAL |-> "InvalidInput",
   ECONNSHUT |-> "BrokenPipe", ECLOSED |-> "BrokenPipe",
   ECONNREFUSED |-> "ConnectionRefused", ECONNRESET |-> "ConnectionReset",
   ENOMEM |-> "OutOfMemory", EPEERAUTH |-> "ConnectionAborted",
   EUNREACHABLE |-> "HostUnreachable"]

\* From<AioError> for io::Error.
FromAioError(e) ==
  CASE e = TimedOut  -> "TimedOut"
    [] e = Cancelled -> "Interrupted"
    [] e.error = "Operation" /\ e.kind = "NngError" ->
         IF e.value \in DOMAIN IoKindOf THEN IoKindOf[e.value]
         ELSE IF e.value \in {"ETIMEDOUT", "ECANCELED", "EINTR"} THEN "unreachable"
         ELSE "Other"
    [] e.error = "Operation" /\ e.kind = "System" -> e.value
    [] OTHER -> "Other"

\* From<Error> for io::Error, the variants with a kind of their own.
NngIoKindOf ==
  [Interrupted |-> "Interrupted", InvalidInput |-> "InvalidInput",
   TimedOut |-> "TimedOut", TryAgain |-> "WouldBlock",
   ConnectionRefused |-> "ConnectionRefused", PermissionDenied |-> "PermissionDenied",
   ConnectionAborted |-> "ConnectionAborted", ConnectionReset |-> "ConnectionReset",
   ResourceExists |-> "AlreadyExists", BadType |-> "InvalidData",
   ConnectionShutdown |-> "NotConnected"]

\* From<Error> for io::Error.
FromNngError(e) ==
  CASE e.error = "SystemErr" -> OsKind(e.code)
    [] e.error \in DOMAIN NngIoKindOf -> NngIoKindOf[e.error]
    [] OTHER -> "Other"

-----------------------------------------------------------------------------
Codes == {NngErr[c] : c \in DOMAIN NngErr}

\* What NNG may return at each call when it fails: any code.  An Aio does not
\* end with EINTR ("nng never exposes this publicly"), and EAGAIN of a receive
\* that does not wait is no failure.
Returned ==
  LET any == Codes \cup Unlisted
  IN  [wait |-> any \ {NngErr.EINTR}, create |-> any, listener_start |-> any,
       dialer_start |-> any, try_recv |-> any \ {NngErr.EAGAIN}, option |-> any,
       nng |-> any]

\* What NNG does return at each call, by the failures the tests provoke (bad
\* addresses, unknown transports, ports in use, privileged or closed) and those
\* the comments tell of: a socket dropped under its dial, a name that does not
\* resolve, a peer that hangs up or fails the TLS handshake, the end of a
\* survey.  At a send or a receive it is everything.
Observed ==
  [Returned EXCEPT
    !.create = {NngErr.ENOTSUP, NngErr.EINVAL, NngErr.EADDRINVAL},
    !.listener_start = {NngErr.EADDRINUSE, NngErr.EPERM},
    !.dialer_start = {NngErr.EADDRINVAL, NngErr.ECONNREFUSED, NngErr.ECANCELED,
                      NngErr.ECLOSED, NngErr.ESTOPPED, NngErr.EAGAIN,
                      NngErr.ECONNSHUT, NngErr.ECRYPTO},
    !.try_recv = {NngErr.ETIMEDOUT, NngErr.ESTATE},
    !.option = {}]

ErrorsInit == site = "none" /\ raw = 0 /\ failure = [error |-> "none"] /\ io = "none"

AtSite(s, err) ==
  CASE s = "wait"           -> Wait(err)
    [] s = "create"         -> CreateEndpoint(err)
    [] s = "listener_start" -> StartListener(err)
    [] s = "dialer_start"   -> StartDialer(err)
    [] s = "try_recv"       -> TryRecv(err)
    [] s = "option"         -> SetOption(err)
    [] s = "nng"            -> NngError(err)

\* NNG returns a code.
Fail(s, err) ==
  /\ site' = s /\ raw' = err /\ failure' = AtSite(s, err) /\ io' = "none"

\* The conversion to io::Error: at once for an endpoint or an option, by the
\* application elsewhere.
IntoIo ==
  /\ site # "none" /\ io = "none" /\ failure \notin Panics
  /\ io' = IF site = "nng" THEN FromNngError(failure) ELSE FromAioError(failure)
  /\ UNCHANGED <<site, raw, failure>>

ErrorsNext ==
  \/ \E s \in DOMAIN Returned : \E err \in Returned[s] : Fail(s, err)
  \/ IntoIo

ErrorsSpec == ErrorsInit /\ [][ErrorsNext]_errorVars

-----------------------------------------------------------------------------
(* Properties.                                                             *)

(***************************************************************************)
(* Whatever code NNG returns and at whichever call, the conversion of the  *)
(* error to io::Error does not panic: a timeout and a cancellation are     *)
(* taken out by every call before it wraps what is left ("always handled   *)
(* in outer variant").  The calls themselves panic for a code they do not  *)
(* expect, but a send or a receive for none, and no call for a failure the *)
(* tests and comments tell of, though two of those are "not in the         *)
(* nng_dialer_start docs".                                                 *)
(***************************************************************************)
NoUnreachable ==
  /\ io # "unreachable"
  /\ failure = Unreachable => raw \notin Observed[site]

\* The codes an AioError stands for; of a system error it keeps the kind.
CodesOfOperation(e) ==
  CASE e.kind = "NngError"  -> {ErrorCode[e.value]}
    [] e.kind = "Transport" -> {e.value + ETRANERR}
    [] e.kind = "System"    -> {c \in Unlisted : /\ HasFlag(c, ESYSERR)
                                                /\ OsKind(c - ESYSERR) = e.value}
    [] e.kind = "Other"     -> {e.value}

\* The codes an error stands for.
CodesOf(e) ==
  CASE e.error = "Cancelled"    -> {NngErr.ECANCELED}
    [] e.error = "Operation"    -> CodesOfOperation(e)
    [] e.error = "SystemErr"    -> {e.code + ESYSERR}
    [] e.error = "TransportErr" -> {e.code + ETRANERR}
    [] e.error = "Unknown"      -> {e.code}
    [] OTHER -> {NngErr[c] : c \in {c \in DOMAIN NngVariant : NngVariant[c] = e.error}}

(***************************************************************************)
(* The application can tell which error NNG returned: from an Error of nng *)
(* the very code, from an AioError the code or, for a system error, its    *)
(* kind.  The one exception is EAGAIN of a dialer, "we remap ourselves".   *)
(* Of the codes the table names no two give the same error.  And an        *)
(* io::Error that asks for a retry (WouldBlock, TimedOut) means an error   *)
(* that is one.                                                            *)
(***************************************************************************)
ErrorKept ==
  /\ site # "none" /\ failure \notin Panics =>
       \/ /\ raw \in CodesOf(failure)
          /\ \A c, d \in CodesOf(failure) \cap Codes : c = d
       \/ site = "dialer_start" /\ raw = NngErr.EAGAIN
  /\ io = "WouldBlock" => raw \in {NngErr.EAGAIN, ESYSERR + 11}
  /\ io = "TimedOut" => raw \in {NngErr.ETIMEDOUT, ESYSERR + 110}
=============================================================================
