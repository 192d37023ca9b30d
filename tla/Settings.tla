------------------------------ MODULE Settings ------------------------------
(***************************************************************************)
(* Settings on their way into NNG: the thread pools of the library, given  *)
(* to init_nng (anng/src/init.rs) or Params::init (nng/src/lib.rs) while   *)
(* every socket initialises the library on its own (create_socket in       *)
(* anng/src/protocols/mod.rs), and the values of options: durations and    *)
(* counts.  NNG counts nng_init and nng_fini.  Machine integers keep their *)
(* width: MaxInt stands for the 2^15 - 1 of a thread count and the         *)
(* 2^31 - 1 of a number of milliseconds.                                   *)
(***************************************************************************)
EXTENDS Integers, FiniteSetsExt

CONSTANTS MaxInt,     \* the largest of the signed integers NNG takes
          MaxInits,   \* bound: calls of init_nng(None)
          Second,     \* milliseconds of a second (1000 in the code)
          MaxTtl,     \* hops a message may take (15 in the code)
          MaxBuffer,  \* messages a PUSH0 socket may buffer (8192 in the code)
          MaxSecs     \* bound: seconds of a duration, beyond the integers' range

\* 2^w, for integers of w bits.
Modulus == 2 * (MaxInt + 1)

ASSUME WidthAssumption == MaxInt \in Nat
ASSUME BoundsAssumption ==
  MaxInits \in Nat /\ Second \in Nat \ {0} /\ MaxSecs \in Nat
ASSUME RangesAssumption == MaxTtl \in 1..MaxInt /\ MaxBuffer \in 0..MaxInt

NonZeroI == (-(MaxInt + 1)..MaxInt) \ {0}
Unsigned == 0..Modulus - 1
Infinite == -1

\* ThreadLimit: nothing is Unlimited.
Limits == {{}} \cup {{n} : n \in NonZeroI}

\* ThreadPoolConfig.
Pools == [num : NonZeroI, max : Limits]

\* Option<ThreadPoolConfig>, one pool standing for each of the three, and for
\* num_resolver_threads, which has no maximum.
Configs == {{}} \cup {{p} : p \in Pools}

\* nng::Params: Option<NonZeroU16> each, 0 is None; one pair of fields stands
\* for the three pairs.
Params == [num : Unsigned, max : Unsigned]

\* Option<Duration>.
Durations == {{}} \cup {{d} : d \in [secs : 0..MaxSecs, millis : 0..Second - 1]}

Millis(d) == d.secs * Second + d.millis

VARIABLES
  count,     \* nng_init not undone by nng_fini (external)
  params,    \* <<num, max>> the library runs with, 0 its default (external)
  asked,     \* what the caller that initialised the library gave: a
             \* configuration, Params, or nothing
  checked,   \* that caller was init_nng, which validates
  sockets,   \* anng sockets that exist
  inits,     \* calls of init_nng(None) so far
  call,      \* the last call that set an option
  given,     \* the value, an Option
  passed,    \* the value NNG got; nothing if it got none
  outcome    \* of the call: "ok", "error" or "panic"

libraryVars  == <<count, params, asked, checked, sockets, inits>>
optionVars   == <<call, given, passed, outcome>>
settingsVars == <<libraryVars, optionVars>>

SettingsInit ==
  /\ count = 0 /\ params = <<0, 0>> /\ asked = {} /\ checked = TRUE
  /\ sockets = 0 /\ inits = 0
  /\ call = "none" /\ given = {} /\ passed = {} /\ outcome = "ok"

-----------------------------------------------------------------------------
(* The library.  Faulty... are seeded faults.                              *)

FaultyValid(p) == \A n \in p.max : p.num <= n

\* validate_pool_config.
Valid(p) ==
  /\ p.num > 0
  /\ \A n \in p.max : n > 0 /\ p.num <= n

\* limit_to_i16.
LimitToI(max) == IF max = {} THEN -1 ELSE CHOOSE n \in NonZeroI : max = {n}

\* pool_num_to_i16 and pool_max_to_i16; None leaves NNG its default.
ToParams(config) ==
  IF config = {} THEN <<0, 0>>
  ELSE LET p == CHOOSE p \in config : TRUE IN <<p.num, LimitToI(p.max)>>

\* init_nng(Some(config)); if it is Invalid, or AlreadyInitialized (EBUSY),
\* nothing changes.
InitConfig(config) ==
  /\ \A p \in config : Valid(p)
  /\ count = 0
  /\ count' = 1 /\ params' = ToParams(config)
  /\ asked' = config /\ checked' = TRUE
  /\ UNCHANGED <<optionVars, sockets, inits>>

\* x as w bits, read as a signed integer: the casts `as i16`, `as c_int`.
Wrapped(x) ==
  LET u == x % Modulus IN IF u > MaxInt THEN u - Modulus ELSE u

\* Params::init; no validation, and Busy if the library is initialised.
ParamsInit(p) ==
  /\ count = 0
  /\ count' = 1 /\ params' = <<Wrapped(p.num), Wrapped(p.max)>>
  /\ asked' = {p} /\ checked' = FALSE
  /\ UNCHANGED <<optionVars, sockets, inits>>

\* What NNG, which is external, uses after an nng_init(NULL): the defaults the
\* first time.
NullParams == IF count = 0 THEN <<0, 0>> ELSE params

\* init_nng(None), by the application or, with opened = 1, by create_socket,
\* which then opens the socket.
InitDefault(opened) ==
  /\ inits < MaxInits
  /\ count' = count + 1 /\ params' = NullParams
  /\ asked' = IF count = 0 THEN {} ELSE asked
  /\ inits' = inits + 1 /\ sockets' = sockets + opened
  /\ UNCHANGED <<optionVars, checked>>

\* Drop of a Socket: nng_socket_close and nothing else.
DropSocket ==
  /\ sockets > 0
  /\ sockets' = sockets - 1
  /\ UNCHANGED <<optionVars, count, params, asked, checked, inits>>

\* deinit_nng, whose "caller must ensure" that every socket has been closed,
\* or the drop of the handle that Params::init returned.
Deinit ==
  /\ sockets = 0 /\ count > 0
  /\ count' = count - 1
  /\ params' = IF count = 1 THEN <<0, 0>> ELSE params
  /\ asked' = IF count = 1 THEN {} ELSE asked
  /\ checked' = (checked \/ count = 1)
  /\ UNCHANGED <<optionVars, sockets, inits>>

-----------------------------------------------------------------------------
(* Options.                                                                *)

Set(c, value, got, o) ==
  /\ call' = c /\ given' = value /\ passed' = got /\ outcome' = o
  /\ UNCHANGED libraryVars

FaultySaturate(x) == Wrapped(x)

\* saturating_mul and saturating_add, of numbers that are not negative.
Saturate(x) == Min({x, MaxInt})

\* duration_to_nng.
DurationToNng(dur) ==
  IF dur = {} THEN {Infinite}
  ELSE {Saturate(Saturate(Min({d.secs, MaxInt}) * Second) + d.millis) : d \in dur}

\* set_timeout and sleep of nng::Aio.
SetTimeout(dur) == Set("set_timeout", dur, DurationToNng(dur), "ok")

\* duration_to_nng_ms, which panics for what does not fit.
FitsMs(d) == Millis(d) <= MaxInt

\* set_socket_ms, set_socket_ms_opt and set_ctx_ms_opt, in call c: the value
\* converted, and what check_map_set_ms_errno makes of NNG's answer.
SetMs(c, dur) ==
  \/ /\ dur = {}
     /\ \/ Set(c, dur, {Infinite}, "ok")
        \/ Set(c, dur, {}, "error")          \* ESTATE
  \/ /\ \E d \in dur : ~FitsMs(d)
     /\ Set(c, dur, {}, "panic")
  \/ \E d \in dur :
       /\ FitsMs(d)
       /\ \/ Set(c, dur, {Wrapped(Millis(d))}, "ok")
          \/ Set(c, dur, {}, "error")        \* ESTATE

\* set_resend_time of a Req0 socket and of a context; None is never.
SetResendTime(dur) == SetMs("set_resend_time", dur)

\* set_resend_tick of a Req0 socket.
SetResendTick(d) == SetMs("set_resend_tick", {d})

\* set_survey_timeout.
SetSurveyTimeout(d) ==
  IF Millis(d) > MaxInt THEN Set("set_survey_timeout", {d}, {}, "panic")
  ELSE Set("set_survey_timeout", {d}, {Wrapped(Millis(d))}, "ok")

\* set_max_ttl of a PAIR1 socket.
SetMaxTtl(n) ==
  IF n \notin 1..MaxTtl THEN Set("set_max_ttl", {n}, {}, "panic")
  ELSE Set("set_max_ttl", {n}, {n}, "ok")

\* set_send_buffer of a PUSH0 socket.
SetSendBuffer(n) ==
  \/ n > MaxBuffer /\ Set("set_send_buffer", {n}, {}, "error")
  \/ /\ n <= MaxBuffer
     /\ \/ Set("set_send_buffer", {n}, {n}, "ok")
        \/ Set("set_send_buffer", {n}, {}, "error")   \* ENOMEM

LibraryNext ==
  \/ \E config \in Configs : InitConfig(config)
  \/ \E p \in Params : ParamsInit(p)
  \/ \E opened \in {0, 1} : InitDefault(opened)
  \/ DropSocket \/ Deinit

OptionsNext ==
  \/ \E dur \in Durations :
       \/ SetTimeout(dur) \/ SetResendTime(dur)
       \/ \E d \in dur : SetResendTick(d) \/ SetSurveyTimeout(d)
  \/ \E n \in Unsigned : SetMaxTtl(n) \/ SetSendBuffer(n)

SettingsSpec == SettingsInit /\ [][LibraryNext \/ OptionsNext]_settingsVars

-----------------------------------------------------------------------------
(* Properties.                                                             *)

\* NNG given <<num, max>> does what pool p says: num threads to begin with,
\* and never more than the limit, if there is one.  NNG takes 0 for its default
\* and a negative maximum for none.
Means(num, max, p) ==
  /\ num > 0 /\ num = p.num
  /\ max < 0 <=> p.max = {}
  /\ \A n \in p.max : max = n /\ num <= max

(***************************************************************************)
(* "Configuration can only be set on first init": until the last nng_fini  *)
(* the library runs with what its first initialiser gave, whatever the     *)
(* sockets and other calls of init_nng do.  A configuration init_nng lets  *)
(* through arrives with its meaning, though its numbers may be negative    *)
(* ("NonZeroI16 can be negative") and NNG has meanings of its own for 0    *)
(* and -1.  Params are not validated: a number that fits in 16 signed bits *)
(* arrives, another one as something else.                                 *)
(***************************************************************************)
ConfigSticks ==
  /\ asked = {} => params = <<0, 0>>
  /\ \A p \in asked :
       IF checked THEN Means(params[1], params[2], p)
       ELSE /\ p.num <= MaxInt => params[1] = p.num
            /\ p.max <= MaxInt => params[2] = p.max

(***************************************************************************)
(* Whatever its size, a setting reaches NNG as what it is, as the longest  *)
(* NNG knows if it is a longer duration (nng::Aio), or not at all, and     *)
(* then the caller learns of it: by a panic of the anng setters for a      *)
(* duration that does not fit or a TTL outside 1 to 15, by an error for a  *)
(* buffer above 8192.  It is never a shorter duration, and never           *)
(* "infinite", which is None.                                              *)
(***************************************************************************)
SettingKept ==
  LET Needs(v) == IF call \in {"set_max_ttl", "set_send_buffer"} THEN v ELSE Millis(v)
  IN  /\ passed = {} <=> outcome # "ok" \/ call = "none"
      /\ passed # {} =>
           IF given = {} THEN passed = {Infinite}
           ELSE \E v \in given :
                  \/ Needs(v) \in 0..MaxInt /\ passed = {Needs(v)}
                  \/ Needs(v) > MaxInt /\ call = "set_timeout" /\ passed = {MaxInt}
      /\ passed # {} /\ call = "set_max_ttl" => passed \subseteq 1..MaxTtl
=============================================================================
