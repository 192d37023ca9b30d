--------------------------- MODULE BoundaryProofs ---------------------------
(***************************************************************************)
(* Theorems about what the crates take from outside: the settings on their *)
(* way into NNG, for integers of any width; the environment the build      *)
(* script of nng-sys reads, for any number of changes; the addresses of    *)
(* peers and listeners, for any octets and names; and the errors NNG       *)
(* returns, whatever the code.                                             *)
(***************************************************************************)
EXTENDS Settings, Errors, Addresses, Build, WellFoundedInduction, TLAPS

-----------------------------------------------------------------------------
(* Machine integers.                                                       *)

\* A number that fits is left alone by a cast.
LEMMA WrappedFits ==
  ASSUME NEW x \in 0..MaxInt
  PROVE  Wrapped(x) = x
<1>1. MaxInt \in Nat /\ Modulus \in Nat \ {0} /\ x < Modulus
  BY WidthAssumption DEF Modulus
<1>2. x % Modulus = x
  BY <1>1
<1>3. QED
  BY <1>1, <1>2 DEF Wrapped

\* The lesser of two numbers.
LEMMA MinOfTwo ==
  ASSUME NEW x \in Int, NEW y \in Int
  PROVE  Min({x, y}) = IF x <= y THEN x ELSE y
<1>1. \E z \in {x, y} : \A w \in {x, y} : z =< w
  BY SMT
<1>2. /\ Min({x, y}) \in {x, y}
      /\ \A w \in {x, y} : Min({x, y}) =< w
  BY <1>1 DEF Min
<1>3. QED
  BY <1>2

\* A second is at least a millisecond.
LEMMA TimesSecond ==
  ASSUME NEW n \in Nat
  PROVE  n * Second \in Nat /\ n <= n * Second
<1>1. Second \in Nat /\ Second >= 1
  BY BoundsAssumption
<1>2. n * Second \in Nat /\ n * (Second - 1) \in Nat
  BY <1>1
<1>3. n * Second = n + n * (Second - 1)
  BY <1>1
<1>4. QED
  BY <1>2, <1>3

(***************************************************************************)
(* duration_to_nng: the milliseconds of a duration if they fit, else the   *)
(* longest NNG knows, however the products and sums before it saturate.    *)
(***************************************************************************)
LEMMA DurationSaturates ==
  ASSUME NEW d \in [secs : 0..MaxSecs, millis : 0..Second - 1]
  PROVE  /\ Millis(d) \in Nat
         /\ DurationToNng({d}) = {IF Millis(d) <= MaxInt THEN Millis(d) ELSE MaxInt}
<1> DEFINE s == d.secs
           m == d.millis
           t == IF s <= MaxInt THEN s ELSE MaxInt
           u == IF t * Second <= MaxInt THEN t * Second ELSE MaxInt
           r == IF u + m <= MaxInt THEN u + m ELSE MaxInt
<1>1. s \in Nat /\ m \in Nat /\ MaxInt \in Nat
  BY WidthAssumption, BoundsAssumption
<1>2. /\ s * Second \in Nat /\ s <= s * Second
      /\ MaxInt * Second \in Nat /\ MaxInt <= MaxInt * Second
  BY <1>1, TimesSecond
<1>3. t \in Nat /\ t * Second \in Nat /\ u \in Nat
  BY <1>1, <1>2
<1>4. Min({s, MaxInt}) = t
  BY <1>1, MinOfTwo
<1>5. Saturate(t * Second) = u
  BY <1>1, <1>3, MinOfTwo DEF Saturate
<1>6. Saturate(u + m) = r
  BY <1>1, <1>3, MinOfTwo DEF Saturate
<1>7. Saturate(Saturate(Min({s, MaxInt}) * Second) + m) = r
  BY <1>4, <1>5, <1>6
<1>8. DurationToNng({d}) = {r}
  BY <1>7 DEF DurationToNng
<1>9. Millis(d) = s * Second + m /\ Millis(d) \in Nat
  BY <1>1, <1>2 DEF Millis
<1>10. r = IF s * Second + m <= MaxInt THEN s * Second + m ELSE MaxInt
  <2>1. CASE s <= MaxInt
    BY <1>1, <1>2, <2>1
  <2>2. CASE s > MaxInt
    BY <1>1, <1>2, <2>2
  <2>3. QED
    BY <1>1, <2>1, <2>2
<1>11. QED
  BY <1>8, <1>9, <1>10

-----------------------------------------------------------------------------
(* The library and the options.                                            *)

\* Without an initialiser the library has its defaults, and nobody's wishes.
LibraryInv ==
  /\ count \in Nat
  /\ count = 0 => params = <<0, 0>> /\ asked = {} /\ checked
  /\ ConfigSticks

\* limit_to_i16: a limit is itself, none is -1.
LEMMA LimitCases ==
  /\ LimitToI({}) = -1
  /\ \A n \in NonZeroI : LimitToI({n}) = n
<1>1. ASSUME NEW n \in NonZeroI
      PROVE  LimitToI({n}) = n
  <2>1. \A k \in NonZeroI : {n} = {k} <=> n = k
    OBVIOUS
  <2>2. (CHOOSE k \in NonZeroI : {n} = {k}) = n
    BY <2>1
  <2>3. QED
    BY <2>2 DEF LimitToI
<1>2. QED
  BY <1>1 DEF LimitToI

\* What validate_pool_config accepts arrives with its meaning.
LEMMA ConfigStep ==
  ASSUME NEW config \in Configs, InitConfig(config)
  PROVE  LibraryInv'
<1>1. MaxInt \in Nat
  BY WidthAssumption
<1>2. CASE config = {}
  <2>1. params' = <<0, 0>> /\ asked' = {} /\ count' = 1
    BY <1>2 DEF InitConfig, ToParams
  <2>2. QED
    BY <2>1 DEF LibraryInv, ConfigSticks
<1>3. ASSUME NEW p \in Pools, config = {p}
      PROVE  LibraryInv'
  <2>1. ToParams({p}) = <<p.num, LimitToI(p.max)>>
    BY DEF ToParams
  <2>2. /\ params' = <<p.num, LimitToI(p.max)>> /\ asked' = {p} /\ checked' = TRUE
        /\ count' = 1 /\ Valid(p)
    BY <1>3, <2>1 DEF InitConfig
  <2>3. p.num \in Int /\ p.num > 0
    BY <1>1, <2>2 DEF Pools, NonZeroI, Valid
  <2>5. ASSUME NEW n \in NonZeroI, p.max = {n}
        PROVE  Means(p.num, LimitToI(p.max), p)
    <3>1. LimitToI(p.max) = n
      BY <2>5, LimitCases
    <3>2. n \in Int /\ n > 0 /\ p.num <= n
      BY <1>1, <2>2, <2>5 DEF NonZeroI, Valid
    <3>3. QED
      BY <2>3, <2>5, <3>1, <3>2 DEF Means
  <2>6. Means(p.num, LimitToI(p.max), p)
    <3>1. p.max = {} \/ \E n \in NonZeroI : p.max = {n}
      BY DEF Pools, Limits
    <3>2. p.max = {} => Means(p.num, LimitToI(p.max), p)
      BY <2>3, LimitCases DEF Means
    <3>3. QED
      BY <2>5, <3>1, <3>2
  <2>7. params'[1] = p.num /\ params'[2] = LimitToI(p.max)
    BY <2>2
  <2>8. QED
    BY <2>2, <2>6, <2>7 DEF LibraryInv, ConfigSticks, Means
<1>4. QED
  BY <1>2, <1>3 DEF Configs

\* Params::init: what fits in a signed integer arrives.
LEMMA ParamsStep ==
  ASSUME NEW p \in Params, ParamsInit(p)
  PROVE  LibraryInv'
<1>1. MaxInt \in Nat /\ Modulus \in Nat
  BY WidthAssumption DEF Modulus
<1>2. p.num \in Nat /\ p.max \in Nat
  BY <1>1 DEF Params, Unsigned
<1>3. /\ asked' = {p} /\ params' = <<Wrapped(p.num), Wrapped(p.max)>>
      /\ count' = 1 /\ checked' = FALSE
  BY DEF ParamsInit
<1>4. params'[1] = Wrapped(p.num) /\ params'[2] = Wrapped(p.max)
  BY <1>3
<1>5. /\ p.num <= MaxInt => params'[1] = p.num
      /\ p.max <= MaxInt => params'[2] = p.max
  BY <1>1, <1>2, <1>4, WrappedFits
<1>6. QED
  BY <1>3, <1>5 DEF LibraryInv, ConfigSticks

\* A step after which the library is not initialised, or runs as before.
LEMMA KeptStep ==
  ASSUME LibraryInv, count' \in Nat,
         \/ /\ params' = <<0, 0>> /\ asked' = {} /\ checked' = TRUE
         \/ /\ params' = params /\ asked' = asked /\ checked' = checked
            /\ count' = 0 => count = 0
  PROVE  LibraryInv'
<1>1. CASE params' = <<0, 0>> /\ asked' = {} /\ checked' = TRUE
  BY <1>1 DEF LibraryInv, ConfigSticks
<1>2. CASE /\ params' = params /\ asked' = asked /\ checked' = checked
           /\ count' = 0 => count = 0
  BY <1>2 DEF LibraryInv, ConfigSticks, Means
<1>3. QED
  BY <1>1, <1>2

\* Calls of init_nng and deinit_nng, and options, keep the configuration.
LEMMA LibraryStep ==
  ASSUME LibraryInv, [LibraryNext \/ OptionsNext]_settingsVars
  PROVE  LibraryInv'
<1>1. ASSUME NEW opened \in {0, 1}, InitDefault(opened)
      PROVE  LibraryInv'
  <2>1. count' \in Nat /\ count' # 0
    BY <1>1 DEF InitDefault, LibraryInv
  <2>2. CASE count = 0
    <3>1. params' = params /\ asked' = asked /\ checked' = checked
      BY <1>1, <2>2 DEF InitDefault, NullParams, LibraryInv
    <3>2. QED
      BY <2>1, <3>1, KeptStep
  <2>3. CASE count # 0
    <3>1. params' = params /\ asked' = asked /\ checked' = checked
      BY <1>1, <2>3 DEF InitDefault, NullParams
    <3>2. QED
      BY <2>1, <3>1, KeptStep
  <2>4. QED
    BY <2>2, <2>3
<1>2. CASE DropSocket
  BY <1>2, KeptStep DEF DropSocket, LibraryInv
<1>3. CASE Deinit
  <2>1. count' \in Nat
    BY <1>3 DEF Deinit, LibraryInv
  <2>2. CASE count = 1
    <3>1. params' = <<0, 0>> /\ asked' = {} /\ checked' = TRUE
      BY <1>3, <2>2 DEF Deinit
    <3>2. QED
      BY <2>1, <3>1, KeptStep
  <2>3. CASE count # 1
    <3>1. params' = params /\ asked' = asked /\ checked' = (checked \/ FALSE) /\ count' # 0
      BY <1>3, <2>3 DEF Deinit, LibraryInv
    <3>2. QED
      BY <2>1, <3>1 DEF LibraryInv, ConfigSticks, Means
  <2>4. QED
    BY <2>2, <2>3
<1>4. CASE OptionsNext
  <2>1. UNCHANGED libraryVars
    BY <1>4 DEF OptionsNext, SetTimeout, SetResendTime, SetResendTick, SetMs,
                SetSurveyTimeout, SetMaxTtl, SetSendBuffer, Set
  <2>2. QED
    BY <2>1, KeptStep DEF libraryVars, LibraryInv
<1>5. CASE UNCHANGED settingsVars
  BY <1>5, KeptStep DEF settingsVars, libraryVars, LibraryInv
<1>6. QED
  BY <1>1, <1>2, <1>3, <1>4, <1>5, ConfigStep, ParamsStep DEF LibraryNext

(***************************************************************************)
(* For integers of any width and any number of sockets, a configuration    *)
(* that init_nng accepts has its meaning in NNG, and holds until the last  *)
(* nng_fini.                                                               *)
(***************************************************************************)
THEOREM ConfigurationHolds == SettingsSpec => []ConfigSticks
<1>1. SettingsInit => LibraryInv
  BY DEF SettingsInit, LibraryInv, ConfigSticks
<1>2. LibraryInv /\ [LibraryNext \/ OptionsNext]_settingsVars => LibraryInv'
  BY LibraryStep
<1>3. LibraryInv => ConfigSticks
  BY DEF LibraryInv
<1>4. QED
  BY <1>1, <1>2, <1>3, PTL DEF SettingsSpec

\* What a call that sets an option leaves is what SettingKept asks for.
LEMMA DurationSet ==
  ASSUME NEW d \in [secs : 0..MaxSecs, millis : 0..Second - 1],
         NEW c, c \notin {"none", "set_max_ttl", "set_send_buffer"},
         \/ Millis(d) <= MaxInt /\ Set(c, {d}, {Wrapped(Millis(d))}, "ok")
         \/ \E o \in {"error", "panic"} : Set(c, {d}, {}, o)
  PROVE  SettingKept'
<1>1. MaxInt \in Nat /\ Millis(d) \in Nat
  BY WidthAssumption, DurationSaturates
<1>2. CASE Millis(d) <= MaxInt /\ Set(c, {d}, {Wrapped(Millis(d))}, "ok")
  <2>1. Wrapped(Millis(d)) = Millis(d)
    BY <1>1, <1>2, WrappedFits
  <2>2. call' = c /\ given' = {d} /\ passed' = {Millis(d)} /\ outcome' = "ok"
    BY <1>2, <2>1 DEF Set
  <2>3. QED
    BY <1>1, <1>2, <2>2 DEF SettingKept
<1>3. CASE \E o \in {"error", "panic"} : Set(c, {d}, {}, o)
  BY <1>3 DEF SettingKept, Set
<1>4. QED
  BY <1>2, <1>3

\* None is infinite.
LEMMA NoneSet ==
  ASSUME NEW c, c \notin {"none", "set_max_ttl", "set_send_buffer"},
         \/ Set(c, {}, {Infinite}, "ok")
         \/ Set(c, {}, {}, "error")
  PROVE  SettingKept'
BY DEF SettingKept, Set

\* set_timeout of nng passes the milliseconds asked for, or the largest there are.
LEMMA TimeoutSet ==
  ASSUME NEW dur \in Durations, SetTimeout(dur)
  PROVE  SettingKept'
<1>1. CASE dur = {}
  BY <1>1, NoneSet DEF SetTimeout, DurationToNng
<1>2. ASSUME NEW d \in [secs : 0..MaxSecs, millis : 0..Second - 1], dur = {d}
      PROVE  SettingKept'
  <2>1. MaxInt \in Nat /\ Millis(d) \in Nat
    BY WidthAssumption, DurationSaturates
  <2>2. /\ call' = "set_timeout" /\ given' = {d} /\ outcome' = "ok"
        /\ passed' = {IF Millis(d) <= MaxInt THEN Millis(d) ELSE MaxInt}
    BY <1>2, DurationSaturates DEF SetTimeout, Set
  <2>3. CASE Millis(d) <= MaxInt
    BY <2>1, <2>2, <2>3 DEF SettingKept
  <2>4. CASE Millis(d) > MaxInt
    <3>1. passed' = {MaxInt}
      BY <2>1, <2>2, <2>4
    <3>2. QED
      BY <2>1, <2>2, <2>4, <3>1 DEF SettingKept
  <2>5. QED
    BY <2>1, <2>3, <2>4
<1>3. QED
  BY <1>1, <1>2 DEF Durations

\* A duration of anng reaches NNG as it is, or the setter panics.
LEMMA MsSet ==
  ASSUME NEW dur \in Durations, NEW c, SetMs(c, dur),
         c \notin {"none", "set_max_ttl", "set_send_buffer"}
  PROVE  SettingKept'
<1>1. CASE dur = {}
  BY <1>1, NoneSet DEF SetMs
<1>2. ASSUME NEW d \in [secs : 0..MaxSecs, millis : 0..Second - 1], dur = {d}
      PROVE  SettingKept'
  <2>1. \/ Millis(d) <= MaxInt /\ Set(c, {d}, {Wrapped(Millis(d))}, "ok")
        \/ \E o \in {"error", "panic"} : Set(c, {d}, {}, o)
    BY <1>2 DEF SetMs, FitsMs
  <2>2. QED
    BY <2>1, DurationSet
<1>3. QED
  BY <1>1, <1>2 DEF Durations

\* A count is passed on as it is, or not at all.
LEMMA CountSet ==
  ASSUME NEW n \in Unsigned, SetMaxTtl(n) \/ SetSendBuffer(n)
  PROVE  SettingKept'
<1>1. MaxInt \in Nat /\ n \in Nat
  BY WidthAssumption DEF Unsigned, Modulus
<1>2. CASE SetMaxTtl(n)
  <2>1. CASE n \in 1..MaxTtl
    <3>1. n \in 0..MaxInt
      BY <2>1, <1>1, RangesAssumption
    <3>2. call' = "set_max_ttl" /\ given' = {n} /\ passed' = {n} /\ outcome' = "ok"
      BY <1>2, <2>1 DEF SetMaxTtl, Set
    <3>3. QED
      BY <2>1, <3>1, <3>2 DEF SettingKept
  <2>2. CASE n \notin 1..MaxTtl
    BY <1>2, <2>2 DEF SetMaxTtl, Set, SettingKept
  <2>3. QED
    BY <2>1, <2>2
<1>3. CASE SetSendBuffer(n)
  <2>1. CASE n <= MaxBuffer /\ Set("set_send_buffer", {n}, {n}, "ok")
    <3>1. n \in 0..MaxInt
      BY <2>1, <1>1, RangesAssumption
    <3>2. QED
      BY <2>1, <3>1 DEF Set, SettingKept
  <2>2. CASE Set("set_send_buffer", {n}, {}, "error")
    BY <2>2 DEF Set, SettingKept
  <2>3. QED
    BY <1>3, <2>1, <2>2 DEF SetSendBuffer
<1>4. QED
  BY <1>2, <1>3

(***************************************************************************)
(* For integers of any width and durations of any length, a setting        *)
(* reaches NNG as what it is or as the longest duration NNG knows, or the  *)
(* caller learns that it has not.                                          *)
(***************************************************************************)
THEOREM SettingArrives == SettingsSpec => []SettingKept
<1>1. SettingsInit => SettingKept
  BY DEF SettingsInit, SettingKept
<1>2. SettingKept /\ [LibraryNext \/ OptionsNext]_settingsVars => SettingKept'
  <2> SUFFICES ASSUME SettingKept, [LibraryNext \/ OptionsNext]_settingsVars
               PROVE  SettingKept'
    OBVIOUS
  <2>1. CASE LibraryNext \/ UNCHANGED settingsVars
    <3>1. UNCHANGED optionVars
      BY <2>1 DEF LibraryNext, InitConfig, ParamsInit, InitDefault, DropSocket,
                  Deinit, settingsVars
    <3>2. QED
      BY <3>1 DEF optionVars, SettingKept
  <2>2. ASSUME NEW dur \in Durations, SetTimeout(dur) \/ SetResendTime(dur)
        PROVE  SettingKept'
    BY <2>2, TimeoutSet, MsSet DEF SetResendTime
  <2>3. ASSUME NEW dur \in Durations, NEW d \in dur,
               SetResendTick(d) \/ SetSurveyTimeout(d)
        PROVE  SettingKept'
    <3>1. d \in [secs : 0..MaxSecs, millis : 0..Second - 1] /\ {d} \in Durations
      BY <2>3 DEF Durations
    <3>2. CASE SetResendTick(d)
      BY <3>1, <3>2, MsSet DEF SetResendTick
    <3>3. CASE SetSurveyTimeout(d)
      <4> DEFINE c == "set_survey_timeout"
      <4>1. c \notin {"none", "set_max_ttl", "set_send_buffer"}
        OBVIOUS
      <4>2. Millis(d) \in Nat /\ MaxInt \in Nat
        BY <3>1, WidthAssumption, DurationSaturates
      <4>3. CASE Millis(d) > MaxInt
        <5>1. Set(c, {d}, {}, "panic")
          BY <3>3, <4>3 DEF SetSurveyTimeout
        <5> HIDE DEF c
        <5>2. QED
          BY <3>1, <4>1, <5>1, DurationSet
      <4>4. CASE Millis(d) <= MaxInt
        <5>1. ~(Millis(d) > MaxInt)
          BY <4>2, <4>4
        <5>2. Set(c, {d}, {Wrapped(Millis(d))}, "ok")
          BY <3>3, <5>1 DEF SetSurveyTimeout
        <5> HIDE DEF c
        <5>3. QED
          BY <3>1, <4>1, <4>4, <5>2, DurationSet
      <4>5. QED
        BY <4>2, <4>3, <4>4
    <3>4. QED
      BY <2>3, <3>2, <3>3
  <2>4. QED
    BY <2>1, <2>2, <2>3, CountSet DEF OptionsNext
<1>3. QED
  BY <1>1, <1>2, PTL DEF SettingsSpec

-----------------------------------------------------------------------------
(* The build script.                                                       *)

\* A result is what the script makes of the environment it saw, and names to
\* cargo what it read of it.
ResultInv ==
  artifact # Failed => artifact = Main(seen) /\ watched = Watch(seen, artifact)

BuildInv ==
  /\ env \in [EnvVars -> Values] /\ seen \in [EnvVars -> Values]
  /\ ResultInv /\ BuildIsCurrent

\* main: vendored, or found.
Library(e) ==
  IF "vendored" \in features /\ ~ForceNoVendor(e) THEN BuildVendored(e) ELSE UseSystem(e)

Finish(e, library) ==
  [source |-> library.source, shared |-> library.shared, defines |-> library.defines,
   headers |-> library.headers, link |-> LinkKind(e, library), bindings |-> Bindings(library)]

\* main of the build script fails where the library cannot be found or built.
LEMMA MainCases ==
  ASSUME NEW e
  PROVE  Main(e) = IF Library(e) = Failed THEN Failed ELSE Finish(e, Library(e))
BY DEF Main, Library, Finish

\* The vendored library is never mistaken for one that was found.
LEMMA LibrarySource ==
  ASSUME NEW e
  PROVE  /\ BuildVendored(e) # Failed =>
              /\ BuildVendored(e).source = "Vendored"
              /\ BuildVendored(e).shared = ~ShouldLinkStatic(e, TRUE)
         /\ UseSystem(e) # Failed =>
              UseSystem(e).source \in {"Manual", "PkgConfig", "Vcpkg"}
<1>1. BuildVendored(e) # Failed =>
        /\ BuildVendored(e).source = "Vendored"
        /\ BuildVendored(e).shared = ~ShouldLinkStatic(e, TRUE)
  BY DEF BuildVendored
<1>2. \/ FoundBy(e) = NotFound
      \/ FoundBy(e).source \in {"Manual", "PkgConfig", "Vcpkg"}
  BY DEF FoundBy, Found
<1>3. \/ FindSystemLibrary(e) = NotFound
      \/ FindSystemLibrary(e).source \in {"Manual", "PkgConfig", "Vcpkg"}
  BY <1>2 DEF FindSystemLibrary, Found
<1>4. UseSystem(e) # Failed => /\ UseSystem(e).source = FindSystemLibrary(e).source
                               /\ FindSystemLibrary(e) # NotFound
  BY DEF UseSystem
<1>5. QED
  BY <1>1, <1>3, <1>4

\* Generating bindings and link lines does not change the library.
LEMMA FinishNotFailed ==
  ASSUME NEW e, Library(e) # Failed
  PROVE  Main(e) # Failed /\ Main(e).source = Library(e).source
<1>1. Library(e).source \in {"Vendored", "Manual", "PkgConfig", "Vcpkg"}
  BY LibrarySource DEF Library
<1>2. Main(e) = Finish(e, Library(e))
  BY MainCases
<1>3. Main(e).source = Library(e).source
  BY <1>2 DEF Finish
<1>4. Failed.source = "failed"
  BY DEF Failed
<1>5. QED
  BY <1>1, <1>3, <1>4

(***************************************************************************)
(* What cargo watches is enough: if none of it has changed, no NNG_CMAKE_  *)
(* variable is new and CFLAGS is what it was where it was read, the script *)
(* would make the same again.                                              *)
(***************************************************************************)
LEMMA SameResult ==
  ASSUME env \in [EnvVars -> Values], seen \in [EnvVars -> Values],
         artifact # Failed, ResultInv,
         \A v \in watched : env[v] = seen[v],
         NewlySet = {}, ~CflagsChanged
  PROVE  artifact = Main(env)
<1>1. artifact = Main(seen) /\ watched = Watch(seen, artifact)
  BY DEF ResultInv
<1>2. \A n \in Names : GetEnvVar(env, n) = GetEnvVar(seen, n)
  BY <1>1 DEF Watch, GetEnvVar
<1>3. /\ ForceNoVendor(env) = ForceNoVendor(seen)
      /\ \A b \in BOOLEAN : ShouldLinkStatic(env, b) = ShouldLinkStatic(seen, b)
  BY <1>2 DEF Names, ForceNoVendor, ShouldLinkStatic
<1>4. ("vendored" \in features => ForceNoVendor(seen)) => UseSystem(env) = UseSystem(seen)
  <2> SUFFICES ASSUME "vendored" \in features => ForceNoVendor(seen)
               PROVE  FindSystemLibrary(env) = FindSystemLibrary(seen)
    BY DEF UseSystem
  <2>1. \A n \in {"NNG_DIR", "NNG_LIB_DIR", "NNG_INCLUDE_DIR"} :
          GetEnvVar(env, n) = GetEnvVar(seen, n)
    BY <1>2 DEF Names
  <2>2. CASE GetEnvVar(seen, "NNG_DIR") # "unset" \/ GetEnvVar(seen, "NNG_LIB_DIR") # "unset"
    BY <2>1, <2>2 DEF FindSystemLibrary
  <2>3. CASE /\ GetEnvVar(seen, "NNG_DIR") = "unset" /\ GetEnvVar(seen, "NNG_LIB_DIR") = "unset"
             /\ system \notin {"pkg-config", "vcpkg"}
    <3>1. \A v \in {"CFLAGS"} \X {"plain", "prefixed"} : env[v] = seen[v]
      BY <2>3 DEF CflagsChanged
    <3>2. FoundBy(env) = FoundBy(seen)
      BY <3>1 DEF FoundBy, Probe, GetEnvVar
    <3>3. QED
      BY <2>1, <3>2 DEF FindSystemLibrary
  <2>4. CASE system \in {"pkg-config", "vcpkg"}
    <3>1. FoundBy(env) = FoundBy(seen)
      BY <2>4 DEF FoundBy
    <3>2. QED
      BY <2>1, <3>1 DEF FindSystemLibrary
  <2>5. QED
    BY <2>2, <2>3, <2>4
<1>5. Library(seen) # Failed
  BY <1>1, MainCases
<1>6. artifact.source = Library(seen).source
  BY <1>1, <1>5, FinishNotFailed
<1>7. Library(env) = Library(seen)
  <2>1. CASE "vendored" \in features /\ ~ForceNoVendor(seen)
    <3>1. BuildVendored(seen) # Failed
      BY <1>5, <2>1 DEF Library
    <3>2. artifact.source = "Vendored"
      BY <1>6, <2>1, <3>1, LibrarySource DEF Library
    <3>3. submodule # "missing" /\ seen[<<"NNG_CMAKE_", "managed">>] = "unset"
      BY <3>1 DEF BuildVendored
    <3>4. env[<<"NNG_CMAKE_", "managed">>] = "unset"
      BY <3>3 DEF NewlySet
    <3>5. env[<<"NNG_CMAKE_", "free">>] = seen[<<"NNG_CMAKE_", "free">>]
      BY <1>1, <3>2 DEF NewlySet, Watch
    <3>6. BuildVendored(env) = BuildVendored(seen)
      BY <1>3, <3>3, <3>4, <3>5 DEF BuildVendored
    <3>7. QED
      BY <1>3, <2>1, <3>6 DEF Library
  <2>2. CASE ~("vendored" \in features /\ ~ForceNoVendor(seen))
    BY <1>3, <1>4, <2>2 DEF Library
  <2>3. QED
    BY <2>1, <2>2
<1>8. LinkKind(env, Library(seen)) = LinkKind(seen, Library(seen))
  BY <1>3 DEF LinkKind
<1>9. QED
  BY <1>1, <1>5, <1>7, <1>8, MainCases DEF Finish

\* Fetching the sources by git does not change what the script makes.
LEMMA MainKept ==
  ASSUME UNCHANGED <<features, system, env>>,
         submodule' = "missing" <=> submodule = "missing"
  PROVE  Main(env)' = Main(env)
<1>1. /\ (ForceNoVendor(env)' = ForceNoVendor(env))
      /\ BuildVendored(env)' = BuildVendored(env)
      /\ UseSystem(env)' = UseSystem(env)
  BY DEF ForceNoVendor, BuildVendored, UseSystem, ShouldLinkStatic, GetEnvVar,
         FindSystemLibrary, Headers, Probe, FoundBy
<1>2. QED
  BY <1>1 DEF Main, LinkKind, Bindings, ShouldLinkStatic, GetEnvVar

\* Nor does anything else while the environment of the run is remembered.
LEMMA ResultKept ==
  ASSUME UNCHANGED <<features, system, submodule, watched, seen, artifact>>, ResultInv
  PROVE  ResultInv'
<1>1. /\ (ForceNoVendor(seen)' = ForceNoVendor(seen))
      /\ BuildVendored(seen)' = BuildVendored(seen)
      /\ UseSystem(seen)' = UseSystem(seen)
  BY DEF ForceNoVendor, BuildVendored, UseSystem, ShouldLinkStatic, GetEnvVar,
         FindSystemLibrary, Headers, Probe, FoundBy
<1>2. Main(seen)' = Main(seen)
  BY <1>1 DEF Main, LinkKind, Bindings, ShouldLinkStatic, GetEnvVar
<1>3. QED
  BY <1>2 DEF ResultInv, Watch

\* The values tried of a variable are values.
LEMMA ValuesKnown ==
  ASSUME NEW v \in EnvVars
  PROVE  ValuesOf(v) \subseteq Values
<1>1. v[1] \in Names \cup {"CFLAGS", "NNG_CMAKE_"}
  BY DEF EnvVars
<1>2. QED
  BY <1>1 DEF Names, ValuesOf, Values

\* Runs of the script and changes of the environment keep the build invariant.
LEMMA BuildStep ==
  ASSUME BuildInv, [BuildNext]_buildVars
  PROVE  BuildInv'
<1>1. ASSUME NEW v \in EnvVars, NEW value \in ValuesOf(v), ChangeEnv(v, value)
      PROVE  BuildInv'
  <2>0. value \in Values
    BY <1>1, ValuesKnown
  <2>1. /\ env' \in [EnvVars -> Values] /\ current' = FALSE
        /\ UNCHANGED <<features, system, submodule, watched, seen, artifact>>
    BY <1>1, <2>0 DEF ChangeEnv, BuildInv
  <2>2. ResultInv'
    BY <2>1, ResultKept DEF BuildInv
  <2>3. QED
    BY <2>1, <2>2 DEF BuildInv, BuildIsCurrent
<1>2. CASE CargoBuild
  <2>1. UNCHANGED <<features, system, env>>
    BY <1>2 DEF CargoBuild
  <2>2. CASE artifact = Failed \/ \E v \in watched : env[v] # seen[v]
    <3>1. /\ artifact' = Main(env) /\ seen' = env
          /\ watched' = IF artifact' = Failed THEN {} ELSE Watch(env, artifact')
          /\ submodule' = "missing" <=> submodule = "missing"
      BY <1>2, <2>2 DEF CargoBuild
    <3>2. Main(env)' = Main(env)
      BY <2>1, <3>1, MainKept
    <3>3. Main(seen)' = Main(env)'
      <4>1. seen' = env'
        BY <2>1, <3>1
      <4>2. /\ (ForceNoVendor(seen)' = ForceNoVendor(env)')
            /\ BuildVendored(seen)' = BuildVendored(env)'
            /\ UseSystem(seen)' = UseSystem(env)'
        BY <4>1 DEF ForceNoVendor, BuildVendored, UseSystem, ShouldLinkStatic,
                    GetEnvVar, FindSystemLibrary, Headers, Probe, FoundBy
      <4>3. QED
        BY <4>1, <4>2 DEF Main, LinkKind, Bindings, ShouldLinkStatic, GetEnvVar
    <3>4. ResultInv'
      BY <3>1, <3>2, <3>3 DEF ResultInv, Watch
    <3>5. QED
      BY <2>1, <3>1, <3>2, <3>4 DEF BuildInv, BuildIsCurrent
  <2>3. CASE ~(artifact = Failed \/ \E v \in watched : env[v] # seen[v])
    <3>1. UNCHANGED <<artifact, seen, watched, submodule>>
      BY <1>2, <2>3 DEF CargoBuild
    <3>2. Main(env)' = Main(env)
      BY <2>1, <3>1, MainKept
    <3>3. ResultInv'
      BY <2>1, <3>1, ResultKept DEF BuildInv
    <3>4. NewlySet = {} /\ ~CflagsChanged => artifact = Main(env)
      BY <2>3, SameResult DEF BuildInv
    <3>5. NewlySet' = NewlySet /\ (CflagsChanged' <=> CflagsChanged)
      BY <2>1, <3>1 DEF NewlySet, CflagsChanged, ForceNoVendor, GetEnvVar
    <3>6. QED
      BY <2>1, <3>1, <3>2, <3>3, <3>4, <3>5 DEF BuildInv, BuildIsCurrent
  <2>4. QED
    BY <2>2, <2>3
<1>3. CASE UNCHANGED buildVars
  <2>1. /\ UNCHANGED <<features, system, env, submodule>>
        /\ UNCHANGED <<watched, seen, artifact, current>>
    BY <1>3 DEF buildVars
  <2>2. Main(env)' = Main(env)
    BY <2>1, MainKept
  <2>3. ResultInv'
    BY <2>1, ResultKept DEF BuildInv
  <2>4. NewlySet' = NewlySet /\ (CflagsChanged' <=> CflagsChanged)
    BY <2>1 DEF NewlySet, CflagsChanged, ForceNoVendor, GetEnvVar
  <2>5. QED
    BY <2>1, <2>2, <2>3, <2>4 DEF BuildInv, BuildIsCurrent
<1>4. QED
  BY <1>1, <1>2, <1>3 DEF BuildNext

\* The invariant holds of every sequence of changes and builds.
THEOREM BuildInvariance == BuildSpec => []BuildInv
<1>1. BuildInit => BuildInv
  BY DEF BuildInit, BuildInv, BuildIsCurrent, ResultInv, Values
<1>2. BuildInv /\ [BuildNext]_buildVars => BuildInv'
  BY BuildStep
<1>3. QED
  BY <1>1, <1>2, PTL DEF BuildSpec

(***************************************************************************)
(* Whatever variables change between two builds, and however often, the    *)
(* artifact is the one of today's environment, but for an NNG_CMAKE_       *)
(* variable that is new and for CFLAGS where the script read it.           *)
(***************************************************************************)
THEOREM NothingStale == BuildSpec => []BuildIsCurrent
<1>1. BuildInv => BuildIsCurrent
  BY DEF BuildInv
<1>2. QED
  BY BuildInvariance, <1>1, PTL

(***************************************************************************)
(* The library, the way it is linked and its bindings always agree.        *)
(***************************************************************************)
THEOREM LinkAgrees == BuildSpec => []LinkSound
<1>1. BuildInv => LinkSound
  <2> SUFFICES ASSUME BuildInv, artifact # Failed
               PROVE  /\ artifact.source = "Vendored" =>
                           (artifact.shared <=> artifact.link = "dylib")
                      /\ artifact.bindings = "pregenerated" => artifact.headers = "vendored"
    BY DEF LinkSound
  <2>1. Library(seen) # Failed /\ artifact = Finish(seen, Library(seen))
    BY MainCases DEF BuildInv, ResultInv
  <2>2. /\ artifact.source = Library(seen).source
        /\ artifact.shared = Library(seen).shared
        /\ artifact.headers = Library(seen).headers
        /\ artifact.link = LinkKind(seen, Library(seen))
        /\ artifact.bindings = Bindings(Library(seen))
    BY <2>1 DEF Finish
  <2>3. ASSUME artifact.source = "Vendored"
        PROVE  /\ artifact.shared <=> artifact.link = "dylib"
               /\ artifact.headers = "vendored"
    <3>1. Library(seen) = BuildVendored(seen)
      BY <2>1, <2>2, <2>3, LibrarySource DEF Library
    <3>2. artifact.shared = ~ShouldLinkStatic(seen, TRUE)
      BY <2>1, <2>2, <3>1, LibrarySource
    <3>3. artifact.link = IF ShouldLinkStatic(seen, TRUE) THEN "static" ELSE "dylib"
      BY <2>2, <2>3 DEF LinkKind
    <3>4. artifact.headers = "vendored"
      <4>1. BuildVendored(seen).headers = "vendored"
        BY <2>1, <3>1 DEF BuildVendored
      <4>2. QED
        BY <2>2, <3>1, <4>1
    <3>5. QED
      BY <3>2, <3>3, <3>4
  <2>4. artifact.bindings = "pregenerated" => artifact.source = "Vendored"
    BY <2>2 DEF Bindings
  <2>5. QED
    BY <2>3, <2>4
<1>2. QED
  BY BuildInvariance, <1>1, PTL

-----------------------------------------------------------------------------
(* Addresses.                                                              *)

\* A set of natural numbers has a least one.
LEMMA LeastElement ==
  ASSUME NEW T, T \subseteq Nat, T # {}
  PROVE  \E x \in T : \A y \in T : ~ (y < x)
<1> DEFINE R == OpToRel(<, Nat)
<1>1. IsWellFoundedOn(R, Nat)
  BY NatLessThanWellFounded, Zenon
<1>2. \A y, x \in Nat : y < x => <<y, x>> \in R
  BY DEF OpToRel
<1> HIDE DEF R
<1>3. \E x \in T : \A y \in T : ~ (<<y, x>> \in R)
  BY <1>1, WFMin
<1>4. QED
  BY <1>2, <1>3

\* Induction, for a set instead of a predicate.
LEMMA SetInduction ==
  ASSUME NEW S, 0 \in S, \A n \in Nat : n \in S => n + 1 \in S
  PROVE  \A n \in Nat : n \in S
<1> DEFINE T == {n \in Nat : n \notin S}
<1> SUFFICES ASSUME T # {} PROVE FALSE
  OBVIOUS
<1>1. PICK x \in T : \A y \in T : ~ (y < x)
  <2> HIDE DEF T
  <2>1. T \subseteq Nat
    BY DEF T
  <2>2. QED
    BY <2>1, LeastElement
<1>2. x - 1 \in Nat /\ x - 1 < x
  BY <1>1
<1>3. x - 1 \in S
  BY <1>1, <1>2
<1>4. QED
  BY <1>1, <1>2, <1>3

\* f has, for each i up to n, the first i sequences of s in one.
Flattens(f, s, n) ==
  /\ DOMAIN f = 1..n
  /\ n >= 1 => f[1] = s[1]
  /\ \A i \in 2..n : f[i] = f[i - 1] \o s[i]

\* The recursion that flattens a sequence of sequences has a solution ...
LEMMA FlattenExists ==
  ASSUME NEW C, NEW s \in Seq(Seq(C))
  PROVE  \A n \in Nat : n <= Len(s) => \E f \in [1..n -> Seq(C)] : Flattens(f, s, n)
<1> DEFINE S == {n \in Nat : n <= Len(s) => \E f \in [1..n -> Seq(C)] : Flattens(f, s, n)}
<1>1. 0 \in S
  <2>1. [i \in 1..0 |-> <<>>] \in [1..0 -> Seq(C)]
    OBVIOUS
  <2>2. Flattens([i \in 1..0 |-> <<>>], s, 0)
    BY DEF Flattens
  <2>3. QED
    BY <2>1, <2>2
<1>2. ASSUME NEW n \in Nat, n \in S PROVE n + 1 \in S
  <2> SUFFICES ASSUME n + 1 <= Len(s)
               PROVE  \E f \in [1..n + 1 -> Seq(C)] : Flattens(f, s, n + 1)
    OBVIOUS
  <2>1. PICK f \in [1..n -> Seq(C)] : Flattens(f, s, n)
    BY <1>2
  <2> DEFINE g == [i \in 1..n + 1 |-> IF i <= n THEN f[i]
                                      ELSE IF n = 0 THEN s[n + 1] ELSE f[n] \o s[n + 1]]
  <2>2. s[n + 1] \in Seq(C) /\ (n # 0 => f[n] \in Seq(C))
    OBVIOUS
  <2>3. n # 0 => f[n] \o s[n + 1] \in Seq(C)
    BY <2>2
  <2>4. g \in [1..n + 1 -> Seq(C)]
    BY <2>2, <2>3
  <2>5. Flattens(g, s, n + 1)
    <3>1. ASSUME NEW i \in 2..n PROVE g[i] = g[i - 1] \o s[i]
      <4>1. f[i] = f[i - 1] \o s[i]
        BY <2>1 DEF Flattens
      <4>2. g[i] = f[i] /\ g[i - 1] = f[i - 1]
        OBVIOUS
      <4>3. QED
        BY <4>1, <4>2
    <3>2. ASSUME n >= 1 PROVE g[n + 1] = g[n] \o s[n + 1]
      <4>1. g[n] = f[n]
        BY <3>2
      <4>2. g[n + 1] = f[n] \o s[n + 1]
        BY <3>2
      <4>3. QED
        BY <4>1, <4>2, Zenon
    <3>3. g[1] = s[1]
      BY <2>1 DEF Flattens
    <3>4. DOMAIN g = 1..n + 1
      OBVIOUS
    <3>5. \A i \in 2..n + 1 : i \in 2..n \/ (i = n + 1 /\ n >= 1 /\ i - 1 = n)
      OBVIOUS
    <3> HIDE DEF g
    <3>6. \A i \in 2..n + 1 : g[i] = g[i - 1] \o s[i]
      BY <3>1, <3>2, <3>5
    <3>7. QED
      BY <3>3, <3>4, <3>6 DEF Flattens
  <2>6. QED
    BY <2>4, <2>5
<1> HIDE DEF S
<1>3. \A n \in Nat : n \in S
  BY <1>1, <1>2, SetInduction
<1>4. QED
  BY <1>3 DEF S

\* ... and one only ...
LEMMA FlattenUnique ==
  ASSUME NEW s, NEW n \in Nat, NEW f, NEW g, Flattens(f, s, n), Flattens(g, s, n)
  PROVE  \A i \in 1..n : f[i] = g[i]
<1> DEFINE S == {i \in Nat : i \in 1..n => f[i] = g[i]}
<1>1. 0 \in S
  OBVIOUS
<1>2. ASSUME NEW i \in Nat, i \in S PROVE i + 1 \in S
  <2> SUFFICES ASSUME i + 1 \in 1..n PROVE f[i + 1] = g[i + 1]
    OBVIOUS
  <2>1. CASE i = 0
    BY <2>1 DEF Flattens
  <2>2. CASE i # 0
    <3>1. i + 1 \in 2..n /\ i + 1 - 1 = i /\ f[i] = g[i]
      BY <1>2, <2>2
    <3>2. ASSUME NEW j \in 2..n PROVE f[j] = f[j - 1] \o s[j] /\ g[j] = g[j - 1] \o s[j]
      BY Zenon DEF Flattens
    <3>3. PICK j \in 2..n : j = i + 1 /\ j - 1 = i
      BY <3>1
    <3>4. f[j] = f[i] \o s[j] /\ g[j] = g[i] \o s[j]
      BY <3>2, <3>3, Zenon
    <3>5. QED
      BY <3>1, <3>3, <3>4, Zenon
  <2>3. QED
    BY <2>1, <2>2
<1> HIDE DEF S
<1>3. \A i \in Nat : i \in S
  BY <1>1, <1>2, SetInduction
<1>4. QED
  BY <1>3 DEF S

\* ... which is what FlattenSeq returns.
LEMMA FlattenSeqIs ==
  ASSUME NEW C, NEW s \in Seq(Seq(C)), s # <<>>
  PROVE  /\ FlattenSeq(s) \in Seq(C)
         /\ \A f : Flattens(f, s, Len(s)) => FlattenSeq(s) = f[Len(s)]
<1> DEFINE n == Len(s)
           flatten == CHOOSE f : f = [i \in 1..n |-> IF i = 1 THEN s[i] ELSE f[i-1] \o s[i]]
<1>1. n \in Nat /\ n # 0
  OBVIOUS
<1>2. FlattenSeq(s) = flatten[n]
  BY <1>1 DEF FlattenSeq
<1>3. PICK f \in [1..n -> Seq(C)] : Flattens(f, s, n)
  <2>1. \A k \in Nat : k <= Len(s) => \E g \in [1..k -> Seq(C)] : Flattens(g, s, k)
    BY FlattenExists, Zenon
  <2>2. n <= Len(s)
    BY <1>1
  <2>3. QED
    BY <1>1, <2>1, <2>2, Zenon
<1>4. f = [i \in 1..n |-> IF i = 1 THEN s[i] ELSE f[i-1] \o s[i]]
  <2>1. ASSUME NEW i \in 1..n PROVE f[i] = IF i = 1 THEN s[i] ELSE f[i-1] \o s[i]
    <3>1. CASE i = 1
      BY <1>1, <1>3, <3>1 DEF Flattens
    <3>2. CASE i # 1
      <4>1. i \in 2..n
        BY <3>2
      <4>2. f[i] = f[i - 1] \o s[i]
        BY <1>3, <4>1, Zenon DEF Flattens
      <4>3. QED
        BY <3>2, <4>2, Zenon
    <3>3. QED
      BY <3>1, <3>2
  <2>2. QED
    BY <1>3, <2>1
<1>5. flatten = [i \in 1..n |-> IF i = 1 THEN s[i] ELSE flatten[i-1] \o s[i]]
  BY <1>4
<1> HIDE DEF flatten
<1>6. Flattens(flatten, s, n)
  <2> DEFINE e == [i \in 1..n |-> IF i = 1 THEN s[i] ELSE flatten[i-1] \o s[i]]
  <2>1. DOMAIN e = 1..n /\ \A i \in 1..n : e[i] = IF i = 1 THEN s[i] ELSE flatten[i-1] \o s[i]
    OBVIOUS
  <2>2. DOMAIN flatten = 1..n /\ flatten[1] = s[1]
    <3>1. 1 \in 1..n
      BY <1>1
    <3> HIDE DEF e
    <3>2. DOMAIN flatten = 1..n /\ flatten[1] = e[1]
      BY <1>5, <2>1 DEF e
    <3>3. QED
      BY <2>1, <3>1, <3>2
  <2>3. ASSUME NEW i \in 2..n PROVE flatten[i] = flatten[i - 1] \o s[i]
    <3>1. i \in 1..n /\ i # 1
      OBVIOUS
    <3>2. e[i] = flatten[i - 1] \o s[i]
      BY <2>1, <3>1, Zenon
    <3>3. flatten = e
      BY <1>5
    <3>4. QED
      BY <3>2, <3>3, Zenon
  <2>4. QED
    BY <2>2, <2>3, Zenon DEF Flattens
<1>7. ASSUME NEW g, Flattens(g, s, n) PROVE FlattenSeq(s) = g[n]
  BY <1>1, <1>2, <1>6, <1>7, FlattenUnique
<1>8. FlattenSeq(s) = f[n] /\ f[n] \in Seq(C)
  <2>1. FlattenSeq(s) = f[n]
    BY <1>3, <1>7, Zenon
  <2>2. n \in 1..n
    BY <1>1
  <2> HIDE DEF n
  <2>3. f[n] \in Seq(C)
    BY <1>3, <2>2, Zenon
  <2>4. QED
    BY <2>1, <2>3
<1>9. QED
  BY <1>7, <1>8

\* A sequence with one more element.
LEMMA AppendIs ==
  ASSUME NEW V, NEW s \in Seq(V), NEW x \in V
  PROVE  /\ Append(s, x) \in Seq(V) /\ Append(s, x) # <<>>
         /\ Len(s) \in Nat /\ Len(Append(s, x)) = Len(s) + 1
         /\ Append(s, x)[Len(s) + 1] = x
         /\ \A i \in 1..Len(s) : Append(s, x)[i] = s[i]
OBVIOUS

\* FlattenSeq adds the last sequence at the end.
LEMMA FlattenAppend ==
  ASSUME NEW C, NEW s \in Seq(Seq(C)), NEW x \in Seq(C)
  PROVE  FlattenSeq(Append(s, x)) = FlattenSeq(s) \o x
<1> DEFINE n == Len(s)
           t == Append(s, x)
<1>1. /\ n \in Nat /\ t \in Seq(Seq(C)) /\ t # <<>> /\ Len(t) = n + 1 /\ t[n + 1] = x
      /\ \A i \in 1..n : t[i] = s[i]
  <2> DEFINE V == Seq(C)
  <2>1. s \in Seq(V) /\ x \in V
    OBVIOUS
  <2> HIDE DEF V
  <2>2. /\ t \in Seq(V) /\ t # <<>> /\ n \in Nat /\ Len(t) = n + 1 /\ t[n + 1] = x
        /\ \A i \in 1..n : t[i] = s[i]
    BY <2>1, AppendIs
  <2>3. QED
    BY <2>2 DEF V
<1>2. PICK f \in [1..n + 1 -> Seq(C)] : Flattens(f, t, n + 1)
  <2> HIDE DEF t
  <2>1. QED
    <3>1. n + 1 \in Nat /\ n + 1 <= Len(t)
      BY <1>1
    <3>2. QED
      BY <1>1, <3>1, FlattenExists, Zenon
<1>3. FlattenSeq(t) = f[n + 1]
  <2> HIDE DEF t
  <2>1. QED
    BY <1>1, <1>2, FlattenSeqIs
<1>4. CASE n = 0
  <2>1. s = <<>> /\ FlattenSeq(s) = <<>>
    BY <1>4 DEF FlattenSeq
  <2>2. f[1] = t[1] /\ t[1] = x
    BY <1>1, <1>2, <1>4 DEF Flattens
  <2>3. <<>> \o x = x
    OBVIOUS
  <2>4. QED
    BY <1>3, <1>4, <2>1, <2>2, <2>3
<1>5. CASE n # 0
  <2> DEFINE g == [i \in 1..n |-> f[i]]
  <2>1. Flattens(g, s, n)
    <3>1. DOMAIN g = 1..n
      OBVIOUS
    <3>2. g[1] = s[1]
      BY <1>1, <1>2, <1>5 DEF Flattens
    <3>3. ASSUME NEW i \in 2..n PROVE g[i] = g[i - 1] \o s[i]
      <4>1. i \in 2..n + 1 /\ g[i] = f[i] /\ g[i - 1] = f[i - 1] /\ t[i] = s[i]
        BY <1>1
      <4>2. f[i] = f[i - 1] \o t[i]
        BY <1>2, <4>1, Zenon DEF Flattens
      <4>3. QED
        BY <4>1, <4>2, Zenon
    <3> HIDE DEF g
    <3>4. QED
      BY <3>1, <3>2, <3>3, Zenon DEF Flattens
  <2>2. s # <<>>
    BY <1>5
  <2>3. FlattenSeq(s) = g[n]
    <3> HIDE DEF g
    <3>1. QED
      BY <2>1, <2>2, FlattenSeqIs
  <2>4. PICK j \in 2..n + 1 : j = n + 1 /\ j - 1 = n
    BY <1>1, <1>5
  <2>5. f[j] = f[n] \o t[j]
    BY <1>2, <2>4, Zenon DEF Flattens
  <2>6. f[n + 1] = f[n] \o x
    BY <1>1, <2>4, <2>5, Zenon
  <2>7. g[n] = f[n]
    BY <1>1, <1>5
  <2> HIDE DEF g, t
  <2>8. FlattenSeq(t) = FlattenSeq(s) \o x
    BY <1>3, <2>3, <2>6, <2>7, Zenon
  <2>9. QED
    BY <2>8 DEF t
<1>6. QED
  BY <1>4, <1>5

\* Characters of a text, and of a name without "%".
TextChars == {"%", "0", "f"}
Clean == {"0", "nul", "xff"}

\* The escape of a character.
LEMMA EscapeCases ==
  /\ Escaped("0") = <<"0">>
  /\ Escaped("nul") = <<"%", "0", "0">>
  /\ Escaped("xff") = <<"%", "f", "f">>
  /\ \A c \in Clean : Escaped(c) \in Seq(TextChars)
<1>1. /\ Escaped("0") = <<"0">>
      /\ Escaped("nul") = <<"%", "0", "0">>
      /\ Escaped("xff") = <<"%", "f", "f">>
  BY DEF Escaped, Graphic
<1>2. /\ <<"0">> \in Seq(TextChars)
      /\ <<"%", "0", "0">> \in Seq(TextChars)
      /\ <<"%", "f", "f">> \in Seq(TextChars)
  BY DEF TextChars
<1>3. QED
  BY <1>1, <1>2 DEF Clean

\* Escaping a name character by character.
LEMMA EscapedNameStep ==
  /\ \A a \in [1..0 -> Clean] : EscapedName(a) = <<>>
  /\ \A n \in Nat : \A a \in [1..n + 1 -> Clean] :
       /\ [i \in 1..n |-> a[i]] \in [1..n -> Clean]
       /\ EscapedName(a) = EscapedName([i \in 1..n |-> a[i]]) \o Escaped(a[n + 1])
<1>1. ASSUME NEW a \in [1..0 -> Clean] PROVE EscapedName(a) = <<>>
  <2>1. [i \in DOMAIN a |-> Escaped(a[i])] = <<>>
    OBVIOUS
  <2>2. QED
    BY <2>1 DEF EscapedName, FlattenSeq
<1>2. ASSUME NEW n \in Nat, NEW a \in [1..n + 1 -> Clean]
      PROVE  EscapedName(a) = EscapedName([i \in 1..n |-> a[i]]) \o Escaped(a[n + 1])
  <2> DEFINE b == [i \in 1..n |-> a[i]]
             s == [i \in 1..n |-> Escaped(b[i])]
  <2>1. s \in Seq(Seq(TextChars)) /\ Len(s) = n
    BY EscapeCases
  <2>2. Escaped(a[n + 1]) \in Seq(TextChars)
    BY EscapeCases
  <2>3. [i \in DOMAIN a |-> Escaped(a[i])] = Append(s, Escaped(a[n + 1]))
    BY <2>1, <2>2
  <2>4. EscapedName(b) = FlattenSeq(s)
    BY DEF EscapedName
  <2> HIDE DEF s, b
  <2>5. FlattenSeq(Append(s, Escaped(a[n + 1]))) = FlattenSeq(s) \o Escaped(a[n + 1])
    BY <2>1, <2>2, FlattenAppend
  <2>6. QED
    BY <2>3, <2>4, <2>5 DEF EscapedName, b
<1>3. QED
  BY <1>1, <1>2

\* An escaped name is a text.
LEMMA EscapedNameText ==
  \A n \in Nat : \A a \in [1..n -> Clean] : EscapedName(a) \in Seq(TextChars)
<1> DEFINE S == {n \in Nat : \A a \in [1..n -> Clean] : EscapedName(a) \in Seq(TextChars)}
<1>1. 0 \in S
  BY EscapedNameStep
<1>2. ASSUME NEW n \in Nat, n \in S PROVE n + 1 \in S
  <2> SUFFICES ASSUME NEW a \in [1..n + 1 -> Clean] PROVE EscapedName(a) \in Seq(TextChars)
    OBVIOUS
  <2> DEFINE b == [i \in 1..n |-> a[i]]
  <2>1. b \in [1..n -> Clean] /\ EscapedName(a) = EscapedName(b) \o Escaped(a[n + 1])
    BY EscapedNameStep
  <2>2. EscapedName(b) \in Seq(TextChars)
    BY <1>2, <2>1
  <2>3. Escaped(a[n + 1]) \in Seq(TextChars)
    BY EscapeCases
  <2> HIDE DEF b
  <2>4. QED
    BY <2>1, <2>2, <2>3
<1> HIDE DEF S
<1>3. \A n \in Nat : n \in S
  BY <1>1, <1>2, SetInduction
<1>4. QED
  BY <1>3 DEF S

\* The ends of a text with the escape of a character.
LEMMA EscapeEnds ==
  ASSUME NEW u \in Seq(TextChars), NEW c \in Clean
  PROVE  LET w == u \o Escaped(c)
         IN  /\ Len(w) = IF c = "0" THEN Len(u) + 1 ELSE Len(u) + 3
             /\ w[Len(w)] = IF c = "xff" THEN "f" ELSE "0"
             /\ c # "0" => w[Len(w) - 1] # "%"
             /\ c = "0" /\ Len(u) >= 1 => w[Len(u)] = u[Len(u)]
<1>1. CASE c = "0"
  <2>1. Escaped(c) = <<"0">>
    BY <1>1, EscapeCases
  <2>2. Len(u \o <<"0">>) = Len(u) + 1 /\ (u \o <<"0">>)[Len(u) + 1] = "0"
    OBVIOUS
  <2>3. Len(u) >= 1 => (u \o <<"0">>)[Len(u)] = u[Len(u)]
    OBVIOUS
  <2>4. QED
    BY <1>1, <2>1, <2>2, <2>3
<1>2. ASSUME NEW e \in {"0", "f"}, Escaped(c) = <<"%", e, e>>, c # "0",
             e = IF c = "xff" THEN "f" ELSE "0"
      PROVE  LET w == u \o Escaped(c)
             IN  Len(w) = Len(u) + 3 /\ w[Len(w)] = e /\ w[Len(w) - 1] = e
  <2> DEFINE w == u \o <<"%", e, e>>
  <2>1. Len(w) = Len(u) + 3
    OBVIOUS
  <2>2. w[Len(u) + 3] = e /\ w[Len(u) + 2] = e
    OBVIOUS
  <2>3. Len(u) + 3 - 1 = Len(u) + 2
    OBVIOUS
  <2> HIDE DEF w
  <2>4. Len(w) = Len(u) + 3 /\ w[Len(w)] = e /\ w[Len(w) - 1] = e
    BY <2>1, <2>2, <2>3
  <2>5. QED
    BY <1>2, <2>4 DEF w
<1>3. CASE c = "nul"
  BY <1>2, <1>3, EscapeCases
<1>4. CASE c = "xff"
  BY <1>2, <1>4, EscapeCases
<1>5. QED
  BY <1>1, <1>3, <1>4 DEF Clean

\* The last two characters of an escaped name are no "%".
LEMMA EscapedNameEnd ==
  ASSUME NEW n \in Nat, NEW a \in [1..n -> Clean]
  PROVE  LET t == EscapedName(a)
         IN  /\ Len(t) >= 1 => t[Len(t)] # "%"
             /\ Len(t) >= 2 => t[Len(t) - 1] # "%"
<1>1. ASSUME NEW m \in Nat, NEW b \in [1..m -> Clean], Len(EscapedName(b)) >= 1
      PROVE  EscapedName(b)[Len(EscapedName(b))] # "%"
  <2>1. CASE m = 0
    <3>1. EscapedName(b) = <<>> /\ Len(<<>>) = 0
      BY <2>1, EscapedNameStep
    <3>2. QED
      BY <1>1, <3>1
  <2>2. CASE m # 0
    <3>1. PICK k \in Nat : m = k + 1
      BY <2>2
    <3> DEFINE u == EscapedName([i \in 1..k |-> b[i]])
    <3>2. /\ [i \in 1..k |-> b[i]] \in [1..k -> Clean]
          /\ EscapedName(b) = u \o Escaped(b[m])
      BY <3>1, EscapedNameStep
    <3>3. u \in Seq(TextChars)
      BY <3>2, EscapedNameText
    <3>4. b[m] \in Clean
      BY <3>1
    <3> HIDE DEF u
    <3>5. QED
      BY <3>2, <3>3, <3>4, EscapeEnds
  <2>3. QED
    BY <2>1, <2>2
<1>2. ASSUME Len(EscapedName(a)) >= 2
      PROVE  EscapedName(a)[Len(EscapedName(a)) - 1] # "%"
  <2>1. CASE n = 0
    <3>1. EscapedName(a) = <<>> /\ Len(<<>>) = 0
      BY <2>1, EscapedNameStep
    <3>2. QED
      BY <1>2, <3>1
  <2>2. CASE n # 0
    <3>1. PICK k \in Nat : n = k + 1
      BY <2>2
    <3> DEFINE c == [i \in 1..k |-> a[i]]
               u == EscapedName(c)
    <3>2. c \in [1..k -> Clean] /\ EscapedName(a) = u \o Escaped(a[n])
      BY <3>1, EscapedNameStep
    <3>3. u \in Seq(TextChars)
      BY <3>2, EscapedNameText
    <3>4. a[n] \in Clean
      BY <3>1
    <3>5. Len(u) >= 1 => u[Len(u)] # "%"
      BY <1>1, <3>2
    <3> HIDE DEF u
    <3>6. CASE a[n] = "0"
      <4>1. /\ Len(EscapedName(a)) = Len(u) + 1
            /\ Len(u) >= 1 => EscapedName(a)[Len(u)] = u[Len(u)]
        BY <3>2, <3>3, <3>4, <3>6, EscapeEnds
      <4>2. Len(u) >= 1 /\ Len(u) \in Nat
        BY <1>2, <3>3, <4>1
      <4>3. QED
        BY <3>3, <3>5, <4>1, <4>2
    <3>7. CASE a[n] # "0"
      BY <3>2, <3>3, <3>4, <3>7, EscapeEnds
    <3>8. QED
      BY <3>6, <3>7
  <2>3. QED
    BY <2>1, <2>2
<1>3. QED
  BY <1>1, <1>2

\* Concatenations with ends of the same length.
LEMMA ConcatCancel ==
  ASSUME NEW V, NEW s \in Seq(V), NEW t \in Seq(V), NEW e \in Seq(V), s \o e = t \o e
  PROVE  s = t
<1>1. Len(s) = Len(t)
  <2>1. Len(s \o e) = Len(s) + Len(e) /\ Len(t \o e) = Len(t) + Len(e)
    OBVIOUS
  <2>2. Len(s) \in Nat /\ Len(t) \in Nat /\ Len(e) \in Nat
    OBVIOUS
  <2>3. QED
    BY <2>1, <2>2
<1>2. ASSUME NEW i \in 1..Len(s) PROVE s[i] = t[i]
  <2>1. (s \o e)[i] = s[i] /\ (t \o e)[i] = t[i]
    BY <1>1
  <2>2. QED
    BY <2>1
<1>3. QED
  BY <1>1, <1>2

\* A "0" after an escaped name is not the end of the escape of a nul.
LEMMA NoStrayZero ==
  ASSUME NEW n \in Nat, NEW a \in [1..n -> Clean], NEW u \in Seq(TextChars)
  PROVE  EscapedName(a) \o <<"0">> # u \o <<"%", "0", "0">>
<1> DEFINE t == EscapedName(a)
<1>1. t \in Seq(TextChars)
  BY EscapedNameText
<1>2. Len(t) >= 2 => t[Len(t) - 1] # "%"
  BY EscapedNameEnd
<1> HIDE DEF t
<1> SUFFICES ASSUME t \o <<"0">> = u \o <<"%", "0", "0">> PROVE FALSE
  BY DEF t
<1>3. Len(t) = Len(u) + 2
  <2>1. Len(t \o <<"0">>) = Len(t) + 1 /\ Len(u \o <<"%", "0", "0">>) = Len(u) + 3
    BY <1>1
  <2>2. QED
    BY <1>1, <2>1
<1>4. (t \o <<"0">>)[Len(t) - 1] = t[Len(t) - 1]
  BY <1>1, <1>3
<1>5. (u \o <<"%", "0", "0">>)[Len(u) + 1] = "%"
  BY <1>1
<1>6. Len(t) - 1 = Len(u) + 1 /\ Len(t) >= 2
  BY <1>1, <1>3
<1>7. QED
  BY <1>2, <1>4, <1>5, <1>6

(***************************************************************************)
(* Abstract names without "%" that are escaped alike are alike.            *)
(***************************************************************************)
LEMMA EscapedNameInjective ==
  \A n \in Nat : \A a \in [1..n -> Clean] : \A m \in Nat : \A b \in [1..m -> Clean] :
    EscapedName(a) = EscapedName(b) => n = m /\ a = b
<1> DEFINE S == {n \in Nat : \A a \in [1..n -> Clean] : \A m \in Nat :
                   \A b \in [1..m -> Clean] :
                     EscapedName(a) = EscapedName(b) => n = m /\ a = b}
<1>0. ASSUME NEW k \in Nat, NEW b \in [1..k + 1 -> Clean] PROVE EscapedName(b) # <<>>
  <2> DEFINE u == EscapedName([i \in 1..k |-> b[i]])
  <2>1. /\ [i \in 1..k |-> b[i]] \in [1..k -> Clean]
        /\ EscapedName(b) = u \o Escaped(b[k + 1])
    BY EscapedNameStep
  <2>2. u \in Seq(TextChars)
    BY <2>1, EscapedNameText
  <2>3. b[k + 1] \in Clean
    OBVIOUS
  <2> HIDE DEF u
  <2>4. Len(u \o Escaped(b[k + 1])) >= 1
    BY <2>2, <2>3, EscapeEnds
  <2>5. QED
    BY <2>1, <2>4
<1>1. 0 \in S
  <2> SUFFICES ASSUME NEW a \in [1..0 -> Clean], NEW m \in Nat, NEW b \in [1..m -> Clean],
                      EscapedName(a) = EscapedName(b)
               PROVE  0 = m /\ a = b
    OBVIOUS
  <2>1. EscapedName(b) = <<>>
    BY EscapedNameStep
  <2>2. m = 0
    <3> SUFFICES ASSUME m # 0 PROVE FALSE
      OBVIOUS
    <3>1. PICK k \in Nat : m = k + 1
      OBVIOUS
    <3>2. QED
      BY <1>0, <2>1, <3>1
  <2>3. QED
    BY <2>2
<1>2. ASSUME NEW n \in Nat, n \in S PROVE n + 1 \in S
  <2> SUFFICES ASSUME NEW a \in [1..n + 1 -> Clean], NEW m \in Nat,
                      NEW b \in [1..m -> Clean], EscapedName(a) = EscapedName(b)
               PROVE  n + 1 = m /\ a = b
    OBVIOUS
  <2>1. m # 0
    <3> SUFFICES ASSUME m = 0 PROVE FALSE
      OBVIOUS
    <3>1. EscapedName(b) = <<>>
      BY EscapedNameStep
    <3>2. QED
      BY <1>0, <3>1
  <2>2. PICK k \in Nat : m = k + 1
    BY <2>1
  <2> DEFINE c == [i \in 1..n |-> a[i]]
             d == [i \in 1..k |-> b[i]]
             x == a[n + 1]
             y == b[k + 1]
             s == EscapedName(c)
             t == EscapedName(d)
  <2>3. /\ c \in [1..n -> Clean] /\ EscapedName(a) = s \o Escaped(x)
        /\ d \in [1..k -> Clean] /\ EscapedName(b) = t \o Escaped(y)
    BY <2>2, EscapedNameStep
  <2>4. s \in Seq(TextChars) /\ t \in Seq(TextChars)
    BY <2>3, EscapedNameText
  <2>5. x \in Clean /\ y \in Clean
    BY <2>2
  <2>6. ~(x = "0" /\ y = "nul") /\ ~(x = "nul" /\ y = "0")
    <3> HIDE DEF c, d, x, y
    <3>1. QED
      BY <2>3, <2>4, NoStrayZero, EscapeCases
  <2>7. x = y
    <3> HIDE DEF s, t, x, y
    <3>1. s \o Escaped(x) = t \o Escaped(y)
      BY <2>3
    <3>2. x = "xff" <=> y = "xff"
      BY <2>4, <2>5, <3>1, EscapeEnds
    <3>3. QED
      BY <2>5, <2>6, <3>2 DEF Clean
  <2>8. s = t
    <3> HIDE DEF s, t, x, y
    <3>1. s \o Escaped(x) = t \o Escaped(x) /\ Escaped(x) \in Seq(TextChars)
      BY <2>3, <2>5, <2>7, EscapeCases
    <3>2. QED
      BY <2>4, <3>1, ConcatCancel
  <2>9. n = k /\ c = d
    <3> HIDE DEF c, d
    <3>1. QED
      BY <1>2, <2>3, <2>8
  <2>10. a = b
    <3>1. ASSUME NEW i \in 1..n + 1 PROVE a[i] = b[i]
      <4>1. CASE i \in 1..n
        <5>1. a[i] = c[i] /\ b[i] = d[i]
          BY <2>9, <4>1
        <5>2. QED
          BY <2>9, <5>1
      <4>2. CASE i = n + 1
        BY <2>7, <2>9, <4>2
      <4>3. QED
        BY <4>1, <4>2
    <3>2. b \in [1..n + 1 -> Clean]
      BY <2>2, <2>9
    <3>3. QED
      BY <3>1, <3>2
  <2>11. QED
    BY <2>2, <2>9, <2>10
<1> HIDE DEF S
<1>3. \A n \in Nat : n \in S
  BY <1>1, <1>2, SetInduction
<1>4. QED
  BY <1>3 DEF S

\* The text a URL has for an address that is not unspecified.
Text(p) ==
  CASE p.family = "INET"     -> Inet(p.host, p.port)
    [] p.family = "INET6"    -> Inet6(p.host, p.port, p.scope)
    [] p.family = "ABSTRACT" -> EscapedName(p.name)
    [] OTHER                 -> Lossy(p.name)

Inets == {"INET", "INET6"}

\* What the address of a peer consists of, family by family.
LEMMA PeerCases ==
  ASSUME NEW p \in Peers
  PROVE  /\ p.family \in {"INET", "INET6", "IPC", "INPROC", "ABSTRACT", "UNSPEC"}
         /\ p.family = "INET" =>
              p \in [family : {"INET"}, host : Octets, port : Octets \X Octets]
         /\ p.family = "INET6" =>
              p \in [family : {"INET6"}, host : Octets, port : Octets \X Octets,
                     scope : {0, 1}]
         /\ p.family \in {"IPC", "INPROC"} =>
              p \in [family : {"IPC", "INPROC"}, name : NamesOver(Characters \ {"nul"})]
         /\ p.family = "ABSTRACT" =>
              p \in [family : {"ABSTRACT"}, name : NamesOver(Characters)]
BY DEF Peers

\* The octets of a port are swapped twice, or not at all.
LEMMA PortKept ==
  ASSUME NEW port \in Octets \X Octets
  PROVE  FromBe(Native(port)) = port
<1>1. PICK a \in Octets, b \in Octets : port = <<a, b>>
  OBVIOUS
<1>2. \A x, y : Reverse(<<x, y>>) = <<y, x>>
  BY DEF Reverse
<1>3. QED
  BY <1>1, <1>2 DEF FromBe, Native

\* From NNG's sockaddr to a URL: octets and names come out as they are in the peer.
LEMMA UrlOfPeer ==
  ASSUME NEW p \in Peers, p.family # "UNSPEC", NEW scheme
  PROVE  FromNng(Sockaddr(p), scheme) = [scheme |-> scheme, text |-> Text(p)]
<1>1. CASE p.family = "INET"
  <2>1. p \in [family : {"INET"}, host : Octets, port : Octets \X Octets]
    BY <1>1, PeerCases
  <2>2. /\ Sockaddr(p).family = "INET" /\ Sockaddr(p).host = p.host
        /\ Sockaddr(p).port = Native(p.port)
    BY <1>1, <2>1 DEF Sockaddr
  <2>3. FromBe(Sockaddr(p).port) = p.port
    BY <2>1, <2>2, PortKept
  <2>4. QED
    BY <1>1, <2>2, <2>3 DEF FromNng, Text
<1>2. CASE p.family = "INET6"
  <2>1. p \in [family : {"INET6"}, host : Octets, port : Octets \X Octets,
               scope : {0, 1}]
    BY <1>2, PeerCases
  <2>2. /\ Sockaddr(p).family = "INET6" /\ Sockaddr(p).host = p.host
        /\ Sockaddr(p).port = Native(p.port) /\ Sockaddr(p).scope = p.scope
    BY <1>2, <2>1 DEF Sockaddr
  <2>3. FromBe(Sockaddr(p).port) = p.port
    BY <2>1, <2>2, PortKept
  <2>4. QED
    BY <1>2, <2>2, <2>3 DEF FromNng, Text
<1>3. CASE p.family \in {"IPC", "INPROC", "ABSTRACT"}
  <2>1. Sockaddr(p) = p
    BY <1>3 DEF Sockaddr
  <2>2. QED
    BY <1>3, <2>1 DEF FromNng, Text
<1>4. QED
  BY <1>1, <1>2, <1>3, PeerCases

\* to_string_lossy keeps what is UTF-8.
LEMMA LossyKeeps ==
  ASSUME NEW p \in Peers, p.family \in {"IPC", "INPROC"}, ~NotUtf8(p)
  PROVE  Lossy(p.name) = p.name
<1>1. PICK n \in 0..MaxName : p.name \in [1..n -> Characters \ {"nul"}]
  BY PeerCases DEF NamesOver
<1>2. \A i \in DOMAIN p.name : p.name[i] # "xff"
  BY DEF NotUtf8, Range
<1>3. p.name = [i \in DOMAIN p.name |-> p.name[i]]
  BY <1>1
<1>4. QED
  BY <1>2, <1>3 DEF Lossy

\* The names the encoding keeps apart.
LEMMA CleanName ==
  ASSUME NEW name \in NamesOver(Characters), "%" \notin Range(name)
  PROVE  \E n \in Nat : name \in [1..n -> Clean]
<1>1. PICK n \in 0..MaxName : name \in [1..n -> Characters]
  BY DEF NamesOver
<1>2. ASSUME NEW i \in 1..n PROVE name[i] \in Clean
  BY <1>1 DEF Range, Characters, Graphic, Clean
<1>3. n \in Nat /\ name \in [1..n -> Clean]
  BY <1>1, <1>2, AddressesAssumption
<1>4. QED
  BY <1>3

\* Two addresses of a family have the same text only if they are the same.
LEMMA TextTellsApart ==
  ASSUME NEW p \in Peers, NEW q \in Peers, p.family = q.family,
         p.family # "UNSPEC", ~Ambiguous(p), ~Ambiguous(q), Text(p) = Text(q)
  PROVE  p = q
<1>1. CASE p.family = "INET"
  <2>1. /\ p \in [family : {"INET"}, host : Octets, port : Octets \X Octets]
        /\ q \in [family : {"INET"}, host : Octets, port : Octets \X Octets]
    BY <1>1, PeerCases
  <2>2. <<p.host, p.port>> = <<q.host, q.port>>
    BY <1>1 DEF Text, Inet
  <2>3. p.host = q.host /\ p.port = q.port
    BY <2>2
  <2>4. QED
    BY <1>1, <2>1, <2>3
<1>2. CASE p.family = "INET6"
  <2>1. /\ p \in [family : {"INET6"}, host : Octets, port : Octets \X Octets,
                  scope : {0, 1}]
        /\ q \in [family : {"INET6"}, host : Octets, port : Octets \X Octets,
                  scope : {0, 1}]
    BY <1>2, PeerCases
  <2>2. Inet6(p.host, p.port, p.scope) = Inet6(q.host, q.port, q.scope)
    BY <1>2 DEF Text
  <2>3. p.host = q.host /\ p.port = q.port /\ p.scope = q.scope
    <3>1. CASE p.scope = 0 /\ q.scope = 0
      BY <2>2, <3>1 DEF Inet6
    <3>2. CASE p.scope # 0 /\ q.scope # 0
      BY <2>1, <2>2, <3>2 DEF Inet6
    <3>3. CASE p.scope = 0 /\ q.scope # 0
      <4>1. Len(<<p.host, p.port>>) = Len(<<q.host, q.scope, q.port>>)
        BY <2>2, <3>3 DEF Inet6
      <4>2. QED
        BY <4>1
    <3>4. CASE p.scope # 0 /\ q.scope = 0
      <4>1. Len(<<p.host, p.scope, p.port>>) = Len(<<q.host, q.port>>)
        BY <2>2, <3>4 DEF Inet6
      <4>2. QED
        BY <4>1
    <3>5. QED
      BY <3>1, <3>2, <3>3, <3>4
  <2>4. QED
    BY <1>2, <2>1, <2>3
<1>3. CASE p.family \in {"IPC", "INPROC"}
  <2>1. /\ p \in [family : {"IPC", "INPROC"}, name : NamesOver(Characters \ {"nul"})]
        /\ q \in [family : {"IPC", "INPROC"}, name : NamesOver(Characters \ {"nul"})]
    BY <1>3, PeerCases
  <2>2. p.name = q.name
    BY <1>3, LossyKeeps DEF Text, Ambiguous
  <2>3. QED
    BY <2>1, <2>2
<1>4. CASE p.family = "ABSTRACT"
  <2>1. /\ p \in [family : {"ABSTRACT"}, name : NamesOver(Characters)]
        /\ q \in [family : {"ABSTRACT"}, name : NamesOver(Characters)]
    BY <1>4, PeerCases
  <2>2. /\ p.name \in NamesOver(Characters) /\ "%" \notin Range(p.name)
        /\ q.name \in NamesOver(Characters) /\ "%" \notin Range(q.name)
    <3>1. p.name \in NamesOver(Characters) /\ q.name \in NamesOver(Characters)
      BY <2>1
    <3>2. QED
      BY <1>4, <3>1 DEF Ambiguous
  <2>3. PICK n \in Nat, m \in Nat : p.name \in [1..n -> Clean] /\ q.name \in [1..m -> Clean]
    BY <2>2, CleanName
  <2>4. EscapedName(p.name) = EscapedName(q.name)
    BY <1>4 DEF Text
  <2>5. p.name = q.name
    BY <2>3, <2>4, EscapedNameInjective
  <2>6. QED
    BY <2>1, <2>5
<1>5. QED
  BY <1>1, <1>2, <1>3, <1>4, PeerCases

\* What a listener may be bound to: the port that was asked for, or any.
BoundPorts ==
  {bound \in Octets \X Octets :
     bound # <<0, 0>> /\ (peer.port # <<0, 0>> => bound = peer.port)}

BoundText(bound) ==
  IF peer.family = "INET" THEN Inet(peer.host, bound)
  ELSE Inet6(peer.host, bound, peer.scope)

(***************************************************************************)
(* What remote_addr has read is the address of the peer it writes a URL    *)
(* of, and what local_addr reads is the address that was bound.            *)
(***************************************************************************)
AddressInv ==
  /\ peer \in Peers
  /\ step = "has_addr" => sockaddr = Sockaddr(peer)
  /\ step = "done" =>
       url \in {NoUrl, FromNng(Sockaddr(peer), Schemes[peer.family])}
  /\ step = "listening" /\ peer.family \in Inets =>
       \E bound \in BoundPorts : sockaddr = [peer EXCEPT !.port = bound]
  /\ step = "local" /\ peer.family \in Inets /\ url # NoUrl =>
       \E bound \in BoundPorts : url.text = BoundText(bound)

\* The URL of a listener has the port it was bound to.
LEMMA SprintfBound ==
  ASSUME peer \in Peers, peer.family \in Inets, NEW bound \in BoundPorts,
         sockaddr = [peer EXCEPT !.port = bound]
  PROVE  Sprintf(sockaddr).text = BoundText(bound)
<1>1. CASE peer.family = "INET"
  <2>1. peer \in [family : {"INET"}, host : Octets, port : Octets \X Octets]
    BY <1>1, PeerCases
  <2>2. sockaddr.family = "INET" /\ sockaddr.host = peer.host /\ sockaddr.port = bound
    BY <1>1, <2>1
  <2>3. QED
    BY <1>1, <2>2 DEF Sprintf, BoundText
<1>2. CASE peer.family = "INET6"
  <2>1. peer \in [family : {"INET6"}, host : Octets, port : Octets \X Octets,
                  scope : {0, 1}]
    BY <1>2, PeerCases
  <2>2. /\ sockaddr.family = "INET6" /\ sockaddr.host = peer.host
        /\ sockaddr.port = bound /\ sockaddr.scope = peer.scope
    BY <1>2, <2>1
  <2>3. QED
    BY <1>2, <2>2 DEF Sprintf, BoundText
<1>3. QED
  BY <1>1, <1>2 DEF Inets

\* No step of remote_addr, local_addr or listen_tcp writes a wrong URL.
LEMMA AddressStep ==
  ASSUME AddressInv, [AddressesNext]_addressVars
  PROVE  AddressInv'
<1>1. CASE PipeCloses \/ UNCHANGED addressVars
  BY <1>1 DEF PipeCloses, addressVars, AddressInv, BoundPorts, BoundText
<1>2. ASSUME NEW a, PeerAddr(a)
      PROVE  AddressInv'
  BY <1>2 DEF PeerAddr, Return, AddressInv
<1>3. ASSUME NEW a, GetScheme(a)
      PROVE  AddressInv'
  BY <1>3 DEF GetScheme, Return, AddressInv
<1>4. ASSUME NEW bound \in Octets \X Octets, Listen(bound)
      PROVE  AddressInv'
  <2>1. step' = "listening" /\ peer' = peer
    BY <1>4 DEF Listen
  <2>2. ASSUME peer.family \in Inets
        PROVE  bound \in BoundPorts /\ sockaddr' = [peer EXCEPT !.port = bound]
    BY <1>4, <2>2 DEF Listen, BoundPorts, Inets
  <2>3. BoundPorts' = BoundPorts
    BY <2>1 DEF BoundPorts
  <2>4. QED
    BY <2>1, <2>2, <2>3 DEF AddressInv
<1>5. CASE LocalUrl \/ LocalTcp
  <2>1. /\ step = "listening" /\ step' \in {"local", "panic"} /\ peer' = peer
        /\ step' = "local" => url' \in {NoUrl, Sprintf(sockaddr)}
    BY <1>5 DEF LocalUrl, LocalTcp
  <2>2. ASSUME peer.family \in Inets, step' = "local", url' # NoUrl
        PROVE  \E bound \in BoundPorts : url'.text = BoundText(bound)
    BY <2>1, <2>2, SprintfBound DEF AddressInv
  <2>3. BoundPorts' = BoundPorts /\ \A bound : BoundText(bound)' = BoundText(bound)
    BY <2>1 DEF BoundPorts, BoundText
  <2>4. QED
    BY <2>1, <2>2, <2>3 DEF AddressInv
<1>6. CASE ShowAddr
  BY <1>6 DEF ShowAddr, AddressInv
<1>7. QED
  BY <1>1, <1>2, <1>3, <1>4, <1>5, <1>6 DEF AddressesNext

\* The ends of the text of a bound TCP address.
LEMMA BoundEnds ==
  ASSUME peer \in Peers, peer.family \in Inets, NEW bound
  PROVE  Head(BoundText(bound)) = peer.host /\ Last(BoundText(bound)) = bound
BY DEF BoundText, Inet, Inet6, Last

(***************************************************************************)
(* For any octets, any length of names and either byte order, a URL names  *)
(* the peer and no other, and local_addr the port that is bound.           *)
(***************************************************************************)
THEOREM PeerNamed == AddressesSpec => []UrlNamesPeer
<1>1. AddressesInit => AddressInv
  BY DEF AddressesInit, AddressInv
<1>2. AddressInv /\ [AddressesNext]_addressVars => AddressInv'
  BY AddressStep
<1>3. AddressInv => UrlNamesPeer
  <2> SUFFICES ASSUME AddressInv
               PROVE  UrlNamesPeer
    OBVIOUS
  <2> DEFINE scheme == Schemes[peer.family]
  <2>1. ASSUME step = "done", url # NoUrl
        PROVE  peer.family # "UNSPEC" /\ url = [scheme |-> scheme, text |-> Text(peer)]
    <3>1. url = FromNng(Sockaddr(peer), scheme)
      BY <2>1 DEF AddressInv
    <3>2. peer.family # "UNSPEC"
      BY <2>1, <3>1 DEF FromNng, Sockaddr
    <3>3. QED
      BY <3>1, <3>2, UrlOfPeer DEF AddressInv
  <2>2. ASSUME step = "done", url # NoUrl, ~Ambiguous(peer),
               NEW p \in Peers, p.family = peer.family, ~Ambiguous(p),
               FromNng(Sockaddr(p), url.scheme) = url
        PROVE  p = peer
    <3>1. FromNng(Sockaddr(p), url.scheme) = [scheme |-> url.scheme, text |-> Text(p)]
      BY <2>1, <2>2, UrlOfPeer
    <3>2. Text(p) = Text(peer)
      BY <2>1, <2>2, <3>1
    <3>3. QED
      BY <2>1, <2>2, <3>2, TextTellsApart DEF AddressInv
  <2>3. step = "done" /\ url # NoUrl => url.scheme = scheme
    BY <2>1
  <2>4. ASSUME step \in {"done", "local"}, url # NoUrl, peer.family \in Inets
        PROVE  /\ Head(url.text) = peer.host
               /\ peer.port # <<0, 0>> => Last(url.text) = peer.port
               /\ step = "local" => Last(url.text) # <<0, 0>>
    <3>1. CASE step = "done"
      <4>1. url.text = Text(peer)
        BY <2>1, <2>4, <3>1
      <4>2. Text(peer) = BoundText(peer.port)
        BY <2>4 DEF Text, BoundText, Inets
      <4>3. QED
        BY <2>4, <3>1, <4>1, <4>2, BoundEnds DEF AddressInv
    <3>2. CASE step = "local"
      <4>1. PICK bound \in BoundPorts : url.text = BoundText(bound)
        BY <2>4, <3>2 DEF AddressInv
      <4>2. QED
        BY <2>4, <4>1, BoundEnds DEF AddressInv, BoundPorts
    <3>3. QED
      BY <2>4, <3>1, <3>2
  <2>5. QED
    BY <2>2, <2>3, <2>4 DEF UrlNamesPeer, Inets
<1>4. QED
  BY <1>1, <1>2, <1>3, PTL DEF AddressesSpec

-----------------------------------------------------------------------------
(* Errors.                                                                 *)

\* The enum ErrorCode has the codes of NNG.
LEMMA CodeTable ==
  /\ DOMAIN NngErr = DOMAIN ErrorCode
  /\ \A c \in DOMAIN NngErr : ErrorCode[c] = NngErr[c] /\ NngErr[c] \in 1..1000
BY DEF NngErr, ErrorCode

\* No two errors of NNG share a code.
LEMMA CodesDiffer ==
  ASSUME NEW c \in DOMAIN NngErr, NEW d \in DOMAIN NngErr, NngErr[c] = NngErr[d]
  PROVE  c = d
BY DEF NngErr

\* The variants of nng::Error that stand for a code of the table.
LEMMA VariantTable ==
  /\ DOMAIN NngVariant \subseteq DOMAIN NngErr
  /\ \A c \in DOMAIN NngVariant : NngVariant[c] \notin
       {"Cancelled", "Operation", "SystemErr", "TransportErr", "Unknown", "none"}
BY DEF NngVariant, NngErr

\* No two codes share a variant.
LEMMA VariantsDiffer ==
  ASSUME NEW c \in DOMAIN NngVariant, NEW d \in DOMAIN NngVariant, NngVariant[c] = NngVariant[d]
  PROVE  c = d
BY DEF NngVariant

\* The four kinds of error, whatever the code.
LEMMA KindOfError ==
  ASSUME NEW err \in Codes \cup Unlisted
  PROVE  \/ \E c \in DOMAIN NngErr : NngErr[c] = err /\ FromNngErr(err) = Operation("NngError", c)
         \/ err \in Unlisted /\ FromNngErr(err) = Operation("Transport", err - ETRANERR)
         \/ /\ err \in Unlisted /\ HasFlag(err, ESYSERR)
            /\ FromNngErr(err) = Operation("System", OsKind(err - ESYSERR))
         \/ err \in Unlisted /\ FromNngErr(err) = Operation("Other", err)
<1>1. CASE \E c \in DOMAIN NngErr : NngErr[c] = err
  <2>1. FromNngErr(err) = Operation("NngError", CHOOSE c \in DOMAIN NngErr : NngErr[c] = err)
    BY <1>1, Zenon DEF FromNngErr
  <2>2. QED
    BY <1>1, <2>1
<1>2. CASE ~\E c \in DOMAIN NngErr : NngErr[c] = err
  <2>1. err \in Unlisted /\ err # 0
    BY <1>2, UnlistedAssumption DEF Codes
  <2>2. CASE HasFlag(err, ETRANERR)
    BY <1>2, <2>1, <2>2 DEF FromNngErr, WithoutFlag
  <2>3. CASE ~HasFlag(err, ETRANERR) /\ HasFlag(err, ESYSERR)
    BY <1>2, <2>1, <2>3 DEF FromNngErr, WithoutFlag
  <2>4. CASE ~HasFlag(err, ETRANERR) /\ ~HasFlag(err, ESYSERR)
    BY <1>2, <2>1, <2>4 DEF FromNngErr
  <2>5. QED
    BY <2>2, <2>3, <2>4
<1>3. QED
  BY <1>1, <1>2

\* A code outside the table is none of its codes.
LEMMA UnlistedApart ==
  ASSUME NEW err \in Unlisted
  PROVE  err \in Nat \ {0} /\ err \notin Codes
BY UnlistedAssumption DEF Codes

\* What an AioError::Operation says is the code it was made of.
LEMMA OperationKept ==
  ASSUME NEW err \in Codes \cup Unlisted
  PROVE  /\ FromNngErr(err) \notin Panics
         /\ err \in CodesOf(FromNngErr(err))
         /\ \A c, d \in CodesOf(FromNngErr(err)) \cap Codes : c = d
<1>1. ASSUME NEW c \in DOMAIN NngErr, NngErr[c] = err,
             FromNngErr(err) = Operation("NngError", c)
      PROVE  CodesOf(FromNngErr(err)) = {err}
  BY <1>1, CodeTable DEF CodesOf, CodesOfOperation, Operation
<1>2. ASSUME err \in Unlisted, FromNngErr(err) = Operation("Transport", err - ETRANERR)
      PROVE  CodesOf(FromNngErr(err)) = {err}
  <2>1. CodesOf(FromNngErr(err)) = {err - ETRANERR + ETRANERR}
    BY <1>2 DEF CodesOf, CodesOfOperation, Operation
  <2>2. QED
    BY <1>2, <2>1, UnlistedApart DEF ETRANERR
<1>3. ASSUME err \in Unlisted, HasFlag(err, ESYSERR),
             FromNngErr(err) = Operation("System", OsKind(err - ESYSERR))
      PROVE  err \in CodesOf(FromNngErr(err)) /\ CodesOf(FromNngErr(err)) \subseteq Unlisted
  BY <1>3 DEF CodesOf, CodesOfOperation, Operation
<1>4. ASSUME err \in Unlisted, FromNngErr(err) = Operation("Other", err)
      PROVE  CodesOf(FromNngErr(err)) = {err}
  BY <1>4 DEF CodesOf, CodesOfOperation, Operation
<1>5. FromNngErr(err) \notin Panics
  BY KindOfError DEF Operation, Panics, Unreachable, Oom
<1>6. QED
  BY <1>1, <1>2, <1>3, <1>4, <1>5, KindOfError, UnlistedApart

\* nng::Error: the variant of the code, or the code itself.
LEMMA NngErrorKept ==
  ASSUME NEW err \in Codes \cup Unlisted
  PROVE  /\ NngError(err) \notin Panics
         /\ err \in CodesOf(NngError(err))
         /\ \A c, d \in CodesOf(NngError(err)) \cap Codes : c = d
<1> DEFINE known == {c \in DOMAIN NngVariant : NngErr[c] = err}
<1>0. err \in Nat
  BY CodeTable, UnlistedApart DEF Codes
<1>1. CASE known # {}
  <2> DEFINE k == CHOOSE c \in known : TRUE
  <2>1. k \in known
    BY <1>1
  <2>2. NngError(err) = [error |-> NngVariant[k]]
    BY <1>1, Zenon DEF NngError
  <2> HIDE DEF k
  <2>3. CodesOf(NngError(err)) = {NngErr[c] : c \in {c \in DOMAIN NngVariant : NngVariant[c] = NngVariant[k]}}
    BY <2>1, <2>2, VariantTable DEF CodesOf
  <2>4. CodesOf(NngError(err)) = {err}
    BY <2>1, <2>3, VariantsDiffer
  <2>5. NngVariant[k] \notin {"unreachable", "oom"}
    BY <2>1 DEF NngVariant
  <2>6. QED
    BY <2>2, <2>4, <2>5 DEF Panics, Unreachable, Oom
<1>2. CASE known = {} /\ HasFlag(err, ESYSERR)
  <2>1. NngError(err) = [error |-> "SystemErr", code |-> err - ESYSERR]
    BY <1>2 DEF NngError, WithoutFlag
  <2>2. CodesOf(NngError(err)) = {err}
    BY <1>0, <2>1 DEF CodesOf, ESYSERR
  <2>3. QED
    BY <2>1, <2>2 DEF Panics, Unreachable, Oom
<1>3. CASE known = {} /\ ~HasFlag(err, ESYSERR) /\ HasFlag(err, ETRANERR)
  <2>1. NngError(err) = [error |-> "TransportErr", code |-> err - ETRANERR]
    BY <1>3 DEF NngError, WithoutFlag
  <2>2. CodesOf(NngError(err)) = {err}
    BY <1>0, <2>1 DEF CodesOf, ETRANERR
  <2>3. QED
    BY <2>1, <2>2 DEF Panics, Unreachable, Oom
<1>4. CASE known = {} /\ ~HasFlag(err, ESYSERR) /\ ~HasFlag(err, ETRANERR)
  <2>1. NngError(err) = [error |-> "Unknown", code |-> err]
    BY <1>4 DEF NngError
  <2>2. CodesOf(NngError(err)) = {err}
    BY <2>1 DEF CodesOf
  <2>3. QED
    BY <2>1, <2>2 DEF Panics, Unreachable, Oom
<1>5. QED
  BY <1>1, <1>2, <1>3, <1>4

\* The io::Error of an AioError::Operation.
LEMMA IoOfOperation ==
  ASSUME NEW err \in (Codes \cup Unlisted) \ {1, 5, 20}
  PROVE  /\ FromAioError(FromNngErr(err)) # "unreachable"
         /\ FromAioError(FromNngErr(err)) = "WouldBlock" => err \in {8, ESYSERR + 11}
         /\ FromAioError(FromNngErr(err)) = "TimedOut" => err = ESYSERR + 110
<1> DEFINE f == FromNngErr(err)
<1>1. ASSUME NEW c \in DOMAIN NngErr, NngErr[c] = err, f = Operation("NngError", c)
      PROVE  /\ FromAioError(f) \notin {"unreachable", "TimedOut"}
             /\ FromAioError(f) = "WouldBlock" => err = 8
  <2>1. c \notin {"ETIMEDOUT", "ECANCELED", "EINTR"}
    BY <1>1 DEF NngErr
  <2>2. FromAioError(f) = IF c \in DOMAIN IoKindOf THEN IoKindOf[c] ELSE "Other"
    BY <1>1, <2>1 DEF FromAioError, Operation, TimedOut, Cancelled
  <2>3. c \in DOMAIN IoKindOf =>
          /\ IoKindOf[c] \notin {"unreachable", "TimedOut"}
          /\ IoKindOf[c] = "WouldBlock" => c = "EAGAIN"
    BY DEF IoKindOf
  <2>4. c = "EAGAIN" => err = 8
    BY <1>1 DEF NngErr
  <2>5. QED
    BY <2>2, <2>3, <2>4
<1>2. ASSUME NEW v, f = Operation("Transport", v) \/ f = Operation("Other", v)
      PROVE  FromAioError(f) = "Other"
  BY <1>2 DEF FromAioError, Operation, TimedOut, Cancelled
<1>3. ASSUME err \in Unlisted, f = Operation("System", OsKind(err - ESYSERR))
      PROVE  /\ FromAioError(f) # "unreachable"
             /\ FromAioError(f) = "WouldBlock" => err = ESYSERR + 11
             /\ FromAioError(f) = "TimedOut" => err = ESYSERR + 110
  <2>1. FromAioError(f) = OsKind(err - ESYSERR)
    BY <1>3 DEF FromAioError, Operation, TimedOut, Cancelled
  <2>2. QED
    BY <1>3, <2>1, UnlistedApart DEF OsKind, ESYSERR
<1>4. QED
  BY <1>1, <1>2, <1>3, KindOfError

\* The io::Error of an Error of nng.
LEMMA IoOfNngError ==
  ASSUME NEW err \in Codes \cup Unlisted
  PROVE  /\ FromNngError(NngError(err)) # "unreachable"
         /\ FromNngError(NngError(err)) = "WouldBlock" => err \in {8, ESYSERR + 11}
         /\ FromNngError(NngError(err)) = "TimedOut" => err \in {5, ESYSERR + 110}
<1> DEFINE known == {c \in DOMAIN NngVariant : NngErr[c] = err}
<1>0. err \in Nat
  BY CodeTable, UnlistedApart DEF Codes
<1>1. CASE known # {}
  <2> DEFINE k == CHOOSE c \in known : TRUE
  <2>1. k \in known
    BY <1>1
  <2>2. NngError(err) = [error |-> NngVariant[k]]
    BY <1>1, Zenon DEF NngError
  <2> HIDE DEF k
  <2>3. /\ NngVariant[k] # "SystemErr"
        /\ NngVariant[k] = "TryAgain" => k = "EAGAIN"
        /\ NngVariant[k] = "TimedOut" => k = "ETIMEDOUT"
    BY <2>1 DEF NngVariant
  <2>4. FromNngError(NngError(err)) = IF NngVariant[k] \in DOMAIN NngIoKindOf
                                      THEN NngIoKindOf[NngVariant[k]] ELSE "Other"
    BY <2>2, <2>3 DEF FromNngError
  <2>5. \A v \in DOMAIN NngIoKindOf :
          /\ NngIoKindOf[v] # "unreachable"
          /\ NngIoKindOf[v] = "WouldBlock" => v = "TryAgain"
          /\ NngIoKindOf[v] = "TimedOut" => v = "TimedOut"
    BY DEF NngIoKindOf
  <2>6. (k = "EAGAIN" => err = 8) /\ (k = "ETIMEDOUT" => err = 5)
    BY <2>1 DEF NngErr
  <2>7. QED
    BY <2>3, <2>4, <2>5, <2>6
<1>2. CASE known = {} /\ HasFlag(err, ESYSERR)
  <2>1. NngError(err) = [error |-> "SystemErr", code |-> err - ESYSERR]
    BY <1>2 DEF NngError, WithoutFlag
  <2>2. FromNngError(NngError(err)) = OsKind(err - ESYSERR)
    BY <2>1 DEF FromNngError, NngIoKindOf
  <2>3. QED
    BY <1>0, <2>2 DEF OsKind, ESYSERR
<1>3. CASE known = {} /\ ~HasFlag(err, ESYSERR)
  <2>1. \/ NngError(err) = [error |-> "TransportErr", code |-> err - ETRANERR]
        \/ NngError(err) = [error |-> "Unknown", code |-> err]
    BY <1>3 DEF NngError, WithoutFlag
  <2>2. FromNngError(NngError(err)) = "Other"
    BY <2>1 DEF FromNngError, NngIoKindOf
  <2>3. QED
    BY <2>2
<1>4. QED
  BY <1>1, <1>2, <1>3

\* The calls of anng.
Sites == {"wait", "create", "listener_start", "dialer_start", "try_recv", "option"}

\* What the operations of anng hand out for a code.
Sorted(s, err, f) ==
  \/ f = Oom
  \/ f = Unreachable /\ err \notin Observed[s]
  \/ f = Cancelled /\ err = 20
  \/ f = TimedOut /\ err = 5
  \/ f = FromNngErr(err) /\ err \in (Codes \cup Unlisted) \ {1, 5, 20}
  \/ s = "dialer_start" /\ err = 8 /\ f = Operation("NngError", "EADDRINVAL")

(***************************************************************************)
(* The invariant: an error is what its call makes of the code, and an      *)
(* io::Error what the conversion makes of that error.                      *)
(***************************************************************************)
ErrorInv ==
  \/ site = "none" /\ failure = [error |-> "none"] /\ io = "none"
  \/ /\ site \in Sites /\ Sorted(site, raw, failure)
     /\ io # "none" => failure \notin Panics /\ io = FromAioError(failure)
  \/ /\ site = "nng" /\ raw \in Codes \cup Unlisted /\ failure = NngError(raw)
     /\ io # "none" => io = FromNngError(failure)

\* The codes of the table.
LEMMA ListedCodes == Codes = 1..27 \cup {30, 31, 999, 1000}
<1>1. \A n \in Codes : n \in 1..27 \cup {30, 31, 999, 1000}
  BY DEF Codes, NngErr
<1>2. ASSUME NEW n \in 1..27 \cup {30, 31, 999, 1000} PROVE n \in Codes
  <2>1. PICK c \in DOMAIN NngErr : NngErr[c] = n
    BY DEF NngErr
  <2>2. QED
    BY <2>1 DEF Codes
<1>3. QED
  BY <1>1, <1>2

\* What the calls of anng do with a code, by its number.
LEMMA CallCases ==
  ASSUME NEW err
  PROVE  /\ Wait(err) = IF err = 20 THEN Cancelled ELSE IF err = 5 THEN TimedOut
                         ELSE FromNngErr(err)
         /\ CreateEndpoint(err) = IF err = 2 THEN Oom
                                  ELSE IF err \in {3, 7, 9, 15} THEN FromNngErr(err)
                                  ELSE Unreachable
         /\ StartListener(err) = IF err \in {10, 16} THEN FromNngErr(err) ELSE Unreachable
         /\ TryRecv(err) = IF err = 2 THEN Oom
                           ELSE IF err \in {9, 11} THEN FromNngErr(err)
                           ELSE IF err = 5 THEN TimedOut ELSE Unreachable
         /\ SetOption(err) = IF err = 11 THEN FromNngErr(err) ELSE Unreachable
<1>1. Wait(err) = IF err = 20 THEN Cancelled ELSE IF err = 5 THEN TimedOut
                  ELSE FromNngErr(err)
  BY DEF Wait, NngErr
<1>2. CreateEndpoint(err) = IF err = 2 THEN Oom
                            ELSE IF err \in {3, 7, 9, 15} THEN FromNngErr(err)
                            ELSE Unreachable
  BY DEF CreateEndpoint, Is, ErrorCode
<1>3. StartListener(err) = IF err \in {10, 16} THEN FromNngErr(err) ELSE Unreachable
  BY DEF StartListener, Is, ErrorCode
<1>4. TryRecv(err) = IF err = 2 THEN Oom
                     ELSE IF err \in {9, 11} THEN FromNngErr(err)
                     ELSE IF err = 5 THEN TimedOut ELSE Unreachable
  BY DEF TryRecv, Is, ErrorCode
<1>5. SetOption(err) = IF err = 11 THEN FromNngErr(err) ELSE Unreachable
  BY DEF SetOption, Is, ErrorCode
<1>6. QED
  BY <1>1, <1>2, <1>3, <1>4, <1>5

\* What nng_dialer_start's worker does with a code, by its number.
LEMMA DialerCases ==
  ASSUME NEW err
  PROVE  StartDialer(err) =
           IF err = 20 THEN Cancelled
           ELSE IF err \in {7, 999} THEN FromNngErr(err)
           ELSE IF err = 8 THEN Operation("NngError", "EADDRINVAL")
           ELSE IF err = 2 THEN Oom
           ELSE IF err = 5 THEN TimedOut
           ELSE IF err \in {3, 6, 13, 14, 15, 18, 19, 26, 27, 31} THEN FromNngErr(err)
           ELSE Unreachable
<1>1. /\ Is(err, {"ECANCELED"}) <=> err = 20
      /\ Is(err, {"ECLOSED", "ESTOPPED"}) <=> err \in {7, 999}
      /\ Is(err, {"EAGAIN"}) <=> err = 8
      /\ Is(err, {"ENOMEM"}) <=> err = 2
      /\ Is(err, {"ETIMEDOUT"}) <=> err = 5
  BY DEF Is, ErrorCode
<1>2. Is(err, {"EADDRINVAL", "ECONNABORTED", "ECONNSHUT", "ECRYPTO", "ECONNREFUSED",
               "ECONNRESET", "EINVAL", "EPEERAUTH", "EPROTO", "EUNREACHABLE"})
        <=> err \in {3, 6, 13, 14, 15, 18, 19, 26, 27, 31}
  BY DEF Is, ErrorCode
<1>3. QED
  BY <1>1, <1>2 DEF StartDialer

\* Every call of anng sorts every code.
LEMMA CallsSort ==
  ASSUME NEW s \in Sites, NEW err \in Returned[s]
  PROVE  Sorted(s, err, AtSite(s, err))
<1>1. CASE s = "wait"
  <2>1. err \in (Codes \cup Unlisted) \ {1}
    BY <1>1 DEF Returned, NngErr
  <2>2. QED
    BY <1>1, <2>1, CallCases DEF AtSite, Sorted
<1>2. CASE s = "create"
  <2>1. Observed[s] = {9, 3, 15}
    BY <1>2 DEF Observed, Returned, NngErr
  <2>2. AtSite(s, err) = CreateEndpoint(err)
    BY <1>2 DEF AtSite
  <2>3. QED
    BY <2>1, <2>2, CallCases, ListedCodes DEF Sorted
<1>3. CASE s = "listener_start"
  <2>1. Observed[s] = {10, 16}
    BY <1>3 DEF Observed, Returned, NngErr
  <2>2. AtSite(s, err) = StartListener(err)
    BY <1>3 DEF AtSite
  <2>3. QED
    BY <2>1, <2>2, CallCases, ListedCodes DEF Sorted
<1>4. CASE s = "dialer_start"
  <2>1. Observed[s] = {15, 6, 20, 7, 999, 8, 31, 26}
    BY <1>4 DEF Observed, Returned, NngErr
  <2>2. AtSite(s, err) = StartDialer(err)
    BY <1>4 DEF AtSite
  <2>3. QED
    BY <1>4, <2>1, <2>2, DialerCases, ListedCodes DEF Sorted
<1>5. CASE s = "try_recv"
  <2>1. Observed[s] = {5, 11}
    BY <1>5 DEF Observed, Returned, NngErr
  <2>2. AtSite(s, err) = TryRecv(err)
    BY <1>5 DEF AtSite
  <2>3. QED
    BY <2>1, <2>2, CallCases, ListedCodes DEF Sorted
<1>6. CASE s = "option"
  <2>1. Observed[s] = {}
    BY <1>6 DEF Observed, Returned
  <2>2. AtSite(s, err) = SetOption(err)
    BY <1>6 DEF AtSite
  <2>3. QED
    BY <2>1, <2>2, CallCases, ListedCodes DEF Sorted
<1>7. QED
  BY <1>1, <1>2, <1>3, <1>4, <1>5, <1>6 DEF Sites

\* A failing call and a conversion keep the invariant.
LEMMA ErrorStep == ErrorInv /\ [ErrorsNext]_errorVars => ErrorInv'
<1> SUFFICES ASSUME ErrorInv, [ErrorsNext]_errorVars PROVE ErrorInv'
  OBVIOUS
<1>1. ASSUME NEW s \in DOMAIN Returned, NEW err \in Returned[s], Fail(s, err)
      PROVE  ErrorInv'
  <2>1. s \in Sites \/ s = "nng"
    BY DEF Returned, Sites
  <2>2. CASE s \in Sites
    BY <1>1, <2>2, CallsSort DEF Fail, ErrorInv
  <2>3. CASE s = "nng"
    <3>1. err \in Codes \cup Unlisted
      BY <2>3 DEF Returned
    <3>2. QED
      BY <1>1, <2>3, <3>1 DEF Fail, ErrorInv, AtSite
  <2>4. QED
    BY <2>1, <2>2, <2>3
<1>2. CASE IntoIo
  BY <1>2 DEF IntoIo, ErrorInv, Sites
<1>3. CASE UNCHANGED errorVars
  BY <1>3 DEF errorVars, ErrorInv
<1>4. QED
  BY <1>1, <1>2, <1>3 DEF ErrorsNext

\* The invariant gives both properties.
LEMMA ErrorInvGives == ErrorInv => NoUnreachable /\ ErrorKept
<1> SUFFICES ASSUME ErrorInv PROVE NoUnreachable /\ ErrorKept
  OBVIOUS
<1>1. CASE site = "none" /\ failure = [error |-> "none"] /\ io = "none"
  BY <1>1 DEF NoUnreachable, ErrorKept, Unreachable
<1>2. CASE site \in Sites /\ Sorted(site, raw, failure)
  <2>0. io # "none" => failure \notin Panics /\ io = FromAioError(failure)
    BY <1>2 DEF ErrorInv, Sites
  <2>1. CASE failure = Oom
    BY <2>0, <2>1 DEF NoUnreachable, ErrorKept, Unreachable, Oom, Panics
  <2>7. CASE failure = Unreachable /\ raw \notin Observed[site]
    BY <2>0, <2>7 DEF NoUnreachable, ErrorKept, Unreachable, Oom, Panics
  <2>2. CASE failure = Cancelled /\ raw = 20
    <3>1. CodesOf(failure) = {raw}
      BY <2>2 DEF CodesOf, Cancelled, NngErr
    <3>2. FromAioError(failure) = "Interrupted"
      BY <2>2 DEF FromAioError, Cancelled, TimedOut
    <3>3. QED
      BY <2>0, <2>2, <3>1, <3>2 DEF NoUnreachable, ErrorKept, Unreachable, Cancelled
  <2>3. CASE failure = TimedOut /\ raw = 5
    <3>1. CodesOf(failure) = {NngErr[c] : c \in {c \in DOMAIN NngVariant : NngVariant[c] = "TimedOut"}}
      BY <2>3 DEF CodesOf, TimedOut
    <3>2. {c \in DOMAIN NngVariant : NngVariant[c] = "TimedOut"} = {"ETIMEDOUT"}
      BY DEF NngVariant
    <3>3. CodesOf(failure) = {5} /\ NngErr.ETIMEDOUT = 5
      BY <3>1, <3>2 DEF NngErr
    <3>4. FromAioError(failure) = "TimedOut"
      BY <2>3 DEF FromAioError, TimedOut, Cancelled
    <3>5. QED
      BY <2>0, <2>3, <3>3, <3>4 DEF NoUnreachable, ErrorKept, Unreachable, TimedOut
  <2>4. CASE failure = FromNngErr(raw) /\ raw \in (Codes \cup Unlisted) \ {1, 5, 20}
    <3>1. NngErr.EAGAIN = 8
      BY DEF NngErr
    <3>2. QED
      BY <2>0, <2>4, <3>1, OperationKept, IoOfOperation DEF NoUnreachable, ErrorKept, Panics
  <2>5. CASE site = "dialer_start" /\ raw = 8 /\ failure = Operation("NngError", "EADDRINVAL")
    <3>1. NngErr.EAGAIN = 8
      BY DEF NngErr
    <3>2. FromAioError(failure) = "InvalidInput"
      BY <2>5 DEF FromAioError, Operation, IoKindOf, TimedOut, Cancelled
    <3>3. QED
      BY <2>0, <2>5, <3>1, <3>2 DEF NoUnreachable, ErrorKept, Operation, Unreachable
  <2>6. QED
    BY <1>2, <2>1, <2>2, <2>3, <2>4, <2>5, <2>7 DEF Sorted
<1>3. CASE /\ site = "nng" /\ raw \in Codes \cup Unlisted /\ failure = NngError(raw)
           /\ io # "none" => io = FromNngError(failure)
  <2>1. NngErr.EAGAIN = 8 /\ NngErr.ETIMEDOUT = 5
    BY DEF NngErr
  <2>2. QED
    BY <1>3, <2>1, NngErrorKept, IoOfNngError DEF NoUnreachable, ErrorKept, Panics
<1>4. QED
  BY <1>1, <1>2, <1>3 DEF ErrorInv

\* Both hold of every error in every state.
LEMMA ErrorInvariance == ErrorsSpec => []ErrorInv
<1>1. ErrorsInit => ErrorInv
  BY DEF ErrorsInit, ErrorInv
<1>2. QED
  BY <1>1, ErrorStep, PTL DEF ErrorsSpec

(***************************************************************************)
(* For every code at every call, listed by NNG or not, no conversion to    *)
(* io::Error panics; and no call panics for a failure that the tests       *)
(* provoke or the comments tell of.                                        *)
(***************************************************************************)
THEOREM NoConversionPanics == ErrorsSpec => []NoUnreachable
<1>1. QED
  BY ErrorInvariance, ErrorInvGives, PTL

(***************************************************************************)
(* For every code NNG may return, listed or not, the application can tell  *)
(* from the error, and from the io::Error made of it, which code it was.   *)
(***************************************************************************)
THEOREM ErrorsTold == ErrorsSpec => []ErrorKept
<1>1. QED
  BY ErrorInvariance, ErrorInvGives, PTL
=============================================================================
