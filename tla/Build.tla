------------------------------- MODULE Build --------------------------------
(***************************************************************************)
(* The build script of nng-sys (nng-sys/build.rs): it builds NNG from the  *)
(* vendored sources or finds an installed one, links it and provides the   *)
(* bindings.  It reads environment variables, each plain or prefixed with  *)
(* the target; cargo runs it again when a variable it has named as watched *)
(* has changed since, so the environment may change between two builds     *)
(* with or without a new run of the script.                                *)
(***************************************************************************)
EXTENDS Integers, FiniteSets

CONSTANTS MaxChanges   \* bound: changes of the environment

ASSUME MaxChangesAssumption == MaxChanges \in Nat

\* The variables of ENV_VARS.
Names == {"NNG_DIR", "NNG_LIB_DIR", "NNG_INCLUDE_DIR", "NNG_STATIC", "NNG_NO_VENDOR"}

\* A variable as it is set in the environment: plain, prefixed (CFLAGS too is
\* read in both variants), or one of the NNG_CMAKE_ variables, for a define the
\* script manages or for another.
EnvVars == ((Names \cup {"CFLAGS"}) \X {"plain", "prefixed"})
             \cup ({"NNG_CMAKE_"} \X {"managed", "free"})

\* "yes" is a directory with NNG in it (for CFLAGS, the -I of one), "no" one
\* that does not exist or the 0 or false of a flag, "other" a directory without
\* NNG, or any other text.
Values == {"unset", "yes", "no", "other"}

\* Those that make a difference to variable v.
ValuesOf(v) ==
  CASE v[1] \in {"NNG_DIR", "NNG_LIB_DIR", "NNG_INCLUDE_DIR"} -> Values
    [] v[1] \in {"NNG_STATIC", "NNG_NO_VENDOR"} -> Values \ {"other"}
    [] v[1] \in {"CFLAGS", "NNG_CMAKE_"} -> Values \ {"no"}

\* What the machine has: what finds an NNG, if something does.
Systems == {"nothing", "pkg-config", "vcpkg", "compiler", "homebrew"}

VARIABLES
  features,   \* of the crate: subset of {"vendored", "bindgen"}
  system,     \* the machine
  submodule,  \* the vendored sources: "present", "git" if git can fetch them, "missing"
  env,        \* the environment
  watched,    \* the variables named to cargo by the last successful run
  seen,       \* the environment of that run
  artifact,   \* what that run produced
  current,    \* no change since the last build
  changes     \* changes of the environment so far

buildVars == <<features, system, submodule, env, watched, seen, artifact, current, changes>>

-----------------------------------------------------------------------------
(* The script.  Faulty... are seeded faults.                               *)

\* get_env_var: the prefixed variant first.
GetEnvVar(e, name) ==
  IF e[<<name, "prefixed">>] # "unset" THEN e[<<name, "prefixed">>]
  ELSE e[<<name, "plain">>]

\* A flag, if it is set, is on unless it is 0 or false.
On(value) == value # "no"

\* force_no_vendor.
ForceNoVendor(e) ==
  LET v == GetEnvVar(e, "NNG_NO_VENDOR") IN v # "unset" /\ On(v)

\* should_link_static.
ShouldLinkStatic(e, vendored) ==
  LET v == GetEnvVar(e, "NNG_STATIC") IN IF v = "unset" THEN vendored ELSE On(v)

Failed == [source |-> "failed"]

\* What is found: the kind of source, and the include directory if NNG's
\* headers are in it.
Found(source, includes) == [source |-> source, includes |-> includes]
NotFound == Found("nothing", "none")

\* The include directory of variable name, set to value.
Directory(name, value) == IF value = "yes" THEN name ELSE "none"

\* try_compile_probe_without_paths: the compiler finds NNG's headers, on its own
\* paths or, as the comment has it, by the CFLAGS it picks up.
Probe(e) == system = "compiler" \/ e[<<"CFLAGS", "plain">>] = "yes"

\* try_pkg_config, try_vcpkg and try_platform_specific_paths: the first that
\* finds an NNG.  For the compiler's, the include directories are the -I flags
\* of CFLAGS, the prefixed variant first.
FoundBy(e) ==
  CASE system = "pkg-config" -> Found("PkgConfig", "pkg-config")
    [] system = "vcpkg"      -> Found("Vcpkg", "vcpkg")
    [] system \notin {"pkg-config", "vcpkg"} /\ Probe(e) ->
         Found("Manual", Directory("CFLAGS", GetEnvVar(e, "CFLAGS")))
    [] system = "homebrew" /\ ~Probe(e) -> Found("Manual", "homebrew")
    [] OTHER -> NotFound

\* try_find_system_library: NNG_DIR, NNG_LIB_DIR with NNG_INCLUDE_DIR, then the
\* machine.  It panics for a directory that does not exist or is not given.
FindSystemLibrary(e) ==
  LET dir == GetEnvVar(e, "NNG_DIR")
      lib == GetEnvVar(e, "NNG_LIB_DIR")
      inc == GetEnvVar(e, "NNG_INCLUDE_DIR")
  IN  CASE dir # "unset" ->
             IF dir = "no" THEN NotFound ELSE Found("Manual", Directory("NNG_DIR", dir))
        [] dir = "unset" /\ lib # "unset" ->
             IF lib = "no" \/ inc \in {"unset", "no"} THEN NotFound
             ELSE Found("Manual", Directory("NNG_INCLUDE_DIR", inc))
        [] OTHER -> FoundBy(e)

\* check_vendored_source and build_vendored: NNG_CMAKE_ variables are defines of
\* CMake, but those the script manages make it panic.
BuildVendored(e) ==
  IF submodule = "missing" \/ e[<<"NNG_CMAKE_", "managed">>] # "unset" THEN Failed
  ELSE [source |-> "Vendored", shared |-> ~ShouldLinkStatic(e, TRUE),
        defines |-> e[<<"NNG_CMAKE_", "free">>], headers |-> "vendored"]

\* The nng.h that generate_bindings and the version check of main find: in the
\* include directory or, if it has none, on the compiler's own paths.
Headers(includes) ==
  IF includes = "none" /\ system = "compiler" THEN "default" ELSE includes

\* A library that was found; the script does not know how it was built.
\* Without headers generate_bindings panics.
UseSystem(e) ==
  LET found == FindSystemLibrary(e)
  IN  IF found = NotFound \/ Headers(found.includes) = "none" THEN Failed
      ELSE [source |-> found.source, shared |-> TRUE, defines |-> "unset",
            headers |-> Headers(found.includes)]

\* generate_bindings for whatever may not match the bindings in the repository.
Bindings(library) ==
  IF "bindgen" \in features \/ library.source # "Vendored" THEN "generated"
  ELSE "pregenerated"

FaultyLinkKind(e, library) ==
  IF library.source \in {"PkgConfig", "Vcpkg"} THEN "theirs"
  ELSE IF ShouldLinkStatic(e, FALSE) THEN "static" ELSE "dylib"

\* The directive rustc-link-lib; pkg-config and vcpkg have emitted theirs.
LinkKind(e, library) ==
  CASE library.source \in {"PkgConfig", "Vcpkg"} -> "theirs"
    [] OTHER -> IF ShouldLinkStatic(e, library.source = "Vendored") THEN "static" ELSE "dylib"

\* main.
Main(e) ==
  LET library == IF "vendored" \in features /\ ~ForceNoVendor(e)
                 THEN BuildVendored(e) ELSE UseSystem(e)
  IN  IF library = Failed THEN Failed
      ELSE [source |-> library.source, shared |-> library.shared,
            defines |-> library.defines, headers |-> library.headers,
            link |-> LinkKind(e, library), bindings |-> Bindings(library)]

FaultyWatch(e, result) == Names \X {"plain"}

\* rerun-if-env-changed: every variable of ENV_VARS in both variants, and the
\* NNG_CMAKE_ variables that build_vendored has found; CFLAGS is not among them.
Watch(e, result) ==
  (Names \X {"plain", "prefixed"})
    \cup IF result.source = "Vendored"
         THEN {v \in {<<"NNG_CMAKE_", "free">>} : e[v] # "unset"} ELSE {}

-----------------------------------------------------------------------------
BuildInit ==
  /\ features \in SUBSET {"vendored", "bindgen"}
  /\ system \in Systems /\ submodule \in {"present", "git", "missing"}
  /\ env = [v \in EnvVars |-> "unset"]
  /\ watched = {} /\ seen = env /\ artifact = Failed
  /\ current = FALSE /\ changes = 0

\* The user sets or unsets a variable.
ChangeEnv(v, value) ==
  /\ changes < MaxChanges /\ env[v] # value
  /\ env' = [env EXCEPT ![v] = value]
  /\ changes' = changes + 1 /\ current' = FALSE
  /\ UNCHANGED <<features, system, submodule, watched, seen, artifact>>

\* cargo build: it runs the script if there is no result of it, or a watched
\* variable has changed; a script that panics leaves none.
CargoBuild ==
  /\ ~current
  /\ current' = TRUE
  /\ IF artifact = Failed \/ \E v \in watched : env[v] # seen[v]
     THEN /\ artifact' = Main(env) /\ seen' = env
          /\ watched' = IF artifact' = Failed THEN {} ELSE Watch(env, artifact')
          /\ submodule' = IF /\ submodule = "git" /\ "vendored" \in features
                             /\ ~ForceNoVendor(env)
                          THEN "present" ELSE submodule
     ELSE UNCHANGED <<artifact, seen, watched, submodule>>
  /\ UNCHANGED <<features, system, env, changes>>

BuildNext ==
  \/ \E v \in EnvVars : \E value \in ValuesOf(v) : ChangeEnv(v, value)
  \/ CargoBuild

BuildSpec == BuildInit /\ [][BuildNext]_buildVars

-----------------------------------------------------------------------------
(* Properties.                                                             *)

\* The NNG_CMAKE_ variables that were not set when the script ran: it had no
\* way to name them to cargo.
NewlySet == {v \in {"NNG_CMAKE_"} \X {"managed", "free"} :
               seen[v] = "unset" /\ env[v] # "unset"}

\* The run before came to try_platform_specific_paths, which reads CFLAGS, and
\* CFLAGS has changed since.
CflagsChanged ==
  /\ system \notin {"pkg-config", "vcpkg"}
  /\ \A name \in {"NNG_DIR", "NNG_LIB_DIR"} : GetEnvVar(seen, name) = "unset"
  /\ "vendored" \in features => ForceNoVendor(seen)
  /\ \E v \in {"CFLAGS"} \X {"plain", "prefixed"} : env[v] # seen[v]

(***************************************************************************)
(* After a build the artifact is the one the script makes of today's       *)
(* environment: whichever variables of ENV_VARS were set, changed or unset *)
(* between two builds, in either variant, nothing of the old ones remains. *)
(* Two changes the script reads and does not name to cargo go unnoticed:   *)
(* an NNG_CMAKE_ variable that is set for the first time, and CFLAGS where *)
(* the library was looked for on the compiler's paths.                     *)
(***************************************************************************)
BuildIsCurrent ==
  current /\ NewlySet = {} /\ ~CflagsChanged => artifact = Main(env)

(***************************************************************************)
(* The places that decide about building, linking and binding agree: the   *)
(* vendored NNG is linked statically exactly if it was built so, though    *)
(* should_link_static is asked twice, and no other NNG gets the bindings   *)
(* of the repository.                                                      *)
(***************************************************************************)
LinkSound ==
  artifact # Failed =>
    /\ artifact.source = "Vendored" => (artifact.shared <=> artifact.link = "dylib")
    /\ artifact.bindings = "pregenerated" => artifact.headers = "vendored"
=============================================================================
