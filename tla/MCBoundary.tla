----------------------------- MODULE MCBoundary -----------------------------
(***************************************************************************)
(* Settings, Errors, Addresses and Build for TLC.  They share nothing, nor *)
(* do the library and the options of Settings: a behaviour belongs to one  *)
(* part, and the others stay as they began.                                *)
(***************************************************************************)
EXTENDS Settings, Errors, Addresses, Build

\* Errors of the system and of the transport, codes with both flags and with
\* none.
MCUnlisted ==
  {28, 998} \cup {ESYSERR + e : e \in {2, 4, 5, 11, 110}}
    \cup {ETRANERR + e : e \in {0, 3}} \cup {ETRANERR + ESYSERR + e : e \in {2, 11}}

VARIABLE part   \* what this behaviour is of

vars == <<part, settingsVars, errorVars, addressVars, buildVars>>

Init ==
  /\ part \in {"library", "options", "errors", "addresses", "build"}
  /\ SettingsInit /\ ErrorsInit
  /\ AddressesInit /\ (part # "addresses" => peer.family = "UNSPEC" /\ pipeOpen)
  /\ BuildInit /\ (part # "build" => features = {} /\ system = "nothing"
                                       /\ submodule = "present")

Next ==
  /\ UNCHANGED part
  /\ \/ part = "library" /\ LibraryNext
        /\ UNCHANGED <<errorVars, addressVars, buildVars>>
     \/ part = "options" /\ OptionsNext
        /\ UNCHANGED <<errorVars, addressVars, buildVars>>
     \/ part = "errors" /\ ErrorsNext
        /\ UNCHANGED <<settingsVars, addressVars, buildVars>>
     \/ part = "addresses" /\ AddressesNext
        /\ UNCHANGED <<settingsVars, errorVars, buildVars>>
     \/ part = "build" /\ BuildNext
        /\ UNCHANGED <<settingsVars, errorVars, addressVars>>

Spec == Init /\ [][Next]_vars
=============================================================================
