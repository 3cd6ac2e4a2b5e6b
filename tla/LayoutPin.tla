------------------------------- MODULE LayoutPin -------------------------------
(***************************************************************************)
(* The pin of the id layout.  A process of the user-service compares the   *)
(* layout of its build with the one the database was built with, before it *)
(* serves; the first process against an empty database writes the pin.     *)
(* Processes of different builds may boot at the same time.                *)
(***************************************************************************)
EXTENDS Integers

CONSTANTS
  Processes,
  Layouts,        \* LAYOUT_VERSION of the builds that are deployed, positive
  MaxDbFaults     \* bound on reads and writes the database does not answer in time

VARIABLES
  pin,         \* layout_version of the row of identity_key_pin, NoPin without a row
  minted,      \* the layouts the users in the database were minted under
  build,       \* per process: its layout, and whether it may write the pin
  boot,        \* per process: the statement of its boot it runs next
  unverified,  \* history: whether a process began to serve without knowing the pin
  dbFaults

pinVars == <<pin, minted, build, boot, unverified, dbFaults>>

NoPin == 0
DbFails == dbFaults < MaxDbFaults /\ dbFaults' = dbFaults + 1
Goes(p, pc) == boot' = [boot EXCEPT ![p] = pc]

(* A pin that was read either is the layout of the build or refuses the boot. *)
assertLayoutMatches(p) == Goes(p, IF pin = build[p].layout THEN "serving" ELSE "refused")

(* What cannot be read is not verified, and does not stop the boot. *)
ServesUnverified(p) == Goes(p, "serving") /\ unverified' = TRUE

-----------------------------------------------------------------------------

readPin(p) ==
  /\ boot[p] = "read"
  /\ \/ pin # NoPin /\ assertLayoutMatches(p) /\ UNCHANGED <<unverified, dbFaults>>
     \/ /\ pin = NoPin /\ build[p].pinBootstrap
        /\ Goes(p, "users") /\ UNCHANGED <<unverified, dbFaults>>
     \/ pin = NoPin /\ ~build[p].pinBootstrap /\ ServesUnverified(p) /\ UNCHANGED dbFaults
     \/ DbFails /\ ServesUnverified(p)
  /\ UNCHANGED <<pin, minted, build>>

(* From here a database that does not answer refuses the boot. *)
holdsUsers(p) ==
  /\ boot[p] = "users"
  /\ \/ minted # {} /\ ServesUnverified(p) /\ UNCHANGED dbFaults
     \/ minted = {} /\ Goes(p, "pin") /\ UNCHANGED <<unverified, dbFaults>>
     \/ DbFails /\ Goes(p, "refused") /\ UNCHANGED unverified
  /\ UNCHANGED <<pin, minted, build>>

\* Defect: the loser of the race takes the winner for a process of its own build.
LoserServes(p) == Goes(p, "serving")

(* The loser reads the winner's pin. *)
LosesTheRace(p) == Goes(p, "reread")

(* INSERT ... ON CONFLICT DO NOTHING.  A statement that timed out may still be carried out. *)
bootstrapPin(p) ==
  /\ boot[p] = "pin"
  /\ \/ /\ pin' = IF pin = NoPin THEN build[p].layout ELSE pin
        /\ IF pin = NoPin THEN Goes(p, "serving") ELSE LosesTheRace(p)
        /\ UNCHANGED dbFaults
     \/ /\ DbFails /\ Goes(p, "refused")
        /\ pin' \in {pin, IF pin = NoPin THEN build[p].layout ELSE pin}
  /\ UNCHANGED <<minted, build, unverified>>

rereadPin(p) ==
  /\ boot[p] = "reread"
  /\ \/ assertLayoutMatches(p) /\ UNCHANGED <<unverified, dbFaults>>
     \/ DbFails /\ ServesUnverified(p)
  /\ UNCHANGED <<pin, minted, build>>

(* A signup inserts a user under an id of the process's layout. *)
register(p) ==
  /\ boot[p] = "serving"
  /\ minted' = minted \union {build[p].layout}
  /\ UNCHANGED <<pin, build, boot, unverified, dbFaults>>

(* A process ends, or was refused, and is started again, perhaps from another build. *)
Restart(p) ==
  /\ boot[p] \in {"serving", "refused"}
  /\ build' \in {[build EXCEPT ![p].layout = l] : l \in Layouts}
  /\ Goes(p, "read")
  /\ UNCHANGED <<pin, minted, unverified, dbFaults>>

-----------------------------------------------------------------------------

Init ==
  /\ pin = NoPin /\ minted = {} /\ unverified = FALSE /\ dbFaults = 0
  /\ build \in [Processes -> [layout : Layouts, pinBootstrap : BOOLEAN]]
  /\ boot = [p \in Processes |-> "read"]

Next == \E p \in Processes :
  readPin(p) \/ holdsUsers(p) \/ bootstrapPin(p) \/ rereadPin(p) \/ register(p) \/ Restart(p)

-----------------------------------------------------------------------------

(* Unless a process was let through unverified, every user was minted under the pinned layout,        *)
(* however first boots of different builds race: "two answers to which one" are never in a database.  *)
PinHolds == ~unverified => minted \subseteq {pin}
===============================================================================
