------------------------------ MODULE UnitTable -----------------------------
(***************************************************************************)
(* What loading and unloading promise to whoever holds the id of a unit,   *)
(* with the stages of the compiler left out: a load brings a module and    *)
(* its new instances into being in one step or not at all, the units a     *)
(* unit depends on are settled when it comes into being, and an id that    *)
(* was given up is never seen again.                                       *)
(*                                                                         *)
(* Compiler implements this specification if modules are unloaded with     *)
(* their dependents (code/tetris/loader.code).                             *)
(***************************************************************************)
EXTENDS Naturals, FiniteSets

VARIABLES
    live,       \* the units that can be referred to
    needs,      \* live unit -> the units it depends on
    retired     \* the ids given up: of unloaded units and of failed loads

tableVars == <<live, needs, retired>>

Intrinsics == 0

TableInit ==
    /\ live = {Intrinsics}
    /\ needs = [u \in {Intrinsics} |-> {}]
    /\ retired = {}

\* The units that come into being in this step, and those that go.
NewUnits  == live' \ live
GoneUnits == live \ live'

\* A load succeeds.  The new units depend on live units or on each other.
Load ==
    /\ NewUnits # {} /\ GoneUnits = {}
    /\ NewUnits \cap retired = {}
    /\ needs' \in [live' -> SUBSET live']
    /\ \A u \in live : needs'[u] = needs[u]
    /\ UNCHANGED retired

\* Units are unloaded, and with them all that depend on them.
Unload ==
    /\ GoneUnits # {} /\ NewUnits = {}
    /\ \A u \in live' : needs[u] \cap GoneUnits = {}
    /\ needs' = [u \in live' |-> needs[u]]
    /\ retired' = retired \cup GoneUnits

\* A load fails: ids that never became live are given up.
Discard ==
    /\ retired \subseteq retired'
    /\ retired' \cap live = {}
    /\ UNCHANGED <<live, needs>>

TableNext == Load \/ Unload \/ Discard

TableSpec == TableInit /\ [][TableNext]_tableVars

=============================================================================
