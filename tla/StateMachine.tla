---------------------------- MODULE StateMachine ----------------------------
(***************************************************************************)
(* The typed state machine of src/saga/state-machine.ts: a map from every  *)
(* state to the targets it lists, and the map of sources derived from it.  *)
(***************************************************************************)
EXTENDS Sequences, FiniteSets

\* readTargets: no states, a target that is not a state or one listed twice: the map is refused.
WellDefined(map) ==
  /\ DOMAIN map # {}
  /\ \A s \in DOMAIN map :
       /\ \A i \in DOMAIN map[s] : map[s][i] \in DOMAIN map
       /\ \A i, j \in DOMAIN map[s] : map[s][i] = map[s][j] => i = j

TargetsOf(map, from) ==
  IF from \in DOMAIN map THEN {map[from][i] : i \in DOMAIN map[from]} ELSE {}

CanTransition(map, from, to) == to \in TargetsOf(map, from)

\* invert: the states that list `to`.
SourcesOf(map, to) == {s \in DOMAIN map : to \in TargetsOf(map, s)}
=============================================================================
