------------------------------ MODULE Services ------------------------------
(***************************************************************************)
(* What the models of the TypeScript services have in common: the absent   *)
(* value of a column or a field, and the bound on how often the database,  *)
(* the network or a peer may fail or a process may die.                    *)
(***************************************************************************)
EXTENDS Integers, FiniteSets

CONSTANTS
    None,
    MaxFaults  \* bound on throws, lost answers and restarts

ASSUME FaultsAssumption == MaxFaults \in Nat

=============================================================================
