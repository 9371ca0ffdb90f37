--------------------------- MODULE MCPledgeVault ----------------------------
(***************************************************************************)
(* Constants for model checking the pledge vault with its credit line: the *)
(* same scaled numbers as MCCreditLine, one custody mode of each kind.     *)
(***************************************************************************)
EXTENDS PledgeVault

Ladder(w, m, l) == [warning_bps |-> w, margin_call_bps |-> m, liquidation_bps |-> l]

LineConfig == [haircut_bps |-> 2, thresholds |-> Ladder(5, 7, 9)]

Custody(mode) ==
    [haircut_bps |-> 2, thresholds |-> Ladder(5, 7, 9), custody_mode |-> mode]

OneConfig == {LineConfig}

EscrowOnly == {Custody("Escrow")}

EscrowAndLien == {Custody("Escrow"), Custody("IssuerLien")}

Reading(v, s) == [value |-> v, status |-> s]

TwoPrices == {Reading(1, "Ok"), Reading(5, "Ok")}

(* A price to lend on, and a crash the guard does not stand behind. *)
SoundAndDegraded == {Reading(3, "Ok"), Reading(1, "Degraded")}

UpToOne == 0 .. 1

UpToTwo == 0 .. 2

=============================================================================
