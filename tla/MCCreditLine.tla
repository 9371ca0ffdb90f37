---------------------------- MODULE MCCreditLine ----------------------------
(***************************************************************************)
(* Constants for model checking CreditLine: basis points out of 10, prices *)
(* in whole units and a year of one second, so that one ledger of one unit *)
(* drawn already owes interest.                                            *)
(***************************************************************************)
EXTENDS CreditLine

Ladder(w, m, l) == [warning_bps |-> w, margin_call_bps |-> m, liquidation_bps |-> l]

(* 20% haircut; warning at 50%, margin call at 70%, liquidation at 90%. *)
StandardConfig == [haircut_bps |-> 2, thresholds |-> Ladder(5, 7, 9)]

(* No haircut, and a ladder with a zero warning, which validate refuses. *)
RefusedConfig == [haircut_bps |-> 0, thresholds |-> Ladder(0, 7, 9)]

OneConfig == {StandardConfig}

SoundAndRefused == {StandardConfig, RefusedConfig}

Reading(v, s) == [value |-> v, status |-> s]

TwoPrices == {Reading(1, "Ok"), Reading(3, "Ok")}

CrashAndRecovery == {Reading(1, "Ok"), Reading(6, "Ok")}

=============================================================================
