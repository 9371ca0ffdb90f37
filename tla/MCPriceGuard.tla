---------------------------- MODULE MCPriceGuard ----------------------------
(***************************************************************************)
(* Constants for model checking PriceGuard: basis points out of 10, prices *)
(* of a few units, a window and a timelock of two seconds.                 *)
(***************************************************************************)
EXTENDS PriceGuard

Settings(band, daily, window, drift, staleness) ==
    [band_bps |-> band, daily_move_band_bps |-> daily, window_seconds |-> window,
     window_move_band_bps |-> drift, max_staleness_s |-> staleness]

(* Readings within 50% of each other, moves of 20%, drift of 30%. *)
OneSetting == {Settings(5, 2, 2, 3, 1)}

(* The same and a tighter one in each field. *)
ManySettings ==
    OneSetting \cup {Settings(5, 1, 2, 3, 1), Settings(5, 2, 3, 3, 1), Settings(5, 2, 2, 3, 0)}

OneOfEachChange ==
    {[kind |-> "Field", field |-> "window_seconds", value |-> 2],
     [kind |-> "Asset", config |-> Settings(5, 2, 2, 3, 1)],
     [kind |-> "IssuerPubKey", key |-> CHOOSE k \in Keys : TRUE],
     [kind |-> "RequireNavSignature", required |-> FALSE]}

-----------------------------------------------------------------------------
(***************************************************************************)
(* Two scenarios in one run.  In "prices" three sources push three prices  *)
(* under one setting; in "settings" the admin sets, queues, cancels and    *)
(* executes changes while two sources push one reading.                    *)
(***************************************************************************)
VARIABLE scenario

NewReadings == {n \in Sources : sources'[n] # sources[n] /\ sources'[n] # None}

InPrices ==
    /\ guardConfig' \in OneSetting \cup {None}
    /\ UNCHANGED <<issuerKey, requireSig, pendingConfig, nextId>>

InSettings ==
    \A n \in NewReadings :
        n # "redemption" /\ sources'[n].value = 4 /\ sources'[n].observed_at = 0

ScenarioInit == GuardInit /\ scenario \in {"prices", "settings"}

ScenarioNext ==
    /\ UNCHANGED scenario
    /\ GuardNext
    /\ IF scenario = "prices" THEN InPrices ELSE InSettings

ScenarioSpec == ScenarioInit /\ [][ScenarioNext]_<<guardVars, scenario>>

=============================================================================
