-------------------------------- MODULE Risk --------------------------------
(***************************************************************************)
(* The pure arithmetic every Ballast contract shares                       *)
(* (contracts/common: risk.rs, margin.rs): what pledged units are worth    *)
(* after the haircut, the loan-to-value ratio in basis points, and the     *)
(* margin state that ratio falls in.  Divisions truncate, as i128 division *)
(* does on the non-negative operands the contracts use.                    *)
(***************************************************************************)
EXTENDS Integers

CONSTANTS
    BPS_DENOMINATOR,  \* 10_000 in the code
    PRICE_SCALE,      \* 10_000_000 in the code: prices are 7-decimal fixed point
    U32_MAX           \* the ratio of a debt against worthless collateral

ASSUME RiskAssumption ==
    /\ BPS_DENOMINATOR \in Nat \ {0}
    /\ PRICE_SCALE \in Nat \ {0}
    /\ U32_MAX \in Nat
    /\ U32_MAX >= BPS_DENOMINATOR

MarginStates == {"Healthy", "Warning", "MarginCall", "Liquidation"}

PriceStatuses == {"Ok", "Degraded", "Halted"}

MarginThresholds ==
    [warning_bps : Nat, margin_call_bps : Nat, liquidation_bps : Nat]

(* MarginThresholds::validate: the asserts a configuration must pass. *)
ValidThresholds(t) ==
    /\ 0 < t.warning_bps
    /\ t.warning_bps <= t.margin_call_bps
    /\ t.margin_call_bps <= t.liquidation_bps
    /\ t.liquidation_bps <= BPS_DENOMINATOR

(* The assert of collateral_value: a haircut above 100% aborts the call. *)
HaircutUsable(haircut_bps) == haircut_bps <= BPS_DENOMINATOR

CollateralValue(units, guarded_price, haircut_bps) ==
    (((units * guarded_price) \div PRICE_SCALE) * (BPS_DENOMINATOR - haircut_bps))
        \div BPS_DENOMINATOR

(* A debt against nothing is maximally unhealthy, never a division by zero. *)
LtvBps(debt, collateral_value) ==
    IF debt <= 0 THEN 0
    ELSE IF collateral_value <= 0 THEN U32_MAX
    ELSE LET bps == (debt * BPS_DENOMINATOR) \div collateral_value
         IN  IF bps > U32_MAX THEN U32_MAX ELSE bps

(* Thresholds are inclusive, and the most severe one reached wins. *)
Classify(ltv_bps, t) ==
    IF ltv_bps >= t.liquidation_bps THEN "Liquidation"
    ELSE IF ltv_bps >= t.margin_call_bps THEN "MarginCall"
    ELSE IF ltv_bps >= t.warning_bps THEN "Warning"
    ELSE "Healthy"

=============================================================================
