----------------------------- MODULE CreditLine -----------------------------
(***************************************************************************)
(* contracts/credit-line: lender commitments, draws, repayments, interest, *)
(* the margin state machine and liquidation.  One action is one contract   *)
(* call; a call that panics changes nothing, so its asserts are guards.    *)
(*                                                                         *)
(* Outside this module: the price guard is an arbitrary reading per asset  *)
(* (PriceMoves), the pledge vault is whoever calls SyncFromVault, wallets  *)
(* are not tracked (a transfer that lacks funds is a call that panics).    *)
(* Line.agreement, Line.cure_s and Line.breach_ltv_bps are stored and      *)
(* never read by the contract and are left out.                            *)
(***************************************************************************)
EXTENDS Risk, FiniteSetsExt

CONSTANTS
    Party,             \* addresses that lend, borrow or pay
    Asset,             \* collateral tokens
    None,              \* Rust's Option::None
    SECONDS_PER_YEAR,  \* 31_536_000 in the code
    Limits,            \* credit limits a lender may open a line with
    Rates,             \* rate_bps a lender may open a line with
    Amounts,           \* USDC amounts a caller may name
    Units,             \* collateral figures a sync may report
    Configs,           \* AssetConfig records the admin may set
    PriceReadings,     \* what the price guard may answer
    CloseSeconds,      \* seconds one ledger may take to close
    MaxLines,          \* bound: lines ever opened
    MaxFunded,         \* bound: USDC committed to one line
    MaxLedger          \* bound: ledgers closed

AssetConfig == [haircut_bps : Nat, thresholds : MarginThresholds]

GuardedPrice == [value : Nat, status : PriceStatuses]

LineId == 0 .. (MaxLines - 1)

LineStatus == {"Unopened", "Open", "Liquidating", "Closed"}

Line ==
    [lender : Party \cup {None}, borrower : Party \cup {None}, asset : Asset \cup {None},
     limit : Nat, funded : Nat, drawn : Nat, pledged_units : Nat, rate_bps : Nat,
     status : LineStatus, last_accrual_ts : Nat, accrued_interest : Nat,
     margin_state : MarginStates,
     breach_ledger : Nat \cup {None}, unhealthy_since : Nat \cup {None}]

LiquidationRecord ==
    [seized_units : Nat, price : Nat, debt : Nat, closed : BOOLEAN,
     recovered : Nat, surplus : Nat, shortfall : Nat]

ASSUME CreditLineAssumption ==
    /\ None \notin Nat
    /\ None \notin AssetConfig
    /\ None \notin LiquidationRecord
    /\ SECONDS_PER_YEAR \in Nat \ {0}
    /\ Limits \subseteq Nat \ {0}
    /\ Rates \subseteq Nat
    /\ Amounts \subseteq Nat \ {0}
    /\ Units \subseteq Nat
    /\ Configs \subseteq AssetConfig
    /\ PriceReadings \subseteq GuardedPrice
    /\ CloseSeconds \subseteq Nat \ {0}
    /\ MaxLines \in Nat
    /\ MaxFunded \in Nat
    /\ MaxLedger \in Nat

VARIABLES
    ledger,       \* env.ledger(): [sequence, timestamp]
    price,        \* the answer PriceGuard::guarded_price gives, per asset
    assetConfig,  \* DataKey::AssetConfig, None when the asset is not configured
    nextLineId,   \* DataKey::NextLineId
    lines,        \* DataKey::Line
    claimable,    \* DataKey::Claimable
    liquidation,  \* DataKey::Liquidation
    pool          \* USDC the contract's own address holds

vars == <<ledger, price, assetConfig, nextLineId, lines, claimable, liquidation, pool>>

NoLine ==
    [lender |-> None, borrower |-> None, asset |-> None, limit |-> 0, funded |-> 0,
     drawn |-> 0, pledged_units |-> 0, rate_bps |-> 0, status |-> "Unopened",
     last_accrual_ts |-> 0, accrued_interest |-> 0, margin_state |-> "Healthy",
     breach_ledger |-> None, unhealthy_since |-> None]

Init ==
    /\ ledger = [sequence |-> 0, timestamp |-> 0]
    /\ price \in [Asset -> PriceReadings]
    /\ assetConfig = [a \in Asset |-> None]
    /\ nextLineId = 0
    /\ lines = [l \in LineId |-> NoLine]
    /\ claimable = [l \in LineId |-> 0]
    /\ liquidation = [l \in LineId |-> None]
    /\ pool = 0

-----------------------------------------------------------------------------
(* Reads *)

now == ledger.timestamp

Exists(l) == lines[l].status # "Unopened"

Configured(a) == assetConfig[a] # None

(* read_asset_config and collateral_value panic, so no LTV can be read. *)
LtvReadable(a) == Configured(a) /\ HaircutUsable(assetConfig[a].haircut_bps)

(* interest_delta: simple interest since the last accrual, truncated twice. *)
InterestDelta(line, t) ==
    ((line.drawn * line.rate_bps * (t - line.last_accrual_ts)) \div SECONDS_PER_YEAR)
        \div BPS_DENOMINATOR

Accrued(line, t) == line.accrued_interest + InterestDelta(line, t)

(* debt_of: principal plus interest accrued to this ledger. *)
DebtOf(line, t) == line.drawn + Accrued(line, t)

(* The margin state of `debt` against `units` of asset a at the current price. *)
MarginOf(debt, units, a) ==
    LET config == assetConfig[a]
    IN  Classify(LtvBps(debt, CollateralValue(units, price[a].value, config.haircut_bps)),
                 config.thresholds)

(* read_ltv, of which only the state decides anything. *)
StateOf(line) == MarginOf(DebtOf(line, now), line.pledged_units, line.asset)

PriceOk(a) == price[a].status = "Ok"

(* Mutant: the clock is reset and the interest up to now is lost. *)
AccrueClockOnly(line) == [line EXCEPT !.last_accrual_ts = now]

(* draw and repay bring the line's interest up to date first. *)
Accrue(line) ==
    [line EXCEPT !.accrued_interest = Accrued(line, now), !.last_accrual_ts = now]

Lesser(x, y) == IF x <= y THEN x ELSE y

WriteLine(l, line) == lines' = [lines EXCEPT ![l] = line]

-----------------------------------------------------------------------------
(* The calls *)

ConfigureAsset(a, config) ==
    /\ ValidThresholds(config.thresholds)
    /\ assetConfig' = [assetConfig EXCEPT ![a] = config]
    /\ UNCHANGED <<ledger, price, nextLineId, lines, claimable, liquidation, pool>>

Open(l, lender, borrower, a, limit, rate) ==
    /\ l = nextLineId
    /\ limit > 0
    /\ nextLineId' = nextLineId + 1
    /\ WriteLine(l, [NoLine EXCEPT !.lender = lender, !.borrower = borrower, !.asset = a,
                                   !.limit = limit, !.rate_bps = rate,
                                   !.status = "Open", !.last_accrual_ts = now])
    /\ UNCHANGED <<ledger, price, assetConfig, claimable, liquidation, pool>>

Fund(lender, l, amount) ==
    /\ Exists(l)
    /\ lines[l].lender = lender
    /\ lines[l].status # "Closed"
    /\ Configured(lines[l].asset)
    /\ lines[l].funded + amount <= MaxFunded
    /\ WriteLine(l, [lines[l] EXCEPT !.funded = @ + amount])
    /\ pool' = pool + amount
    /\ UNCHANGED <<ledger, price, assetConfig, nextLineId, claimable, liquidation>>

(* sync_from_vault, called by the configured vault inside its own calls. *)
SyncFromVault(l, a, units) ==
    /\ units >= 0
    /\ Exists(l)
    /\ lines[l].asset = a
    /\ WriteLine(l, [lines[l] EXCEPT !.pledged_units = units])
    /\ UNCHANGED <<ledger, price, assetConfig, nextLineId, claimable, liquidation, pool>>

(* sync_collateral, the keeper's (or admin's) reconciliation call. *)
SyncCollateral(l, units) ==
    /\ units >= 0
    /\ Exists(l)
    /\ WriteLine(l, [lines[l] EXCEPT !.pledged_units = units])
    /\ UNCHANGED <<ledger, price, assetConfig, nextLineId, claimable, liquidation, pool>>

Draw(borrower, l, amount) ==
    LET line == Accrue(lines[l])
    IN  /\ Exists(l)
        /\ line.borrower = borrower
        /\ line.status = "Open"
        /\ amount <= line.funded - line.drawn
        /\ line.drawn + amount <= line.limit
        /\ LtvReadable(line.asset)
        /\ PriceOk(line.asset)
        /\ MarginOf(line.drawn + line.accrued_interest + amount,
                    line.pledged_units, line.asset) = "Healthy"
        /\ WriteLine(l, [line EXCEPT !.drawn = @ + amount, !.margin_state = "Healthy"])
        /\ pool' = pool - amount
        /\ UNCHANGED <<ledger, price, assetConfig, nextLineId, claimable, liquidation>>

(* `amount` is a cap; what is applied pays interest first, then principal. *)
Repay(l, amount) ==
    LET line      == Accrue(lines[l])
        applied   == Lesser(amount, line.accrued_interest + line.drawn)
        interest  == Lesser(applied, line.accrued_interest)
        principal == applied - interest
    IN  /\ Exists(l)
        /\ line.accrued_interest + line.drawn > 0
        /\ Configured(line.asset)
        /\ WriteLine(l, [line EXCEPT !.accrued_interest = @ - interest,
                                     !.drawn = @ - principal])
        /\ claimable' = [claimable EXCEPT ![l] = @ + interest]
        /\ pool' = pool + applied
        /\ UNCHANGED <<ledger, price, assetConfig, nextLineId, liquidation>>

(* Permissionless: persists a fresh margin state, starts or clears the     *)
(* unhealthy clock, and arms or clears the breach flag.                    *)
Poke(l) ==
    LET line      == lines[l]
        state     == StateOf(line)
        unhealthy == state \in {"MarginCall", "Liquidation"}
        breached  == state = "Liquidation" /\ PriceOk(line.asset)
        Since(field, at) == IF field = None THEN at ELSE field
    IN  /\ Exists(l)
        /\ LtvReadable(line.asset)
        /\ WriteLine(l, [line EXCEPT
               !.margin_state = state,
               !.unhealthy_since = IF unhealthy THEN Since(@, now) ELSE None,
               !.breach_ledger = IF breached THEN Since(@, ledger.sequence) ELSE None])
        /\ UNCHANGED <<ledger, price, assetConfig, nextLineId, claimable, liquidation, pool>>

(* Keeper only.  Freezes the position, price and debt of the second read. *)
Liquidate(l) ==
    LET line == lines[l]
    IN  /\ Exists(l)
        /\ line.breach_ledger # None
        /\ ledger.sequence > line.breach_ledger
        /\ line.status = "Open"
        /\ LtvReadable(line.asset)
        /\ PriceOk(line.asset)
        /\ StateOf(line) = "Liquidation"
        /\ liquidation' = [liquidation EXCEPT ![l] =
               [seized_units |-> line.pledged_units, price |-> price[line.asset].value,
                debt |-> DebtOf(line, now), closed |-> FALSE,
                recovered |-> 0, surplus |-> 0, shortfall |-> 0]]
        /\ WriteLine(l, [line EXCEPT !.status = "Liquidating",
                                     !.margin_state = "Liquidation"])
        /\ UNCHANGED <<ledger, price, assetConfig, nextLineId, claimable, pool>>

(* Mutant: closing leaves the breach flag and the clock set. *)
CloseKeepsMarks(lender, l) ==
    LET line      == lines[l]
        record    == liquidation[l]
        recovered == CollateralValue(record.seized_units, record.price, 0)
        Excess(x, y) == IF x > y THEN x - y ELSE 0
        surplus   == Excess(recovered, record.debt)
    IN  /\ line.status = "Liquidating"
        /\ line.lender = lender
        /\ surplus > 0 => Configured(line.asset)
        /\ WriteLine(l, [line EXCEPT !.funded = @ - line.drawn, !.drawn = 0,
                                     !.accrued_interest = 0, !.pledged_units = 0,
                                     !.margin_state = "Healthy", !.status = "Closed"])
        /\ liquidation' = [liquidation EXCEPT ![l] =
               [record EXCEPT !.closed = TRUE, !.recovered = recovered, !.surplus = surplus,
                              !.shortfall = Excess(record.debt, recovered)]]
        /\ UNCHANGED <<ledger, price, assetConfig, nextLineId, claimable, pool>>

(* Mutant: the shortfall is taken from the live principal, not the frozen  *)
(* debt.                                                                   *)
CloseShortOfPrincipal(lender, l) ==
    LET line      == lines[l]
        record    == liquidation[l]
        recovered == CollateralValue(record.seized_units, record.price, 0)
        Excess(x, y) == IF x > y THEN x - y ELSE 0
        surplus   == Excess(recovered, record.debt)
    IN  /\ line.status = "Liquidating"
        /\ line.lender = lender
        /\ surplus > 0 => Configured(line.asset)
        /\ WriteLine(l, [line EXCEPT !.funded = @ - line.drawn, !.drawn = 0,
                                     !.accrued_interest = 0, !.pledged_units = 0,
                                     !.margin_state = "Healthy", !.breach_ledger = None,
                                     !.unhealthy_since = None, !.status = "Closed"])
        /\ liquidation' = [liquidation EXCEPT ![l] =
               [record EXCEPT !.closed = TRUE, !.recovered = recovered, !.surplus = surplus,
                              !.shortfall = Excess(line.drawn, recovered)]]
        /\ UNCHANGED <<ledger, price, assetConfig, nextLineId, claimable, pool>>

(* Mutant: the loss is not written off the commitment. *)
CloseNoWriteOff(lender, l) ==
    LET line      == lines[l]
        record    == liquidation[l]
        recovered == CollateralValue(record.seized_units, record.price, 0)
        Excess(x, y) == IF x > y THEN x - y ELSE 0
        surplus   == Excess(recovered, record.debt)
    IN  /\ line.status = "Liquidating"
        /\ line.lender = lender
        /\ surplus > 0 => Configured(line.asset)
        /\ WriteLine(l, [line EXCEPT !.drawn = 0,
                                     !.accrued_interest = 0, !.pledged_units = 0,
                                     !.margin_state = "Healthy", !.breach_ledger = None,
                                     !.unhealthy_since = None, !.status = "Closed"])
        /\ liquidation' = [liquidation EXCEPT ![l] =
               [record EXCEPT !.closed = TRUE, !.recovered = recovered, !.surplus = surplus,
                              !.shortfall = Excess(record.debt, recovered)]]
        /\ UNCHANGED <<ledger, price, assetConfig, nextLineId, claimable, pool>>

(* The surplus goes from the lender's wallet to the borrower's: no pool.   *)
CloseLiquidated(lender, l) ==
    LET line      == lines[l]
        record    == liquidation[l]
        recovered == CollateralValue(record.seized_units, record.price, 0)
        Excess(x, y) == IF x > y THEN x - y ELSE 0
        surplus   == Excess(recovered, record.debt)
    IN  /\ line.status = "Liquidating"
        /\ line.lender = lender
        /\ surplus > 0 => Configured(line.asset)
        /\ WriteLine(l, [line EXCEPT !.funded = @ - line.drawn, !.drawn = 0,
                                     !.accrued_interest = 0, !.pledged_units = 0,
                                     !.margin_state = "Healthy", !.breach_ledger = None,
                                     !.unhealthy_since = None, !.status = "Closed"])
        /\ liquidation' = [liquidation EXCEPT ![l] =
               [record EXCEPT !.closed = TRUE, !.recovered = recovered, !.surplus = surplus,
                              !.shortfall = Excess(record.debt, recovered)]]
        /\ UNCHANGED <<ledger, price, assetConfig, nextLineId, claimable, pool>>

WithdrawUndrawn(lender, l, amount) ==
    /\ Exists(l)
    /\ lines[l].lender = lender
    /\ amount <= lines[l].funded - lines[l].drawn
    /\ Configured(lines[l].asset)
    /\ WriteLine(l, [lines[l] EXCEPT !.funded = @ - amount])
    /\ pool' = pool - amount
    /\ UNCHANGED <<ledger, price, assetConfig, nextLineId, claimable, liquidation>>

WithdrawInterest(lender, l, amount) ==
    /\ Exists(l)
    /\ lines[l].lender = lender
    /\ amount <= claimable[l]
    /\ Configured(lines[l].asset)
    /\ claimable' = [claimable EXCEPT ![l] = @ - amount]
    /\ pool' = pool - amount
    /\ UNCHANGED <<ledger, price, assetConfig, nextLineId, lines, liquidation>>

-----------------------------------------------------------------------------
(* The environment *)

(* A ledger closes; every transaction in a ledger sees the same clock. *)
CloseLedger(seconds) ==
    /\ ledger.sequence < MaxLedger
    /\ ledger' = [sequence |-> ledger.sequence + 1, timestamp |-> now + seconds]
    /\ UNCHANGED <<price, assetConfig, nextLineId, lines, claimable, liquidation, pool>>

(* The price guard's answer changes: a publisher published, a source aged. *)
PriceMoves(a, reading) ==
    /\ reading # price[a]
    /\ price' = [price EXCEPT ![a] = reading]
    /\ UNCHANGED <<ledger, assetConfig, nextLineId, lines, claimable, liquidation, pool>>

-----------------------------------------------------------------------------
(* Every call but the two that set the collateral figure, which depend on  *)
(* who calls them.                                                         *)
LineCall(l) ==
    \/ \E lender, borrower \in Party, a \in Asset, limit \in Limits, rate \in Rates :
           Open(l, lender, borrower, a, limit, rate)
    \/ \E p \in Party, amount \in Amounts :
           \/ Fund(p, l, amount)
           \/ Draw(p, l, amount)
           \/ WithdrawUndrawn(p, l, amount)
           \/ WithdrawInterest(p, l, amount)
    \/ \E amount \in Amounts : Repay(l, amount)
    \/ Poke(l)
    \/ Liquidate(l)
    \/ \E p \in Party : CloseLiquidated(p, l)

Environment ==
    \/ \E a \in Asset, config \in Configs : ConfigureAsset(a, config)
    \/ \E a \in Asset, reading \in PriceReadings : PriceMoves(a, reading)
    \/ \E seconds \in CloseSeconds : CloseLedger(seconds)

Next ==
    \/ \E l \in LineId :
           \/ LineCall(l)
           \/ \E a \in Asset, units \in Units : SyncFromVault(l, a, units)
           \/ \E units \in Units : SyncCollateral(l, units)
    \/ Environment

Spec == Init /\ [][Next]_vars

-----------------------------------------------------------------------------
(* Properties *)

(* The stored state has the shape the contract types declare. *)
TypeOK ==
    /\ ledger \in [sequence : Nat, timestamp : Nat]
    /\ price \in [Asset -> PriceReadings]
    /\ assetConfig \in [Asset -> AssetConfig \cup {None}]
    /\ nextLineId \in Nat
    /\ lines \in [LineId -> Line]
    /\ claimable \in [LineId -> Nat]
    /\ liquidation \in [LineId -> LiquidationRecord \cup {None}]
    /\ pool \in Int

(* draw, repay, withdraw_undrawn and close_liquidated in any order leave a *)
(* line's principal within what its lender still has committed and within  *)
(* its limit: the contract is never over-lent.                             *)
NeverOverLent ==
    \A l \in LineId : lines[l].drawn <= lines[l].funded /\ lines[l].drawn <= lines[l].limit

(* A liquidation record exists exactly for the lines liquidate has moved   *)
(* out of Open, and is closed exactly when close_liquidated has closed the *)
(* line.  A closed line owes nothing and stays healthy and unarmed,        *)
(* whatever repay, poke and the syncs do to it afterwards.                 *)
LiquidationLifecycle ==
    \A l \in LineId :
        LET line == lines[l] record == liquidation[l]
        IN  /\ (record # None) <=> (line.status \in {"Liquidating", "Closed"})
            /\ record # None => (record.closed <=> line.status = "Closed")
            /\ line.status = "Closed" =>
                   /\ line.drawn = 0 /\ line.accrued_interest = 0
                   /\ line.margin_state = "Healthy"
                   /\ line.breach_ledger = None /\ line.unhealthy_since = None

(* A line armed for liquidation carries the start of its cure window: both *)
(* marks were set by some poke, at a ledger that has already closed or is  *)
(* closing, and clearing one never leaves the other behind.                *)
ArmedLineHasClock ==
    \A l \in LineId :
        lines[l].breach_ledger # None =>
            /\ lines[l].breach_ledger <= ledger.sequence
            /\ lines[l].unhealthy_since # None
            /\ lines[l].unhealthy_since <= now

(* What every step keeps of one line and its record, and the strengthening *)
(* that makes the invariants above inductive: interest is never accrued    *)
(* ahead of the clock, marks are never in the future, a line that was not  *)
(* opened is blank, one that was has a real asset.                         *)
LineSound(line, record) ==
    /\ line \in Line
    /\ record \in LiquidationRecord \cup {None}
    /\ line.drawn <= line.funded
    /\ line.drawn <= line.limit
    /\ line.last_accrual_ts <= now
    /\ line.unhealthy_since # None => line.unhealthy_since <= now
    /\ line.breach_ledger # None =>
           line.breach_ledger <= ledger.sequence /\ line.unhealthy_since # None
    /\ line.status = "Unopened" => line = NoLine
    /\ line.status # "Unopened" => line.asset \in Asset
    /\ (record # None) <=> (line.status \in {"Liquidating", "Closed"})
    /\ record # None => (record.closed <=> line.status = "Closed")
    /\ line.status = "Closed" =>
           /\ line.drawn = 0 /\ line.accrued_interest = 0
           /\ line.margin_state = "Healthy"
           /\ line.breach_ledger = None /\ line.unhealthy_since = None

(* The outcome close_liquidated books splits the recovered value exactly:  *)
(* the surplus handed to the borrower and the lender's shortfall reconcile *)
(* it with the frozen debt, and at most one of them is non-zero.           *)
OutcomeReconciles ==
    \A l \in LineId :
        LET r == liquidation[l]
        IN  r # None =>
                IF r.closed
                THEN /\ r.recovered - r.debt = r.surplus - r.shortfall
                     /\ r.surplus = 0 \/ r.shortfall = 0
                ELSE r.recovered = 0 /\ r.surplus = 0 /\ r.shortfall = 0

(* The inductive invariant: every line sound, lines opened in id order,    *)
(* and every configured asset with validated thresholds, which is what     *)
(* makes a line that owes nothing Healthy.                                 *)
IndInv ==
    /\ TypeOK
    /\ \A l \in LineId : LineSound(lines[l], liquidation[l])
    /\ \A l \in LineId : l >= nextLineId => lines[l].status = "Unopened"
    /\ \A a \in Asset : Configured(a) => ValidThresholds(assetConfig[a].thresholds)

Undrawn(l) == lines[l].funded - lines[l].drawn

(* What the lender of each line can take out. *)
Withdrawable == [l \in LineId |-> Undrawn(l) + claimable[l]]

(* The USDC at the contract's address is exactly what its lenders can take *)
(* out: the undrawn balance of every line plus the interest repaid on it.  *)
(* No call strands USDC or pays one line's lender with another's.          *)
UsdcBacked ==
    pool = SumFunctionOnSet(Withdrawable, LineId)

(* No call moves the cash of two lines, and the contract's balance moves   *)
(* by exactly what the one line it is about can account for.               *)
OneLinePerCall ==
    [][\/ \E l \in LineId :
              /\ pool' - pool = (Undrawn(l)' + claimable'[l]) - (Undrawn(l) + claimable[l])
              /\ \A k \in LineId \ {l} :
                     Undrawn(k)' = Undrawn(k) /\ claimable'[k] = claimable[k]
       \/ UNCHANGED <<pool, lines, claimable>>]_vars

(* What a borrower owes changes, apart from the passing of time and the    *)
(* write-off in close_liquidated, only against the same amount of USDC     *)
(* through the contract: a draw pays out what it adds, a repay takes in    *)
(* what it removes, and bringing interest up to date changes nothing.      *)
DebtMovesWithCash ==
    [][\A l \in LineId :
           \/ ledger' # ledger
           \/ DebtOf(lines'[l], now') = DebtOf(lines[l], now)
           \/ DebtOf(lines'[l], now') - DebtOf(lines[l], now) = pool - pool'
           \/ lines[l].status = "Liquidating" /\ lines'[l].status = "Closed"]_vars

(* Once written, the terms of a liquidation (units, price, debt) never     *)
(* change and never vanish, whatever repay, poke and the syncs do to the   *)
(* line meanwhile, and a closed record never changes at all.               *)
LiquidationFrozen ==
    [][\A l \in LineId :
           LET r == liquidation[l]
           IN  r # None =>
                   /\ liquidation'[l] # None
                   /\ liquidation'[l].seized_units = r.seized_units
                   /\ liquidation'[l].price = r.price
                   /\ liquidation'[l].debt = r.debt
                   /\ r.closed => liquidation'[l] = r]_vars

(* Two reads before a liquidation: the last state recorded for the line,   *)
(* before the read liquidate itself takes, was not Healthy.                *)
OneReadNeverLiquidates ==
    [][\A l \in LineId :
           (lines[l].status = "Open" /\ lines'[l].status = "Liquidating")
               => lines[l].margin_state # "Healthy"]_vars
=============================================================================
