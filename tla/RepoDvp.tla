------------------------------ MODULE RepoDvp -------------------------------
(***************************************************************************)
(* contracts/repo-dvp: repo trades of RWA units against USDC.  One action  *)
(* is one contract call; a call that panics changes nothing, so its        *)
(* asserts are guards.                                                     *)
(*                                                                         *)
(* Wallet balances are not tracked: a transfer that lacks funds is a call  *)
(* that panics.  rwa is each holder's net movement of tokens.  USDC        *)
(* allowances are tracked, since the two cash legs depend on them.  Ledger *)
(* close times are taken as exact (SECONDS_PER_LEDGER).  Left out: roles   *)
(* (the keeper is one fixed address), kind, agreement_hash, leg1_ledger    *)
(* (stored, never read), events, storage TTLs.                             *)
(***************************************************************************)
EXTENDS Risk, FiniteSetsExt

CONSTANTS
    Lenders,                          \* addresses that propose
    Borrowers,                        \* addresses that are proposed to
    Contract,                         \* the contract's own address
    Asset,                            \* RWA tokens
    None,                             \* Rust's Option::None
    SECONDS_PER_YEAR,                 \* 31_536_000 in the code
    SECONDS_PER_LEDGER,               \* 5 in the code
    UNWIND_ALLOWANCE_GRACE_LEDGERS,   \* 120_960 in the code
    ALLOWANCE_EXPIRY_BUCKET_LEDGERS,  \* 17_280 in the code
    MaxTtl,                           \* env.storage().max_ttl()
    MIN_GRACE_SECONDS,                \* 60 in the code, for both grace periods
    DEFAULT_GRACE_SECONDS,            \* 24 hours in the code, for both
    TIMELOCK_DELAY_SECONDS,           \* 48 hours in the code
    Terms,                            \* what a lender may propose
    TopUps,                           \* units a top-up may name
    Scopes,                           \* scopes the pauser and the admin may name
    Graces,                           \* grace periods the admin may set
    Configs,                          \* RepoAssetConfig records the admin may set
    PriceReadings,                    \* what the price guard may answer
    MaxIds,                           \* bound: trades and unpauses ever numbered
    MaxUnits,                         \* bound: units pledged to one trade
    MaxLedger                         \* bound: ledgers closed

Party == Lenders \cup Borrowers

Holder == Party \cup {Contract}

RepoAssetConfig == [haircut_bps : Nat, thresholds : MarginThresholds]

GuardedPrice == [value : Nat, status : PriceStatuses]

RepoTerms == [asset : Asset, units : Nat, cash_amount : Nat, rate_bps : Nat, maturity_at : Nat]

RepoStatus == {"Proposed", "Settled", "Unwound", "Defaulted", "Cancelled"}

RepoTrade ==
    [lender : Party, borrower : Party, asset : Asset, units : Nat, cash_amount : Nat,
     rate_bps : Nat, maturity_at : Nat, proposed_at : Nat, status : RepoStatus,
     settled_at : Nat \cup {None}, pending_margin_call : BOOLEAN,
     margin_call_amount : Nat, cure_deadline : Nat \cup {None}]

(* The scopes this contract reads; setting any other has no effect here. *)
PauseScope == {"Repos", "All"}

PendingUnpause == [scope : PauseScope, executes_at : Nat]

(* timelock::next_id numbers trades and queued unpauses alike. *)
Id == 0 .. (MaxIds - 1)

ASSUME RepoAssumption ==
    /\ Contract \notin Party
    /\ None \notin Nat
    /\ None \notin RepoTrade
    /\ None \notin PendingUnpause
    /\ None \notin RepoAssetConfig
    /\ SECONDS_PER_YEAR \in Nat \ {0}
    /\ SECONDS_PER_LEDGER \in Nat \ {0}
    /\ UNWIND_ALLOWANCE_GRACE_LEDGERS \in Nat
    /\ ALLOWANCE_EXPIRY_BUCKET_LEDGERS \in Nat \ {0}
    /\ MaxTtl \in Nat
    /\ MaxTtl > ALLOWANCE_EXPIRY_BUCKET_LEDGERS
    /\ MIN_GRACE_SECONDS \in Nat
    /\ DEFAULT_GRACE_SECONDS \in Nat
    /\ DEFAULT_GRACE_SECONDS >= MIN_GRACE_SECONDS
    /\ TIMELOCK_DELAY_SECONDS \in Nat
    /\ Terms \subseteq RepoTerms
    /\ TopUps \subseteq Nat
    /\ Scopes \subseteq PauseScope
    /\ Graces \subseteq Nat
    /\ Configs \subseteq RepoAssetConfig
    /\ PriceReadings \subseteq GuardedPrice
    /\ MaxIds \in Nat
    /\ MaxUnits \in Nat
    /\ MaxLedger \in Nat

VARIABLES
    sequence,        \* env.ledger().sequence()
    price,           \* the answer PriceGuard::guarded_price gives, per asset
    assetConfig,     \* DataKey::AssetConfig
    assetDisabled,   \* DataKey::AssetDisabled
    cureGrace,       \* DataKey::CureGrace
    maturityGrace,   \* DataKey::MaturityGrace
    paused,          \* the scopes whose PauseDataKey::Paused flag is set
    pendingUnpause,  \* DataKey::PendingUnpause
    nextId,          \* TimelockDataKey::NextId
    trades,          \* DataKey::Trade
    latestProposal,  \* DataKey::LatestProposal
    borrowerDue,     \* DataKey::BorrowerDue and BorrowerDueExpiry
    allowance,       \* USDC allowance each party grants the contract
    rwa              \* RWA tokens moved to each holder, per asset

settingVars == <<assetConfig, assetDisabled, cureGrace, maturityGrace>>
pauseVars == <<paused, pendingUnpause>>
tradeVars == <<trades, latestProposal, borrowerDue, allowance, rwa>>
repoVars == <<sequence, price, settingVars, pauseVars, nextId, tradeVars>>

NoGrant == [amount |-> 0, live_until |-> 0]

RepoInit ==
    /\ sequence = 0
    /\ price \in [Asset -> PriceReadings]
    /\ assetConfig = [a \in Asset |-> None]
    /\ assetDisabled = [a \in Asset |-> FALSE]
    /\ cureGrace = DEFAULT_GRACE_SECONDS
    /\ maturityGrace = DEFAULT_GRACE_SECONDS
    /\ paused = {}
    /\ pendingUnpause = [id \in Id |-> None]
    /\ nextId = 0
    /\ trades = [id \in Id |-> None]
    /\ latestProposal = [p \in Party |-> None]
    /\ borrowerDue = [p \in Party |-> NoGrant]
    /\ allowance = [p \in Party |-> NoGrant]
    /\ rwa = [a \in Asset |-> [h \in Holder |-> 0]]

-----------------------------------------------------------------------------
(* Reads *)

now == sequence * SECONDS_PER_LEDGER

IsPaused(scope) == {"All", scope} \cap paused # {}

HasStatus(id, status) == trades[id] # None /\ trades[id].status = status

(* accrue_interest: simple interest, truncated twice. *)
AccrueInterest(cash_amount, rate_bps, elapsed) ==
    ((cash_amount * rate_bps * elapsed) \div SECONDS_PER_YEAR) \div BPS_DENOMINATOR

Elapsed(from, to) == IF to > from THEN to - from ELSE 0

(* total_due: principal plus interest from `from` to maturity. *)
TotalDue(t, from) ==
    t.cash_amount + AccrueInterest(t.cash_amount, t.rate_bps, Elapsed(from, t.maturity_at))

(* What leg 2 can owe at most, and what it does owe. *)
Ceiling(t) == TotalDue(t, t.proposed_at)

Due(t) == TotalDue(t, t.settled_at)

(* Principal plus interest up to this ledger, whether past maturity or not. *)
Exposure(t) ==
    t.cash_amount + AccrueInterest(t.cash_amount, t.rate_bps, Elapsed(t.settled_at, now))

PriceOk(a) == price[a].status = "Ok"

ValueOf(t) ==
    CollateralValue(t.units, price[t.asset].value, assetConfig[t.asset].haircut_bps)

(* evaluate_margin, for a price that is Ok. *)
InCallBand(t) ==
    Classify(LtvBps(Exposure(t), ValueOf(t)), assetConfig[t.asset].thresholds)
        \in {"MarginCall", "Liquidation"}

(* allowance_expiry: rounded up to a bucket, capped at what the host takes. *)
AllowanceExpiry(seconds_ahead, grace_ledgers) ==
    LET Bucketed(n) == n * ALLOWANCE_EXPIRY_BUCKET_LEDGERS
        earliest == sequence + seconds_ahead \div SECONDS_PER_LEDGER + grace_ledgers
        bucketed == Bucketed(earliest \div ALLOWANCE_EXPIRY_BUCKET_LEDGERS + 2)
        furthest == Bucketed((sequence + MaxTtl - 1) \div ALLOWANCE_EXPIRY_BUCKET_LEDGERS)
    IN  IF bucketed <= furthest THEN bucketed ELSE furthest

Larger(x, y) == IF x >= y THEN x ELSE y

(* The token's side of approve and transfer_from: a grant replaces the one *)
(* before it, and an expired one is worth nothing.                         *)
Approve(p, grant) == allowance' = [allowance EXCEPT ![p] = grant]

Spendable(p) == IF sequence <= allowance[p].live_until THEN allowance[p].amount ELSE 0

(* The token's transfer, on the holders' movements r. *)
Transfer(r, a, from, to, units) ==
    [r EXCEPT ![a] = [h \in Holder |-> r[a][h] - (IF h = from THEN units ELSE 0)
                                              + (IF h = to THEN units ELSE 0)]]

Move(a, from, to, units) == rwa' = Transfer(rwa, a, from, to, units)

WriteTrade(id, t) == trades' = [trades EXCEPT ![id] = t]

(* write_borrower_due: a sum of zero removes the expiry with it. *)
DueRecord(due, expiry) ==
    IF due > 0 THEN [amount |-> due, live_until |-> expiry] ELSE NoGrant

ReleaseBorrowerDue(t) ==
    borrowerDue' = [borrowerDue EXCEPT ![t.borrower] =
        DueRecord(Larger(@.amount - Ceiling(t), 0), @.live_until)]

ClearMarginCall(t) ==
    [t EXCEPT !.pending_margin_call = FALSE, !.margin_call_amount = 0,
              !.cure_deadline = None]

-----------------------------------------------------------------------------
(* The admin's and the pauser's calls *)

SetCureGrace(seconds) ==
    /\ seconds >= MIN_GRACE_SECONDS
    /\ cureGrace' = seconds
    /\ UNCHANGED <<sequence, price, assetConfig, assetDisabled, maturityGrace, pauseVars,
                   nextId, tradeVars>>

SetMaturityGrace(seconds) ==
    /\ seconds >= MIN_GRACE_SECONDS
    /\ maturityGrace' = seconds
    /\ UNCHANGED <<sequence, price, assetConfig, assetDisabled, cureGrace, pauseVars,
                   nextId, tradeVars>>

ConfigureAsset(a, config) ==
    /\ HaircutUsable(config.haircut_bps)
    /\ ValidThresholds(config.thresholds)
    /\ assetConfig' = [assetConfig EXCEPT ![a] = config]
    /\ UNCHANGED <<sequence, price, assetDisabled, cureGrace, maturityGrace, pauseVars,
                   nextId, tradeVars>>

(* disable_asset and enable_asset. *)
SetAssetDisabled(a, disabled) ==
    /\ assetConfig[a] # None
    /\ assetDisabled' = [assetDisabled EXCEPT ![a] = disabled]
    /\ UNCHANGED <<sequence, price, assetConfig, cureGrace, maturityGrace, pauseVars,
                   nextId, tradeVars>>

Pause(scope) ==
    /\ paused' = paused \cup {scope}
    /\ UNCHANGED <<sequence, price, settingVars, pendingUnpause, nextId, tradeVars>>

QueueUnpause(scope) ==
    /\ nextId \in Id
    /\ pendingUnpause' = [pendingUnpause EXCEPT ![nextId] =
           [scope |-> scope, executes_at |-> now + TIMELOCK_DELAY_SECONDS]]
    /\ nextId' = nextId + 1
    /\ UNCHANGED <<sequence, price, settingVars, paused, tradeVars>>

CancelUnpause(id) ==
    /\ pendingUnpause[id] # None
    /\ pendingUnpause' = [pendingUnpause EXCEPT ![id] = None]
    /\ UNCHANGED <<sequence, price, settingVars, paused, nextId, tradeVars>>

ExecuteUnpause(id) ==
    /\ pendingUnpause[id] # None
    /\ now >= pendingUnpause[id].executes_at
    /\ paused' = paused \ {pendingUnpause[id].scope}
    /\ pendingUnpause' = [pendingUnpause EXCEPT ![id] = None]
    /\ UNCHANGED <<sequence, price, settingVars, nextId, tradeVars>>

-----------------------------------------------------------------------------
(* The life of a trade *)

(* Not pause-gated.  The lender signs here, so leg 1 is approved here. *)
Propose(lender, borrower, terms) ==
    /\ nextId \in Id
    /\ ~assetDisabled[terms.asset]
    /\ terms.units > 0
    /\ terms.units <= MaxUnits
    /\ terms.cash_amount > 0
    /\ terms.maturity_at > now
    /\ assetConfig[terms.asset] # None
    /\ Approve(lender, [amount |-> terms.cash_amount,
                        live_until |-> AllowanceExpiry(terms.maturity_at - now, 0)])
    /\ latestProposal' = [latestProposal EXCEPT ![lender] = nextId]
    /\ WriteTrade(nextId,
           [lender |-> lender, borrower |-> borrower, asset |-> terms.asset,
            units |-> terms.units, cash_amount |-> terms.cash_amount,
            rate_bps |-> terms.rate_bps, maturity_at |-> terms.maturity_at,
            proposed_at |-> now, status |-> "Proposed", settled_at |-> None,
            pending_margin_call |-> FALSE, margin_call_amount |-> 0,
            cure_deadline |-> None])
    /\ nextId' = nextId + 1
    /\ UNCHANGED <<sequence, price, settingVars, pauseVars, borrowerDue, rwa>>

(* Only the lender can take the allowance back, and only while no later    *)
(* proposal relies on it.                                                  *)
CancelProposal(caller, id) ==
    LET t == trades[id]
    IN  /\ HasStatus(id, "Proposed")
        /\ caller \in {t.lender, t.borrower}
        /\ IF caller = t.lender /\ latestProposal[t.lender] = id
           THEN Approve(t.lender, [amount |-> 0, live_until |-> AllowanceExpiry(0, 0)])
           ELSE UNCHANGED allowance
        /\ WriteTrade(id, [t EXCEPT !.status = "Cancelled"])
        /\ UNCHANGED <<sequence, price, settingVars, pauseVars, nextId, latestProposal,
                       borrowerDue, rwa>>

(* The allowances after leg 1 spent the lender's and the borrower granted  *)
(* `grant`: two token calls on what may be one wallet.                     *)
SpendThenApprove(lender, amount, borrower, grant) ==
    allowance' = [[allowance EXCEPT ![lender].amount = @ - amount] EXCEPT ![borrower] = grant]

(* Mutant: only this trade's ceiling is approved, not the borrower's sum. *)
LegTwoGrantOwnOnly(borrower, t) ==
    [amount |-> Ceiling(t),
     live_until |-> Larger(AllowanceExpiry(Elapsed(now, t.maturity_at),
                                           UNWIND_ALLOWANCE_GRACE_LEDGERS),
                           borrowerDue[borrower].live_until)]

(* What the borrower approves at settlement: the sum of its ceilings, for  *)
(* as long as any of its trades needs it.                                  *)
LegTwoGrant(borrower, t) ==
    [amount |-> borrowerDue[borrower].amount + Ceiling(t),
     live_until |-> Larger(AllowanceExpiry(Elapsed(now, t.maturity_at),
                                           UNWIND_ALLOWANCE_GRACE_LEDGERS),
                           borrowerDue[borrower].live_until)]

StillOpen(t) == t.status = "Proposed" /\ now < t.maturity_at

(* Leg 1: units into the contract, cash from the lender's allowance, and   *)
(* the borrower approves leg 2.                                            *)
AcceptAndSettle(borrower, id) ==
    LET t     == trades[id]
        grant == LegTwoGrant(borrower, t)
    IN  /\ ~IsPaused("Repos")
        /\ t # None
        /\ StillOpen(t)
        /\ ~assetDisabled[t.asset]
        /\ t.borrower = borrower
        /\ assetConfig[t.asset] # None
        /\ Move(t.asset, borrower, Contract, t.units)
        /\ t.cash_amount <= Spendable(t.lender)
        /\ SpendThenApprove(t.lender, t.cash_amount, borrower, grant)
        /\ borrowerDue' = [borrowerDue EXCEPT ![borrower] =
               DueRecord(grant.amount, grant.live_until)]
        /\ WriteTrade(id, [t EXCEPT !.status = "Settled", !.settled_at = now])
        /\ UNCHANGED <<sequence, price, settingVars, pauseVars, nextId, latestProposal>>

(* Leg 2.  The borrower pays from its wallet; anyone else (the lender or   *)
(* the keeper) spends the borrower's allowance.                            *)
Unwind(byBorrower, id) ==
    LET t == trades[id]
    IN  /\ HasStatus(id, "Settled")
        /\ now >= t.maturity_at
        /\ \/ byBorrower /\ UNCHANGED allowance
           \/ /\ ~byBorrower
              /\ Due(t) <= Spendable(t.borrower)
              /\ allowance' = [allowance EXCEPT ![t.borrower].amount = @ - Due(t)]
        /\ Move(t.asset, Contract, t.borrower, t.units)
        /\ WriteTrade(id, [t EXCEPT !.status = "Unwound"])
        /\ ReleaseBorrowerDue(t)
        /\ UNCHANGED <<sequence, price, settingVars, pauseVars, nextId, latestProposal>>

(* The collateral value missing to the margin-call threshold. *)
MarginCallAmount(t) ==
    Larger((Exposure(t) * BPS_DENOMINATOR)
               \div assetConfig[t.asset].thresholds.margin_call_bps - ValueOf(t), 0)

(* Mutant: a repeated call restarts the cure window. *)
CureDeadlineRestarted(t) == now + cureGrace

(* A call that is already open keeps the deadline it was given. *)
CureDeadline(t) == IF t.pending_margin_call THEN t.cure_deadline ELSE now + cureGrace

(* Keeper only: opens a call, refreshes the amount of an open one, or      *)
(* clears one the price has cured.                                         *)
CallMargin(id) ==
    LET t == trades[id]
    IN  /\ HasStatus(id, "Settled")
        /\ PriceOk(t.asset)
        /\ \/ /\ InCallBand(t)
              /\ WriteTrade(id, [t EXCEPT
                     !.margin_call_amount = MarginCallAmount(t),
                     !.pending_margin_call = TRUE,
                     !.cure_deadline = CureDeadline(t)])
           \/ /\ ~InCallBand(t)
              /\ t.pending_margin_call
              /\ WriteTrade(id, ClearMarginCall(t))
        /\ UNCHANGED <<sequence, price, settingVars, pauseVars, nextId, latestProposal,
                       borrowerDue, allowance, rwa>>

(* The borrower adds units; an open call is cleared in the same call if    *)
(* the price can be used and the position is back under the band.          *)
TopUp(id, extra) ==
    LET t == [trades[id] EXCEPT !.units = @ + extra]
    IN  /\ extra > 0
        /\ HasStatus(id, "Settled")
        /\ t.units <= MaxUnits
        /\ Move(t.asset, t.borrower, Contract, extra)
        /\ WriteTrade(id, IF t.pending_margin_call /\ PriceOk(t.asset) /\ ~InCallBand(t)
                          THEN ClearMarginCall(t) ELSE t)
        /\ UNCHANGED <<sequence, price, settingVars, pauseVars, nextId, latestProposal,
                       borrowerDue, allowance>>

(* Mutant: the division is rounded down. *)
LenderUnitsRoundedDown(owed, guarded_price, units) ==
    LET owedUnits == (owed * PRICE_SCALE) \div guarded_price
    IN  IF owedUnits <= units THEN owedUnits ELSE units

(* The units worth `owed`, rounded up, capped at what is pledged. *)
LenderUnits(owed, guarded_price, units) ==
    LET owedUnits == (owed * PRICE_SCALE + (guarded_price - 1)) \div guarded_price
    IN  IF owedUnits <= units THEN owedUnits ELSE units

(* Mutant: what the lender may not keep stays in the contract. *)
SplitForgetsBorrower(t, owed) ==
    LET toLender == LenderUnits(owed, price[t.asset].value, t.units)
    IN  Move(t.asset, Contract, t.lender, toLender)

(* The pledged units are split between the lender and the borrower. *)
SplitUnits(t, owed) ==
    LET toLender == LenderUnits(owed, price[t.asset].value, t.units)
    IN  rwa' = Transfer(Transfer(rwa, t.asset, Contract, t.lender, toLender),
                        t.asset, Contract, t.borrower, t.units - toLender)

(* Keeper only: the cure window is over and the position is still bad. *)
DefaultClose(id) ==
    LET t == trades[id]
    IN  /\ HasStatus(id, "Settled")
        /\ t.pending_margin_call
        /\ now >= t.cure_deadline
        /\ PriceOk(t.asset)
        /\ InCallBand(t)
        /\ price[t.asset].value > 0
        /\ SplitUnits(t, Exposure(t))
        /\ WriteTrade(id, [t EXCEPT !.status = "Defaulted"])
        /\ ReleaseBorrowerDue(t)
        /\ UNCHANGED <<sequence, price, settingVars, pauseVars, nextId, latestProposal,
                       allowance>>

(* Mutant: the grace past maturity is not waited for. *)
DefaultAfterMaturity(t) == t.maturity_at

DefaultAfter(t) == t.maturity_at + maturityGrace

(* The lender or the keeper, for a trade left unpaid.  The borrower's due  *)
(* is not released here.                                                   *)
DefaultAtMaturity(id) ==
    LET t == trades[id]
    IN  /\ HasStatus(id, "Settled")
        /\ now >= DefaultAfter(t)
        /\ PriceOk(t.asset)
        /\ price[t.asset].value > 0
        /\ SplitUnits(t, Due(t))
        /\ WriteTrade(id, [t EXCEPT !.status = "Defaulted"])
        /\ UNCHANGED <<sequence, price, settingVars, pauseVars, nextId, latestProposal,
                       borrowerDue, allowance>>

-----------------------------------------------------------------------------
(* A ledger closes. *)
CloseLedger ==
    /\ sequence < MaxLedger
    /\ sequence' = sequence + 1
    /\ UNCHANGED <<price, settingVars, pauseVars, nextId, tradeVars>>

(* The price guard's answer changes. *)
PriceMoves(a, reading) ==
    /\ price' = [price EXCEPT ![a] = reading]
    /\ UNCHANGED <<sequence, settingVars, pauseVars, nextId, tradeVars>>

TradeCall(id) ==
    \/ \E p \in Party : CancelProposal(p, id) \/ AcceptAndSettle(p, id)
    \/ \E byBorrower \in BOOLEAN : Unwind(byBorrower, id)
    \/ CallMargin(id)
    \/ \E extra \in TopUps : TopUp(id, extra)
    \/ DefaultClose(id)
    \/ DefaultAtMaturity(id)

AdminCall ==
    \/ \E seconds \in Graces : SetCureGrace(seconds) \/ SetMaturityGrace(seconds)
    \/ \E a \in Asset, config \in Configs : ConfigureAsset(a, config)
    \/ \E a \in Asset, disabled \in BOOLEAN : SetAssetDisabled(a, disabled)
    \/ \E scope \in Scopes : Pause(scope) \/ QueueUnpause(scope)
    \/ \E id \in Id : CancelUnpause(id) \/ ExecuteUnpause(id)

RepoNext ==
    \/ \E l \in Lenders, b \in Borrowers, terms \in Terms : Propose(l, b, terms)
    \/ \E id \in Id : TradeCall(id)
    \/ AdminCall
    \/ CloseLedger
    \/ \E a \in Asset, reading \in PriceReadings : PriceMoves(a, reading)

RepoSpec == RepoInit /\ [][RepoNext]_repoVars

-----------------------------------------------------------------------------
(* Properties *)

Grant == [amount : Nat, live_until : Nat]

(* The stored state has the shape its types declare. *)
RepoTypeOK ==
    /\ sequence \in Nat
    /\ price \in [Asset -> GuardedPrice]
    /\ assetConfig \in [Asset -> RepoAssetConfig \cup {None}]
    /\ assetDisabled \in [Asset -> BOOLEAN]
    /\ cureGrace \in Nat /\ maturityGrace \in Nat
    /\ paused \in SUBSET PauseScope
    /\ pendingUnpause \in [Id -> PendingUnpause \cup {None}]
    /\ nextId \in 0 .. MaxIds
    /\ trades \in [Id -> RepoTrade \cup {None}]
    /\ latestProposal \in [Party -> Id \cup {None}]
    /\ borrowerDue \in [Party -> Grant]
    /\ allowance \in [Party -> Grant]
    /\ rwa \in [Asset -> [Holder -> Int]]

Live(id) == HasStatus(id, "Settled")

LiveOf(b) == {id \in Id : Live(id) /\ trades[id].borrower = b}

(* The units of an asset that the contract holds for each trade. *)
UnitsIn(a) ==
    [id \in Id |-> IF Live(id) /\ trades[id].asset = a THEN trades[id].units ELSE 0]

(* The contract holds exactly the units of the settled trades: no call     *)
(* pays one trade's units out of another's, and none are left behind.      *)
RepoEscrowBacked ==
    \A a \in Asset : rwa[a][Contract] = SumFunctionOnSet(UnitsIn(a), Id)

(* The allowance a trade asked for was not cut off at the host's limit. *)
WithinReach(t) ==
    (t.maturity_at - t.settled_at) \div SECONDS_PER_LEDGER + UNWIND_ALLOWANCE_GRACE_LEDGERS
        + 3 * ALLOWANCE_EXPIRY_BUCKET_LEDGERS <= MaxTtl

(* What a borrower owes under each of its settled trades. *)
OwedOf(b) == [id \in Id |-> IF id \in LiveOf(b) THEN Due(trades[id]) ELSE 0]

(* A grant outlives a trade's maturity by the grace of leg 2. *)
Outlasts(grant, t) ==
    grant.live_until * SECONDS_PER_LEDGER
        >= t.maturity_at + UNWIND_ALLOWANCE_GRACE_LEDGERS * SECONDS_PER_LEDGER

(* Leg 2 stays collectable without the borrower: until the grace after its *)
(* maturity is over, the borrower's allowance covers what all its settled  *)
(* trades together owe.                                                    *)
EveryTradeCollectable ==
    \A b \in Borrowers : \A id \in LiveOf(b) :
        WithinReach(trades[id]) =>
            /\ allowance[b].amount >= SumFunctionOnSet(OwedOf(b), Id)
            /\ Outlasts(allowance[b], trades[id])

TradeInOrder(t) ==
    /\ t.status \in {"Proposed", "Cancelled"} <=> t.settled_at = None
    /\ t.settled_at # None =>
           /\ t.proposed_at <= t.settled_at
           /\ t.settled_at < t.maturity_at
           /\ Due(t) <= Ceiling(t)
    /\ t.pending_margin_call <=> t.cure_deadline # None
    /\ t.pending_margin_call =>
           t.settled_at # None /\ t.cure_deadline >= t.settled_at + MIN_GRACE_SECONDS

(* What settles has terms in order, and a margin call is whole or absent:  *)
(* its deadline leaves at least the shortest cure window after settlement. *)
TradesInOrder == \A id \in Id : trades[id] # None => TradeInOrder(trades[id])

(* The inductive invariant: besides the two above, settings stay inside    *)
(* what their setters accept, a trade's asset stays configured, nothing    *)
(* was settled in the future, and numbers not yet given out are unused.    *)
RepoInv ==
    /\ RepoTypeOK
    /\ TradesInOrder
    /\ cureGrace >= MIN_GRACE_SECONDS /\ maturityGrace >= MIN_GRACE_SECONDS
    /\ \A a \in Asset : assetConfig[a] # None =>
           /\ HaircutUsable(assetConfig[a].haircut_bps)
           /\ ValidThresholds(assetConfig[a].thresholds)
    /\ \A id \in Id : trades[id] # None =>
           /\ id < nextId
           /\ pendingUnpause[id] = None
           /\ assetConfig[trades[id].asset] # None
           /\ trades[id].proposed_at <= now
           /\ trades[id].settled_at # None => trades[id].settled_at <= now
    /\ \A id \in Id : pendingUnpause[id] # None => id < nextId

(* While a call stays open its deadline stands, whatever the keeper calls  *)
(* and the admin sets, and it is never cleared on a price the guard does   *)
(* not stand behind.                                                       *)
CureDeadlineStands ==
    [][\A id \in Id :
           (trades[id] # None /\ trades[id].pending_margin_call) =>
               \/ trades'[id].cure_deadline = trades[id].cure_deadline
               \/ ~trades'[id].pending_margin_call /\ PriceOk(trades[id].asset)]_repoVars

Defaults(id) == Live(id) /\ HasStatus(id, "Defaulted")'

(* No default comes as a surprise: the borrower had the shortest cure      *)
(* window since settlement, or the shortest grace since maturity.          *)
NoSurpriseDefault ==
    [][\A id \in Id : Defaults(id) =>
           LET t == trades[id]
           IN  \/ t.pending_margin_call /\ now >= t.settled_at + MIN_GRACE_SECONDS
               \/ now >= t.maturity_at + MIN_GRACE_SECONDS]_repoVars

(* A stop is lifted one scope at a time, each time by using up an unpause  *)
(* that has waited out its timelock, and nothing settles under a stop.     *)
StopsHold ==
    [][/\ \A scope \in paused \ paused' :
              \E id \in Id :
                  /\ pendingUnpause[id] # None /\ pendingUnpause'[id] = None
                  /\ pendingUnpause[id].scope = scope
                  /\ now >= pendingUnpause[id].executes_at
       /\ \A s, r \in paused \ paused' : s = r
       /\ (\E id \in Id : HasStatus(id, "Proposed") /\ HasStatus(id, "Settled")')
              => paused = {}]_repoVars

(* A default splits the units fairly: what the lender gets covers what is  *)
(* owed or is all there is, one unit less would not have covered it, and   *)
(* the rest goes back to the borrower.                                     *)
FairSplit ==
    [][\A id \in Id : Defaults(id) /\ trades[id].lender # trades[id].borrower =>
           LET t    == trades[id]
               p    == price[t.asset].value
               Gain(h) == rwa'[t.asset][h] - rwa[t.asset][h]
           IN  /\ Gain(t.lender) + Gain(t.borrower) = t.units
               /\ \E owed \in {Exposure(t), Due(t)} :
                      /\ Gain(t.borrower) > 0 => Gain(t.lender) * p >= owed * PRICE_SCALE
                      /\ (Gain(t.lender) - 1) * p < owed * PRICE_SCALE]_repoVars

=============================================================================
