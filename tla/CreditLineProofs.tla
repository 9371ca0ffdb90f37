-------------------------- MODULE CreditLineProofs --------------------------
(***************************************************************************)
(* Proofs about CreditLine for every value of its constants.               *)
(***************************************************************************)
EXTENDS CreditLine, FiniteSums, TLAPS

-----------------------------------------------------------------------------
(* Arithmetic *)

(* Dividing a natural number by a positive one gives a natural number. *)
LEMMA DivNat ==
    ASSUME NEW m \in Nat, NEW n \in Nat \ {0}
    PROVE  m \div n \in Nat
    OBVIOUS

(* A product of natural numbers is one. *)
LEMMA MulNat ==
    ASSUME NEW m \in Nat, NEW n \in Nat
    PROVE  m * n \in Nat
    OBVIOUS

(* risk::collateral_value never returns a negative value. *)
LEMMA CollateralValueNat ==
    ASSUME NEW units \in Nat, NEW p \in Nat, NEW h \in Nat, HaircutUsable(h)
    PROVE  CollateralValue(units, p, h) \in Nat
<1>1. units * p \in Nat
    BY MulNat
<1>2. (units * p) \div PRICE_SCALE \in Nat
    BY <1>1, DivNat, RiskAssumption
<1>3. BPS_DENOMINATOR - h \in Nat
    BY RiskAssumption DEF HaircutUsable
<1>4. ((units * p) \div PRICE_SCALE) * (BPS_DENOMINATOR - h) \in Nat
    BY <1>2, <1>3, MulNat
<1>5. QED
    BY <1>4, DivNat, RiskAssumption DEF CollateralValue

(* margin::classify always names a margin state. *)
LEMMA ClassifyType ==
    ASSUME NEW x, NEW t
    PROVE  Classify(x, t) \in MarginStates
    BY DEF Classify, MarginStates

(* A line that owes nothing is Healthy, whatever its collateral is worth,  *)
(* because validate refuses a warning threshold of zero.                   *)
LEMMA NoDebtIsHealthy ==
    ASSUME NEW v, NEW t \in MarginThresholds, ValidThresholds(t)
    PROVE  Classify(LtvBps(0, v), t) = "Healthy"
<1>1. LtvBps(0, v) = 0
    BY DEF LtvBps
<1>2. 0 < t.warning_bps /\ 0 < t.margin_call_bps /\ 0 < t.liquidation_bps
    BY DEF ValidThresholds, MarginThresholds
<1>3. QED
    BY <1>1, <1>2 DEF Classify, MarginThresholds

(* interest_delta never returns a negative value. *)
LEMMA InterestNat ==
    ASSUME NEW line \in Line, NEW t \in Nat, line.last_accrual_ts <= t
    PROVE  InterestDelta(line, t) \in Nat
<1>1. /\ line.drawn \in Nat /\ line.rate_bps \in Nat
      /\ line.last_accrual_ts \in Nat
    BY DEF Line
<1>2. t - line.last_accrual_ts \in Nat
    BY <1>1
<1>3. line.drawn * line.rate_bps \in Nat
    BY <1>1, MulNat
<1>4. line.drawn * line.rate_bps * (t - line.last_accrual_ts) \in Nat
    BY <1>2, <1>3, MulNat
<1>5. (line.drawn * line.rate_bps * (t - line.last_accrual_ts)) \div SECONDS_PER_YEAR \in Nat
    BY <1>4, DivNat, CreditLineAssumption
<1>6. QED
    BY <1>5, DivNat, RiskAssumption DEF InterestDelta

(* A line with nothing drawn accrues nothing. *)
LEMMA NoInterestUndrawn ==
    ASSUME NEW line \in Line, NEW t \in Nat, line.drawn = 0
    PROVE  InterestDelta(line, t) = 0
<1>1. /\ line.rate_bps \in Nat /\ line.last_accrual_ts \in Nat
    BY DEF Line
<1>2. line.drawn * line.rate_bps = 0
    BY <1>1
<1>3. line.drawn * line.rate_bps * (t - line.last_accrual_ts) = 0
    BY <1>1, <1>2
<1>4. QED
    BY <1>3, RiskAssumption, CreditLineAssumption DEF InterestDelta

(* Interest and debt of a sound line are natural numbers. *)
LEMMA DebtNat ==
    ASSUME TypeOK, NEW line, NEW record, LineSound(line, record)
    PROVE  /\ now \in Nat
           /\ InterestDelta(line, now) \in Nat
           /\ Accrued(line, now) \in Nat
           /\ DebtOf(line, now) \in Nat
<1>1. now \in Nat
    BY DEF TypeOK, now
<1>2. line \in Line /\ line.last_accrual_ts <= now
    BY DEF LineSound
<1>3. InterestDelta(line, now) \in Nat
    BY <1>1, <1>2, InterestNat
<1>4. line.accrued_interest \in Nat /\ line.drawn \in Nat
    BY <1>2 DEF Line
<1>5. QED
    BY <1>1, <1>3, <1>4 DEF Accrued, DebtOf

-----------------------------------------------------------------------------
(* The inductive invariant *)

(* No line is opened, configured or funded in the initial state. *)
LEMMA InitIndInv == Init => IndInv
<1> SUFFICES ASSUME Init PROVE IndInv
    OBVIOUS
<1>1. NoLine \in Line
    BY DEF NoLine, Line, LineStatus, MarginStates
<1>2. TypeOK
    BY <1>1 DEF Init, TypeOK
<1>3. \A l \in LineId : LineSound(lines[l], liquidation[l])
    BY <1>1 DEF Init, LineSound, NoLine, now
<1>4. QED
    BY <1>2, <1>3 DEF Init, IndInv, NoLine, Configured

(* A call rewrites one line and its record: if they are sound and the rest *)
(* keeps its type, the invariant is kept.                                  *)
LEMMA WriteOneLine ==
    ASSUME IndInv,
           NEW l \in LineId, NEW line, NEW record,
           LineSound(line, record),
           WriteLine(l, line),
           liquidation' = [liquidation EXCEPT ![l] = record],
           claimable' \in [LineId -> Nat],
           pool' \in Int,
           nextLineId' \in Nat, nextLineId' >= nextLineId, l < nextLineId',
           UNCHANGED <<ledger, price, assetConfig>>
    PROVE  IndInv'
<1>1. line \in Line /\ record \in LiquidationRecord \cup {None}
    BY DEF LineSound
<1>2. TypeOK'
    BY <1>1 DEF IndInv, TypeOK, WriteLine
<1>3. \A k \in LineId : lines'[k] = (IF k = l THEN line ELSE lines[k])
                     /\ liquidation'[k] = (IF k = l THEN record ELSE liquidation[k])
    BY DEF IndInv, TypeOK, WriteLine
<1>4. ASSUME NEW k \in LineId
      PROVE  LineSound(lines[k], liquidation[k])'
    <2>1. LineSound(lines'[k], liquidation'[k])
        BY <1>3 DEF IndInv
    <2>2. ledger' = ledger
        OBVIOUS
    <2>3. QED
        BY <2>1, <2>2 DEF LineSound, now
<1>5. ASSUME NEW k \in LineId, k >= nextLineId'
      PROVE  lines'[k].status = "Unopened"
    <2>1. k # l /\ k >= nextLineId
        BY <1>5 DEF LineId, IndInv, TypeOK
    <2>2. QED
        BY <2>1, <1>3 DEF IndInv
<1>6. QED
    BY <1>2, <1>4, <1>5 DEF IndInv, Configured

(* A line that exists has an id already handed out. *)
LEMMA ExistsBelow ==
    ASSUME IndInv, NEW l \in LineId, Exists(l)
    PROVE  /\ l < nextLineId
           /\ LineSound(lines[l], liquidation[l])
           /\ lines[l] \in Line
           /\ lines[l].asset \in Asset
           /\ liquidation = [liquidation EXCEPT ![l] = liquidation[l]]
           /\ nextLineId \in Nat
           /\ claimable \in [LineId -> Nat]
           /\ pool \in Int
           /\ TypeOK
    BY DEF IndInv, TypeOK, Exists, LineId, LineSound

(* open writes a blank line under the next id. *)
LEMMA OpenKeeps ==
    ASSUME IndInv, NEW l \in LineId, NEW lender \in Party, NEW borrower \in Party,
           NEW a \in Asset, NEW limit \in Limits, NEW rate \in Rates,
           Open(l, lender, borrower, a, limit, rate)
    PROVE  IndInv'
<1> DEFINE line == [NoLine EXCEPT !.lender = lender, !.borrower = borrower, !.asset = a,
                                  !.limit = limit, !.rate_bps = rate,
                                  !.status = "Open", !.last_accrual_ts = now]
<1>1. limit \in Nat /\ rate \in Nat /\ now \in Nat
    BY CreditLineAssumption DEF IndInv, TypeOK, now
<1>2. lines[l].status = "Unopened" /\ l \in Nat
    BY DEF Open, IndInv, TypeOK, LineId
<1>3. liquidation[l] = None
    BY <1>2 DEF IndInv, LineSound
<1>4. line \in Line
    BY <1>1 DEF Line, NoLine, LineStatus, MarginStates
<1>5. LineSound(line, liquidation[l])
    BY <1>1, <1>3, <1>4 DEF LineSound, NoLine
<1>6. /\ WriteLine(l, line) /\ nextLineId' = nextLineId + 1 /\ l = nextLineId
      /\ UNCHANGED <<ledger, price, assetConfig, claimable, liquidation, pool>>
    BY DEF Open
<1>7. liquidation' = [liquidation EXCEPT ![l] = liquidation[l]]
    BY <1>6 DEF IndInv, TypeOK
<1>8. l < nextLineId' /\ nextLineId' \in Nat /\ nextLineId' >= nextLineId
    BY <1>2, <1>6
<1>9. claimable' \in [LineId -> Nat] /\ pool' \in Int
    BY <1>6 DEF IndInv, TypeOK
<1> HIDE DEF line
<1>10. QED
    BY <1>5, <1>6, <1>7, <1>8, <1>9, WriteOneLine

(* fund only raises the commitment. *)
LEMMA FundKeeps ==
    ASSUME IndInv, NEW l \in LineId, NEW lender \in Party, NEW amount \in Amounts,
           Fund(lender, l, amount)
    PROVE  IndInv'
<1> DEFINE line == [lines[l] EXCEPT !.funded = @ + amount]
<1>1. Exists(l) /\ amount \in Nat
    BY CreditLineAssumption DEF Fund
<1>2. LineSound(line, liquidation[l])
    BY <1>1, ExistsBelow DEF LineSound, Line, Exists, Fund
<1>3. /\ WriteLine(l, line) /\ pool' = pool + amount
      /\ UNCHANGED <<ledger, price, assetConfig, nextLineId, claimable, liquidation>>
    BY DEF Fund
<1>4. QED
    BY <1>1, <1>2, <1>3, ExistsBelow, WriteOneLine

(* Both syncs replace the collateral figure and nothing else. *)
LEMMA SyncKeeps ==
    ASSUME IndInv, NEW l \in LineId, NEW units \in Units,
           \/ SyncCollateral(l, units)
           \/ \E a \in Asset : SyncFromVault(l, a, units)
    PROVE  IndInv'
<1> DEFINE line == [lines[l] EXCEPT !.pledged_units = units]
<1>1. Exists(l) /\ units \in Nat
    BY CreditLineAssumption DEF SyncCollateral, SyncFromVault
<1>2. LineSound(line, liquidation[l])
    BY <1>1, ExistsBelow DEF LineSound, Line, Exists
<1>3. /\ WriteLine(l, line)
      /\ UNCHANGED <<ledger, price, assetConfig, nextLineId, claimable, liquidation, pool>>
    BY DEF SyncCollateral, SyncFromVault
<1>4. QED
    BY <1>1, <1>2, <1>3, ExistsBelow, WriteOneLine

(* Bringing a line's interest up to date keeps it sound and touches only   *)
(* the interest and its timestamp.                                         *)
LEMMA AccrueSound ==
    ASSUME TypeOK, NEW line, NEW record, LineSound(line, record), line.status # "Unopened"
    PROVE  /\ LineSound(Accrue(line), record)
           /\ Accrue(line) \in Line
           /\ Accrue(line).accrued_interest = Accrued(line, now)
           /\ Accrue(line).drawn = line.drawn
           /\ Accrue(line).funded = line.funded
           /\ Accrue(line).status = line.status
<1>1. line \in Line
    BY DEF LineSound
<1>2. now \in Nat /\ Accrued(line, now) \in Nat
    BY DebtNat
<1>3. Accrue(line) \in Line
    BY <1>1, <1>2 DEF Accrue, Line
<1>4. line.status = "Closed" => Accrued(line, now) = 0
    <2>1. SUFFICES ASSUME line.status = "Closed"
                   PROVE  Accrued(line, now) = 0
        OBVIOUS
    <2>2. line.drawn = 0 /\ line.accrued_interest = 0
        BY <2>1 DEF LineSound
    <2>3. QED
        BY <1>1, <1>2, <2>2, NoInterestUndrawn DEF Accrued
<1>5. QED
    BY <1>1, <1>2, <1>3, <1>4 DEF Accrue, LineSound, Line

(* draw stays within the undrawn balance and the limit, and only on an     *)
(* open line.                                                              *)
LEMMA DrawKeeps ==
    ASSUME IndInv, NEW l \in LineId, NEW borrower \in Party, NEW amount \in Amounts,
           Draw(borrower, l, amount)
    PROVE  IndInv'
<1> DEFINE accrued == Accrue(lines[l])
           line == [accrued EXCEPT !.drawn = @ + amount, !.margin_state = "Healthy"]
<1>1. Exists(l) /\ amount \in Nat
    BY CreditLineAssumption DEF Draw
<1>2. LineSound(accrued, liquidation[l]) /\ accrued \in Line
    BY <1>1, ExistsBelow, AccrueSound DEF Exists
<1>3. /\ accrued.status = "Open"
      /\ amount <= accrued.funded - accrued.drawn
      /\ accrued.drawn + amount <= accrued.limit
      /\ WriteLine(l, line) /\ pool' = pool - amount
      /\ UNCHANGED <<ledger, price, assetConfig, nextLineId, claimable, liquidation>>
    BY DEF Draw
<1> HIDE DEF accrued
<1>4. LineSound(line, liquidation[l])
    <2>1. line \in Line
        <3>1. accrued.drawn + amount \in Nat
            BY <1>1, <1>2 DEF Line
        <3>2. [accrued EXCEPT !.drawn = accrued.drawn + amount] \in Line
            BY <1>2, <3>1 DEF Line
        <3>3. QED
            BY <3>2 DEF Line, MarginStates
    <2>2. /\ line.drawn = accrued.drawn + amount
          /\ line.drawn <= line.funded /\ line.drawn <= line.limit
          /\ line.status = "Open"
        BY <1>1, <1>2, <1>3 DEF Line
    <2>3. /\ line.last_accrual_ts = accrued.last_accrual_ts /\ line.asset = accrued.asset
          /\ line.unhealthy_since = accrued.unhealthy_since
          /\ line.breach_ledger = accrued.breach_ledger
        BY <1>2 DEF Line
    <2> HIDE DEF line
    <2>4. QED
        BY <1>2, <1>3, <2>1, <2>2, <2>3 DEF LineSound
<1>5. QED
    BY <1>1, <1>3, <1>4, ExistsBelow, WriteOneLine

(* repay pays interest first and never more principal than is drawn; on a  *)
(* closed line nothing is owed, so it cannot run.                          *)
LEMMA RepayKeeps ==
    ASSUME IndInv, NEW l \in LineId, NEW amount \in Amounts, Repay(l, amount)
    PROVE  IndInv'
<1> DEFINE accrued   == Accrue(lines[l])
           applied   == Lesser(amount, accrued.accrued_interest + accrued.drawn)
           interest  == Lesser(applied, accrued.accrued_interest)
           principal == applied - interest
           line == [accrued EXCEPT !.accrued_interest = @ - interest,
                                   !.drawn = @ - principal]
<1>1. Exists(l) /\ amount \in Nat
    BY CreditLineAssumption DEF Repay
<1>2. LineSound(accrued, liquidation[l]) /\ accrued \in Line
    BY <1>1, ExistsBelow, AccrueSound DEF Exists
<1>3. accrued.status # "Unopened"
    BY <1>1, ExistsBelow, AccrueSound DEF Exists
<1>4. /\ accrued.accrued_interest + accrued.drawn > 0
      /\ WriteLine(l, line) /\ pool' = pool + applied
      /\ claimable' = [claimable EXCEPT ![l] = @ + interest]
      /\ UNCHANGED <<ledger, price, assetConfig, nextLineId, liquidation>>
    BY DEF Repay
<1> HIDE DEF accrued
<1>5. accrued.accrued_interest \in Nat /\ accrued.drawn \in Nat
    BY <1>2 DEF Line
<1>6. /\ interest \in 0 .. accrued.accrued_interest
      /\ principal \in 0 .. accrued.drawn
      /\ applied \in Nat
    BY <1>1, <1>5 DEF Lesser
<1> HIDE DEF applied, interest, principal
<1>7. LineSound(line, liquidation[l])
    <2>1. line \in Line
        <3>1. /\ accrued.accrued_interest - interest \in Nat
              /\ accrued.drawn - principal \in Nat
            BY <1>5, <1>6
        <3>2. [accrued EXCEPT !.accrued_interest = accrued.accrued_interest - interest] \in Line
            BY <1>2, <3>1 DEF Line
        <3>3. QED
            BY <3>1, <3>2 DEF Line
    <2>2. accrued.status # "Closed"
        BY <1>2, <1>4 DEF LineSound
    <2>3. line.drawn <= accrued.drawn
        BY <1>2, <1>5, <1>6 DEF Line
    <2>4. /\ line.funded = accrued.funded /\ line.limit = accrued.limit
          /\ line.last_accrual_ts = accrued.last_accrual_ts /\ line.asset = accrued.asset
          /\ line.unhealthy_since = accrued.unhealthy_since
          /\ line.breach_ledger = accrued.breach_ledger
          /\ line.status = accrued.status
        BY <1>2 DEF Line
    <2>5. /\ line.drawn \in Nat /\ accrued.funded \in Nat /\ accrued.limit \in Nat
        BY <1>2, <2>1 DEF Line
    <2> HIDE DEF line
    <2>6. QED
        BY <1>2, <1>3, <1>5, <2>1, <2>2, <2>3, <2>4, <2>5 DEF LineSound
<1>8. claimable' \in [LineId -> Nat] /\ pool' \in Int
    BY <1>1, <1>4, <1>6, ExistsBelow
<1>9. QED
    BY <1>1, <1>4, <1>7, <1>8, ExistsBelow, WriteOneLine

(* A closed line owes nothing, so a poke finds it Healthy. *)
LEMMA ClosedIsHealthy ==
    ASSUME IndInv, NEW l \in LineId, lines[l].status = "Closed", LtvReadable(lines[l].asset)
    PROVE  StateOf(lines[l]) = "Healthy"
<1> DEFINE a == lines[l].asset
           value == CollateralValue(lines[l].pledged_units, price[a].value,
                                    assetConfig[a].haircut_bps)
<1>1. /\ Exists(l) /\ a \in Asset /\ now \in Nat /\ lines[l] \in Line
      /\ lines[l].drawn = 0 /\ lines[l].accrued_interest = 0
    BY ExistsBelow, DebtNat DEF Exists, LineSound
<1>2. DebtOf(lines[l], now) = 0
    BY <1>1, NoInterestUndrawn DEF DebtOf, Accrued
<1>3. ValidThresholds(assetConfig[a].thresholds) /\ assetConfig[a].thresholds \in MarginThresholds
    BY <1>1 DEF IndInv, TypeOK, LtvReadable, Configured, AssetConfig
<1>4. Classify(LtvBps(0, value), assetConfig[a].thresholds) = "Healthy"
    BY <1>3, NoDebtIsHealthy
<1>5. QED
    BY <1>2, <1>4 DEF StateOf, MarginOf

(* poke rewrites the margin marks from one read. *)
LEMMA PokeKeeps ==
    ASSUME IndInv, NEW l \in LineId, Poke(l)
    PROVE  IndInv'
<1> DEFINE old   == lines[l]
           state == StateOf(old)
           since == IF state \in {"MarginCall", "Liquidation"}
                    THEN (IF old.unhealthy_since = None THEN now ELSE old.unhealthy_since)
                    ELSE None
           breach == IF state = "Liquidation" /\ PriceOk(old.asset)
                     THEN (IF old.breach_ledger = None THEN ledger.sequence
                           ELSE old.breach_ledger)
                     ELSE None
           line == [old EXCEPT !.margin_state = state, !.unhealthy_since = since,
                               !.breach_ledger = breach]
<1>1. /\ Exists(l) /\ LtvReadable(old.asset) /\ WriteLine(l, line)
      /\ UNCHANGED <<ledger, price, assetConfig, nextLineId, claimable, liquidation, pool>>
    BY DEF Poke
<1>2. /\ LineSound(old, liquidation[l]) /\ old \in Line
      /\ ledger.sequence \in Nat /\ now \in Nat
    BY <1>1, ExistsBelow DEF TypeOK, now
<1>3. state \in MarginStates
    BY ClassifyType DEF StateOf, MarginOf
<1>4. old.status = "Closed" => state = "Healthy"
    BY <1>1, ClosedIsHealthy
<1>5. old.unhealthy_since \in Nat \cup {None} /\ old.breach_ledger \in Nat \cup {None}
    BY <1>2 DEF Line
<1> HIDE DEF state
<1>6. /\ since \in Nat \cup {None} /\ (since # None => since <= now)
      /\ breach \in Nat \cup {None} /\ (breach # None => breach <= ledger.sequence)
      /\ breach # None => since # None
      /\ state = "Healthy" => since = None /\ breach = None
    BY <1>2, <1>5, CreditLineAssumption DEF LineSound
<1> HIDE DEF since, breach
<1>7. line \in Line
    <2>1. [old EXCEPT !.margin_state = state] \in Line
        BY <1>2, <1>3 DEF Line
    <2>2. [old EXCEPT !.margin_state = state, !.unhealthy_since = since] \in Line
        BY <1>6, <2>1 DEF Line
    <2>3. QED
        BY <1>6, <2>2 DEF Line
<1>8. /\ line.margin_state = state /\ line.unhealthy_since = since
      /\ line.breach_ledger = breach /\ line.status = old.status
      /\ line.drawn = old.drawn /\ line.funded = old.funded /\ line.limit = old.limit
      /\ line.last_accrual_ts = old.last_accrual_ts /\ line.asset = old.asset
      /\ line.accrued_interest = old.accrued_interest
    BY <1>2 DEF Line
<1>9. LineSound(line, liquidation[l])
    <2>1. old.status # "Unopened"
        BY <1>1 DEF Exists
    <2> HIDE DEF line, old
    <2>2. QED
        BY <1>2, <1>4, <1>6, <1>7, <1>8, <2>1 DEF LineSound
<1> HIDE DEF line
<1>10. QED
    BY <1>1, <1>9, ExistsBelow, WriteOneLine

(* liquidate freezes a record for an open line and marks it Liquidating. *)
LEMMA LiquidateKeeps ==
    ASSUME IndInv, NEW l \in LineId, Liquidate(l)
    PROVE  IndInv'
<1> DEFINE old == lines[l]
           record == [seized_units |-> old.pledged_units, price |-> price[old.asset].value,
                      debt |-> DebtOf(old, now), closed |-> FALSE,
                      recovered |-> 0, surplus |-> 0, shortfall |-> 0]
           line == [old EXCEPT !.status = "Liquidating", !.margin_state = "Liquidation"]
<1>1. /\ Exists(l) /\ old.status = "Open" /\ WriteLine(l, line)
      /\ liquidation' = [liquidation EXCEPT ![l] = record]
      /\ UNCHANGED <<ledger, price, assetConfig, nextLineId, claimable, pool>>
    BY DEF Liquidate
<1>2. LineSound(old, liquidation[l]) /\ old \in Line /\ old.asset \in Asset
    BY <1>1, ExistsBelow
<1>3. record \in LiquidationRecord
    <2>1. DebtOf(old, now) \in Nat /\ old.pledged_units \in Nat
        BY <1>1, <1>2, ExistsBelow, DebtNat DEF Line
    <2>2. price[old.asset].value \in Nat
        BY <1>2, CreditLineAssumption DEF IndInv, TypeOK, GuardedPrice
    <2>3. QED
        BY <2>1, <2>2 DEF LiquidationRecord
<1>4. record.closed = FALSE
    OBVIOUS
<1>5. line \in Line
    <2>1. [old EXCEPT !.status = "Liquidating"] \in Line
        BY <1>2 DEF Line, LineStatus
    <2>2. QED
        BY <2>1 DEF Line, MarginStates
<1>6. /\ line.status = "Liquidating"
      /\ line.drawn = old.drawn /\ line.funded = old.funded /\ line.limit = old.limit
      /\ line.last_accrual_ts = old.last_accrual_ts /\ line.asset = old.asset
      /\ line.unhealthy_since = old.unhealthy_since
      /\ line.breach_ledger = old.breach_ledger
    BY <1>2 DEF Line
<1> HIDE DEF line, record
<1>7. LineSound(line, record)
    BY <1>1, <1>2, <1>3, <1>4, <1>5, <1>6, CreditLineAssumption DEF LineSound
<1>8. /\ nextLineId' \in Nat /\ nextLineId' >= nextLineId /\ l < nextLineId'
      /\ claimable' \in [LineId -> Nat] /\ pool' \in Int
    BY <1>1, ExistsBelow
<1>9. QED
    BY <1>1, <1>7, <1>8, WriteOneLine

(* close_liquidated completes the record and clears the line. *)
LEMMA CloseKeeps ==
    ASSUME IndInv, NEW l \in LineId, NEW lender \in Party, CloseLiquidated(lender, l)
    PROVE  IndInv'
<1> DEFINE old == lines[l]
           terms == liquidation[l]
           recovered == CollateralValue(terms.seized_units, terms.price, 0)
           surplus == IF recovered > terms.debt THEN recovered - terms.debt ELSE 0
           shortfall == IF terms.debt > recovered THEN terms.debt - recovered ELSE 0
           record == [terms EXCEPT !.closed = TRUE, !.recovered = recovered,
                                   !.surplus = surplus, !.shortfall = shortfall]
           line == [old EXCEPT !.funded = @ - old.drawn, !.drawn = 0,
                               !.accrued_interest = 0, !.pledged_units = 0,
                               !.margin_state = "Healthy", !.breach_ledger = None,
                               !.unhealthy_since = None, !.status = "Closed"]
<1>1. /\ old.status = "Liquidating" /\ WriteLine(l, line)
      /\ liquidation' = [liquidation EXCEPT ![l] = record]
      /\ UNCHANGED <<ledger, price, assetConfig, nextLineId, claimable, pool>>
    BY DEF CloseLiquidated
<1>2. Exists(l)
    BY <1>1 DEF Exists
<1>3. LineSound(old, terms) /\ old \in Line
    BY <1>2, ExistsBelow
<1>4. terms \in LiquidationRecord
    BY <1>1, <1>3 DEF LineSound
<1>5. recovered \in Nat /\ terms.debt \in Nat
    <2>1. terms.seized_units \in Nat /\ terms.price \in Nat /\ terms.debt \in Nat
        BY <1>4 DEF LiquidationRecord
    <2>2. HaircutUsable(0)
        BY RiskAssumption DEF HaircutUsable
    <2>3. QED
        BY <2>1, <2>2, CollateralValueNat
<1> HIDE DEF recovered, terms
<1>6. surplus \in Nat /\ shortfall \in Nat
    BY <1>5
<1> HIDE DEF surplus, shortfall
<1>7. record \in LiquidationRecord /\ record.closed = TRUE
    BY <1>4, <1>5, <1>6 DEF LiquidationRecord
<1>8. old.funded - old.drawn \in Nat
    BY <1>3 DEF LineSound, Line
<1>9. line \in Line
    <2> DEFINE paid == [old EXCEPT !.funded = old.funded - old.drawn, !.drawn = 0]
               freed == [paid EXCEPT !.accrued_interest = 0, !.pledged_units = 0]
               calm == [freed EXCEPT !.margin_state = "Healthy", !.breach_ledger = None]
    <2>1. paid \in Line
        BY <1>3, <1>8 DEF Line
    <2>2. freed \in Line
        <3> HIDE DEF paid
        <3>1. QED BY <2>1 DEF Line
    <2>3. calm \in Line
        <3> HIDE DEF freed
        <3>1. QED BY <2>2 DEF Line, MarginStates
    <2>4. [calm EXCEPT !.unhealthy_since = None, !.status = "Closed"] \in Line
        <3> HIDE DEF calm
        <3>1. QED BY <2>3 DEF Line, LineStatus
    <2>5. QED
        BY <2>4
<1>10. /\ line.drawn = 0 /\ line.accrued_interest = 0 /\ line.margin_state = "Healthy"
       /\ line.breach_ledger = None /\ line.unhealthy_since = None
       /\ line.status = "Closed" /\ line.funded = old.funded - old.drawn
       /\ line.limit = old.limit /\ line.asset = old.asset
       /\ line.last_accrual_ts = old.last_accrual_ts
    BY <1>3 DEF Line
<1> HIDE DEF line, record
<1>11. LineSound(line, record)
    <2>1. line.limit \in Nat
        BY <1>9 DEF Line
    <2>2. QED
        BY <1>1, <1>3, <1>7, <1>8, <1>9, <1>10, <2>1, CreditLineAssumption DEF LineSound
<1>12. /\ nextLineId' \in Nat /\ nextLineId' >= nextLineId /\ l < nextLineId'
       /\ claimable' \in [LineId -> Nat] /\ pool' \in Int
    BY <1>1, <1>2, ExistsBelow
<1>13. QED
    BY <1>1, <1>11, <1>12, WriteOneLine

(* withdraw_undrawn takes no more than is undrawn. *)
LEMMA WithdrawUndrawnKeeps ==
    ASSUME IndInv, NEW l \in LineId, NEW lender \in Party, NEW amount \in Amounts,
           WithdrawUndrawn(lender, l, amount)
    PROVE  IndInv'
<1> DEFINE line == [lines[l] EXCEPT !.funded = @ - amount]
<1>1. Exists(l) /\ amount \in Nat /\ amount <= lines[l].funded - lines[l].drawn
    BY CreditLineAssumption DEF WithdrawUndrawn
<1>2. LineSound(line, liquidation[l])
    BY <1>1, ExistsBelow DEF LineSound, Line, Exists
<1>3. /\ WriteLine(l, line) /\ pool' = pool - amount
      /\ UNCHANGED <<ledger, price, assetConfig, nextLineId, claimable, liquidation>>
    BY DEF WithdrawUndrawn
<1>4. QED
    BY <1>1, <1>2, <1>3, ExistsBelow, WriteOneLine

(* Withdrawing interest, configuring an asset, closing a ledger and a      *)
(* price move touch no line.                                               *)
LEMMA WithdrawInterestKeeps ==
    ASSUME IndInv, NEW l \in LineId, NEW lender \in Party, NEW amount \in Amounts,
           WithdrawInterest(lender, l, amount)
    PROVE  IndInv'
<1>1. amount \in Nat /\ amount <= claimable[l] /\ claimable[l] \in Nat
    BY CreditLineAssumption DEF WithdrawInterest, IndInv, TypeOK
<1>2. claimable' \in [LineId -> Nat] /\ pool' \in Int
    BY <1>1 DEF WithdrawInterest, IndInv, TypeOK
<1>3. UNCHANGED <<ledger, price, assetConfig, nextLineId, lines, liquidation>>
    BY DEF WithdrawInterest
<1>4. QED
    BY <1>2, <1>3 DEF IndInv, TypeOK, LineSound, Configured, now

(* The environment keeps the invariant: the admin's thresholds are         *)
(* validated, the clock only moves forward.                                *)
LEMMA EnvironmentKeeps == IndInv /\ Environment => IndInv'
<1> SUFFICES ASSUME IndInv, Environment PROVE IndInv'
    OBVIOUS
<1>1. ASSUME NEW a \in Asset, NEW config \in Configs, ConfigureAsset(a, config)
      PROVE  IndInv'
    <2>1. UNCHANGED <<ledger, price, nextLineId, lines, claimable, liquidation, pool>>
        BY <1>1 DEF ConfigureAsset
    <2>2. /\ assetConfig' = [assetConfig EXCEPT ![a] = config] /\ config \in AssetConfig
          /\ ValidThresholds(config.thresholds)
        BY <1>1, CreditLineAssumption DEF ConfigureAsset
    <2>3. TypeOK'
        BY <2>1, <2>2 DEF IndInv, TypeOK
    <2>4. \A b \in Asset : Configured(b)' => ValidThresholds(assetConfig'[b].thresholds)
        BY <2>2 DEF IndInv, TypeOK, Configured
    <2>5. QED
        BY <2>1, <2>3, <2>4 DEF IndInv, LineSound, now
<1>2. ASSUME NEW a \in Asset, NEW reading \in PriceReadings, PriceMoves(a, reading)
      PROVE  IndInv'
    <2>1. UNCHANGED <<ledger, assetConfig, nextLineId, lines, claimable, liquidation, pool>>
        BY <1>2 DEF PriceMoves
    <2>2. price' \in [Asset -> PriceReadings]
        BY <1>2 DEF PriceMoves, IndInv, TypeOK
    <2>3. QED
        BY <2>1, <2>2 DEF IndInv, TypeOK, LineSound, now, Configured
<1>3. ASSUME NEW seconds \in CloseSeconds, CloseLedger(seconds)
      PROVE  IndInv'
    <2>1. UNCHANGED <<price, assetConfig, nextLineId, lines, claimable, liquidation, pool>>
        BY <1>3 DEF CloseLedger
    <2>2. ledger.sequence \in Nat /\ ledger.timestamp \in Nat /\ seconds \in Nat
        BY CreditLineAssumption DEF IndInv, TypeOK
    <2>3. /\ ledger' \in [sequence : Nat, timestamp : Nat]
          /\ ledger'.sequence = ledger.sequence + 1
          /\ ledger'.timestamp = ledger.timestamp + seconds
        BY <1>3, <2>2 DEF CloseLedger, now
    <2>4. ASSUME NEW l \in LineId
          PROVE  LineSound(lines[l], liquidation[l])'
        <3>1. LineSound(lines[l], liquidation[l]) /\ lines'[l] = lines[l]
                  /\ liquidation'[l] = liquidation[l]
            BY <2>1 DEF IndInv
        <3>2. /\ lines[l].last_accrual_ts \in Nat
              /\ lines[l].unhealthy_since \in Nat \cup {None}
              /\ lines[l].breach_ledger \in Nat \cup {None}
            BY <3>1 DEF LineSound, Line
        <3>3. QED
            BY <2>2, <2>3, <3>1, <3>2, CreditLineAssumption DEF LineSound, now
    <2>5. QED
        BY <2>1, <2>3, <2>4 DEF IndInv, TypeOK, Configured
<1>4. QED
    BY <1>1, <1>2, <1>3 DEF Environment

(* Every step of the specification keeps the inductive invariant. *)
LEMMA NextKeeps == IndInv /\ [Next]_vars => IndInv'
<1> SUFFICES ASSUME IndInv, [Next]_vars PROVE IndInv'
    OBVIOUS
<1>1. ASSUME NEW l \in LineId, LineCall(l)
      PROVE  IndInv'
    BY <1>1, OpenKeeps, FundKeeps, DrawKeeps, WithdrawUndrawnKeeps, WithdrawInterestKeeps,
       RepayKeeps, PokeKeeps, LiquidateKeeps, CloseKeeps DEF LineCall
<1>2. ASSUME NEW l \in LineId, NEW a \in Asset, NEW units \in Units,
             SyncFromVault(l, a, units) \/ SyncCollateral(l, units)
      PROVE  IndInv'
    BY <1>2, SyncKeeps
<1>3. ASSUME NEW l \in LineId, NEW units \in Units, SyncCollateral(l, units)
      PROVE  IndInv'
    BY <1>3, SyncKeeps
<1>4. CASE UNCHANGED vars
    BY <1>4 DEF vars, IndInv, TypeOK, LineSound, now, Configured
<1>5. QED
    BY <1>1, <1>2, <1>3, <1>4, EnvironmentKeeps DEF Next

-----------------------------------------------------------------------------
(* The invariants *)

(* The inductive invariant holds in every reachable state. *)
THEOREM InvariantHolds == Spec => []IndInv
    BY InitIndInv, NextKeeps, PTL DEF Spec

(* Every stored value keeps the type its contract type declares, for any   *)
(* number of lines, parties and assets and any amounts.                    *)
THEOREM TypesHold == Spec => []TypeOK
<1>1. IndInv => TypeOK
    BY DEF IndInv
<1>2. QED
    BY <1>1, InvariantHolds, PTL

(* No sequence of draws, repayments, withdrawals and liquidations leaves a *)
(* line with more principal out than committed or than its limit.          *)
THEOREM NeverOverLentHolds == Spec => []NeverOverLent
<1>1. IndInv => NeverOverLent
    BY DEF IndInv, NeverOverLent, LineSound
<1>2. QED
    BY <1>1, InvariantHolds, PTL

(* Records and statuses move together, and a closed line stays debt-free.  *)
THEOREM LifecycleHolds == Spec => []LiquidationLifecycle
<1>1. IndInv => LiquidationLifecycle
    BY DEF IndInv, LiquidationLifecycle, LineSound
<1>2. QED
    BY <1>1, InvariantHolds, PTL

(* A line armed for liquidation has its cure clock running. *)
THEOREM ArmedClockHolds == Spec => []ArmedLineHasClock
<1>1. IndInv => ArmedLineHasClock
    BY DEF IndInv, ArmedLineHasClock, LineSound
<1>2. QED
    BY <1>1, InvariantHolds, PTL

-----------------------------------------------------------------------------
(* The action properties *)

(* The calls of LineCall, SyncFromVault and SyncCollateral either leave    *)
(* the liquidation records alone or write one under its own rules.         *)
LEMMA RecordsStepwise ==
    ASSUME IndInv, [Next]_vars
    PROVE  \/ UNCHANGED liquidation
           \/ \E l \in LineId : Liquidate(l)
           \/ \E l \in LineId, p \in Party : CloseLiquidated(p, l)
<1>1. ASSUME NEW l \in LineId, LineCall(l)
      PROVE  \/ UNCHANGED liquidation \/ Liquidate(l)
             \/ \E p \in Party : CloseLiquidated(p, l)
    BY <1>1 DEF LineCall, Open, Fund, Draw, WithdrawUndrawn, WithdrawInterest, Repay, Poke
<1>2. ASSUME NEW l \in LineId, NEW a \in Asset, NEW units \in Units, SyncFromVault(l, a, units)
      PROVE  UNCHANGED liquidation
    BY <1>2 DEF SyncFromVault
<1>3. ASSUME NEW l \in LineId, NEW units \in Units, SyncCollateral(l, units)
      PROVE  UNCHANGED liquidation
    BY <1>3 DEF SyncCollateral
<1>4. Environment => UNCHANGED liquidation
    BY DEF Environment, ConfigureAsset, PriceMoves, CloseLedger
<1>5. UNCHANGED vars => UNCHANGED liquidation
    BY DEF vars
<1>6. QED
    BY <1>1, <1>2, <1>3, <1>4, <1>5 DEF Next

(* The terms of a liquidation are frozen when it is confirmed. *)
THEOREM FrozenHolds == Spec => LiquidationFrozen
<1> DEFINE Frozen ==
        \A l \in LineId :
            LET r == liquidation[l]
            IN  r # None =>
                    /\ liquidation'[l] # None
                    /\ liquidation'[l].seized_units = r.seized_units
                    /\ liquidation'[l].price = r.price
                    /\ liquidation'[l].debt = r.debt
                    /\ r.closed => liquidation'[l] = r
<1>1. ASSUME IndInv, [Next]_vars
      PROVE  Frozen
    <2>1. liquidation \in [LineId -> LiquidationRecord \cup {None}]
        BY <1>1 DEF IndInv, TypeOK
    <2>2. CASE UNCHANGED liquidation
        BY <2>2
    <2>3. ASSUME NEW l \in LineId, Liquidate(l)
          PROVE  Frozen
        <3>1. liquidation[l] = None
            BY <1>1, <2>3 DEF Liquidate, IndInv, LineSound
        <3>2. \A k \in LineId \ {l} : liquidation'[k] = liquidation[k]
            BY <2>1, <2>3 DEF Liquidate
        <3>3. QED
            BY <3>1, <3>2
    <2>4. ASSUME NEW l \in LineId, NEW p \in Party, CloseLiquidated(p, l)
          PROVE  Frozen
        <3>1. \A k \in LineId \ {l} : liquidation'[k] = liquidation[k]
            BY <2>1, <2>4 DEF CloseLiquidated
        <3>2. /\ lines[l].status = "Liquidating" /\ liquidation[l] \in LiquidationRecord
              /\ ~ liquidation[l].closed
            BY <1>1, <2>4 DEF CloseLiquidated, IndInv, LineSound
        <3>3. PICK v, u, w :
                  liquidation'[l] = [liquidation[l] EXCEPT !.closed = TRUE, !.recovered = v,
                                                           !.surplus = u, !.shortfall = w]
            BY <2>1, <2>4 DEF CloseLiquidated
        <3>4. /\ liquidation'[l].seized_units = liquidation[l].seized_units
              /\ liquidation'[l].price = liquidation[l].price
              /\ liquidation'[l].debt = liquidation[l].debt
            BY <3>2, <3>3 DEF LiquidationRecord
        <3>5. IndInv'
            BY <1>1, NextKeeps
        <3>6. liquidation'[l] # None
            <4>1. lines'[l].status = "Closed"
                BY <1>1, <2>4 DEF CloseLiquidated, WriteLine, IndInv, TypeOK, Line
            <4>2. QED
                BY <3>5, <4>1 DEF IndInv, LineSound
        <3>7. QED
            BY <3>1, <3>2, <3>4, <3>6
    <2>5. QED
        BY <1>1, <2>2, <2>3, <2>4, RecordsStepwise
<1>2. QED
    BY <1>1, InvariantHolds, PTL DEF Spec, LiquidationFrozen

(* What one call does to the cash of every line but the one it names. *)
LEMMA OtherLinesUntouched ==
    ASSUME IndInv, NEW l \in LineId, NEW line, WriteLine(l, line)
    PROVE  /\ lines'[l] = line
           /\ \A k \in LineId \ {l} : lines'[k] = lines[k]
    BY DEF IndInv, TypeOK, WriteLine

(* Freshly accrued interest has no further delta. *)
LEMMA NoInterestYet ==
    ASSUME NEW line \in Line, NEW t \in Nat, line.last_accrual_ts = t
    PROVE  InterestDelta(line, t) = 0
<1>1. line.drawn * line.rate_bps \in Nat
    BY MulNat DEF Line
<1>2. line.drawn * line.rate_bps * (t - line.last_accrual_ts) = 0
    BY <1>1
<1>3. QED
    BY <1>2, RiskAssumption, CreditLineAssumption DEF InterestDelta

(* draw: what is paid out is added to the debt and leaves the undrawn      *)
(* balance.                                                                *)
LEMMA DrawMoves ==
    ASSUME IndInv, NEW l \in LineId, NEW borrower \in Party, NEW amount \in Amounts,
           Draw(borrower, l, amount)
    PROVE  /\ Undrawn(l)' = Undrawn(l) - amount
           /\ DebtOf(lines'[l], now') = DebtOf(lines[l], now) + amount
           /\ pool' = pool - amount /\ pool \in Int /\ amount \in Nat
           /\ claimable' = claimable
           /\ Undrawn(l) \in Int /\ DebtOf(lines[l], now) \in Nat
           /\ \A k \in LineId \ {l} : lines'[k] = lines[k]
           /\ ledger' = ledger
<1> DEFINE accrued == Accrue(lines[l])
           line == [accrued EXCEPT !.drawn = @ + amount, !.margin_state = "Healthy"]
<1>1. /\ Exists(l) /\ WriteLine(l, line) /\ pool' = pool - amount
      /\ UNCHANGED <<ledger, claimable>>
    BY DEF Draw
<1>2. amount \in Nat
    BY CreditLineAssumption
<1>3. /\ lines[l] \in Line /\ TypeOK /\ LineSound(lines[l], liquidation[l])
      /\ pool \in Int /\ lines[l].status # "Unopened"
    BY <1>1, ExistsBelow DEF Exists
<1>4. /\ now \in Nat /\ DebtOf(lines[l], now) \in Nat
      /\ Accrued(lines[l], now) \in Nat
    BY <1>3, DebtNat
<1>5. /\ accrued \in Line /\ accrued.drawn = lines[l].drawn
      /\ accrued.funded = lines[l].funded
      /\ accrued.accrued_interest = Accrued(lines[l], now)
    BY <1>3, AccrueSound
<1>6. accrued.last_accrual_ts = now
    BY <1>3 DEF Accrue, Line
<1> HIDE DEF accrued
<1>7. /\ line.drawn = accrued.drawn + amount /\ line.funded = accrued.funded
      /\ line.accrued_interest = accrued.accrued_interest
      /\ line.last_accrual_ts = now
    BY <1>5, <1>6 DEF Line
<1>8. line \in Line
    <2>1. accrued.drawn + amount \in Nat
        BY <1>2, <1>5 DEF Line
    <2>2. [accrued EXCEPT !.drawn = accrued.drawn + amount] \in Line
        BY <1>5, <2>1 DEF Line
    <2>3. QED
        BY <2>2 DEF Line, MarginStates
<1>9. lines'[l] = line /\ (\A k \in LineId \ {l} : lines'[k] = lines[k])
    BY <1>1, OtherLinesUntouched
<1> HIDE DEF line
<1>10. DebtOf(lines'[l], now') = DebtOf(lines[l], now) + amount
    <2>1. InterestDelta(line, now) = 0
        BY <1>4, <1>7, <1>8, NoInterestYet
    <2>2. now' = now
        BY <1>1 DEF now
    <2>3. lines[l].drawn \in Nat
        BY <1>3 DEF Line
    <2>4. DebtOf(line, now) = lines[l].drawn + amount + Accrued(lines[l], now)
        BY <1>2, <1>4, <1>5, <1>7, <2>1, <2>3 DEF DebtOf, Accrued
    <2>5. QED
        BY <1>2, <1>4, <1>9, <2>2, <2>3, <2>4 DEF DebtOf
<1>11. Undrawn(l)' = Undrawn(l) - amount /\ Undrawn(l) \in Int
    <2>1. lines[l].drawn \in Nat /\ lines[l].funded \in Nat
        BY <1>3 DEF Line
    <2>2. QED
        BY <1>2, <1>5, <1>7, <1>9, <2>1 DEF Undrawn
<1>12. QED
    BY <1>1, <1>2, <1>3, <1>4, <1>9, <1>10, <1>11

(* repay: what is taken in is removed from the debt, and becomes either    *)
(* undrawn balance or claimable interest.                                  *)
LEMMA RepayMoves ==
    ASSUME IndInv, NEW l \in LineId, NEW amount \in Amounts, Repay(l, amount)
    PROVE  \E applied, interest \in Nat :
               /\ Undrawn(l)' = Undrawn(l) + (applied - interest)
               /\ claimable' = [claimable EXCEPT ![l] = @ + interest]
               /\ DebtOf(lines'[l], now') = DebtOf(lines[l], now) - applied
               /\ pool' = pool + applied /\ pool \in Int
               /\ Undrawn(l) \in Int /\ DebtOf(lines[l], now) \in Nat
               /\ claimable \in [LineId -> Nat]
               /\ \A k \in LineId \ {l} : lines'[k] = lines[k]
               /\ ledger' = ledger
<1> DEFINE accrued   == Accrue(lines[l])
           applied   == Lesser(amount, accrued.accrued_interest + accrued.drawn)
           interest  == Lesser(applied, accrued.accrued_interest)
           principal == applied - interest
           line == [accrued EXCEPT !.accrued_interest = @ - interest,
                                   !.drawn = @ - principal]
<1>1. /\ Exists(l) /\ WriteLine(l, line) /\ pool' = pool + applied
      /\ claimable' = [claimable EXCEPT ![l] = @ + interest]
      /\ ledger' = ledger
    BY DEF Repay
<1>2. amount \in Nat
    BY CreditLineAssumption
<1>3. /\ lines[l] \in Line /\ TypeOK /\ LineSound(lines[l], liquidation[l])
      /\ pool \in Int /\ lines[l].status # "Unopened" /\ claimable \in [LineId -> Nat]
    BY <1>1, ExistsBelow DEF Exists
<1>4. /\ now \in Nat /\ DebtOf(lines[l], now) \in Nat
      /\ Accrued(lines[l], now) \in Nat
    BY <1>3, DebtNat
<1>5. /\ accrued \in Line /\ accrued.drawn = lines[l].drawn
      /\ accrued.funded = lines[l].funded
      /\ accrued.accrued_interest = Accrued(lines[l], now)
    BY <1>3, AccrueSound
<1>6. accrued.last_accrual_ts = now
    BY <1>3 DEF Accrue, Line
<1> HIDE DEF accrued
<1>7. accrued.accrued_interest \in Nat /\ accrued.drawn \in Nat /\ accrued.funded \in Nat
    BY <1>5 DEF Line
<1>8. /\ applied \in Nat /\ interest \in Nat /\ principal \in Nat
      /\ accrued.accrued_interest - interest \in Nat
      /\ accrued.drawn - principal \in Nat
    BY <1>2, <1>7 DEF Lesser
<1>9. principal = applied - interest
    OBVIOUS
<1> HIDE DEF applied, interest, principal
<1>10. /\ line.drawn = accrued.drawn - principal /\ line.funded = accrued.funded
       /\ line.accrued_interest = accrued.accrued_interest - interest
       /\ line.last_accrual_ts = now
    BY <1>5, <1>6 DEF Line
<1>11. line \in Line
    <2>1. [accrued EXCEPT !.accrued_interest = accrued.accrued_interest - interest] \in Line
        BY <1>5, <1>8 DEF Line
    <2>2. QED
        BY <1>8, <2>1 DEF Line
<1>12. lines'[l] = line /\ (\A k \in LineId \ {l} : lines'[k] = lines[k])
    BY <1>1, OtherLinesUntouched
<1> HIDE DEF line
<1>13. DebtOf(lines'[l], now') = DebtOf(lines[l], now) - applied
    <2>1. InterestDelta(line, now) = 0
        BY <1>4, <1>10, <1>11, NoInterestYet
    <2>2. now' = now
        BY <1>1 DEF now
    <2>3. DebtOf(line, now) = (accrued.drawn - principal)
                              + (accrued.accrued_interest - interest)
        BY <1>8, <1>10, <2>1 DEF DebtOf, Accrued
    <2>4. DebtOf(lines[l], now) = accrued.drawn + accrued.accrued_interest
        BY <1>5 DEF DebtOf
    <2>5. QED
        BY <1>7, <1>8, <1>9, <1>12, <2>2, <2>3, <2>4
<1>14. Undrawn(l)' = Undrawn(l) + (applied - interest) /\ Undrawn(l) \in Int
    BY <1>5, <1>7, <1>8, <1>9, <1>10, <1>12 DEF Undrawn
<1>15. QED
    BY <1>1, <1>3, <1>4, <1>8, <1>12, <1>13, <1>14

(* The two action properties, as formulas about one step. *)
OneLineMoves ==
    \/ \E l \in LineId :
           /\ pool' - pool = (Undrawn(l)' + claimable'[l]) - (Undrawn(l) + claimable[l])
           /\ \A k \in LineId \ {l} :
                  Undrawn(k)' = Undrawn(k) /\ claimable'[k] = claimable[k]
    \/ UNCHANGED <<pool, lines, claimable>>

DebtPaidInCash ==
    \A l \in LineId :
        \/ ledger' # ledger
        \/ DebtOf(lines'[l], now') = DebtOf(lines[l], now)
        \/ DebtOf(lines'[l], now') - DebtOf(lines[l], now) = pool - pool'
        \/ lines[l].status = "Liquidating" /\ lines'[l].status = "Closed"

(* A call that moves no USDC and writes a line with the same undrawn       *)
(* balance, and the same debt or a write-off, has both.                    *)
LEMMA QuietWrite ==
    ASSUME IndInv, NEW l \in LineId, NEW line, WriteLine(l, line),
           UNCHANGED <<ledger, claimable, pool>>,
           line.funded - line.drawn = lines[l].funded - lines[l].drawn,
           \/ DebtOf(line, now) = DebtOf(lines[l], now)
           \/ lines[l].status = "Liquidating" /\ line.status = "Closed"
    PROVE  OneLineMoves /\ DebtPaidInCash
<1>1. lines'[l] = line /\ \A k \in LineId \ {l} : lines'[k] = lines[k]
    BY OtherLinesUntouched
<1>2. /\ pool \in Int /\ claimable[l] \in Nat
      /\ lines[l].funded - lines[l].drawn \in Int
    BY DEF IndInv, TypeOK, Line
<1>3. OneLineMoves
    <2>1. pool' - pool = (Undrawn(l)' + claimable'[l]) - (Undrawn(l) + claimable[l])
        BY <1>1, <1>2 DEF Undrawn
    <2>2. \A k \in LineId \ {l} : Undrawn(k)' = Undrawn(k) /\ claimable'[k] = claimable[k]
        BY <1>1 DEF Undrawn
    <2>3. QED
        BY <2>1, <2>2 DEF OneLineMoves
<1>4. DebtPaidInCash
    BY <1>1 DEF DebtPaidInCash, now
<1>5. QED
    BY <1>3, <1>4

(* A call that moves USDC into or out of the undrawn balance of one line,  *)
(* with its debt unchanged, has both.                                      *)
LEMMA CommitmentWrite ==
    ASSUME IndInv, NEW l \in LineId, NEW line, NEW delta \in Int, WriteLine(l, line),
           UNCHANGED <<ledger, claimable>>,
           pool' = pool + delta,
           line.funded - line.drawn = lines[l].funded - lines[l].drawn + delta,
           DebtOf(line, now) = DebtOf(lines[l], now)
    PROVE  OneLineMoves /\ DebtPaidInCash
<1>1. lines'[l] = line /\ \A k \in LineId \ {l} : lines'[k] = lines[k]
    BY OtherLinesUntouched
<1>2. /\ pool \in Int /\ claimable[l] \in Nat
      /\ lines[l].funded - lines[l].drawn \in Int
    BY DEF IndInv, TypeOK, Line
<1>3. OneLineMoves
    <2>1. pool' - pool = (Undrawn(l)' + claimable'[l]) - (Undrawn(l) + claimable[l])
        BY <1>1, <1>2 DEF Undrawn
    <2>2. \A k \in LineId \ {l} : Undrawn(k)' = Undrawn(k) /\ claimable'[k] = claimable[k]
        BY <1>1 DEF Undrawn
    <2>3. QED
        BY <2>1, <2>2 DEF OneLineMoves
<1>4. DebtPaidInCash
    BY <1>1 DEF DebtPaidInCash, now
<1>5. QED
    BY <1>3, <1>4

(* Every call of a party, the keeper or anyone, on line l. *)
LEMMA LineCallMoves ==
    ASSUME IndInv, NEW l \in LineId, LineCall(l)
    PROVE  OneLineMoves /\ DebtPaidInCash
<1>0. lines[l] \in Line /\ now \in Nat
    BY DEF IndInv, TypeOK, now
<1>1. ASSUME NEW lender \in Party, NEW borrower \in Party, NEW a \in Asset,
             NEW limit \in Limits, NEW rate \in Rates, Open(l, lender, borrower, a, limit, rate)
      PROVE  OneLineMoves /\ DebtPaidInCash
    <2> DEFINE line == [NoLine EXCEPT !.lender = lender, !.borrower = borrower, !.asset = a,
                                      !.limit = limit, !.rate_bps = rate,
                                      !.status = "Open", !.last_accrual_ts = now]
    <2>1. WriteLine(l, line) /\ UNCHANGED <<ledger, claimable, pool>> /\ l = nextLineId
        BY <1>1 DEF Open
    <2>2. lines[l] = NoLine
        BY <2>1 DEF IndInv, LineSound, TypeOK
    <2>3. /\ line.funded = 0 /\ line.drawn = 0 /\ line.accrued_interest = 0
          /\ lines[l].funded = 0 /\ lines[l].drawn = 0 /\ lines[l].accrued_interest = 0
        BY <2>2 DEF NoLine
    <2>4. lines'[l] = line
        BY <2>1, OtherLinesUntouched
    <2>5. line \in Line
        BY <1>1, <2>4, NextKeeps, OpenKeeps DEF IndInv, TypeOK
    <2>6. InterestDelta(line, now) = 0 /\ InterestDelta(lines[l], now) = 0
        <3> HIDE DEF line
        <3>1. QED BY <1>0, <2>3, <2>5, NoInterestUndrawn
    <2> HIDE DEF line
    <2>7. DebtOf(line, now) = DebtOf(lines[l], now)
        BY <2>3, <2>6 DEF DebtOf, Accrued
    <2>8. QED
        BY <2>1, <2>3, <2>7, QuietWrite
<1>2. ASSUME NEW p \in Party, NEW amount \in Amounts, Fund(p, l, amount)
      PROVE  OneLineMoves /\ DebtPaidInCash
    <2> DEFINE line == [lines[l] EXCEPT !.funded = @ + amount]
    <2>1. WriteLine(l, line) /\ UNCHANGED <<ledger, claimable>> /\ pool' = pool + amount
        BY <1>2 DEF Fund
    <2>2. amount \in Int
        BY CreditLineAssumption
    <2>3. line.funded - line.drawn = lines[l].funded - lines[l].drawn + amount
        BY <1>0, <2>2 DEF Line
    <2>4. DebtOf(line, now) = DebtOf(lines[l], now)
        BY <1>0 DEF Line, DebtOf, Accrued, InterestDelta
    <2> HIDE DEF line
    <2>5. QED
        BY <2>1, <2>2, <2>3, <2>4, CommitmentWrite
<1>3. ASSUME NEW p \in Party, NEW amount \in Amounts, WithdrawUndrawn(p, l, amount)
      PROVE  OneLineMoves /\ DebtPaidInCash
    <2> DEFINE line == [lines[l] EXCEPT !.funded = @ - amount]
    <2>1. /\ WriteLine(l, line) /\ UNCHANGED <<ledger, claimable>>
          /\ pool' = pool - amount /\ pool \in Int /\ amount \in Int
        BY <1>3, CreditLineAssumption DEF WithdrawUndrawn, IndInv, TypeOK
    <2>2. /\ pool' = pool + (0 - amount) /\ 0 - amount \in Int
          /\ line.funded - line.drawn = lines[l].funded - lines[l].drawn + (0 - amount)
        BY <1>0, <2>1 DEF Line
    <2>3. DebtOf(line, now) = DebtOf(lines[l], now)
        BY <1>0 DEF Line, DebtOf, Accrued, InterestDelta
    <2> HIDE DEF line
    <2>4. QED
        BY <2>1, <2>2, <2>3, CommitmentWrite
<1>4. ASSUME NEW p \in Party, NEW amount \in Amounts, WithdrawInterest(p, l, amount)
      PROVE  OneLineMoves /\ DebtPaidInCash
    <2>1. /\ claimable' = [claimable EXCEPT ![l] = @ - amount] /\ pool' = pool - amount
          /\ UNCHANGED <<ledger, lines>> /\ amount \in Nat
          /\ claimable \in [LineId -> Nat] /\ pool \in Int
        BY <1>4, CreditLineAssumption DEF WithdrawInterest, IndInv, TypeOK
    <2>2. lines[l].funded - lines[l].drawn \in Int
        BY <1>0 DEF Line
    <2>3. pool' - pool = (Undrawn(l)' + claimable'[l]) - (Undrawn(l) + claimable[l])
        BY <2>1, <2>2 DEF Undrawn
    <2>4. \A k \in LineId \ {l} : Undrawn(k)' = Undrawn(k) /\ claimable'[k] = claimable[k]
        BY <2>1 DEF Undrawn
    <2>5. DebtPaidInCash
        BY <2>1 DEF DebtPaidInCash, now
    <2>6. QED
        BY <2>3, <2>4, <2>5 DEF OneLineMoves
<1>5. ASSUME NEW p \in Party, NEW amount \in Amounts, Draw(p, l, amount)
      PROVE  OneLineMoves /\ DebtPaidInCash
    <2>1. /\ Undrawn(l)' = Undrawn(l) - amount
          /\ DebtOf(lines'[l], now') = DebtOf(lines[l], now) + amount
          /\ pool' = pool - amount /\ pool \in Int /\ amount \in Nat
          /\ claimable' = claimable
          /\ Undrawn(l) \in Int /\ DebtOf(lines[l], now) \in Nat
          /\ \A k \in LineId \ {l} : lines'[k] = lines[k]
          /\ ledger' = ledger
        BY <1>5, DrawMoves
    <2>2. claimable[l] \in Nat
        BY DEF IndInv, TypeOK
    <2>3. pool' - pool = (Undrawn(l)' + claimable'[l]) - (Undrawn(l) + claimable[l])
        BY <2>1, <2>2
    <2>4. \A k \in LineId \ {l} : Undrawn(k)' = Undrawn(k) /\ claimable'[k] = claimable[k]
        BY <2>1 DEF Undrawn
    <2>5. DebtOf(lines'[l], now') - DebtOf(lines[l], now) = pool - pool'
        BY <2>1
    <2>6. DebtPaidInCash
        BY <2>1, <2>5 DEF DebtPaidInCash, now
    <2>7. QED
        BY <2>3, <2>4, <2>6 DEF OneLineMoves
<1>6. ASSUME NEW amount \in Amounts, Repay(l, amount)
      PROVE  OneLineMoves /\ DebtPaidInCash
    <2>1. PICK applied \in Nat, interest \in Nat :
              /\ Undrawn(l)' = Undrawn(l) + (applied - interest)
              /\ claimable' = [claimable EXCEPT ![l] = @ + interest]
              /\ DebtOf(lines'[l], now') = DebtOf(lines[l], now) - applied
              /\ pool' = pool + applied /\ pool \in Int
              /\ Undrawn(l) \in Int /\ DebtOf(lines[l], now) \in Nat
              /\ claimable \in [LineId -> Nat]
              /\ \A k \in LineId \ {l} : lines'[k] = lines[k]
              /\ ledger' = ledger
        BY <1>6, RepayMoves
    <2>2. claimable'[l] = claimable[l] + interest /\ claimable[l] \in Nat
        BY <2>1
    <2>3. pool' - pool = (Undrawn(l)' + claimable'[l]) - (Undrawn(l) + claimable[l])
        BY <2>1, <2>2
    <2>4. \A k \in LineId \ {l} : Undrawn(k)' = Undrawn(k) /\ claimable'[k] = claimable[k]
        BY <2>1 DEF Undrawn
    <2>5. DebtOf(lines'[l], now') - DebtOf(lines[l], now) = pool - pool'
        BY <2>1
    <2>6. DebtPaidInCash
        BY <2>1, <2>5 DEF DebtPaidInCash, now
    <2>7. QED
        BY <2>3, <2>4, <2>6 DEF OneLineMoves
<1>7. CASE Poke(l)
    <2>1. PICK st, us, bl :
              /\ WriteLine(l, [lines[l] EXCEPT !.margin_state = st, !.unhealthy_since = us,
                                               !.breach_ledger = bl])
              /\ UNCHANGED <<ledger, claimable, pool>>
        BY <1>7 DEF Poke
    <2> DEFINE line == [lines[l] EXCEPT !.margin_state = st, !.unhealthy_since = us,
                                        !.breach_ledger = bl]
    <2>2. /\ line.funded = lines[l].funded /\ line.drawn = lines[l].drawn
          /\ line.rate_bps = lines[l].rate_bps
          /\ line.last_accrual_ts = lines[l].last_accrual_ts
          /\ line.accrued_interest = lines[l].accrued_interest
        BY <1>0 DEF Line
    <2> HIDE DEF line
    <2>3. DebtOf(line, now) = DebtOf(lines[l], now)
        BY <2>2 DEF DebtOf, Accrued, InterestDelta
    <2>4. QED
        BY <2>1, <2>2, <2>3, QuietWrite DEF line
<1>8. CASE Liquidate(l)
    <2> DEFINE line == [lines[l] EXCEPT !.status = "Liquidating",
                                        !.margin_state = "Liquidation"]
    <2>1. WriteLine(l, line) /\ UNCHANGED <<ledger, claimable, pool>>
        BY <1>8 DEF Liquidate
    <2>2. /\ line.funded = lines[l].funded /\ line.drawn = lines[l].drawn
          /\ line.rate_bps = lines[l].rate_bps
          /\ line.last_accrual_ts = lines[l].last_accrual_ts
          /\ line.accrued_interest = lines[l].accrued_interest
        BY <1>0 DEF Line
    <2> HIDE DEF line
    <2>3. DebtOf(line, now) = DebtOf(lines[l], now)
        BY <2>2 DEF DebtOf, Accrued, InterestDelta
    <2>4. QED
        BY <2>1, <2>2, <2>3, QuietWrite
<1>9. ASSUME NEW p \in Party, CloseLiquidated(p, l)
      PROVE  OneLineMoves /\ DebtPaidInCash
    <2> DEFINE line == [lines[l] EXCEPT !.funded = @ - lines[l].drawn, !.drawn = 0,
                                        !.accrued_interest = 0, !.pledged_units = 0,
                                        !.margin_state = "Healthy", !.breach_ledger = None,
                                        !.unhealthy_since = None, !.status = "Closed"]
    <2>1. /\ WriteLine(l, line) /\ UNCHANGED <<ledger, claimable, pool>>
          /\ lines[l].status = "Liquidating"
        BY <1>9 DEF CloseLiquidated
    <2>2. /\ line.funded = lines[l].funded - lines[l].drawn /\ line.drawn = 0
          /\ line.status = "Closed"
          /\ lines[l].funded \in Nat /\ lines[l].drawn \in Nat
        BY <1>0 DEF Line
    <2> HIDE DEF line
    <2>3. line.funded - line.drawn = lines[l].funded - lines[l].drawn
        BY <2>2
    <2>4. QED
        BY <2>1, <2>2, <2>3, QuietWrite
<1>10. QED
    BY <1>1, <1>2, <1>3, <1>4, <1>5, <1>6, <1>7, <1>8, <1>9 DEF LineCall

(* A collateral sync changes neither cash nor debt; time alone changes the *)
(* debt and nothing else; the other environment steps touch no line.       *)
LEMMA NextMoves ==
    ASSUME IndInv, [Next]_vars
    PROVE  OneLineMoves /\ DebtPaidInCash
<1>1. ASSUME NEW l \in LineId, NEW units \in Units,
             \/ SyncCollateral(l, units)
             \/ \E a \in Asset : SyncFromVault(l, a, units)
      PROVE  OneLineMoves /\ DebtPaidInCash
    <2> DEFINE line == [lines[l] EXCEPT !.pledged_units = units]
    <2>1. WriteLine(l, line) /\ UNCHANGED <<ledger, claimable, pool>>
        BY <1>1 DEF SyncCollateral, SyncFromVault
    <2>2. /\ line.funded = lines[l].funded /\ line.drawn = lines[l].drawn
          /\ line.rate_bps = lines[l].rate_bps
          /\ line.last_accrual_ts = lines[l].last_accrual_ts
          /\ line.accrued_interest = lines[l].accrued_interest
        BY DEF IndInv, TypeOK, Line
    <2> HIDE DEF line
    <2>3. DebtOf(line, now) = DebtOf(lines[l], now)
        BY <2>2 DEF DebtOf, Accrued, InterestDelta
    <2>4. QED
        BY <2>1, <2>2, <2>3, QuietWrite
<1>2. ASSUME UNCHANGED <<lines, claimable, pool>>
      PROVE  OneLineMoves /\ DebtPaidInCash
    BY <1>2 DEF OneLineMoves, DebtPaidInCash, now
<1>3. CASE Environment
    BY <1>2, <1>3 DEF Environment, ConfigureAsset, PriceMoves, CloseLedger
<1>4. CASE UNCHANGED vars
    BY <1>2, <1>4 DEF vars
<1>5. QED
    BY <1>1, <1>3, <1>4, LineCallMoves DEF Next

(* The contract's balance moves by what one line accounts for, and no      *)
(* call moves the cash of two lines.                                       *)
THEOREM CashStaysWithItsLine == Spec => OneLinePerCall
<1>1. IndInv /\ [Next]_vars => OneLineMoves
    BY NextMoves
<1>2. OneLineMoves <=>
          (\/ \E l \in LineId :
                  /\ pool' - pool = (Undrawn(l)' + claimable'[l]) - (Undrawn(l) + claimable[l])
                  /\ \A k \in LineId \ {l} :
                         Undrawn(k)' = Undrawn(k) /\ claimable'[k] = claimable[k]
           \/ UNCHANGED <<pool, lines, claimable>>)
    BY DEF OneLineMoves
<1>3. QED
    BY <1>1, <1>2, InvariantHolds, PTL DEF Spec, OneLinePerCall

(* There are finitely many lines.                                          *)
LEMMA FiniteLines == IsFiniteSet(LineId)
    BY CreditLineAssumption, FS_Interval DEF LineId

(* What one line accounts for is an integer.                               *)
LEMMA WithdrawableInt ==
    ASSUME IndInv, NEW l \in LineId
    PROVE  Withdrawable[l] = Undrawn(l) + claimable[l] /\ Withdrawable[l] \in Int
    BY DEF IndInv, TypeOK, Line, Undrawn, Withdrawable

(* A step that moves the balance with one line keeps it backed.            *)
LEMMA BackedStep ==
    ASSUME IndInv, IndInv', UsdcBacked, OneLineMoves
    PROVE  UsdcBacked'
<1>1. \A l \in LineId : Withdrawable[l] = Undrawn(l) + claimable[l] /\ Withdrawable[l] \in Int
    BY WithdrawableInt
<1>2. \A l \in LineId : /\ Withdrawable'[l] = Undrawn(l)' + claimable'[l]
                        /\ Withdrawable'[l] \in Int
    BY DEF IndInv, TypeOK, Line, Undrawn, Withdrawable
<1>3. pool \in Int /\ pool' \in Int
    BY DEF IndInv, TypeOK
<1>4. CASE UNCHANGED <<pool, lines, claimable>>
    BY <1>4 DEF UsdcBacked, Withdrawable, Undrawn
<1>5. ASSUME NEW l \in LineId,
             pool' - pool = (Undrawn(l)' + claimable'[l]) - (Undrawn(l) + claimable[l]),
             \A k \in LineId \ {l} : Undrawn(k)' = Undrawn(k) /\ claimable'[k] = claimable[k]
      PROVE  UsdcBacked'
  <2>0. PICK f, g : f = Withdrawable /\ g = Withdrawable'
      OBVIOUS
  <2>1. \A k \in LineId : f[k] \in Int /\ g[k] \in Int
      BY <1>1, <1>2, <2>0
  <2>2. \A k \in LineId \ {l} : f[k] = g[k]
      BY <1>1, <1>2, <1>5, <2>0
  <2>3. pool' - pool = g[l] - f[l]
      BY <1>1, <1>2, <1>5, <2>0
  <2>4. pool = SumFunctionOnSet(f, LineId)
      BY <2>0 DEF UsdcBacked
  <2>5. SumFunctionOnSet(g, LineId) = SumFunctionOnSet(f, LineId) + (g[l] - f[l])
      BY <2>1, <2>2, FiniteLines, SumMoves
  <2>6. pool' = SumFunctionOnSet(g, LineId)
    <3>1. f[l] \in Int /\ g[l] \in Int
        BY <2>1
    <3>2. QED
        BY <1>3, <2>3, <2>4, <2>5, <3>1
  <2>7. QED
      BY <2>0, <2>6 DEF UsdcBacked
<1>6. QED
    BY <1>4, <1>5 DEF OneLineMoves

(* At every moment the contract holds exactly the USDC its lenders can     *)
(* take out, for any number of lines and any sequence of fund, draw,       *)
(* repay, withdraw_undrawn, withdraw_interest and liquidation calls.       *)
THEOREM UsdcBackedHolds == Spec => []UsdcBacked
<1>1. Init => UsdcBacked
  <2> SUFFICES ASSUME Init PROVE UsdcBacked
      OBVIOUS
  <2>1. \A l \in LineId : Withdrawable[l] = 0
      BY DEF Init, NoLine, Withdrawable, Undrawn
  <2>2. SumFunctionOnSet(Withdrawable, LineId) = 0
      BY <2>1, FiniteLines, SumOfZeroes
  <2>3. QED
      BY <2>2 DEF Init, UsdcBacked
<1>2. IndInv /\ IndInv' /\ UsdcBacked /\ [Next]_vars => UsdcBacked'
    BY NextMoves, BackedStep
<1>3. QED
    BY <1>1, <1>2, InvariantHolds, PTL DEF Spec

(* Debt moves only with time, with the same amount of USDC, or by the      *)
(* write-off that closes a liquidation.                                    *)
THEOREM DebtIsPaidInCash == Spec => DebtMovesWithCash
<1>1. IndInv /\ [Next]_vars => DebtPaidInCash
    BY NextMoves
<1>2. DebtPaidInCash <=>
          (\A l \in LineId :
               \/ ledger' # ledger
               \/ DebtOf(lines'[l], now') = DebtOf(lines[l], now)
               \/ DebtOf(lines'[l], now') - DebtOf(lines[l], now) = pool - pool'
               \/ lines[l].status = "Liquidating" /\ lines'[l].status = "Closed")
    BY DEF DebtPaidInCash
<1>3. QED
    BY <1>1, <1>2, InvariantHolds, PTL DEF Spec, DebtMovesWithCash

(* The booked outcome of a liquidation splits the recovered value exactly. *)
THEOREM OutcomeHolds == Spec => []OutcomeReconciles
<1> DEFINE Split(r) ==
        r # None =>
            IF r.closed
            THEN /\ r.recovered - r.debt = r.surplus - r.shortfall
                 /\ r.surplus = 0 \/ r.shortfall = 0
            ELSE r.recovered = 0 /\ r.surplus = 0 /\ r.shortfall = 0
<1>1. OutcomeReconciles <=> \A l \in LineId : Split(liquidation[l])
    BY DEF OutcomeReconciles
<1>2. OutcomeReconciles' <=> \A l \in LineId : Split(liquidation'[l])
    BY DEF OutcomeReconciles
<1>3. Init => OutcomeReconciles
    BY DEF Init, OutcomeReconciles
<1>4. ASSUME IndInv, OutcomeReconciles, [Next]_vars
      PROVE  OutcomeReconciles'
    <2>1. liquidation \in [LineId -> LiquidationRecord \cup {None}]
        BY <1>4 DEF IndInv, TypeOK
    <2>2. CASE UNCHANGED liquidation
        BY <1>4, <2>2 DEF OutcomeReconciles
    <2>3. ASSUME NEW l \in LineId, Liquidate(l)
          PROVE  OutcomeReconciles'
        <3> DEFINE r == [seized_units |-> lines[l].pledged_units,
                         price |-> price[lines[l].asset].value,
                         debt |-> DebtOf(lines[l], now), closed |-> FALSE,
                         recovered |-> 0, surplus |-> 0, shortfall |-> 0]
        <3>1. liquidation' = [liquidation EXCEPT ![l] = r]
            BY <2>3 DEF Liquidate
        <3>2. Split(r)
            OBVIOUS
        <3> HIDE DEF r
        <3>3. \A k \in LineId : Split(liquidation'[k])
            <4> HIDE DEF Split
            <4>1. QED
                BY <1>1, <1>4, <2>1, <3>1, <3>2
        <3>4. QED
            BY <1>2, <3>3
    <2>4. ASSUME NEW l \in LineId, NEW p \in Party, CloseLiquidated(p, l)
          PROVE  OutcomeReconciles'
        <3> DEFINE old == liquidation[l]
                   recovered == CollateralValue(old.seized_units, old.price, 0)
                   Excess(x, y) == IF x > y THEN x - y ELSE 0
                   surplus == Excess(recovered, old.debt)
                   shortfall == Excess(old.debt, recovered)
                   r == [old EXCEPT !.closed = TRUE, !.recovered = recovered,
                                    !.surplus = surplus, !.shortfall = shortfall]
        <3>1. liquidation' = [liquidation EXCEPT ![l] = r] /\ lines[l].status = "Liquidating"
            BY <2>4 DEF CloseLiquidated
        <3>2. old \in LiquidationRecord
            BY <1>4, <3>1 DEF IndInv, LineSound
        <3>3. old.seized_units \in Nat /\ old.price \in Nat /\ old.debt \in Nat
            BY <3>2 DEF LiquidationRecord
        <3>4. HaircutUsable(0)
            BY RiskAssumption DEF HaircutUsable
        <3>5. recovered \in Nat
            BY <3>3, <3>4, CollateralValueNat
        <3> HIDE DEF old, recovered
        <3>6. /\ recovered - old.debt = surplus - shortfall
              /\ surplus = 0 \/ shortfall = 0
            BY <3>3, <3>5
        <3> HIDE DEF surplus, shortfall
        <3>7. /\ r.closed = TRUE /\ r.recovered = recovered /\ r.surplus = surplus
              /\ r.shortfall = shortfall /\ r.debt = old.debt
            BY <3>2 DEF LiquidationRecord
        <3> HIDE DEF r
        <3>8. Split(r)
            BY <3>6, <3>7
        <3>9. \A k \in LineId : Split(liquidation'[k])
            <4> HIDE DEF Split
            <4>1. QED
                BY <1>1, <1>4, <2>1, <3>1, <3>8
        <3>10. QED
            BY <1>2, <3>9
    <2>5. QED
        BY <1>4, <2>2, <2>3, <2>4, RecordsStepwise
<1>5. QED
    BY <1>3, <1>4, InvariantHolds, PTL DEF Spec
=============================================================================
