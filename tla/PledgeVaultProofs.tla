------------------------- MODULE PledgeVaultProofs --------------------------
(***************************************************************************)
(* Proofs about the vault, the credit line behind it and the keeper that   *)
(* liquidates in both, for every value of the constants.  The vault beside *)
(* the credit line only ever does what the credit line alone may do, the   *)
(* two never disagree about a line's collateral, and a position in escrow  *)
(* is backed by tokens.  The keeper's calls are calls the contracts allow, *)
(* and however often the job throws, dies and resumes, the books hold what *)
(* was really frozen and really sent, unless the borrower moved the        *)
(* collateral.                                                             *)
(***************************************************************************)
EXTENDS LiquidationKeeper, CreditLineProofs

-----------------------------------------------------------------------------
(* What a call on a line does to the line's asset and collateral figure. *)

(* Line k keeps its identity and its collateral figure. *)
SameCollateral(k) ==
    /\ lines'[k].asset = lines[k].asset
    /\ lines'[k].status = "Unopened" <=> lines[k].status = "Unopened"
    /\ \/ lines'[k].pledged_units = lines[k].pledged_units
       \/ lines'[k].status = "Closed"
    /\ lines'[k].status \in {"Open", "Liquidating"}
           => lines[k].status \in {"Open", "Liquidating"}

(* Line k has just been opened, with no collateral. *)
JustOpened(k) ==
    /\ lines[k].status = "Unopened"
    /\ lines'[k].status = "Open"
    /\ lines'[k].pledged_units = 0

(* Accruing interest leaves asset, status and collateral alone. *)
LEMMA AccrueKeepsCollateral ==
    ASSUME NEW line \in Line
    PROVE  /\ Accrue(line).asset = line.asset
           /\ Accrue(line).status = line.status
           /\ Accrue(line).pledged_units = line.pledged_units
    BY DEF Accrue, Line

(* Every call of the credit line but the syncs leaves the collateral       *)
(* figure of every line alone, opens a line with none, or closes it.       *)
LEMMA LineCallCollateral ==
    ASSUME IndInv, NEW l \in LineId, LineCall(l)
    PROVE  \A k \in LineId : SameCollateral(k) \/ JustOpened(k)
<1>0. /\ lines[l] \in Line
      /\ lines[l].status \in LineStatus
    BY DEF IndInv, TypeOK, Line
<1>1. ASSUME NEW line, WriteLine(l, line),
             \/ /\ line.asset = lines[l].asset
                /\ line.pledged_units = lines[l].pledged_units \/ line.status = "Closed"
                /\ line.status = lines[l].status
                   \/ /\ lines[l].status \in {"Open", "Liquidating"}
                      /\ line.status \in {"Liquidating", "Closed"}
             \/ lines[l].status = "Unopened" /\ line.status = "Open" /\ line.pledged_units = 0
      PROVE  \A k \in LineId : SameCollateral(k) \/ JustOpened(k)
    <2>1. lines'[l] = line /\ \A k \in LineId \ {l} : lines'[k] = lines[k]
        BY <1>1, OtherLinesUntouched
    <2>2. SameCollateral(l) \/ JustOpened(l)
        BY <1>1, <2>1 DEF SameCollateral, JustOpened
    <2>3. \A k \in LineId \ {l} : SameCollateral(k)
        BY <2>1 DEF SameCollateral
    <2>4. QED
        BY <2>2, <2>3
<1>2. ASSUME NEW lender \in Party, NEW borrower \in Party, NEW a \in Asset,
             NEW limit \in Limits, NEW rate \in Rates, Open(l, lender, borrower, a, limit, rate)
      PROVE  \A k \in LineId : SameCollateral(k) \/ JustOpened(k)
    <2> DEFINE line == [NoLine EXCEPT !.lender = lender, !.borrower = borrower, !.asset = a,
                                      !.limit = limit, !.rate_bps = rate,
                                      !.status = "Open", !.last_accrual_ts = now]
    <2>1. WriteLine(l, line) /\ l = nextLineId
        BY <1>2 DEF Open
    <2>2. lines[l].status = "Unopened"
        BY <2>1 DEF IndInv, TypeOK
    <2>3. line.status = "Open" /\ line.pledged_units = 0
        BY DEF NoLine
    <2> HIDE DEF line
    <2>4. QED
        BY <1>1, <2>1, <2>2, <2>3
<1>3. ASSUME NEW p \in Party, NEW amount \in Amounts,
             Fund(p, l, amount) \/ WithdrawUndrawn(p, l, amount)
      PROVE  \A k \in LineId : SameCollateral(k) \/ JustOpened(k)
    <2>1. PICK f : WriteLine(l, [lines[l] EXCEPT !.funded = f])
        BY <1>3 DEF Fund, WithdrawUndrawn
    <2> DEFINE line == [lines[l] EXCEPT !.funded = f]
    <2>2. /\ line.asset = lines[l].asset /\ line.pledged_units = lines[l].pledged_units
          /\ line.status = lines[l].status
        BY <1>0 DEF Line
    <2>3. WriteLine(l, line)
        BY <2>1
    <2> HIDE DEF line
    <2>4. QED
        BY <1>1, <2>2, <2>3
<1>4. ASSUME NEW p \in Party, NEW amount \in Amounts, WithdrawInterest(p, l, amount)
      PROVE  \A k \in LineId : SameCollateral(k) \/ JustOpened(k)
    BY <1>4 DEF WithdrawInterest, SameCollateral
<1>5. ASSUME NEW p \in Party, NEW amount \in Amounts, Draw(p, l, amount)
      PROVE  \A k \in LineId : SameCollateral(k) \/ JustOpened(k)
    <2> DEFINE accrued == Accrue(lines[l])
               line == [accrued EXCEPT !.drawn = @ + amount, !.margin_state = "Healthy"]
    <2>1. WriteLine(l, line) /\ Exists(l)
        BY <1>5 DEF Draw
    <2>2. /\ accrued.asset = lines[l].asset /\ accrued.status = lines[l].status
          /\ accrued.pledged_units = lines[l].pledged_units
        BY <1>0, AccrueKeepsCollateral
    <2>3. accrued \in Line
        BY <2>1, ExistsBelow, AccrueSound DEF Exists
    <2> HIDE DEF accrued
    <2>4. /\ line.asset = accrued.asset /\ line.status = accrued.status
          /\ line.pledged_units = accrued.pledged_units
        BY <2>3 DEF Line
    <2> HIDE DEF line
    <2>5. QED
        BY <1>1, <2>1, <2>2, <2>4
<1>6. ASSUME NEW amount \in Amounts, Repay(l, amount)
      PROVE  \A k \in LineId : SameCollateral(k) \/ JustOpened(k)
    <2> DEFINE accrued == Accrue(lines[l])
    <2>1. PICK i, d : WriteLine(l, [accrued EXCEPT !.accrued_interest = i, !.drawn = d])
        BY <1>6 DEF Repay
    <2>2. /\ accrued.asset = lines[l].asset /\ accrued.status = lines[l].status
          /\ accrued.pledged_units = lines[l].pledged_units
        BY <1>0, AccrueKeepsCollateral
    <2>3. accrued \in Line
        BY <1>6, ExistsBelow, AccrueSound DEF Exists, Repay
    <2> HIDE DEF accrued
    <2> DEFINE line == [accrued EXCEPT !.accrued_interest = i, !.drawn = d]
    <2>4. /\ line.asset = accrued.asset /\ line.status = accrued.status
          /\ line.pledged_units = accrued.pledged_units
        BY <2>3 DEF Line
    <2>5. WriteLine(l, line)
        BY <2>1
    <2> HIDE DEF line
    <2>6. QED
        BY <1>1, <2>2, <2>4, <2>5
<1>7. CASE Poke(l)
    <2>1. PICK st, us, bl :
              WriteLine(l, [lines[l] EXCEPT !.margin_state = st, !.unhealthy_since = us,
                                            !.breach_ledger = bl])
        BY <1>7 DEF Poke
    <2> DEFINE line == [lines[l] EXCEPT !.margin_state = st, !.unhealthy_since = us,
                                        !.breach_ledger = bl]
    <2>2. /\ line.asset = lines[l].asset /\ line.pledged_units = lines[l].pledged_units
          /\ line.status = lines[l].status
        BY <1>0 DEF Line
    <2>3. WriteLine(l, line)
        BY <2>1
    <2> HIDE DEF line
    <2>4. QED
        BY <1>1, <2>2, <2>3
<1>8. CASE Liquidate(l)
    <2> DEFINE line == [lines[l] EXCEPT !.status = "Liquidating",
                                        !.margin_state = "Liquidation"]
    <2>1. WriteLine(l, line) /\ lines[l].status = "Open"
        BY <1>8 DEF Liquidate
    <2>2. /\ line.asset = lines[l].asset /\ line.pledged_units = lines[l].pledged_units
          /\ line.status = "Liquidating"
        BY <1>0 DEF Line
    <2> HIDE DEF line
    <2>3. QED
        BY <1>1, <2>1, <2>2
<1>9. ASSUME NEW p \in Party, CloseLiquidated(p, l)
      PROVE  \A k \in LineId : SameCollateral(k) \/ JustOpened(k)
    <2> DEFINE line == [lines[l] EXCEPT !.funded = @ - lines[l].drawn, !.drawn = 0,
                                        !.accrued_interest = 0, !.pledged_units = 0,
                                        !.margin_state = "Healthy", !.breach_ledger = None,
                                        !.unhealthy_since = None, !.status = "Closed"]
    <2>1. WriteLine(l, line) /\ lines[l].status = "Liquidating"
        BY <1>9 DEF CloseLiquidated
    <2>2. line.asset = lines[l].asset /\ line.status = "Closed"
        BY <1>0 DEF Line
    <2> HIDE DEF line
    <2>3. QED
        BY <1>1, <2>1, <2>2
<1>10. QED
    BY <1>2, <1>3, <1>4, <1>5, <1>6, <1>7, <1>8, <1>9 DEF LineCall

-----------------------------------------------------------------------------
(* The vault's invariant *)

(* Both contracts start empty. *)
LEMMA VaultInitInv == VaultInit => VaultInv
<1> SUFFICES ASSUME VaultInit PROVE VaultInv
    OBVIOUS
<1>1. IndInv
    BY InitIndInv DEF VaultInit
<1>2. NoPosition \in Position
    BY DEF NoPosition, Position, CustodyModes
<1>3. VaultTypeOK
    BY <1>2 DEF VaultInit, VaultTypeOK
<1>4. \A l \in LineId : lines[l].status = "Unopened"
    BY DEF VaultInit, Init, NoLine
<1>5. CollateralInStep
    BY <1>4 DEF CollateralInStep
<1>6. \A l \in LineId, a \in Asset : positions[<<l, a>>] = NoPosition
    BY DEF VaultInit
<1>7. NoPosition.units = 0 /\ NoPosition.pending_lien_units = 0
    BY DEF NoPosition
<1>8. QED
    BY <1>1, <1>3, <1>5, <1>6, <1>7, PledgeVaultAssumption DEF VaultInv

(* What VaultInv says of one position. *)
PositionSound(l, a, p) ==
    /\ p.units + p.pending_lien_units <= MaxUnits
    /\ p.units + p.pending_lien_units > 0 => Exists(l) /\ lines[l].asset = a
    /\ p.pending_lien_units > 0 => p.mode # "Escrow"

(* A vault call writes one position and reports it to the credit line in   *)
(* the same transaction: the report is a step the credit line allows, and  *)
(* the two contracts agree afterwards.                                     *)
LEMMA WriteOnePosition ==
    ASSUME VaultInv, NEW l \in LineId, NEW a \in Asset, NEW p \in Position,
           WritePosition(l, a, p),
           p.units + p.pending_lien_units <= MaxUnits,
           p.pending_lien_units > 0 => p.mode # "Escrow",
           vaultConfig' = vaultConfig,
           escrow' \in [Asset -> Int]
    PROVE  VaultInv' /\ Next
<1>1. p.units \in Nat /\ p.pending_lien_units \in Nat
    BY DEF Position
<1>2. p.units \in Units
    BY <1>1, PledgeVaultAssumption
<1>3. SyncFromVault(l, a, p.units)
    BY DEF WritePosition
<1>4. Next
    BY <1>2, <1>3 DEF Next
<1>5. IndInv'
    BY <1>2, <1>3, SyncKeeps DEF VaultInv
<1>6. VaultTypeOK'
    BY DEF VaultInv, VaultTypeOK, WritePosition
<1>7. /\ positions'[<<l, a>>] = p
      /\ \A k \in LineId, b \in Asset :
             <<k, b>> # <<l, a>> => positions'[<<k, b>>] = positions[<<k, b>>]
    BY DEF VaultInv, VaultTypeOK, WritePosition
<1>8. /\ lines[l] \in Line /\ lines[l].asset = a /\ Exists(l)
      /\ lines' = [lines EXCEPT ![l] = [lines[l] EXCEPT !.pledged_units = p.units]]
      /\ lines \in [LineId -> Line]
    BY <1>3 DEF SyncFromVault, WriteLine, VaultInv, IndInv, TypeOK
<1>9. /\ lines'[l].asset = a /\ lines'[l].pledged_units = p.units
      /\ lines'[l].status = lines[l].status
    BY <1>8 DEF Line
<1>10. \A k \in LineId \ {l} : lines'[k] = lines[k]
    BY <1>8
<1>11. CollateralInStep'
    <2>1. SUFFICES ASSUME NEW k \in LineId,
                          lines'[k].status \in {"Open", "Liquidating"}
                   PROVE  lines'[k].pledged_units = positions'[<<k, lines'[k].asset>>].units
        BY DEF CollateralInStep
    <2>2. CASE k = l
        BY <1>7, <1>9, <2>2
    <2>3. CASE k # l
        <3>1. lines'[k] = lines[k] /\ lines[k].asset \in Asset
            BY <1>10, <2>1, <2>3 DEF VaultInv, IndInv, LineSound
        <3>2. positions'[<<k, lines[k].asset>>] = positions[<<k, lines[k].asset>>]
            BY <1>7, <2>3, <3>1
        <3>3. QED
            BY <2>1, <3>1, <3>2 DEF VaultInv, CollateralInStep
    <2>4. QED
        BY <2>2, <2>3
<1>12. ASSUME NEW k \in LineId, NEW b \in Asset
       PROVE  PositionSound(k, b, positions[<<k, b>>])'
    <2>1. CASE <<k, b>> = <<l, a>>
        BY <1>7, <1>8, <1>9, <2>1 DEF PositionSound, Exists
    <2>2. CASE <<k, b>> # <<l, a>>
        <3>1. positions'[<<k, b>>] = positions[<<k, b>>]
            BY <1>7, <2>2
        <3>2. PositionSound(k, b, positions[<<k, b>>])
            BY DEF VaultInv, PositionSound
        <3>3. lines'[k].asset = lines[k].asset /\ lines'[k].status = lines[k].status
            BY <1>8, <1>9, <1>10
        <3>4. QED
            BY <3>1, <3>2, <3>3 DEF PositionSound, Exists
    <2>3. QED
        BY <2>1, <2>2
<1>13. QED
    BY <1>4, <1>5, <1>6, <1>11, <1>12 DEF VaultInv, PositionSound

(* A call of the credit line alone keeps the two contracts in agreement:   *)
(* a newly opened line finds its positions empty.                          *)
LEMMA LineCallKeepsVault ==
    ASSUME VaultInv, NEW l \in LineId, LineCall(l), UNCHANGED vaultVars
    PROVE  VaultInv'
<1>1. IndInv'
    BY NextKeeps DEF VaultInv, Next
<1>2. \A k \in LineId : SameCollateral(k) \/ JustOpened(k)
    BY LineCallCollateral DEF VaultInv
<1>3. VaultTypeOK'
    BY DEF VaultInv, VaultTypeOK, vaultVars
<1>4. positions' = positions /\ IndInv
    BY DEF vaultVars, VaultInv
<1>5. ASSUME NEW k \in LineId, NEW b \in Asset
      PROVE  PositionSound(k, b, positions[<<k, b>>])'
    <2>1. PositionSound(k, b, positions[<<k, b>>])
        BY DEF VaultInv, PositionSound
    <2>2. QED
        BY <1>2, <1>4, <2>1 DEF PositionSound, SameCollateral, JustOpened, Exists
<1>6. CollateralInStep'
    <2>1. SUFFICES ASSUME NEW k \in LineId,
                          lines'[k].status \in {"Open", "Liquidating"}
                   PROVE  lines'[k].pledged_units = positions[<<k, lines'[k].asset>>].units
        BY <1>4 DEF CollateralInStep
    <2>2. CASE SameCollateral(k)
        BY <2>1, <2>2 DEF SameCollateral, VaultInv, CollateralInStep
    <2>3. CASE JustOpened(k)
        <3>1. lines'[k].asset \in Asset
            BY <1>1, <2>1 DEF IndInv, LineSound
        <3>2. PositionSound(k, lines'[k].asset, positions[<<k, lines'[k].asset>>])
            BY <3>1 DEF VaultInv, PositionSound
        <3>3. positions[<<k, lines'[k].asset>>] \in Position
            BY <3>1 DEF VaultInv, VaultTypeOK
        <3>4. positions[<<k, lines'[k].asset>>].units = 0
            BY <2>3, <3>2, <3>3 DEF PositionSound, JustOpened, Exists, Position
        <3>5. QED
            BY <2>3, <3>4 DEF JustOpened
    <2>4. QED
        BY <1>2, <2>2, <2>3
<1>7. QED
    BY <1>1, <1>3, <1>5, <1>6 DEF VaultInv, PositionSound

(* TokensOut leaves the vault's token balances integers. *)
LEMMA TokensOutType ==
    ASSUME VaultTypeOK, NEW a \in Asset, NEW mode, NEW units \in Int, TokensOut(a, mode, units)
    PROVE  escrow' \in [Asset -> Int]
    BY DEF VaultTypeOK, TokensOut

(* pledge, release, record_lien and liquidate each write one sound         *)
(* position.                                                               *)
LEMMA VaultCallKeeps ==
    ASSUME VaultInv, NEW l \in LineId, VaultCall(l)
    PROVE  VaultInv' /\ Next
<1>1. PICK a \in Asset, units \in Units :
          \/ \E b \in Party : Pledge(b, l, a, units) \/ Release(b, l, a, units)
          \/ RecordLien(l, a, units)
          \/ Seize(l, a, units)
    BY DEF VaultCall
<1> DEFINE p == positions[<<l, a>>]
<1>2. p \in Position /\ VaultTypeOK /\ units \in Nat
    BY PledgeVaultAssumption DEF VaultInv, VaultTypeOK
<1>3. PositionSound(l, a, p)
    BY DEF VaultInv, PositionSound
<1>4. p.units \in Nat /\ p.pending_lien_units \in Nat /\ p.mode \in CustodyModes
    BY <1>2 DEF Position
<1>5. MaxUnits \in Nat
    BY PledgeVaultAssumption
<1>6. ASSUME NEW u \in Nat, u <= p.units,
             WritePosition(l, a, [p EXCEPT !.units = @ - u]),
             TokensOut(a, p.mode, u), vaultConfig' = vaultConfig
      PROVE  VaultInv' /\ Next
    <2> DEFINE q == [p EXCEPT !.units = @ - u]
    <2>1. /\ q \in Position /\ q.units = p.units - u
          /\ q.pending_lien_units = p.pending_lien_units /\ q.mode = p.mode
        BY <1>2, <1>4, <1>6 DEF Position
    <2>2. escrow' \in [Asset -> Int]
        BY <1>2, <1>6, TokensOutType
    <2>3. WritePosition(l, a, q) /\ vaultConfig' = vaultConfig
        BY <1>6
    <2> HIDE DEF p, q
    <2>4. /\ q.units + q.pending_lien_units <= MaxUnits
          /\ q.pending_lien_units > 0 => q.mode # "Escrow"
        BY <1>3, <1>4, <1>5, <1>6, <2>1 DEF PositionSound
    <2>5. QED
        BY <2>1, <2>2, <2>3, <2>4, WriteOnePosition
<1>7. ASSUME NEW b \in Party, Release(b, l, a, units)
      PROVE  VaultInv' /\ Next
    BY <1>2, <1>6, <1>7 DEF Release
<1>8. CASE Seize(l, a, units)
    BY <1>2, <1>6, <1>8 DEF Seize
<1>9. CASE RecordLien(l, a, units)
    <2> DEFINE q == [p EXCEPT !.pending_lien_units = @ - units, !.units = @ + units]
    <2>1. units <= p.pending_lien_units /\ units > 0
        BY <1>9 DEF RecordLien
    <2>2. /\ WritePosition(l, a, q) /\ vaultConfig' = vaultConfig
          /\ escrow' \in [Asset -> Int]
        BY <1>2, <1>9 DEF RecordLien, VaultTypeOK
    <2>3. /\ q.units = p.units + units /\ q.mode = p.mode
          /\ q.pending_lien_units = p.pending_lien_units - units
        BY <1>2 DEF Position
    <2>4. q \in Position
        <3>1. p.pending_lien_units - units \in Nat /\ p.units + units \in Nat
            BY <1>2, <1>4, <2>1
        <3>2. QED
            BY <1>2, <3>1 DEF Position
    <2> HIDE DEF p, q
    <2>5. /\ q.units + q.pending_lien_units <= MaxUnits
          /\ q.pending_lien_units > 0 => q.mode # "Escrow"
        BY <1>2, <1>3, <1>4, <1>5, <2>1, <2>3 DEF PositionSound
    <2>6. QED
        BY <2>2, <2>4, <2>5, WriteOnePosition
<1>10. ASSUME NEW b \in Party, Pledge(b, l, a, units)
       PROVE  VaultInv' /\ Next
    <2> DEFINE mode == vaultConfig[a].custody_mode
    <2>1. /\ vaultConfig[a] # None /\ vaultConfig' = vaultConfig
          /\ (p.units = 0 /\ p.pending_lien_units = 0) \/ p.mode = mode
          /\ p.units + p.pending_lien_units + units <= MaxUnits
        BY <1>10 DEF Pledge
    <2>2. mode \in CustodyModes
        BY <1>2, <2>1 DEF VaultTypeOK, VaultConfig
    <2>3. CASE mode = "Escrow"
        <3> DEFINE q == [p EXCEPT !.units = @ + units, !.mode = mode]
        <3>1. WritePosition(l, a, q) /\ escrow' = [escrow EXCEPT ![a] = @ + units]
            BY <1>10, <2>3 DEF Pledge
        <3>2. escrow' \in [Asset -> Int]
            BY <1>2, <3>1 DEF VaultTypeOK
        <3>3. /\ q.units = p.units + units /\ q.mode = mode
              /\ q.pending_lien_units = p.pending_lien_units
            BY <1>2 DEF Position
        <3>4. q \in Position
            <4> HIDE DEF p, mode
            <4>1. p.units + units \in Nat
                BY <1>2, <1>4
            <4>2. [p EXCEPT !.units = p.units + units] \in Position
                BY <1>2, <4>1 DEF Position
            <4>3. QED
                BY <2>2, <4>2 DEF Position
        <3> HIDE DEF p, q, mode
        <3>5. /\ q.units + q.pending_lien_units <= MaxUnits
              /\ q.pending_lien_units > 0 => q.mode # "Escrow"
            BY <1>2, <1>3, <1>4, <1>5, <2>1, <3>3 DEF PositionSound
        <3>6. QED
            BY <2>1, <3>1, <3>2, <3>4, <3>5, WriteOnePosition
    <2>4. CASE mode # "Escrow"
        <3> DEFINE q == [p EXCEPT !.pending_lien_units = @ + units, !.mode = mode]
        <3>1. WritePosition(l, a, q) /\ escrow' = escrow
            BY <1>10, <2>4 DEF Pledge
        <3>2. escrow' \in [Asset -> Int]
            BY <1>2, <3>1 DEF VaultTypeOK
        <3>3. /\ q.units = p.units /\ q.mode = mode
              /\ q.pending_lien_units = p.pending_lien_units + units
            BY <1>2 DEF Position
        <3>4. q \in Position
            <4> HIDE DEF p, mode
            <4>1. p.pending_lien_units + units \in Nat
                BY <1>2, <1>4
            <4>2. [p EXCEPT !.pending_lien_units = p.pending_lien_units + units] \in Position
                BY <1>2, <4>1 DEF Position
            <4>3. QED
                BY <2>2, <4>2 DEF Position
        <3> HIDE DEF p, q, mode
        <3>5. /\ q.units + q.pending_lien_units <= MaxUnits
              /\ q.pending_lien_units > 0 => q.mode # "Escrow"
            BY <1>2, <1>4, <1>5, <2>1, <2>4, <3>3
        <3>6. QED
            BY <2>1, <3>1, <3>2, <3>4, <3>5, WriteOnePosition
    <2>5. QED
        BY <2>3, <2>4
<1>11. QED
    BY <1>1, <1>7, <1>8, <1>9, <1>10

(* Steps that touch neither a line nor a position keep the invariant. *)
LEMMA QuietKeepsVault ==
    ASSUME VaultInv, IndInv', VaultTypeOK', UNCHANGED <<lines, positions>>
    PROVE  VaultInv'
    BY DEF VaultInv, CollateralInStep, Exists

(* Every step of the composed system is a step of the credit line alone,   *)
(* or leaves it as it is, and keeps the invariant.                         *)
LEMMA VaultNextKeeps ==
    ASSUME VaultInv, [VaultNext]_<<vars, vaultVars>>
    PROVE  VaultInv' /\ [Next]_vars
<1>0. IndInv /\ VaultTypeOK
    BY DEF VaultInv
<1>1. ASSUME NEW l \in LineId, VaultCall(l)
      PROVE  VaultInv' /\ [Next]_vars
    BY <1>1, VaultCallKeeps
<1>2. ASSUME NEW l \in LineId, LineCall(l), UNCHANGED vaultVars
      PROVE  VaultInv' /\ [Next]_vars
    BY <1>2, LineCallKeepsVault DEF Next
<1>3. CASE Environment /\ UNCHANGED vaultVars
    <2>1. Next
        BY <1>3 DEF Next
    <2>2. IndInv'
        BY <1>0, <2>1, NextKeeps
    <2>3. VaultTypeOK' /\ UNCHANGED <<lines, positions>>
        BY <1>0, <1>3 DEF Environment, ConfigureAsset, PriceMoves, CloseLedger,
                          VaultTypeOK, vaultVars
    <2>4. QED
        BY <2>1, <2>2, <2>3, QuietKeepsVault
<1>4. ASSUME NEW a \in Asset, NEW config \in VaultConfigs, VaultConfigureAsset(a, config)
      PROVE  VaultInv' /\ [Next]_vars
    <2>1. UNCHANGED vars /\ positions' = positions
        BY <1>4 DEF VaultConfigureAsset
    <2>2. VaultTypeOK'
        BY <1>0, <1>4, PledgeVaultAssumption DEF VaultConfigureAsset, VaultTypeOK
    <2>3. IndInv'
        BY <1>0, <2>1, NextKeeps
    <2>4. lines' = lines
        BY <2>1 DEF vars
    <2>5. QED
        BY <2>1, <2>2, <2>3, <2>4, QuietKeepsVault
<1>5. CASE UNCHANGED <<vars, vaultVars>>
    <2>1. UNCHANGED vars /\ lines' = lines /\ positions' = positions
        BY <1>5 DEF vars, vaultVars
    <2>2. VaultTypeOK'
        BY <1>0, <1>5 DEF vaultVars, VaultTypeOK
    <2>3. IndInv'
        BY <1>0, <2>1, NextKeeps
    <2>4. QED
        BY <2>1, <2>2, <2>3, QuietKeepsVault
<1>6. QED
    BY <1>1, <1>2, <1>3, <1>4, <1>5 DEF VaultNext

(* The vault beside the credit line keeps the invariant of both. *)
THEOREM VaultInvariantHolds == VaultSpec => []VaultInv
<1>1. VaultInit => VaultInv
    BY VaultInitInv
<1>2. VaultInv /\ [VaultNext]_<<vars, vaultVars>> => VaultInv'
    BY VaultNextKeeps
<1>3. QED
    BY <1>1, <1>2, PTL DEF VaultSpec

(* The composed system implements the credit line's own specification:     *)
(* whatever holds of the credit line called by anybody holds of it behind  *)
(* the vault.                                                              *)
THEOREM VaultImplementsCreditLine == VaultSpec => Spec
<1>1. VaultInit => Init
    BY DEF VaultInit
<1>2. VaultInv /\ [VaultNext]_<<vars, vaultVars>> => [Next]_vars
    BY VaultNextKeeps
<1>3. QED
    BY <1>1, <1>2, VaultInvariantHolds, PTL DEF VaultSpec, Spec

(* The vault's state keeps its types. *)
THEOREM VaultTypesHold == VaultSpec => []VaultTypeOK
<1>1. VaultInv => VaultTypeOK
    BY DEF VaultInv
<1>2. QED
    BY <1>1, VaultInvariantHolds, PTL

(* A live line counts exactly the units the vault holds for it. *)
THEOREM CollateralInStepHolds == VaultSpec => []CollateralInStep
<1>1. VaultInv => CollateralInStep
    BY DEF VaultInv
<1>2. QED
    BY <1>1, VaultInvariantHolds, PTL

(* What one position contributes is an integer.                            *)
LEMMA EscrowedInt ==
    ASSUME NEW p \in Position
    PROVE  Escrowed(p) \in Int
    BY DEF Position, Escrowed

(* Tokens that move with one position of their asset keep the vault's      *)
(* address in step with its positions.                                     *)
LEMMA EscrowMoves ==
    ASSUME VaultInv, EscrowBacked, NEW l \in LineId, NEW a \in Asset, NEW q \in Position,
           positions' = [positions EXCEPT ![<<l, a>>] = q],
           escrow' \in [Asset -> Int],
           \A b \in Asset \ {a} : escrow'[b] = escrow[b],
           escrow'[a] - escrow[a] = Escrowed(q) - Escrowed(positions[<<l, a>>])
    PROVE  EscrowBacked'
<1>1. /\ positions \in [LineId \X Asset -> Position]
      /\ escrow \in [Asset -> Int]
    BY DEF VaultInv, VaultTypeOK
<1>2. /\ positions'[<<l, a>>] = q
      /\ \A k \in LineId, b \in Asset :
             <<k, b>> # <<l, a>> => positions'[<<k, b>>] = positions[<<k, b>>]
    BY <1>1
<1>3. ASSUME NEW b \in Asset, b # a
      PROVE  escrow'[b] = SumFunctionOnSet(EscrowUnits(b)', LineId)
  <2>1. \A k \in LineId : positions'[<<k, b>>] = positions[<<k, b>>]
      BY <1>2, <1>3
  <2>2. EscrowUnits(b)' = EscrowUnits(b)
      BY <2>1 DEF EscrowUnits
  <2>3. escrow'[b] = escrow[b]
      BY <1>3
  <2>4. QED
      BY <2>2, <2>3 DEF EscrowBacked
<1>4. escrow'[a] = SumFunctionOnSet(EscrowUnits(a)', LineId)
  <2>1. PICK f, g : f = EscrowUnits(a) /\ g = EscrowUnits(a)'
      OBVIOUS
  <2>2. \A k \in LineId : /\ f[k] = Escrowed(positions[<<k, a>>])
                          /\ g[k] = Escrowed(positions'[<<k, a>>])
      BY <2>1 DEF EscrowUnits
  <2>3. \A k \in LineId : positions[<<k, a>>] \in Position /\ positions'[<<k, a>>] \in Position
      BY <1>1
  <2>4. \A k \in LineId : f[k] \in Int /\ g[k] \in Int
      BY <2>2, <2>3, EscrowedInt
  <2>5. \A k \in LineId \ {l} : f[k] = g[k]
      BY <1>2, <2>2
  <2>6. escrow'[a] - escrow[a] = g[l] - f[l]
      BY <1>2, <2>2
  <2>7. SumFunctionOnSet(g, LineId) = SumFunctionOnSet(f, LineId) + (g[l] - f[l])
      BY <2>4, <2>5, FiniteLines, SumMoves
  <2>8. escrow[a] = SumFunctionOnSet(f, LineId)
      BY <2>1 DEF EscrowBacked
  <2>9. escrow'[a] = SumFunctionOnSet(g, LineId)
    <3>1. f[l] \in Int /\ g[l] \in Int /\ escrow[a] \in Int /\ escrow'[a] \in Int
        BY <1>1, <2>4
    <3>2. QED
        BY <2>6, <2>7, <2>8, <3>1
  <2>10. QED
      BY <2>1, <2>9
<1>5. QED
    BY <1>3, <1>4 DEF EscrowBacked

(* pledge, release, record_lien and liquidate move tokens and units        *)
(* together.                                                               *)
LEMMA VaultCallEscrow ==
    ASSUME VaultInv, EscrowBacked, NEW l \in LineId, VaultCall(l)
    PROVE  EscrowBacked'
<1>1. PICK a \in Asset, units \in Units :
          \/ \E b \in Party : Pledge(b, l, a, units) \/ Release(b, l, a, units)
          \/ RecordLien(l, a, units)
          \/ Seize(l, a, units)
    BY DEF VaultCall
<1> DEFINE p == positions[<<l, a>>]
<1>2. /\ p \in Position /\ units \in Nat
      /\ escrow \in [Asset -> Int]
      /\ vaultConfig \in [Asset -> VaultConfig \cup {None}]
    BY PledgeVaultAssumption DEF VaultInv, VaultTypeOK
<1>3. PositionSound(l, a, p)
    BY DEF VaultInv, PositionSound
<1>4. p.units \in Nat /\ p.pending_lien_units \in Nat /\ p.mode \in CustodyModes
    BY <1>2 DEF Position
<1>5. ASSUME units <= p.units, TokensOut(a, p.mode, units),
             WritePosition(l, a, [p EXCEPT !.units = @ - units])
      PROVE  EscrowBacked'
  <2> DEFINE q == [p EXCEPT !.units = @ - units]
  <2>1. q \in Position /\ q.units = p.units - units /\ q.mode = p.mode
      BY <1>2, <1>4, <1>5 DEF Position
  <2>2. positions' = [positions EXCEPT ![<<l, a>>] = q]
      BY <1>5 DEF WritePosition
  <2>3. escrow' = IF p.mode = "Escrow" THEN [escrow EXCEPT ![a] = @ - units] ELSE escrow
      BY <1>5 DEF TokensOut
  <2> HIDE DEF p, q
  <2>4. /\ escrow' \in [Asset -> Int]
        /\ \A b \in Asset \ {a} : escrow'[b] = escrow[b]
        /\ escrow'[a] = IF p.mode = "Escrow" THEN escrow[a] - units ELSE escrow[a]
      BY <1>2, <2>3
  <2>5. escrow'[a] - escrow[a] = Escrowed(q) - Escrowed(p)
      BY <1>2, <1>4, <2>1, <2>4 DEF Escrowed
  <2>6. QED
      BY <2>1, <2>2, <2>4, <2>5, EscrowMoves DEF p
<1>6. ASSUME NEW b \in Party, Release(b, l, a, units) PROVE EscrowBacked'
    BY <1>5, <1>6 DEF Release
<1>7. CASE Seize(l, a, units)
    BY <1>5, <1>7 DEF Seize
<1>8. ASSUME NEW q \in Position, positions' = [positions EXCEPT ![<<l, a>>] = q],
             escrow' = escrow, Escrowed(q) = 0, Escrowed(p) = 0
      PROVE  EscrowBacked'
  <2>1. escrow' \in [Asset -> Int] /\ \A b \in Asset \ {a} : escrow'[b] = escrow[b]
      BY <1>2, <1>8
  <2>2. escrow'[a] - escrow[a] = Escrowed(q) - Escrowed(p)
      BY <1>2, <1>8
  <2>3. QED
      BY <1>8, <2>1, <2>2, EscrowMoves
<1>9. CASE RecordLien(l, a, units)
  <2> DEFINE q == [p EXCEPT !.pending_lien_units = @ - units, !.units = @ + units]
  <2>1. units <= p.pending_lien_units /\ units > 0 /\ escrow' = escrow
      BY <1>9 DEF RecordLien
  <2>2. positions' = [positions EXCEPT ![<<l, a>>] = q]
      BY <1>9 DEF RecordLien, WritePosition
  <2>3. q.mode = p.mode
      BY <1>2 DEF Position
  <2>4. q \in Position
    <3>1. p.pending_lien_units - units \in Nat /\ p.units + units \in Nat
        BY <1>2, <1>4, <2>1
    <3>2. QED
        BY <1>2, <3>1 DEF Position
  <2>5. p.mode # "Escrow"
      BY <1>2, <1>3, <1>4, <2>1 DEF PositionSound
  <2>6. Escrowed(p) = 0 /\ Escrowed(q) = 0
      BY <2>3, <2>5 DEF Escrowed
  <2> HIDE DEF q
  <2>7. QED
      BY <1>8, <2>1, <2>2, <2>4, <2>6
<1>10. ASSUME NEW b \in Party, Pledge(b, l, a, units) PROVE EscrowBacked'
  <2> DEFINE mode == vaultConfig[a].custody_mode
  <2>1. /\ vaultConfig[a] # None
        /\ (p.units = 0 /\ p.pending_lien_units = 0) \/ p.mode = mode
      BY <1>10 DEF Pledge
  <2>2. mode \in CustodyModes
      BY <1>2, <2>1 DEF VaultConfig
  <2>3. CASE mode = "Escrow"
    <3> DEFINE q == [p EXCEPT !.units = @ + units, !.mode = mode]
    <3>1. /\ positions' = [positions EXCEPT ![<<l, a>>] = q]
          /\ escrow' = [escrow EXCEPT ![a] = @ + units]
        BY <1>10, <2>3 DEF Pledge, WritePosition
    <3>2. q.units = p.units + units /\ q.mode = mode
        BY <1>2 DEF Position
    <3>3. q \in Position
      <4> HIDE DEF p, mode
      <4>1. p.units + units \in Nat
          BY <1>2, <1>4
      <4>2. [p EXCEPT !.units = p.units + units] \in Position
          BY <1>2, <4>1 DEF Position
      <4>3. QED
          BY <2>2, <4>2 DEF Position
    <3> HIDE DEF p, q, mode
    <3>4. /\ escrow' \in [Asset -> Int]
          /\ \A c \in Asset \ {a} : escrow'[c] = escrow[c]
          /\ escrow'[a] = escrow[a] + units
        BY <1>2, <3>1
    <3>5. Escrowed(p) = p.units
        BY <1>4, <2>1, <2>3 DEF Escrowed
    <3>6. Escrowed(q) = p.units + units
        BY <2>3, <3>2 DEF Escrowed
    <3>7. escrow'[a] - escrow[a] = Escrowed(q) - Escrowed(p)
        BY <1>2, <1>4, <3>4, <3>5, <3>6
    <3>8. QED
        BY <3>1, <3>3, <3>4, <3>7, EscrowMoves DEF p
  <2>4. CASE mode # "Escrow"
    <3> DEFINE q == [p EXCEPT !.pending_lien_units = @ + units, !.mode = mode]
    <3>1. positions' = [positions EXCEPT ![<<l, a>>] = q] /\ escrow' = escrow
        BY <1>10, <2>4 DEF Pledge, WritePosition
    <3>2. q.mode = mode
        BY <1>2 DEF Position
    <3>3. q \in Position
      <4> HIDE DEF p, mode
      <4>1. p.pending_lien_units + units \in Nat
          BY <1>2, <1>4
      <4>2. [p EXCEPT !.pending_lien_units = p.pending_lien_units + units] \in Position
          BY <1>2, <4>1 DEF Position
      <4>3. QED
          BY <2>2, <4>2 DEF Position
    <3>4. Escrowed(q) = 0
        BY <2>4, <3>2 DEF Escrowed
    <3>5. Escrowed(p) = 0
        BY <2>1, <2>4 DEF Escrowed
    <3> HIDE DEF q, mode
    <3>6. QED
        BY <1>8, <3>1, <3>3, <3>4, <3>5
  <2>5. QED
      BY <2>3, <2>4
<1>11. QED
    BY <1>1, <1>6, <1>7, <1>9, <1>10

(* The vault's address holds exactly the units of its escrow positions,    *)
(* for any number of lines and assets and any order of pledges, releases,  *)
(* lien confirmations, seizures and changes of the custody mode.           *)
THEOREM EscrowBackedHolds == VaultSpec => []EscrowBacked
<1>1. VaultInit => EscrowBacked
  <2> SUFFICES ASSUME VaultInit, NEW a \in Asset
               PROVE  escrow[a] = SumFunctionOnSet(EscrowUnits(a), LineId)
      BY DEF EscrowBacked
  <2>1. \A l \in LineId : EscrowUnits(a)[l] = 0
      BY DEF VaultInit, NoPosition, EscrowUnits, Escrowed
  <2>2. SumFunctionOnSet(EscrowUnits(a), LineId) = 0
      BY <2>1, FiniteLines, SumOfZeroes
  <2>3. QED
      BY <2>2 DEF VaultInit
<1>2. ASSUME VaultInv, EscrowBacked, [VaultNext]_<<vars, vaultVars>>
      PROVE  EscrowBacked'
  <2>1. CASE UNCHANGED <<positions, escrow>>
      BY <1>2, <2>1 DEF EscrowBacked, EscrowUnits
  <2>2. ASSUME NEW l \in LineId, VaultCall(l) PROVE EscrowBacked'
      BY <1>2, <2>2, VaultCallEscrow
  <2>3. QED
      BY <1>2, <2>1, <2>2 DEF VaultNext, vaultVars, VaultConfigureAsset
<1>3. QED
    BY <1>1, <1>2, VaultInvariantHolds, PTL DEF VaultSpec

(* A position holds units of its line's own asset only, and pending units  *)
(* only in a lien mode.                                                    *)
THEOREM PositionsMatchLinesHolds == VaultSpec => []PositionsMatchLines
<1>1. VaultInv => PositionsMatchLines
    BY DEF VaultInv, PositionsMatchLines
<1>2. QED
    BY <1>1, VaultInvariantHolds, PTL

-----------------------------------------------------------------------------
(* Leverage: drawing and releasing *)

(* Only draw raises a line's principal, and its debt afterwards is the one *)
(* its LTV check was made for.                                             *)
LEMMA DrawChecked ==
    ASSUME IndInv, NEW l \in LineId, NEW p \in Party, NEW amount \in Amounts,
           Draw(p, l, amount)
    PROVE  /\ lines[l].status = "Open"
           /\ MarginOf(DebtOf(lines'[l], now), lines[l].pledged_units, lines[l].asset)
                  = "Healthy"
<1> DEFINE accrued == Accrue(lines[l])
<1>1. /\ Exists(l) /\ accrued.status = "Open"
      /\ MarginOf(accrued.drawn + accrued.accrued_interest + amount,
                  accrued.pledged_units, accrued.asset) = "Healthy"
    BY DEF Draw
<1>2. lines[l] \in Line /\ TypeOK /\ LineSound(lines[l], liquidation[l])
    BY <1>1, ExistsBelow
<1>3. /\ accrued.drawn = lines[l].drawn
      /\ accrued.accrued_interest = Accrued(lines[l], now)
    BY <1>1, <1>2, AccrueSound DEF Exists
<1>4. /\ accrued.status = lines[l].status /\ accrued.asset = lines[l].asset
      /\ accrued.pledged_units = lines[l].pledged_units
    BY <1>2, AccrueKeepsCollateral
<1>5. /\ DebtOf(lines'[l], now') = DebtOf(lines[l], now) + amount
      /\ ledger' = ledger
    BY DrawMoves
<1>6. now' = now
    BY <1>5 DEF now
<1>7. DebtOf(lines[l], now) = lines[l].drawn + Accrued(lines[l], now)
    BY DEF DebtOf
<1> HIDE DEF accrued
<1>8. DebtOf(lines'[l], now) = accrued.drawn + accrued.accrued_interest + amount
    BY <1>3, <1>5, <1>6, <1>7
<1>9. QED
    BY <1>1, <1>4, <1>8

(* No other step raises the principal of a line. *)
LEMMA OnlyDrawRaises ==
    ASSUME IndInv, [Next]_vars, NEW k \in LineId, lines'[k].drawn > lines[k].drawn
    PROVE  \E p \in Party, amount \in Amounts : Draw(p, k, amount)
<1>0. lines \in [LineId -> Line] /\ lines[k].drawn \in Nat
    BY DEF IndInv, TypeOK, Line
<1>1. ASSUME lines'[k].drawn = lines[k].drawn
      PROVE  FALSE
    BY <1>0, <1>1
<1>2. ASSUME NEW l \in LineId, NEW line, WriteLine(l, line), line.drawn \in Nat,
             line.drawn <= lines[l].drawn
      PROVE  FALSE
    BY <1>0, <1>2 DEF WriteLine
<1>3. ASSUME NEW l \in LineId, NEW units \in Units,
             \/ SyncCollateral(l, units)
             \/ \E a \in Asset : SyncFromVault(l, a, units)
      PROVE  FALSE
    <2>1. lines' = [lines EXCEPT ![l] = [lines[l] EXCEPT !.pledged_units = units]]
        BY <1>3 DEF SyncCollateral, SyncFromVault, WriteLine
    <2>2. [lines[l] EXCEPT !.pledged_units = units].drawn = lines[l].drawn
        BY <1>0 DEF Line
    <2>3. QED
        BY <1>0, <1>1, <2>1, <2>2
<1>4. CASE Environment
    BY <1>1, <1>4 DEF Environment, ConfigureAsset, PriceMoves, CloseLedger
<1>5. CASE UNCHANGED vars
    BY <1>1, <1>5 DEF vars
<1>6. ASSUME NEW l \in LineId, LineCall(l)
      PROVE  \E p \in Party, amount \in Amounts : Draw(p, k, amount)
    <2>0. lines[l] \in Line /\ lines[l].drawn \in Nat
        BY <1>0 DEF Line
    <2>1. ASSUME NEW lender \in Party, NEW borrower \in Party, NEW a \in Asset,
                 NEW limit \in Limits, NEW rate \in Rates,
                 Open(l, lender, borrower, a, limit, rate)
          PROVE  FALSE
        <3> DEFINE line == [NoLine EXCEPT !.lender = lender, !.borrower = borrower,
                                          !.asset = a, !.limit = limit, !.rate_bps = rate,
                                          !.status = "Open", !.last_accrual_ts = now]
        <3>1. WriteLine(l, line)
            BY <2>1 DEF Open
        <3>2. line.drawn = 0
            BY DEF NoLine
        <3> HIDE DEF line
        <3>3. QED
            BY <1>2, <2>0, <3>1, <3>2
    <2>2. ASSUME NEW p \in Party, NEW amount \in Amounts,
                 Fund(p, l, amount) \/ WithdrawUndrawn(p, l, amount)
          PROVE  FALSE
        <3>1. PICK f : WriteLine(l, [lines[l] EXCEPT !.funded = f])
            BY <2>2 DEF Fund, WithdrawUndrawn
        <3> DEFINE line == [lines[l] EXCEPT !.funded = f]
        <3>2. line.drawn = lines[l].drawn /\ WriteLine(l, line)
            BY <2>0, <3>1 DEF Line
        <3> HIDE DEF line
        <3>3. QED
            BY <1>2, <2>0, <3>2
    <2>3. ASSUME NEW p \in Party, NEW amount \in Amounts, WithdrawInterest(p, l, amount)
          PROVE  FALSE
        BY <1>1, <2>3 DEF WithdrawInterest
    <2>4. ASSUME NEW p \in Party, NEW amount \in Amounts, Draw(p, l, amount)
          PROVE  Draw(p, k, amount)
        <3>1. CASE k = l
            BY <2>4, <3>1
        <3>2. CASE k # l
            BY <1>1, <2>4, <3>2, DrawMoves
        <3>3. QED
            BY <3>1, <3>2
    <2>5. ASSUME NEW amount \in Amounts, Repay(l, amount)
          PROVE  FALSE
        <3> DEFINE accrued   == Accrue(lines[l])
                   applied   == Lesser(amount, accrued.accrued_interest + accrued.drawn)
                   interest  == Lesser(applied, accrued.accrued_interest)
                   principal == applied - interest
                   line == [accrued EXCEPT !.accrued_interest = @ - interest,
                                           !.drawn = @ - principal]
        <3>1. WriteLine(l, line) /\ Exists(l)
            BY <2>5 DEF Repay
        <3>2. accrued \in Line /\ accrued.drawn = lines[l].drawn
            BY <3>1, ExistsBelow, AccrueSound DEF Exists
        <3>3. amount \in Nat
            BY CreditLineAssumption
        <3> HIDE DEF accrued
        <3>4. accrued.drawn \in Nat /\ accrued.accrued_interest \in Nat
            BY <3>2 DEF Line
        <3>5. principal \in Nat /\ accrued.drawn - principal \in Nat
            BY <3>3, <3>4 DEF Lesser
        <3> HIDE DEF applied, interest, principal
        <3>6. line.drawn = accrued.drawn - principal
            BY <3>2 DEF Line
        <3> HIDE DEF line
        <3>7. line.drawn \in Nat /\ line.drawn <= lines[l].drawn
            BY <3>2, <3>4, <3>5, <3>6
        <3>8. QED
            BY <1>2, <3>1, <3>7
    <2>6. CASE Poke(l)
        <3>1. PICK st, us, bl :
                  WriteLine(l, [lines[l] EXCEPT !.margin_state = st, !.unhealthy_since = us,
                                                !.breach_ledger = bl])
            BY <2>6 DEF Poke
        <3> DEFINE line == [lines[l] EXCEPT !.margin_state = st, !.unhealthy_since = us,
                                            !.breach_ledger = bl]
        <3>2. line.drawn = lines[l].drawn /\ WriteLine(l, line)
            BY <2>0, <3>1 DEF Line
        <3> HIDE DEF line
        <3>3. QED
            BY <1>2, <2>0, <3>2
    <2>7. CASE Liquidate(l)
        <3> DEFINE line == [lines[l] EXCEPT !.status = "Liquidating",
                                            !.margin_state = "Liquidation"]
        <3>1. line.drawn = lines[l].drawn /\ WriteLine(l, line)
            BY <2>0, <2>7 DEF Line, Liquidate
        <3> HIDE DEF line
        <3>2. QED
            BY <1>2, <2>0, <3>1
    <2>8. ASSUME NEW p \in Party, CloseLiquidated(p, l)
          PROVE  FALSE
        <3> DEFINE line == [lines[l] EXCEPT !.funded = @ - lines[l].drawn, !.drawn = 0,
                                            !.accrued_interest = 0, !.pledged_units = 0,
                                            !.margin_state = "Healthy",
                                            !.breach_ledger = None,
                                            !.unhealthy_since = None, !.status = "Closed"]
        <3>1. WriteLine(l, line)
            BY <2>8 DEF CloseLiquidated
        <3>2. line.drawn = 0
            BY <2>0 DEF Line
        <3> HIDE DEF line
        <3>3. QED
            BY <1>2, <2>0, <3>1, <3>2
    <2>9. QED
        BY <1>6, <2>1, <2>2, <2>3, <2>4, <2>5, <2>6, <2>7, <2>8 DEF LineCall
<1>7. QED
    BY <1>3, <1>4, <1>5, <1>6 DEF Next

(* A draw is healthy against the units the vault itself holds. *)
THEOREM DrawBacked == VaultSpec => DrawBackedByVault
<1> DEFINE Backed ==
        \A l \in LineId :
            lines'[l].drawn > lines[l].drawn =>
                LET a == lines[l].asset
                IN  MarginOf(DebtOf(lines'[l], now), positions[<<l, a>>].units, a) = "Healthy"
<1>1. ASSUME VaultInv, [VaultNext]_<<vars, vaultVars>>
      PROVE  Backed
    <2>1. IndInv /\ [Next]_vars /\ CollateralInStep
        BY <1>1, VaultNextKeeps DEF VaultInv
    <2>2. SUFFICES ASSUME NEW l \in LineId, lines'[l].drawn > lines[l].drawn
                   PROVE  MarginOf(DebtOf(lines'[l], now),
                                   positions[<<l, lines[l].asset>>].units, lines[l].asset)
                              = "Healthy"
        OBVIOUS
    <2>3. PICK p \in Party, amount \in Amounts : Draw(p, l, amount)
        BY <2>1, <2>2, OnlyDrawRaises
    <2>4. /\ lines[l].status = "Open"
          /\ MarginOf(DebtOf(lines'[l], now), lines[l].pledged_units, lines[l].asset)
                 = "Healthy"
        BY <2>1, <2>3, DrawChecked
    <2>5. lines[l].pledged_units = positions[<<l, lines[l].asset>>].units
        BY <2>1, <2>4 DEF CollateralInStep
    <2>6. QED
        BY <2>4, <2>5
<1>2. QED
    BY <1>1, VaultInvariantHolds, PTL DEF VaultSpec, DrawBackedByVault

(* A release leaves an indebted line Healthy by the credit line's own      *)
(* figures, while both contracts hold the same terms for the asset.        *)
THEOREM ReleaseHealthy == VaultSpec => ReleaseKeepsHealthy
<1> DEFINE Safe ==
        \A l \in LineId, p \in Party, a \in Asset, units \in Units :
            (Release(p, l, a, units) /\ SameTerms(a) /\ DebtOf(lines[l], now) > 0)
                => StateOf(lines[l])' = "Healthy" /\ PriceOk(a)
<1>1. ASSUME VaultInv
      PROVE  Safe
    <2>1. SUFFICES ASSUME NEW l \in LineId, NEW p \in Party, NEW a \in Asset,
                          NEW units \in Units, Release(p, l, a, units), SameTerms(a),
                          DebtOf(lines[l], now) > 0
                   PROVE  StateOf(lines[l])' = "Healthy" /\ PriceOk(a)
        OBVIOUS
    <2> DEFINE remaining == positions[<<l, a>>].units - units
               q == [positions[<<l, a>>] EXCEPT !.units = @ - units]
    <2>2. ReleaseIsHealthy(l, a, remaining) /\ WritePosition(l, a, q)
        BY <2>1 DEF Release
    <2>3. q.units = remaining
        BY <1>1 DEF VaultInv, VaultTypeOK, Position
    <2>4. /\ lines[l] \in Line /\ lines[l].asset = a
          /\ lines' = [lines EXCEPT ![l] = [lines[l] EXCEPT !.pledged_units = q.units]]
          /\ UNCHANGED <<ledger, price, assetConfig>>
          /\ lines \in [LineId -> Line]
        BY <1>1, <2>2 DEF WritePosition, SyncFromVault, WriteLine, VaultInv, IndInv, TypeOK
    <2> HIDE DEF q, remaining
    <2> DEFINE line == [lines[l] EXCEPT !.pledged_units = q.units]
    <2>5. /\ line.asset = a /\ line.pledged_units = remaining
          /\ line.drawn = lines[l].drawn /\ line.rate_bps = lines[l].rate_bps
          /\ line.last_accrual_ts = lines[l].last_accrual_ts
          /\ line.accrued_interest = lines[l].accrued_interest
        BY <2>3, <2>4 DEF Line
    <2>6. lines'[l] = line
        BY <2>4
    <2> HIDE DEF line
    <2>7. DebtOf(line, now) = DebtOf(lines[l], now)
        BY <2>5 DEF DebtOf, Accrued, InterestDelta
    <2>8. MarginOf(DebtOf(lines[l], now), remaining, a) = "Healthy" /\ PriceOk(a)
        BY <2>1, <2>2 DEF ReleaseIsHealthy, SameTerms, MarginOf
    <2>9. now' = now
        BY <2>4 DEF now
    <2>10. StateOf(lines[l])' = MarginOf(DebtOf(line, now), remaining, a)
        BY <2>4, <2>5, <2>6, <2>9 DEF StateOf, MarginOf
    <2>11. QED
        BY <2>7, <2>8, <2>10
<1>2. QED
    BY <1>1, VaultInvariantHolds, PTL DEF VaultSpec, ReleaseKeepsHealthy

-----------------------------------------------------------------------------
(* The keeper that liquidates *)


CurePhases == {"Idle", "Poking", "Read", "Freezing", "Seizing", "Counting", "Booking"}

CureRun == [phase : CurePhases, resumed : BOOLEAN, pledged : Nat, held : Nat]

KeeperTypes ==
    /\ lineRow \in [LineId -> {"open", "liquidating"}]
    /\ pledgeRows \in [LineId -> [active : Nat, unapplied : Int]]
    /\ cureJob \in [LineId -> CureRun]
    /\ liquidationRow \in [LineId -> Nat \cup {None}]
    /\ seized \in [LineId -> Nat]
    /\ touched \in [LineId -> BOOLEAN]

(* What the vault holds for a line. *)
Held(l) == IF Exists(l) THEN positions[<<l, lines[l].asset>>].units ELSE 0

Frozen(l) == liquidation[l] # None

(* Where a job stands that has found or made the line frozen. *)
PastFreeze(l) ==
    \/ cureJob[l].phase \in {"Seizing", "Counting", "Booking"}
    \/ cureJob[l].phase = "Read" /\ cureJob[l].resumed

(* What the job has read is still so, as long as the borrower stays away.  *)
Undisturbed(l) ==
    /\ Frozen(l) => Held(l) + seized[l] = liquidation[l].seized_units
    /\ seized[l] > 0 => Held(l) = 0
    /\ cureJob[l].phase \in {"Freezing", "Seizing"} => cureJob[l].held = Held(l)
    /\ cureJob[l].phase = "Counting" => Held(l) = 0 /\ cureJob[l].held \in {0, seized[l]}
    /\ cureJob[l].phase = "Booking" => Held(l) = 0 /\ cureJob[l].held = seized[l]
    /\ liquidationRow[l] # None => Frozen(l) /\ Held(l) = 0 /\ liquidationRow[l] = seized[l]

(* One line between the contracts, the job and the books: until the        *)
(* liquidation is booked, the pledge rows and the intents still to apply   *)
(* account for what the vault holds and for what it has sent.              *)
LineBooks(l) ==
    /\ cureJob[l].phase # "Idle" => Exists(l) /\ liquidationRow[l] = None
    /\ liquidationRow[l] # None => lineRow[l] = "liquidating"
    /\ PastFreeze(l) => Frozen(l)
    /\ seized[l] > 0 => Frozen(l)
    /\ liquidationRow[l] = None =>
           pledgeRows[l].active + pledgeRows[l].unapplied = Held(l) + seized[l]
    /\ ~touched[l] => Undisturbed(l)

EscrowOnlyVault == \A a \in Asset : vaultConfig[a] # None => vaultConfig[a].custody_mode = "Escrow"

KeeperInv ==
    /\ VaultInv
    /\ EscrowOnlyVault
    /\ KeeperTypes
    /\ \A l \in LineId : LineBooks(l)

-----------------------------------------------------------------------------
(* The contracts under the keeper *)

(* What the vault holds for a line is a number of units. *)
LEMMA HeldNat ==
    ASSUME VaultInv, NEW l \in LineId
    PROVE  /\ Held(l) \in Nat
           /\ Exists(l) => /\ lines[l].asset \in Asset
                           /\ Held(l) = positions[<<l, lines[l].asset>>].units
                           /\ positions[<<l, lines[l].asset>>] \in Position
<1>1. Exists(l) => lines[l].asset \in Asset
    BY DEF VaultInv, IndInv, LineSound, Exists
<1>2. Exists(l) => positions[<<l, lines[l].asset>>] \in Position
    BY <1>1 DEF VaultInv, VaultTypeOK
<1>3. QED
    BY <1>1, <1>2 DEF Held, Position

(* A step that leaves the collateral, the record and the existence of a    *)
(* line as they are.                                                       *)
ChainStays(k) ==
    /\ Exists(k) => Exists(k)'
    /\ Held(k)' = Held(k)
    /\ Frozen(k)' <=> Frozen(k)
    /\ Frozen(k) => liquidation'[k].seized_units = liquidation[k].seized_units

BooksStay(k) ==
    /\ cureJob'[k] = cureJob[k]
    /\ lineRow'[k] = lineRow[k]
    /\ liquidationRow'[k] = liquidationRow[k]
    /\ seized'[k] = seized[k]
    /\ touched'[k] = touched[k]
    /\ pledgeRows'[k] = pledgeRows[k]

(* A line that nothing happens to stays in order. *)
LEMMA NothingHappens ==
    ASSUME NEW k \in LineId, LineBooks(k), ChainStays(k), BooksStay(k)
    PROVE  LineBooks(k)'
    BY DEF LineBooks, ChainStays, BooksStay, Undisturbed, PastFreeze, Frozen

(* Nothing on the chain moves. *)
LEMMA ChainUnchanged ==
    ASSUME UNCHANGED <<lines, positions, liquidation>>, NEW k \in LineId
    PROVE  ChainStays(k)
    BY DEF ChainStays, Held, Exists, Frozen

(* A call on the credit line that is no liquidate changes neither what the *)
(* vault holds nor what a record has frozen.                               *)
LEMMA CallStays ==
    ASSUME VaultInv, VaultInv', NEW l \in LineId, LineCall(l), UNCHANGED vaultVars,
           NEW k \in LineId, k # l \/ ~ Liquidate(l)
    PROVE  ChainStays(k)
<1>1. SameCollateral(k) \/ JustOpened(k)
    BY LineCallCollateral DEF VaultInv
<1>2. Exists(k) => Exists(k)'
    BY <1>1 DEF SameCollateral, JustOpened, Exists
<1>3. Held(k)' = Held(k)
    <2>1. CASE SameCollateral(k)
        BY <2>1 DEF SameCollateral, Held, Exists, vaultVars
    <2>2. CASE JustOpened(k)
        <3>1. Exists(k)' /\ ~ Exists(k)
            BY <2>2 DEF JustOpened, Exists
        <3>2. positions'[<<k, lines'[k].asset>>].units = 0
            BY <2>2 DEF VaultInv, CollateralInStep, JustOpened
        <3>3. QED
            BY <3>1, <3>2 DEF Held
    <2>3. QED
        BY <1>1, <2>1, <2>2
<1>4. /\ Frozen(k)' <=> Frozen(k)
      /\ Frozen(k) => liquidation'[k].seized_units = liquidation[k].seized_units
    <2>0. liquidation \in [LineId -> LiquidationRecord \cup {None}] /\ IndInv /\ IndInv'
        BY DEF VaultInv, IndInv, TypeOK
    <2>1. \/ UNCHANGED liquidation \/ Liquidate(l) \/ \E p \in Party : CloseLiquidated(p, l)
        BY DEF LineCall, Open, Fund, Draw, WithdrawUndrawn, WithdrawInterest, Repay, Poke
    <2>2. CASE UNCHANGED liquidation
        BY <2>2 DEF Frozen
    <2>3. CASE k # l /\ Liquidate(l)
        BY <2>0, <2>3 DEF Frozen, Liquidate
    <2>4. ASSUME NEW p \in Party, CloseLiquidated(p, l)
          PROVE  /\ Frozen(k)' <=> Frozen(k)
                 /\ Frozen(k) => liquidation'[k].seized_units = liquidation[k].seized_units
        <3>1. CASE k # l
            BY <2>0, <2>4, <3>1 DEF Frozen, CloseLiquidated
        <3>2. CASE k = l
            <4>1. Frozen(l) /\ liquidation[l] \in LiquidationRecord
                BY <2>0, <2>4 DEF Frozen, CloseLiquidated, IndInv, LineSound
            <4>2. PICK v, u, w :
                      liquidation'[l] = [liquidation[l] EXCEPT !.closed = TRUE, !.recovered = v,
                                                               !.surplus = u, !.shortfall = w]
                BY <2>0, <2>4 DEF CloseLiquidated
            <4>3. liquidation'[l].seized_units = liquidation[l].seized_units
                BY <4>1, <4>2 DEF LiquidationRecord
            <4>4. lines'[l].status = "Closed"
                BY <2>0, <2>4 DEF CloseLiquidated, WriteLine, IndInv, TypeOK, Line
            <4>5. Frozen(l)'
                BY <2>0, <4>4 DEF Frozen, IndInv, LineSound
            <4>6. QED
                BY <3>2, <4>1, <4>3, <4>5
        <3>3. QED
            BY <3>1, <3>2
    <2>5. QED
        BY <2>1, <2>2, <2>3, <2>4
<1>5. QED
    BY <1>2, <1>3, <1>4 DEF ChainStays

(* The keeper's seizure is a call of the vault's own: the units it has     *)
(* read are units the position may lose.                                   *)
LEMMA SeizeIsVaultCall ==
    ASSUME VaultInv, NEW l \in LineId, NEW a, NEW units \in Nat, Seize(l, a, units)
    PROVE  VaultCall(l) /\ a \in Asset /\ a = lines[l].asset /\ Exists(l)
<1>1. Exists(l) /\ a = lines[l].asset
    BY DEF Seize, WritePosition, SyncFromVault
<1>2. a \in Asset /\ positions[<<l, a>>] \in Position
    BY <1>1, HeldNat
<1>3. /\ positions[<<l, a>>].units \in Nat /\ positions[<<l, a>>].pending_lien_units \in Nat
      /\ positions[<<l, a>>].units + positions[<<l, a>>].pending_lien_units <= MaxUnits
    BY <1>2 DEF VaultInv, Position
<1>4. units \in Units
    BY <1>3, PledgeVaultAssumption DEF Seize
<1>5. QED
    BY <1>1, <1>2, <1>4 DEF VaultCall

(* Every step of the liquidation path is a step of the two contracts or    *)
(* leaves them alone.                                                      *)
LEMMA KeeperStepOnChain ==
    ASSUME VaultInv, KeeperTypes, [LiquidationNext]_liquidationVars
    PROVE  [VaultNext]_<<vars, vaultVars>>
<1> USE DEF chainVars
<1>1. ASSUME NEW l \in LineId, CureStep(l) PROVE [VaultNext]_<<vars, vaultVars>>
    <2>1. CASE CureReadLine(l) \/ CureReadHeld(l) \/ CureCount(l) \/ CureBook(l) \/ CureRefused(l)
        BY <2>1 DEF CureReadLine, CureReadHeld, CureCount, CureBook, CureRefused
    <2>2. CASE CurePoke(l) \/ CureFreeze(l)
        BY <2>2 DEF CurePoke, CureFreeze, VaultNext, LineCall
    <2>3. CASE CureSeize(l)
        <3>1. PICK h \in Nat : h = cureJob[l].held
            BY DEF KeeperTypes, CureRun
        <3>2. PICK a : a = lines[l].asset
            OBVIOUS
        <3>3. Seize(l, a, h)
            BY <2>3, <3>1, <3>2 DEF CureSeize
        <3>4. QED
            BY <3>3, SeizeIsVaultCall DEF VaultNext
    <2>4. QED
        BY <1>1, <2>1, <2>2, <2>3 DEF CureStep
<1>2. ASSUME NEW l \in LineId, CureFails(l) \/ RecomputeLine(l) \/ ApplyIntents(l)
      PROVE  [VaultNext]_<<vars, vaultVars>>
    BY <1>2 DEF CureFails, RecomputeLine, ApplyIntents
<1>3. ASSUME NEW l \in LineId, BorrowerMoves(l) PROVE [VaultNext]_<<vars, vaultVars>>
    BY <1>3 DEF BorrowerMoves, VaultNext, VaultCall
<1>4. ASSUME NEW l \in LineId, InterestAccrual(l) \/ PartyCalls(l)
      PROVE  [VaultNext]_<<vars, vaultVars>>
    BY <1>4 DEF InterestAccrual, PartyCalls, VaultNext, LineCall
<1>5. CASE Environment /\ UNCHANGED <<vaultVars, keeperVars>>
    BY <1>5 DEF VaultNext
<1>6. CASE UNCHANGED liquidationVars
    BY <1>6 DEF liquidationVars
<1>7. QED
    BY <1>1, <1>2, <1>3, <1>4, <1>5, <1>6 DEF LiquidationNext

(* A vault call on line l changes what is held for l and for no other.     *)
LEMMA PositionWritten ==
    ASSUME VaultInv, NEW l \in LineId, NEW a \in Asset, NEW p, WritePosition(l, a, p)
    PROVE  /\ Exists(l) /\ a = lines[l].asset
           /\ Exists(l)' /\ Held(l)' = p.units
           /\ liquidation' = liquidation
           /\ \A k \in LineId \ {l} : ChainStays(k)
<1>1. Exists(l) /\ a = lines[l].asset /\ liquidation' = liquidation
    BY DEF WritePosition, SyncFromVault
<1>2. /\ positions'[<<l, a>>] = p
      /\ \A k \in LineId : \A b : k # l => positions'[<<k, b>>] = positions[<<k, b>>]
    BY DEF VaultInv, VaultTypeOK, WritePosition
<1>3. /\ lines[l] \in Line
      /\ lines' = [lines EXCEPT ![l] = [lines[l] EXCEPT !.pledged_units = p.units]]
      /\ lines \in [LineId -> Line]
    BY DEF SyncFromVault, WriteLine, WritePosition, VaultInv, IndInv, TypeOK
<1>4. /\ lines'[l].asset = lines[l].asset /\ lines'[l].status = lines[l].status
      /\ \A k \in LineId \ {l} : lines'[k] = lines[k]
    BY <1>3 DEF Line
<1>5. \A k \in LineId \ {l} : ChainStays(k)
    BY <1>1, <1>2, <1>4 DEF ChainStays, Held, Exists, Frozen
<1>6. QED
    BY <1>1, <1>2, <1>4, <1>5 DEF Held, Exists

-----------------------------------------------------------------------------
(* The first state *)

(* The line the job starts from is one the credit line could have reached. *)
LEMMA PledgedLineSound ==
    ASSUME NEW p \in Party, NEW a \in Asset, NEW limit \in Limits, NEW rate \in Rates,
           NEW config \in Configs, NEW vault \in VaultConfigs,
           PledgedLine(p, a, limit, rate, config, vault)
    PROVE  /\ VaultInv /\ EscrowOnlyVault
           /\ \A l \in LineId : liquidation[l] = None /\ Held(l) = IF l = 0 THEN 1 ELSE 0
<1> USE DEF PledgedLine
<1> DEFINE first == [NoLine EXCEPT !.lender = p, !.borrower = p, !.asset = a,
                                 !.limit = limit, !.rate_bps = rate, !.status = "Open",
                                 !.funded = limit, !.drawn = limit, !.pledged_units = 1]
           pledged == [units |-> 1, pending_lien_units |-> 0, mode |-> "Escrow"]
<1>2. NoLine \in Line /\ NoLine.status = "Unopened"
    BY DEF NoLine, Line, LineStatus, MarginStates
<1>3. limit \in Nat /\ rate \in Nat /\ "Open" \in LineStatus
    BY CreditLineAssumption DEF LineStatus
<1>4. /\ first \in Line /\ first.asset = a /\ first.limit = limit /\ first.status = "Open"
      /\ first.funded = limit /\ first.drawn = limit /\ first.pledged_units = 1
      /\ first.last_accrual_ts = NoLine.last_accrual_ts
      /\ first.breach_ledger = NoLine.breach_ledger
      /\ first.unhealthy_since = NoLine.unhealthy_since
    BY <1>2, <1>3 DEF Line
<1>5. /\ NoLine.last_accrual_ts = 0 /\ NoLine.breach_ledger = None /\ NoLine.drawn = 0
      /\ NoLine.unhealthy_since = None /\ NoLine.funded = 0 /\ NoLine.limit = 0
    BY DEF NoLine
<1> HIDE DEF first
<1>6. \A l \in LineId : lines[l] = IF l # 0 THEN NoLine ELSE first
    BY DEF first
<1>7. TypeOK
    <2>1. lines \in [LineId -> Line]
        BY <1>2, <1>4 DEF first
    <2>2. config \in AssetConfig
        BY CreditLineAssumption
    <2>3. assetConfig \in [Asset -> AssetConfig \cup {None}]
        BY <2>2
    <2>4. ledger \in [sequence : Nat, timestamp : Nat]
        OBVIOUS
    <2>5. QED
        BY <2>1, <2>3, <2>4 DEF TypeOK
<1>8. \A l \in LineId : LineSound(lines[l], liquidation[l])
    <2> SUFFICES ASSUME NEW l \in LineId PROVE LineSound(lines[l], liquidation[l])
        OBVIOUS
    <2>1. liquidation[l] = None /\ now = 0
        BY DEF now
    <2> HIDE DEF PledgedLine
    <2>2. CASE l = 0
        BY <1>2, <1>3, <1>4, <1>5, <1>6, <2>1, <2>2 DEF LineSound
    <2>3. CASE l # 0
        BY <1>2, <1>5, <1>6, <2>1, <2>3 DEF LineSound
    <2>4. QED
        BY <2>2, <2>3
<1>9. IndInv
    <2>1. \A l \in LineId : l >= nextLineId => lines[l].status = "Unopened"
        BY <1>2, <1>6
    <2>2. QED
        BY <1>7, <1>8, <2>1 DEF IndInv
<1>10. NoPosition \in Position /\ pledged \in Position
       /\ NoPosition.units = 0 /\ NoPosition.pending_lien_units = 0
    BY DEF NoPosition, Position, CustodyModes
<1>11. VaultTypeOK
    <2>1. positions \in [LineId \X Asset -> Position]
        BY <1>10
    <2>2. QED
        BY <2>1, PledgeVaultAssumption DEF VaultTypeOK
<1>12. \A l \in LineId, b \in Asset :
           positions[<<l, b>>] = IF l # 0 \/ b # a THEN NoPosition ELSE pledged
    OBVIOUS
<1>13. CollateralInStep
    BY <1>2, <1>4, <1>6, <1>12 DEF CollateralInStep
<1>14. \A l \in LineId, b \in Asset : PositionSound(l, b, positions[<<l, b>>])
    <2> SUFFICES ASSUME NEW l \in LineId, NEW b \in Asset
                 PROVE  PositionSound(l, b, positions[<<l, b>>])
        OBVIOUS
    <2>1. CASE l # 0 \/ b # a
        <3>1. positions[<<l, b>>] = NoPosition
            BY <1>12, <2>1
        <3>2. QED
            BY <1>10, <3>1, PledgeVaultAssumption DEF PositionSound
    <2>2. CASE l = 0 /\ b = a
        <3>1. positions[<<l, b>>] = pledged
            BY <1>12, <2>2
        <3>2. Exists(l) /\ lines[l].asset = b
            BY <1>4, <1>6, <2>2 DEF Exists
        <3>3. QED
            BY <3>1, <3>2, LiquidationKeeperAssumption, PledgeVaultAssumption DEF PositionSound
    <2>3. QED
        BY <2>1, <2>2
<1>15. EscrowOnlyVault
    BY DEF EscrowOnlyVault
<1>16. \A l \in LineId : liquidation[l] = None
    OBVIOUS
<1> HIDE DEF PledgedLine
<1>17. \A l \in LineId : Held(l) = IF l = 0 THEN 1 ELSE 0
    <2>1. \A l \in LineId : lines[l].status = (IF l # 0 THEN "Unopened" ELSE "Open")
        BY <1>2, <1>4, <1>6
    <2>2. \A l \in LineId : l = 0 => positions[<<l, lines[l].asset>>] = pledged
        BY <1>4, <1>6, <1>12
    <2>3. QED
        BY <2>1, <2>2 DEF Held, Exists
<1>18. QED
    BY <1>9, <1>11, <1>13, <1>14, <1>15, <1>16, <1>17 DEF VaultInv, PositionSound

(* No job runs, nothing is seized, and the pledge rows agree with the      *)
(* vault.                                                                  *)
LEMMA KeeperInvInit == LiquidationInit => KeeperInv
<1> SUFFICES ASSUME LiquidationInit PROVE KeeperInv
    OBVIOUS
<1>1. /\ VaultInv /\ EscrowOnlyVault
      /\ \A l \in LineId : liquidation[l] = None /\ Held(l) = IF l = 0 THEN 1 ELSE 0
    BY PledgedLineSound DEF LiquidationInit
<1>2. KeeperIdle
    BY DEF LiquidationInit
<1>3. pledgeRows = [l \in LineId |-> [active |-> IF l = 0 THEN 1 ELSE 0, unapplied |-> 0]]
    BY DEF LiquidationInit
<1>4. IdleCure \in CureRun /\ IdleCure.phase = "Idle"
    BY DEF IdleCure, CureRun, CurePhases
<1>5. KeeperTypes
    BY <1>2, <1>3, <1>4 DEF KeeperTypes, KeeperIdle
<1>7. \A l \in LineId : LineBooks(l)
    BY <1>1, <1>2, <1>3, <1>4 DEF KeeperIdle, LineBooks, PastFreeze, Undisturbed, Frozen
<1>8. QED
    BY <1>1, <1>5, <1>7 DEF KeeperInv

-----------------------------------------------------------------------------
(* The steps *)

(* What the invariant says of the values a step on line l works with. *)
LEMMA KeeperValues ==
    ASSUME KeeperInv, NEW l \in LineId
    PROVE  /\ cureJob[l] \in CureRun /\ cureJob[l].held \in Nat
           /\ cureJob[l].resumed \in BOOLEAN
           /\ seized[l] \in Nat /\ touched[l] \in BOOLEAN
           /\ pledgeRows[l] \in [active : Nat, unapplied : Int]
           /\ liquidationRow[l] \in Nat \cup {None} /\ None \notin Nat
           /\ Held(l) \in Nat /\ LineBooks(l)
           /\ Exists(l) => /\ lines[l].asset \in Asset
                           /\ Held(l) = positions[<<l, lines[l].asset>>].units
           /\ lines[l].status = "Open" => ~ Frozen(l)
    BY HeldNat, CreditLineAssumption
       DEF KeeperInv, KeeperTypes, CureRun, VaultInv, IndInv, LineSound, Frozen

(* A step of line l's job, which the contracts do not notice, keeps the    *)
(* books of the other lines.                                               *)
LEMMA OnlyOneLine ==
    ASSUME KeeperInv, VaultInv', EscrowOnlyVault', KeeperTypes',
           NEW l \in LineId, LineBooks(l)',
           \A k \in LineId \ {l} : ChainStays(k) /\ BooksStay(k)
    PROVE  KeeperInv'
<1>1. \A k \in LineId \ {l} : LineBooks(k)'
    BY NothingHappens DEF KeeperInv
<1>2. QED
    BY <1>1 DEF KeeperInv

(* The job of line l moves on and nothing else happens. *)
LEMMA JobMoves ==
    ASSUME KeeperInv, VaultInv', NEW l \in LineId, NEW job \in CureRun,
           cureJob' = [cureJob EXCEPT ![l] = job],
           UNCHANGED <<chainVars, bookVars, seized>>,
           touched' \in [LineId -> BOOLEAN],
           \A k \in LineId \ {l} : touched'[k] = touched[k],
           job.phase # "Idle" => Exists(l) /\ liquidationRow[l] = None,
           job.phase \in {"Seizing", "Counting", "Booking"} => Frozen(l),
           job.phase = "Read" /\ job.resumed => Frozen(l),
           ~ touched'[l] =>
               /\ ~ touched[l] \/ (~ Frozen(l) /\ liquidationRow[l] = None)
               /\ job.phase \in {"Freezing", "Seizing"} => job.held = Held(l)
               /\ job.phase = "Counting" => Held(l) = 0 /\ job.held \in {0, seized[l]}
               /\ job.phase = "Booking" => Held(l) = 0 /\ job.held = seized[l]
    PROVE  KeeperInv'
<1>1. KeeperTypes'
    BY DEF KeeperInv, KeeperTypes, bookVars
<1>2. UNCHANGED <<lines, positions, liquidation, vaultConfig>>
    BY DEF chainVars, vars, vaultVars
<1>3. \A k \in LineId : ChainStays(k)
    BY <1>2, ChainUnchanged
<1>4. cureJob'[l] = job /\ \A k \in LineId \ {l} : BooksStay(k)
    BY DEF BooksStay, bookVars, KeeperInv, KeeperTypes
<1>5. LineBooks(l)'
    <2>1. /\ Exists(l)' = Exists(l) /\ Held(l)' = Held(l) /\ Frozen(l)' = Frozen(l)
          /\ liquidation'[l] = liquidation[l]
        BY <1>2 DEF Exists, Held, Frozen
    <2>2. /\ lineRow'[l] = lineRow[l] /\ liquidationRow'[l] = liquidationRow[l]
          /\ seized'[l] = seized[l] /\ pledgeRows'[l] = pledgeRows[l]
        BY DEF bookVars
    <2>3. ~ touched'[l] => Undisturbed(l)'
        BY <1>4, <2>1, <2>2, KeeperValues DEF LineBooks, Undisturbed
    <2>4. PastFreeze(l)' => Frozen(l)'
        BY <1>4, <2>1 DEF PastFreeze
    <2>5. QED
        BY <1>4, <2>1, <2>2, <2>3, <2>4, KeeperValues DEF LineBooks
<1>6. EscrowOnlyVault'
    BY <1>2 DEF KeeperInv, EscrowOnlyVault
<1>7. QED
    BY <1>1, <1>3, <1>4, <1>5, <1>6, OnlyOneLine

(* The idle job is a run like any other. *)
LEMMA IdleRun == IdleCure \in CureRun /\ IdleCure.phase = "Idle"
    BY DEF IdleCure, CureRun, CurePhases

(* A job that ends leaves nothing in its hands.                            *)
LEMMA JobEnds ==
    ASSUME KeeperInv, VaultInv', NEW l \in LineId,
           cureJob' = [cureJob EXCEPT ![l] = IdleCure],
           UNCHANGED <<chainVars, bookVars, seized, touched>>
    PROVE  KeeperInv'
<1>1. touched' \in [LineId -> BOOLEAN] /\ touched' = touched
    BY DEF KeeperInv, KeeperTypes
<1>2. QED
    BY <1>1, IdleRun, JobMoves

(* The job reads the line.                                                 *)
LEMMA CureReadLineKeeps ==
    ASSUME KeeperInv, VaultInv', NEW l \in LineId, CureReadLine(l)
    PROVE  KeeperInv'
<1> DEFINE job == CureDecision(l)
<1>1. Exists(l) /\ liquidationRow[l] = None
    BY KeeperValues DEF CureReadLine, LineBooks
<1>2. lines[l].pledged_units \in Nat
    BY DEF KeeperInv, VaultInv, IndInv, TypeOK, Line
<1>3. /\ job \in CureRun /\ job.phase \in {"Idle", "Poking", "Read"}
      /\ job.resumed => lines[l].status = "Liquidating"
    <2> DEFINE Go(phase, resumed) == [phase |-> phase, resumed |-> resumed,
                                      pledged |-> lines[l].pledged_units, held |-> 0]
    <2>1. \/ job = Go("Read", TRUE) /\ lines[l].status = "Liquidating"
          \/ job = IdleCure \/ job = Go("Poking", FALSE) \/ job = Go("Read", FALSE)
        BY DEF CureDecision
    <2>2. \A ph \in CurePhases, b \in BOOLEAN :
              Go(ph, b) \in CureRun /\ Go(ph, b).phase = ph /\ Go(ph, b).resumed = b
        BY <1>2 DEF CureRun
    <2>3. "Read" \in CurePhases /\ "Poking" \in CurePhases /\ IdleCure.resumed = FALSE
        BY DEF CurePhases, IdleCure
    <2> HIDE DEF job, Go
    <2>4. QED
        BY <2>1, <2>2, <2>3, IdleRun
<1>4. job.resumed => Frozen(l)
    BY <1>3 DEF KeeperInv, VaultInv, IndInv, LineSound, Frozen
<1>5. /\ touched' \in [LineId -> BOOLEAN]
      /\ \A k \in LineId \ {l} : touched'[k] = touched[k]
      /\ touched'[l] = (touched[l] /\ lines[l].status # "Open")
    BY DEF CureReadLine, KeeperInv, KeeperTypes
<1>6. ~ touched'[l] => ~ touched[l] \/ (~ Frozen(l) /\ liquidationRow[l] = None)
    BY <1>1, <1>5, KeeperValues
<1>7. cureJob' = [cureJob EXCEPT ![l] = job] /\ UNCHANGED <<chainVars, bookVars, seized>>
    BY DEF CureReadLine
<1> HIDE DEF job
<1>8. QED
    BY <1>1, <1>3, <1>4, <1>5, <1>6, <1>7, JobMoves

(* After the freeze the job seizes what is held, or counts. *)
LEMMA AfterFreezeRun ==
    ASSUME NEW job \in CureRun
    PROVE  /\ AfterFreeze(job) \in CureRun
           /\ AfterFreeze(job).held = job.held
           /\ AfterFreeze(job).phase = IF job.held > 0 THEN "Seizing" ELSE "Counting"
    BY DEF AfterFreeze, CureRun, CurePhases

(* The job reads what the vault holds.                                     *)
LEMMA CureReadHeldKeeps ==
    ASSUME KeeperInv, VaultInv', NEW l \in LineId, CureReadHeld(l)
    PROVE  KeeperInv'
<1> DEFINE job == [cureJob[l] EXCEPT !.held = positions[<<l, lines[l].asset>>].units]
           frz == [job EXCEPT !.phase = "Freezing"]
<1>1. /\ cureJob[l].phase = "Read" /\ Exists(l) /\ liquidationRow[l] = None
      /\ Held(l) = positions[<<l, lines[l].asset>>].units /\ Held(l) \in Nat
      /\ cureJob[l] \in CureRun
      /\ cureJob[l].resumed => Frozen(l)
    BY KeeperValues DEF CureReadHeld, LineBooks, PastFreeze
<1>2. /\ job \in CureRun /\ job.held = Held(l) /\ job.resumed = cureJob[l].resumed
    BY <1>1 DEF CureRun
<1>3. \/ cureJob' = [cureJob EXCEPT ![l] = AfterFreeze(job)] /\ job.resumed
      \/ cureJob' = [cureJob EXCEPT ![l] = IdleCure]
      \/ cureJob' = [cureJob EXCEPT ![l] = frz]
    BY DEF CureReadHeld
<1>4. UNCHANGED <<chainVars, bookVars, seized>> /\ touched' = touched
      /\ touched \in [LineId -> BOOLEAN]
    BY DEF CureReadHeld, KeeperInv, KeeperTypes
<1> HIDE DEF job
<1>5. frz \in CureRun /\ frz.phase = "Freezing" /\ frz.held = Held(l)
    BY <1>2 DEF CureRun, CurePhases
<1> HIDE DEF frz
<1>6. CASE cureJob' = [cureJob EXCEPT ![l] = AfterFreeze(job)] /\ job.resumed
    <2>1. PICK next \in CureRun :
             next = AfterFreeze(job) /\ next.held = Held(l)
             /\ next.phase = IF Held(l) > 0 THEN "Seizing" ELSE "Counting"
        BY <1>2, AfterFreezeRun
    <2>2. /\ next.phase \in {"Seizing", "Counting"}
          /\ next.phase = "Counting" => Held(l) = 0
        BY <1>1, <2>1
    <2>3. cureJob' = [cureJob EXCEPT ![l] = next] /\ Frozen(l)
        BY <1>1, <1>2, <1>6, <2>1
    <2>4. QED
        BY <1>1, <1>4, <2>1, <2>2, <2>3, JobMoves
<1>7. CASE cureJob' = [cureJob EXCEPT ![l] = IdleCure]
    BY <1>4, <1>7, JobEnds
<1>8. CASE cureJob' = [cureJob EXCEPT ![l] = frz]
    BY <1>1, <1>4, <1>5, <1>8, JobMoves
<1>9. QED
    BY <1>3, <1>6, <1>7, <1>8

(* The job settles how many units were seized: what it held, or what the   *)
(* pledge rows have when a resumed run finds the vault empty.              *)
LEMMA CureCountKeeps ==
    ASSUME KeeperInv, VaultInv', NEW l \in LineId, CureCount(l)
    PROVE  KeeperInv'
<1> DEFINE total == SeizedUnits(l)
           job == [cureJob[l] EXCEPT !.phase = "Booking", !.held = total]
<1>1. /\ cureJob[l].phase = "Counting" /\ Exists(l) /\ liquidationRow[l] = None /\ Frozen(l)
      /\ cureJob[l] \in CureRun /\ cureJob[l].held \in Nat /\ seized[l] \in Nat
      /\ Held(l) \in Nat
    BY KeeperValues DEF CureCount, LineBooks, PastFreeze
<1>2. /\ touched' \in [LineId -> BOOLEAN] /\ UNCHANGED <<chainVars, bookVars, seized>>
      /\ \A k \in LineId \ {l} : touched'[k] = touched[k]
      /\ touched'[l] = (touched[l] \/ pledgeRows[l].unapplied # 0)
    BY DEF CureCount, KeeperInv, KeeperTypes
<1>3. total \in Nat
    BY <1>1, KeeperValues DEF SeizedUnits
<1>4. ~ touched'[l] =>
          /\ ~ touched[l] /\ Held(l) = 0
          /\ total = 0 \/ total = seized[l]
    <2> SUFFICES ASSUME ~ touched'[l]
                 PROVE  /\ ~ touched[l] /\ Held(l) = 0
                        /\ total = 0 \/ total = seized[l]
        OBVIOUS
    <2>1. ~ touched[l] /\ pledgeRows[l].unapplied = 0
        BY <1>2
    <2>2. Held(l) = 0 /\ cureJob[l].held \in {0, seized[l]}
        BY <1>1, <2>1, KeeperValues DEF LineBooks, Undisturbed
    <2>3. pledgeRows[l].active = seized[l]
        <3>1. pledgeRows[l].active + pledgeRows[l].unapplied = Held(l) + seized[l]
            BY <1>1, KeeperValues DEF LineBooks
        <3>2. pledgeRows[l].active \in Nat
            BY KeeperValues
        <3>3. QED
            BY <1>1, <2>1, <2>2, <3>1, <3>2
    <2>4. QED
        BY <2>1, <2>2, <2>3 DEF SeizedUnits
<1> HIDE DEF total
<1>5. job \in CureRun /\ job.phase = "Booking" /\ job.held = total
    BY <1>1, <1>3 DEF CureRun, CurePhases
<1>6. \/ cureJob' = [cureJob EXCEPT ![l] = IdleCure]
      \/ cureJob' = [cureJob EXCEPT ![l] = job] /\ total # 0
    BY DEF CureCount, total, KeeperInv, KeeperTypes
<1> HIDE DEF job
<1>7. CASE cureJob' = [cureJob EXCEPT ![l] = IdleCure]
    BY <1>1, <1>2, <1>4, <1>7, IdleRun, JobMoves
<1>8. CASE cureJob' = [cureJob EXCEPT ![l] = job] /\ total # 0
    BY <1>1, <1>2, <1>4, <1>5, <1>8, JobMoves
<1>9. QED
    BY <1>6, <1>7, <1>8

(* The booking transaction writes the number of units that was sent. *)
LEMMA CureBookKeeps ==
    ASSUME KeeperInv, VaultInv', NEW l \in LineId, CureBook(l)
    PROVE  KeeperInv'
<1>1. /\ cureJob[l].phase = "Booking" /\ Exists(l) /\ liquidationRow[l] = None /\ Frozen(l)
      /\ cureJob[l].held \in Nat /\ seized[l] \in Nat /\ Held(l) \in Nat
      /\ pledgeRows[l] \in [active : Nat, unapplied : Int] /\ None \notin Nat
    BY KeeperValues DEF CureBook, LineBooks, PastFreeze
<1>2. UNCHANGED <<lines, positions, liquidation, vaultConfig>>
    BY DEF CureBook, chainVars, vars, vaultVars
<1>3. \A k \in LineId : ChainStays(k)
    BY <1>2, ChainUnchanged
<1>4. /\ pledgeRows' = [pledgeRows EXCEPT ![l] = [pledgeRows[l] EXCEPT !.active = 0]]
      /\ liquidationRow' = [liquidationRow EXCEPT ![l] = cureJob[l].held]
      /\ lineRow' = [lineRow EXCEPT ![l] = "liquidating"]
      /\ cureJob' = [cureJob EXCEPT ![l] = IdleCure]
      /\ UNCHANGED <<seized, touched>>
    BY <1>1 DEF CureBook, KeeperInv, KeeperTypes
<1>5. [pledgeRows[l] EXCEPT !.active = 0] \in [active : Nat, unapplied : Int]
    BY <1>1
<1>6. KeeperTypes'
    BY <1>1, <1>4, <1>5, IdleRun DEF KeeperInv, KeeperTypes
<1>7. \A k \in LineId \ {l} : BooksStay(k)
    BY <1>4 DEF BooksStay, KeeperInv, KeeperTypes
<1>8. LineBooks(l)'
    <2>1. /\ cureJob'[l] = IdleCure /\ liquidationRow'[l] = cureJob[l].held
          /\ lineRow'[l] = "liquidating" /\ seized'[l] = seized[l] /\ touched'[l] = touched[l]
        BY <1>4 DEF KeeperInv, KeeperTypes
    <2>2. /\ Held(l)' = Held(l) /\ Frozen(l)' = Frozen(l) /\ liquidation'[l] = liquidation[l]
        BY <1>2 DEF Exists, Held, Frozen
    <2>3. ~ touched[l] => Undisturbed(l)'
        BY <1>1, <2>1, <2>2, IdleRun, KeeperValues DEF LineBooks, Undisturbed
    <2>4. QED
        BY <1>1, <2>1, <2>2, <2>3, IdleRun DEF LineBooks, PastFreeze
<1>9. EscrowOnlyVault'
    BY <1>2 DEF KeeperInv, EscrowOnlyVault
<1>10. QED
    BY <1>3, <1>6, <1>7, <1>8, <1>9, OnlyOneLine

(* The contracts move under line l's job, which goes on to `job`.          *)
LEMMA ChainMoves ==
    ASSUME KeeperInv, VaultInv', NEW l \in LineId, NEW job \in CureRun,
           cureJob' = [cureJob EXCEPT ![l] = job],
           UNCHANGED <<bookVars, touched, vaultConfig>>,
           NEW sent \in Nat, seized' = [seized EXCEPT ![l] = sent],
           \A k \in LineId \ {l} : ChainStays(k),
           LineBooks(l)'
    PROVE  KeeperInv'
<1>1. KeeperTypes'
    BY DEF KeeperInv, KeeperTypes, bookVars
<1>2. \A k \in LineId \ {l} : BooksStay(k)
    BY DEF BooksStay, bookVars, KeeperInv, KeeperTypes
<1>3. EscrowOnlyVault'
    BY DEF KeeperInv, EscrowOnlyVault
<1>4. QED
    BY <1>1, <1>2, <1>3, OnlyOneLine

(* liquidate freezes exactly what the vault holds. *)
LEMMA FreezeRecords ==
    ASSUME KeeperInv, NEW l \in LineId, Liquidate(l), UNCHANGED vaultVars
    PROVE  /\ ~ Frozen(l) /\ Frozen(l)'
           /\ Held(l)' = Held(l) /\ Exists(l)'
           /\ liquidation'[l].seized_units = Held(l)
<1>1. /\ lines[l].status = "Open" /\ Exists(l) /\ lines[l] \in Line
      /\ liquidation \in [LineId -> LiquidationRecord \cup {None}]
      /\ IndInv
    BY DEF Liquidate, KeeperInv, VaultInv, IndInv, TypeOK
<1>2. lines[l].pledged_units = Held(l)
    BY <1>1 DEF KeeperInv, VaultInv, CollateralInStep, Held
<1>3. PICK u, d : liquidation'[l] = [seized_units |-> lines[l].pledged_units, price |-> u,
                debt |-> d, closed |-> FALSE, recovered |-> 0, surplus |-> 0, shortfall |-> 0]
    BY <1>1 DEF Liquidate
<1>4. liquidation'[l].seized_units = Held(l)
    BY <1>2, <1>3
<1> DEFINE line == [lines[l] EXCEPT !.status = "Liquidating", !.margin_state = "Liquidation"]
<1>5. WriteLine(l, line) /\ line.status = "Liquidating" /\ line.asset = lines[l].asset
    BY <1>1 DEF Liquidate, Line
<1> HIDE DEF line
<1>6. /\ lines'[l].status = "Liquidating" /\ lines'[l].asset = lines[l].asset
    BY <1>1, <1>5, OtherLinesUntouched
<1>7. IndInv'
    BY <1>1, NextKeeps DEF Next, LineCall
<1>8. ~ Frozen(l) /\ Frozen(l)'
    BY <1>1, <1>6, <1>7 DEF Frozen, IndInv, LineSound
<1>9. Held(l)' = Held(l) /\ Exists(l)'
    BY <1>1, <1>6 DEF Held, Exists, vaultVars
<1>10. QED
    BY <1>4, <1>8, <1>9

(* The job freezes the pledge before it seizes.                            *)
LEMMA CureFreezeKeeps ==
    ASSUME KeeperInv, VaultInv', NEW l \in LineId, CureFreeze(l)
    PROVE  KeeperInv'
<1>1. /\ cureJob[l].phase = "Freezing" /\ liquidationRow[l] = None
      /\ cureJob[l] \in CureRun /\ cureJob[l].held \in Nat /\ seized[l] \in Nat
      /\ Held(l) \in Nat /\ LineBooks(l)
    BY KeeperValues DEF CureFreeze, LineBooks
<1>2. Liquidate(l) /\ UNCHANGED vaultVars /\ LineCall(l)
    BY DEF CureFreeze, LineCall
<1>3. /\ ~ Frozen(l) /\ Frozen(l)' /\ Held(l)' = Held(l) /\ Exists(l)'
      /\ liquidation'[l].seized_units = Held(l)
    BY <1>2, FreezeRecords
<1>4. \A k \in LineId \ {l} : ChainStays(k)
    BY <1>2, CallStays DEF KeeperInv
<1>5. PICK job \in CureRun :
          /\ cureJob' = [cureJob EXCEPT ![l] = job]
          /\ \/ job.phase = "Idle"
             \/ /\ job.held = cureJob[l].held
                /\ job.phase = IF cureJob[l].held > 0 THEN "Seizing" ELSE "Counting"
    BY <1>1, AfterFreezeRun, IdleRun DEF CureFreeze, Returns
<1>6. /\ seized' = [seized EXCEPT ![l] = seized[l]]
      /\ UNCHANGED <<bookVars, touched, vaultConfig>> /\ seized' = seized
    BY DEF CureFreeze, KeeperInv, KeeperTypes, vaultVars
<1>7. LineBooks(l)'
    <2>1. /\ cureJob'[l] = job /\ liquidationRow'[l] = None /\ seized'[l] = seized[l]
          /\ lineRow'[l] = lineRow[l] /\ touched'[l] = touched[l]
          /\ pledgeRows'[l] = pledgeRows[l]
        BY <1>1, <1>5, <1>6 DEF bookVars, KeeperInv, KeeperTypes
    <2>2. seized[l] = 0
        BY <1>1, <1>3 DEF LineBooks
    <2>3. ~ touched[l] => cureJob[l].held = Held(l)
        BY <1>1 DEF LineBooks, Undisturbed
    <2>4. ~ touched[l] => Undisturbed(l)'
        BY <1>1, <1>3, <1>5, <2>1, <2>2, <2>3 DEF Undisturbed
    <2>5. QED
        BY <1>1, <1>3, <2>1, <2>4 DEF LineBooks
<1>8. QED
    BY <1>1, <1>4, <1>5, <1>6, <1>7, ChainMoves

(* The vault sends what the job has read, whether or not the answer comes  *)
(* back.                                                                   *)
LEMMA CureSeizeKeeps ==
    ASSUME KeeperInv, VaultInv', NEW l \in LineId, CureSeize(l)
    PROVE  KeeperInv'
<1>1. /\ cureJob[l].phase = "Seizing" /\ liquidationRow[l] = None /\ Frozen(l) /\ Exists(l)
      /\ cureJob[l] \in CureRun /\ cureJob[l].held \in Nat /\ seized[l] \in Nat
      /\ Held(l) \in Nat /\ LineBooks(l)
    BY KeeperValues DEF CureSeize, LineBooks, PastFreeze
<1>2. PICK h \in Nat : h = cureJob[l].held
    BY <1>1
<1>3. PICK a \in Asset : a = lines[l].asset
    BY <1>1, KeeperValues
<1>4. Seize(l, a, h)
    BY <1>2, <1>3 DEF CureSeize
<1>5. positions[<<l, a>>] \in Position /\ Held(l) = positions[<<l, a>>].units
    BY <1>1, <1>3, HeldNat DEF KeeperInv
<1> DEFINE p == [positions[<<l, a>>] EXCEPT !.units = @ - h]
<1>6. p.units = Held(l) - h
    BY <1>5 DEF Position
<1>7. WritePosition(l, a, p) /\ h > 0 /\ h <= Held(l) /\ vaultConfig' = vaultConfig
    BY <1>4, <1>5 DEF Seize
<1> HIDE DEF p
<1>8. /\ Exists(l)' /\ Held(l)' = Held(l) - h /\ liquidation' = liquidation
      /\ \A k \in LineId \ {l} : ChainStays(k)
    BY <1>6, <1>7, PositionWritten DEF KeeperInv
<1> DEFINE count == [cureJob[l] EXCEPT !.phase = "Counting"]
<1>9. count \in CureRun /\ count.phase = "Counting" /\ count.held = h
    BY <1>1, <1>2 DEF CureRun, CurePhases
<1>10. PICK job \in CureRun :
          /\ cureJob' = [cureJob EXCEPT ![l] = job]
          /\ \/ job.phase = "Idle"
             \/ job.phase = "Counting" /\ job.held = h
    BY <1>1, <1>9, IdleRun DEF CureSeize, Returns
<1>11. /\ seized' = [seized EXCEPT ![l] = seized[l] + h] /\ seized[l] + h \in Nat
       /\ UNCHANGED <<bookVars, touched, vaultConfig>>
    BY <1>1, <1>2, <1>7 DEF CureSeize, KeeperInv, KeeperTypes
<1>12. LineBooks(l)'
    <2>1. /\ cureJob'[l] = job /\ liquidationRow'[l] = None /\ seized'[l] = seized[l] + h
          /\ lineRow'[l] = lineRow[l] /\ touched'[l] = touched[l]
          /\ pledgeRows'[l] = pledgeRows[l]
        BY <1>1, <1>10, <1>11 DEF bookVars, KeeperInv, KeeperTypes
    <2>2. Frozen(l)' /\ liquidation'[l] = liquidation[l]
        BY <1>1, <1>8 DEF Frozen
    <2>3. ~ touched[l] => h = Held(l) /\ seized[l] = 0
                          /\ Held(l) + seized[l] = liquidation[l].seized_units
        BY <1>1, <1>2, <1>7 DEF LineBooks, Undisturbed
    <2>4. ~ touched[l] => Undisturbed(l)'
        <3> SUFFICES ASSUME ~ touched[l] PROVE Undisturbed(l)'
            OBVIOUS
        <3>1. Held(l)' = 0 /\ seized'[l] = h /\ liquidation'[l].seized_units = h
            BY <1>1, <1>2, <1>8, <2>1, <2>2, <2>3
        <3>2. QED
            BY <1>2, <1>10, <2>1, <2>2, <3>1 DEF Undisturbed
    <2>5. pledgeRows[l].active + pledgeRows[l].unapplied = Held(l) + seized[l]
        BY <1>1 DEF LineBooks
    <2>6. Held(l)' + seized'[l] = Held(l) + seized[l]
        BY <1>1, <1>8, <2>1
    <2>7. QED
        BY <1>1, <1>8, <2>1, <2>2, <2>4, <2>5, <2>6 DEF LineBooks
<1>13. QED
    BY <1>8, <1>10, <1>11, <1>12, ChainMoves

(* A poke by the keeper ends the run; the other calls leave job and books  *)
(* alone.                                                                  *)
LEMMA CurePokeKeeps ==
    ASSUME KeeperInv, VaultInv', NEW l \in LineId, CurePoke(l)
    PROVE  KeeperInv'
<1>1. LineCall(l) /\ UNCHANGED vaultVars /\ Poke(l)
    BY DEF CurePoke, LineCall
<1>2. ~ Liquidate(l)
    <2>1. liquidation' = liquidation
        BY <1>1 DEF Poke
    <2>2. QED
        BY <2>1, FreezeRecords, <1>1 DEF Frozen
<1>3. \A k \in LineId : ChainStays(k)
    BY <1>1, <1>2, CallStays DEF KeeperInv
<1>4. /\ cureJob' = [cureJob EXCEPT ![l] = IdleCure] /\ UNCHANGED <<bookVars, touched, vaultConfig>>
      /\ seized' = seized /\ seized' = [seized EXCEPT ![l] = seized[l]]
    BY DEF CurePoke, KeeperInv, KeeperTypes, vaultVars
<1>5. LineBooks(l)'
    <2>1. /\ cureJob'[l] = IdleCure /\ liquidationRow'[l] = liquidationRow[l]
          /\ seized'[l] = seized[l] /\ lineRow'[l] = lineRow[l] /\ touched'[l] = touched[l]
          /\ pledgeRows'[l] = pledgeRows[l]
        BY <1>4 DEF bookVars, KeeperInv, KeeperTypes
    <2>2. LineBooks(l) /\ ChainStays(l)
        BY <1>3 DEF KeeperInv
    <2>3. ~ touched[l] => Undisturbed(l)'
        BY <2>1, <2>2, IdleRun DEF LineBooks, ChainStays, Undisturbed
    <2>4. QED
        BY <2>1, <2>2, <2>3, IdleRun DEF LineBooks, ChainStays, PastFreeze
<1>6. seized[l] \in Nat
    BY KeeperValues
<1>7. QED
    BY <1>3, <1>4, <1>5, <1>6, IdleRun, ChainMoves

(* The parties' own calls, the hourly accrual and the environment. *)
LEMMA OthersKeep ==
    ASSUME KeeperInv, VaultInv', UNCHANGED <<vaultVars, keeperVars>>,
           \A k \in LineId : ChainStays(k)
    PROVE  KeeperInv'
<1>1. \A k \in LineId : BooksStay(k)
    BY DEF BooksStay, keeperVars
<1>2. \A k \in LineId : LineBooks(k)'
    BY <1>1, NothingHappens DEF KeeperInv
<1>3. KeeperTypes' /\ EscrowOnlyVault'
    BY DEF KeeperInv, KeeperTypes, EscrowOnlyVault, keeperVars, vaultVars
<1>4. QED
    BY <1>2, <1>3 DEF KeeperInv

(* Calls of the parties on the credit line, and the hourly accrual.        *)
LEMMA PartyCallsKeep ==
    ASSUME KeeperInv, VaultInv', NEW l \in LineId, PartyCalls(l) \/ InterestAccrual(l)
    PROVE  KeeperInv'
<1>1. /\ LineCall(l) /\ UNCHANGED <<vaultVars, keeperVars>>
      /\ liquidation' = liquidation \/ \E p \in Party : CloseLiquidated(p, l)
    BY DEF PartyCalls, InterestAccrual, LineCall, Fund, Draw, WithdrawUndrawn, WithdrawInterest,
           Repay, Poke
<1>2. ~ Liquidate(l)
    <2>1. ASSUME Liquidate(l) PROVE FALSE
        <3>1. ~ Frozen(l) /\ Frozen(l)'
            BY <1>1, <2>1, FreezeRecords
        <3>2. lines[l].status = "Open"
            BY <2>1 DEF Liquidate
        <3>3. ASSUME NEW p \in Party, CloseLiquidated(p, l) PROVE FALSE
            BY <3>2, <3>3 DEF CloseLiquidated
        <3>4. QED
            BY <1>1, <3>1, <3>3 DEF Frozen
    <2>2. QED
        BY <2>1
<1>3. \A k \in LineId : ChainStays(k)
    BY <1>1, <1>2, CallStays DEF KeeperInv
<1>4. QED
    BY <1>1, <1>3, OthersKeep

(* The vault calls of the borrower, in escrow mode, move what is held and  *)
(* what the books still have to apply by the same number of units.         *)
LEMMA BorrowerMovesKeeps ==
    ASSUME KeeperInv, VaultInv', NEW l \in LineId, BorrowerMoves(l)
    PROVE  KeeperInv'
<1>1. PICK b \in Party, a \in Asset, units \in Units :
          /\ \/ /\ Pledge(b, l, a, units)
                /\ pledgeRows' = [pledgeRows EXCEPT ![l].unapplied = @ + units]
             \/ /\ Release(b, l, a, units)
                /\ pledgeRows' = [pledgeRows EXCEPT ![l].unapplied = @ - units]
          /\ touched' = [touched EXCEPT ![l] = @ \/ InLiquidation(l)]
          /\ UNCHANGED <<lineRow, marginEvents, cureJob, failures, liquidationRow, seized>>
    BY DEF BorrowerMoves
<1>2. /\ seized[l] \in Nat /\ Held(l) \in Nat /\ LineBooks(l) /\ units \in Int
      /\ pledgeRows[l] \in [active : Nat, unapplied : Int]
    <2>1. units \in Int
        BY <1>1, PledgeVaultAssumption
    <2>2. QED
        BY <2>1, KeeperValues
<1>move. PICK m \in Int : \E p :
          /\ pledgeRows' = [pledgeRows EXCEPT ![l] =
                               [pledgeRows[l] EXCEPT !.unapplied = pledgeRows[l].unapplied + m]]
          /\ WritePosition(l, a, p)
          /\ p.units = positions[<<l, a>>].units + m
          /\ vaultConfig' = vaultConfig
    <2>1. positions[<<l, a>>] \in Position
        BY DEF KeeperInv, VaultInv, VaultTypeOK
    <2>2. CASE /\ Pledge(b, l, a, units)
               /\ pledgeRows' = [pledgeRows EXCEPT ![l].unapplied = @ + units]
        <3>1. vaultConfig[a].custody_mode = "Escrow"
            BY <2>2 DEF Pledge, KeeperInv, EscrowOnlyVault
        <3> DEFINE p == [positions[<<l, a>>] EXCEPT !.units = @ + units,
                                                    !.mode = vaultConfig[a].custody_mode]
        <3>2. WritePosition(l, a, p) /\ vaultConfig' = vaultConfig
            BY <2>2, <3>1 DEF Pledge
        <3>3. p.units = positions[<<l, a>>].units + units
            BY <2>1 DEF Position
        <3>4. pledgeRows' = [pledgeRows EXCEPT ![l] =
                     [pledgeRows[l] EXCEPT !.unapplied = pledgeRows[l].unapplied + units]]
            BY <2>2 DEF KeeperInv, KeeperTypes
        <3> HIDE DEF p
        <3>5. QED
            BY <1>2, <3>2, <3>3, <3>4
    <2>3. CASE /\ Release(b, l, a, units)
               /\ pledgeRows' = [pledgeRows EXCEPT ![l].unapplied = @ - units]
        <3> DEFINE p == [positions[<<l, a>>] EXCEPT !.units = @ - units]
        <3>1. WritePosition(l, a, p) /\ vaultConfig' = vaultConfig
            BY <2>3 DEF Release
        <3>2. p.units = positions[<<l, a>>].units + (-units) /\ -units \in Int
            BY <1>2, <2>1 DEF Position
        <3>3. pledgeRows[l].unapplied - units = pledgeRows[l].unapplied + (-units)
            BY <1>2
        <3>4. pledgeRows' = [pledgeRows EXCEPT ![l] =
                     [pledgeRows[l] EXCEPT !.unapplied = pledgeRows[l].unapplied + (-units)]]
            BY <2>3, <3>3 DEF KeeperInv, KeeperTypes
        <3> HIDE DEF p
        <3>5. QED
            BY <3>1, <3>2, <3>4
    <2>4. QED
        BY <1>1, <2>2, <2>3
<1>3. PICK p :
          /\ pledgeRows' = [pledgeRows EXCEPT ![l] =
                               [pledgeRows[l] EXCEPT !.unapplied = pledgeRows[l].unapplied + m]]
          /\ WritePosition(l, a, p)
          /\ p.units = positions[<<l, a>>].units + m
          /\ vaultConfig' = vaultConfig
    BY <1>move
<1>4. /\ Exists(l) /\ a = lines[l].asset /\ Exists(l)' /\ Held(l)' = Held(l) + m
      /\ liquidation' = liquidation
      /\ \A k \in LineId \ {l} : ChainStays(k)
    <2>1. /\ Exists(l) /\ a = lines[l].asset /\ Exists(l)' /\ Held(l)' = p.units
          /\ liquidation' = liquidation
          /\ \A k \in LineId \ {l} : ChainStays(k)
        BY <1>3, PositionWritten DEF KeeperInv
    <2>2. Held(l) = positions[<<l, a>>].units
        BY <2>1, HeldNat DEF KeeperInv
    <2>3. QED
        BY <1>3, <2>1, <2>2
<1> DEFINE row == [pledgeRows[l] EXCEPT !.unapplied = pledgeRows[l].unapplied + m]
<1>5. /\ row \in [active : Nat, unapplied : Int] /\ row.active = pledgeRows[l].active
      /\ row.unapplied = pledgeRows[l].unapplied + m
    BY <1>2
<1>6. pledgeRows' = [pledgeRows EXCEPT ![l] = row]
    BY <1>3
<1> HIDE DEF row
<1>7. KeeperTypes'
    BY <1>1, <1>5, <1>6 DEF KeeperInv, KeeperTypes, InLiquidation
<1>8. \A k \in LineId \ {l} : BooksStay(k)
    BY <1>1, <1>6 DEF BooksStay, KeeperInv, KeeperTypes
<1>9. LineBooks(l)'
    <2>1. /\ cureJob'[l] = cureJob[l] /\ liquidationRow'[l] = liquidationRow[l]
          /\ seized'[l] = seized[l] /\ lineRow'[l] = lineRow[l]
          /\ pledgeRows'[l] = row /\ touched'[l] = (touched[l] \/ InLiquidation(l))
        BY <1>1, <1>6 DEF KeeperInv, KeeperTypes
    <2>2. Frozen(l)' = Frozen(l)
        BY <1>4 DEF Frozen
    <2>3. ~ touched'[l] => Undisturbed(l)'
        <3> SUFFICES ASSUME ~ touched'[l] PROVE Undisturbed(l)'
            OBVIOUS
        <3>1. ~ touched[l] /\ lines[l].status = "Open" /\ cureJob[l].phase = "Idle"
            BY <2>1 DEF InLiquidation
        <3>2. ~ Frozen(l)
            BY <3>1, KeeperValues
        <3>3. seized[l] = 0 /\ liquidationRow[l] = None
            BY <1>2, <3>1, <3>2 DEF LineBooks, Undisturbed
        <3>4. QED
            BY <2>1, <2>2, <3>1, <3>2, <3>3 DEF Undisturbed
    <2>4. liquidationRow[l] = None =>
              row.active + row.unapplied = Held(l)' + seized'[l]
        BY <1>2, <1>4, <1>5, <2>1 DEF LineBooks
    <2>5. QED
        BY <1>2, <1>4, <2>1, <2>2, <2>3, <2>4 DEF LineBooks, PastFreeze
<1>10. EscrowOnlyVault'
    BY <1>3 DEF KeeperInv, EscrowOnlyVault
<1>11. QED
    BY <1>4, <1>7, <1>8, <1>9, <1>10, OnlyOneLine

(* The larger of nothing and a number of units. *)
LEMMA MaxOfZero ==
    ASSUME NEW x \in Int
    PROVE  /\ Max({0, x}) \in Nat
           /\ x >= 0 => Max({0, x}) = x
<1> DEFINE m == CHOOSE y \in {0, x} : \A z \in {0, x} : y >= z
<1>1. \E y \in {0, x} : \A z \in {0, x} : y >= z
    <2>1. CASE x >= 0
        BY <2>1
    <2>2. CASE x < 0
        BY <2>2
    <2>3. QED
        BY <2>1, <2>2
<1>2. m \in {0, x} /\ m >= 0 /\ m >= x
    BY <1>1
<1>3. Max({0, x}) = m
    BY DEF Max
<1> HIDE DEF m
<1>4. QED
    BY <1>2, <1>3

(* Applying the intents keeps the total on the books. *)
LEMMA ApplyIntentsKeeps ==
    ASSUME KeeperInv, VaultInv', NEW l \in LineId, ApplyIntents(l)
    PROVE  KeeperInv'
<1> DEFINE sum == pledgeRows[l].active + pledgeRows[l].unapplied
           row == [active |-> Max({0, sum}), unapplied |-> 0]
<1>1. /\ seized[l] \in Nat /\ Held(l) \in Nat /\ LineBooks(l)
      /\ pledgeRows[l] \in [active : Nat, unapplied : Int]
    BY KeeperValues
<1>2. /\ Max({0, sum}) \in Nat
      /\ sum >= 0 => Max({0, sum}) = sum
    BY <1>1, MaxOfZero
<1>3. pledgeRows' = [pledgeRows EXCEPT ![l] = row]
    BY DEF ApplyIntents, KeeperInv, KeeperTypes
<1>4. row \in [active : Nat, unapplied : Int] /\ row.active = Max({0, sum}) /\ row.unapplied = 0
    BY <1>2
<1> HIDE DEF row
<1>5. /\ UNCHANGED <<lines, positions, liquidation, vaultConfig>>
      /\ UNCHANGED <<lineRow, marginEvents, cureJob, failures, liquidationRow, seized, touched>>
    BY DEF ApplyIntents, chainVars, vars, vaultVars
<1>6. KeeperTypes' /\ EscrowOnlyVault'
    BY <1>3, <1>4, <1>5 DEF KeeperInv, KeeperTypes, EscrowOnlyVault
<1>7. \A k \in LineId : ChainStays(k)
    BY <1>5, ChainUnchanged
<1>8. \A k \in LineId \ {l} : BooksStay(k)
    BY <1>3, <1>5 DEF BooksStay, KeeperInv, KeeperTypes
<1>9. LineBooks(l)'
    <2>1. pledgeRows'[l] = row
        BY <1>3 DEF KeeperInv, KeeperTypes
    <2>2. liquidationRow[l] = None => sum = Held(l) + seized[l]
        BY <1>1 DEF LineBooks
    <2>3. liquidationRow[l] = None => row.active + row.unapplied = Held(l) + seized[l]
        BY <1>1, <1>2, <1>4, <2>2
    <2>4. /\ Held(l)' = Held(l) /\ Frozen(l)' = Frozen(l) /\ Exists(l)' = Exists(l)
          /\ Undisturbed(l)' = Undisturbed(l) /\ PastFreeze(l)' = PastFreeze(l)
        BY <1>5 DEF Held, Frozen, Exists, Undisturbed, PastFreeze
    <2>5. QED
        BY <1>1, <1>5, <2>1, <2>3, <2>4 DEF LineBooks
<1>10. QED
    BY <1>6, <1>7, <1>8, <1>9, OnlyOneLine

(* Every step of the liquidation path keeps the invariant. *)
LEMMA KeeperInvStep ==
    ASSUME KeeperInv, [LiquidationNext]_liquidationVars
    PROVE  KeeperInv'
<1>1. [VaultNext]_<<vars, vaultVars>>
    BY KeeperStepOnChain DEF KeeperInv
<1>2. VaultInv'
    BY <1>1, VaultNextKeeps DEF KeeperInv
<1>3. ASSUME NEW l \in LineId, CureStep(l) PROVE KeeperInv'
    <2>1. CASE CureRefused(l)
        BY <1>2, <2>1, JobEnds DEF CureRefused
    <2>2. QED
        BY <1>2, <1>3, <2>1, CureReadLineKeeps, CureReadHeldKeeps, CurePokeKeeps, CureFreezeKeeps,
           CureSeizeKeeps, CureCountKeeps, CureBookKeeps DEF CureStep
<1>4. ASSUME NEW l \in LineId, CureFails(l) PROVE KeeperInv'
    BY <1>2, <1>4, JobEnds DEF CureFails
<1>5. ASSUME NEW l \in LineId, RecomputeLine(l) PROVE KeeperInv'
    <2>1. UNCHANGED <<lines, positions, liquidation, vaultConfig>>
        BY <1>5 DEF RecomputeLine, chainVars, vars, vaultVars
    <2>2. UNCHANGED <<lineRow, pledgeRows, cureJob, liquidationRow, seized, touched>>
        BY <1>5 DEF RecomputeLine
    <2>3. \A k \in LineId : ChainStays(k) /\ BooksStay(k)
        BY <2>1, <2>2, ChainUnchanged DEF BooksStay
    <2>4. \A k \in LineId : LineBooks(k)'
        BY <2>3, NothingHappens DEF KeeperInv
    <2>5. KeeperTypes' /\ EscrowOnlyVault'
        BY <2>1, <2>2 DEF KeeperInv, KeeperTypes, EscrowOnlyVault
    <2>6. QED
        BY <1>2, <2>4, <2>5 DEF KeeperInv
<1>6. CASE Environment /\ UNCHANGED <<vaultVars, keeperVars>>
    <2>1. UNCHANGED <<lines, positions, liquidation>>
        BY <1>6 DEF Environment, ConfigureAsset, PriceMoves, CloseLedger, vaultVars
    <2>2. QED
        BY <1>2, <1>6, <2>1, ChainUnchanged, OthersKeep
<1>7. CASE UNCHANGED liquidationVars
    <2>1. UNCHANGED <<vaultVars, keeperVars, lines, positions, liquidation>>
        BY <1>7 DEF liquidationVars, chainVars, vars, vaultVars
    <2>2. QED
        BY <1>2, <2>1, ChainUnchanged, OthersKeep
<1>8. QED
    BY <1>2, <1>3, <1>4, <1>5, <1>6, <1>7, ApplyIntentsKeeps, BorrowerMovesKeeps, PartyCallsKeep
       DEF LiquidationNext

-----------------------------------------------------------------------------
(* The theorems *)

(* The liquidation path keeps its invariant, and with it the two contracts *)
(* keep theirs.                                                            *)
THEOREM KeeperInvHolds == LiquidationSpec => []KeeperInv
    BY KeeperInvInit, KeeperInvStep, PTL DEF LiquidationSpec

(* Whatever the job, the borrower and the lender do, and however the job   *)
(* fails, the contracts agree about the collateral: cureExpiry.ts makes no *)
(* call that is not one of theirs.                                         *)
THEOREM KeeperKeepsCollateral == LiquidationSpec => []CollateralInStep
<1>1. KeeperInv => CollateralInStep
    BY DEF KeeperInv, VaultInv
<1>2. QED
    BY <1>1, KeeperInvHolds, PTL

(* The liquidation row holds the units the contract froze and the units    *)
(* the vault really sent, for any number of lines, failures and resumed    *)
(* runs, unless the borrower's own calls fell into it (cureExpiry.ts:146). *)
THEOREM BookedHolds == LiquidationSpec => []BookedWhatWasSeized
<1>1. KeeperInv => BookedWhatWasSeized
    <2> SUFFICES ASSUME KeeperInv, NEW l \in LineId, liquidationRow[l] # None, ~ touched[l]
                 PROVE  /\ liquidation[l] # None
                        /\ liquidationRow[l] = liquidation[l].seized_units
                        /\ liquidationRow[l] = seized[l]
        BY DEF BookedWhatWasSeized
    <2>1. Undisturbed(l) /\ seized[l] \in Nat
        BY KeeperValues DEF LineBooks
    <2>2. QED
        BY <2>1 DEF Undisturbed, Frozen
<1>2. QED
    BY <1>1, KeeperInvHolds, PTL

(* Collateral leaves for the lender only once the contract has recorded    *)
(* the liquidation, and never more of it than was frozen.                  *)
THEOREM SeizureHolds == LiquidationSpec => []SeizureWithinRecord
<1>1. KeeperInv => SeizureWithinRecord
    <2> SUFFICES ASSUME KeeperInv, NEW l \in LineId, seized[l] > 0
                 PROVE  /\ liquidation[l] # None
                        /\ ~ touched[l] => seized[l] <= liquidation[l].seized_units
        BY DEF SeizureWithinRecord
    <2>1. /\ LineBooks(l) /\ seized[l] \in Nat /\ Held(l) \in Nat
        BY KeeperValues
    <2>2. QED
        BY <2>1 DEF LineBooks, Undisturbed, Frozen
<1>2. QED
    BY <1>1, KeeperInvHolds, PTL
=============================================================================
