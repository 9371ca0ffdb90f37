-------------------------- MODULE LiquidationKeeper --------------------------
(***************************************************************************)
(* The liquidation path across four processes: services/margin-monitor     *)
(* records margin events, services/keeper jobs/cureExpiry.ts reads them,   *)
(* calls CreditLine.liquidate and PledgeVault.liquidate (two transactions) *)
(* and books the result in Postgres, while the borrower and the lender     *)
(* keep calling the contracts.  The job may throw or die between any two   *)
(* steps, and a submission may throw although its transaction landed.      *)
(* (The sync job is CollateralSync's, and the queue never runs both.)      *)
(*                                                                         *)
(* The wall clock is the ledger's.  The two parallel reads of ltv and line *)
(* are one step: the contract repeats every check made on them.  Of the    *)
(* pledge rows the job uses their total, of the liquidation row its units. *)
(***************************************************************************)
EXTENDS PledgeVault, Sequences

CONSTANTS
    CURE,            \* credit_line.cure_window_s
    EVENT_LOOKBACK,  \* margin events the job reads back: 50 in the code
    MaxPledged,      \* bound: units on the pledge rows of one line
    MaxFailures      \* bound: runs that throw or die without the contracts refusing

ASSUME LiquidationKeeperAssumption ==
    /\ CURE \in Nat
    /\ EVENT_LOOKBACK \in Nat \ {0}
    /\ MaxPledged \in Nat
    /\ MaxFailures \in Nat
    /\ MaxUnits > 0

VARIABLES
    lineRow,         \* credit_line.status in Postgres
    marginEvents,    \* the newest EVENT_LOOKBACK margin_event rows, newest first
    pledgeRows,      \* units of the active pledge rows, and of intents still to apply
    cureJob,         \* where the job is, and what it has read
    failures,        \* runs that have thrown or died
    liquidationRow,  \* units of the liquidation row, None while there is none
    seized,          \* ghost: units sent to the lender
    touched          \* ghost: the borrower's own calls fell into the liquidation

keeperVars == <<lineRow, marginEvents, pledgeRows, cureJob, failures, liquidationRow,
                seized, touched>>

chainVars == <<vars, vaultVars>>

bookVars == <<lineRow, marginEvents, pledgeRows, liquidationRow>>

liquidationVars == <<chainVars, keeperVars>>

IdleCure == [phase |-> "Idle", resumed |-> FALSE, pledged |-> 0, held |-> 0]

Unhealthy == {"MarginCall", "Liquidation"}

(* No margin event, no run and no liquidation yet. *)
KeeperIdle ==
    /\ lineRow = [l \in LineId |-> "open"]
    /\ marginEvents = [l \in LineId |-> <<>>]
    /\ cureJob = [l \in LineId |-> IdleCure]
    /\ failures = 0
    /\ liquidationRow = [l \in LineId |-> None]
    /\ seized = [l \in LineId |-> 0]
    /\ touched = [l \in LineId |-> FALSE]

(* One line, opened, funded, drawn to its limit and pledged, as the calls  *)
(* of the two contracts leave it.                                          *)
PledgedLine(p, a, limit, rate, config, vault) ==
    /\ ledger = [sequence |-> 0, timestamp |-> 0]
    /\ price \in [Asset -> PriceReadings]
    /\ ValidThresholds(config.thresholds)
    /\ assetConfig = [x \in Asset |-> config]
    /\ nextLineId = 1
    /\ lines = [l \in LineId |-> IF l # 0 THEN NoLine
                   ELSE [NoLine EXCEPT !.lender = p, !.borrower = p, !.asset = a,
                             !.limit = limit, !.rate_bps = rate, !.status = "Open",
                             !.funded = limit, !.drawn = limit, !.pledged_units = 1]]
    /\ claimable = [l \in LineId |-> 0]
    /\ liquidation = [l \in LineId |-> None]
    /\ pool = 0
    /\ ValidThresholds(vault.thresholds)
    /\ vault.custody_mode = "Escrow"
    /\ vaultConfig = [x \in Asset |-> vault]
    /\ positions = [k \in LineId \X Asset |-> IF k # <<0, a>> THEN NoPosition
                        ELSE [units |-> 1, pending_lien_units |-> 0, mode |-> "Escrow"]]
    /\ escrow = [x \in Asset |-> IF x = a THEN 1 ELSE 0]

(* That line, on the books. *)
LiquidationInit ==
    /\ \E p \in Party, a \in Asset, limit \in Limits, rate \in Rates,
          config \in Configs, vault \in VaultConfigs :
           PledgedLine(p, a, limit, rate, config, vault)
    /\ pledgeRows = [l \in LineId |-> [active |-> IF l = 0 THEN 1 ELSE 0, unapplied |-> 0]]
    /\ KeeperIdle

-----------------------------------------------------------------------------
(* services/margin-monitor *)

LatestState(l) == IF marginEvents[l] = <<>> THEN None ELSE Head(marginEvents[l]).toState

LatestUnhealthy(l) == LatestState(l) \in Unhealthy

(* recomputeLine: an event for every change of the state the chain shows. *)
RecomputeLine(l) ==
    LET state == StateOf(lines[l])
        log   == marginEvents[l]
    IN  /\ lineRow[l] = "open"
        /\ Exists(l)
        /\ LtvReadable(lines[l].asset)
        /\ LatestState(l) # state
        /\ marginEvents' = [marginEvents EXCEPT ![l] =
               SubSeq(<<[toState |-> state, at |-> now]>> \o log, 1,
                      Lesser(Len(log) + 1, EVENT_LOOKBACK))]
        /\ UNCHANGED <<chainVars, lineRow, pledgeRows, cureJob, failures, liquidationRow,
                       seized, touched>>

-----------------------------------------------------------------------------
(* jobs/cureExpiry.ts *)

(* The oldest event of the current unbroken unhealthy stretch. *)
BreachStart(log) ==
    LET stretch == {i \in DOMAIN log : \A j \in 1 .. i : log[j].toState \in Unhealthy}
    IN  log[Max(stretch)].at

(* Where the reads of the line send the job. *)
CureDecision(l) ==
    LET line == lines[l]
        Go(phase, resumed) == [phase |-> phase, resumed |-> resumed,
                               pledged |-> line.pledged_units, held |-> 0]
    IN  CASE line.status = "Liquidating" -> Go("Read", TRUE)
          [] line.status # "Liquidating"
                /\ ~(StateOf(line) = "Liquidation" /\ PriceOk(line.asset)) -> IdleCure
          [] OTHER ->
                IF line.breach_ledger = None THEN Go("Poking", FALSE)
                ELSE IF now < BreachStart(marginEvents[l]) + CURE THEN IdleCure
                ELSE Go("Read", FALSE)

CureReadLine(l) ==
    /\ cureJob[l].phase = "Idle"
    /\ lineRow[l] = "open"
    /\ LatestUnhealthy(l)
    /\ Exists(l)
    /\ LtvReadable(lines[l].asset)
    /\ CureDecision(l) # IdleCure
    /\ cureJob' = [cureJob EXCEPT ![l] = CureDecision(l)]
    /\ touched' = [touched EXCEPT ![l] = @ /\ lines[l].status # "Open"]
    /\ UNCHANGED <<chainVars, bookVars, failures, seized>>

(* Mutant: the vault is never called. *)
AfterFreezeSkipsVault(job) == [job EXCEPT !.phase = "Counting"]

(* The rest of a liquidation once the line itself is frozen. *)
AfterFreeze(job) == [job EXCEPT !.phase = IF job.held > 0 THEN "Seizing" ELSE "Counting"]

(* Mutant: the collateral is seized without CreditLine.liquidate. *)
CureReadHeldSkipsFreeze(l) ==
    LET job == [cureJob[l] EXCEPT !.held = positions[<<l, lines[l].asset>>].units]
    IN  /\ cureJob[l].phase = "Read"
        /\ cureJob' = [cureJob EXCEPT ![l] =
               IF ~job.resumed /\ job.held # job.pledged THEN IdleCure ELSE AfterFreeze(job)]
        /\ UNCHANGED <<chainVars, bookVars, failures, seized, touched>>

(* positionUnits; a line not yet frozen must agree with the vault. *)
CureReadHeld(l) ==
    LET job == [cureJob[l] EXCEPT !.held = positions[<<l, lines[l].asset>>].units]
    IN  /\ cureJob[l].phase = "Read"
        /\ cureJob' = [cureJob EXCEPT ![l] =
               IF job.resumed THEN AfterFreeze(job)
               ELSE IF job.held # job.pledged THEN IdleCure
               ELSE [job EXCEPT !.phase = "Freezing"]]
        /\ UNCHANGED <<chainVars, bookVars, failures, seized, touched>>

(* A submission whose transaction landed returns, or throws all the same:  *)
(* the job goes on to `next` or ends.                                      *)
Returns(l, next) ==
    \/ cureJob' = [cureJob EXCEPT ![l] = next] /\ UNCHANGED failures
    \/ /\ failures < MaxFailures
       /\ failures' = failures + 1
       /\ cureJob' = [cureJob EXCEPT ![l] = IdleCure]

CurePoke(l) ==
    /\ cureJob[l].phase = "Poking"
    /\ Poke(l)
    /\ cureJob' = [cureJob EXCEPT ![l] = IdleCure]
    /\ UNCHANGED <<vaultVars, bookVars, failures, seized, touched>>

CureFreeze(l) ==
    /\ cureJob[l].phase = "Freezing"
    /\ Liquidate(l)
    /\ Returns(l, AfterFreeze(cureJob[l]))
    /\ UNCHANGED <<vaultVars, bookVars, seized, touched>>

CureSeize(l) ==
    /\ cureJob[l].phase = "Seizing"
    /\ Seize(l, lines[l].asset, cureJob[l].held)
    /\ seized' = [seized EXCEPT ![l] = @ + cureJob[l].held]
    /\ Returns(l, [cureJob[l] EXCEPT !.phase = "Counting"])
    /\ UNCHANGED <<bookVars, touched>>

(* Mutant: a resumed run does not fall back on the pledge rows. *)
SeizedUnitsAsHeld(l) == cureJob[l].held

(* totalUnits: a resumed run that finds the vault empty takes the quantity *)
(* from the pledge rows.                                                   *)
SeizedUnits(l) ==
    IF cureJob[l].resumed /\ cureJob[l].held = 0 THEN pledgeRows[l].active ELSE cureJob[l].held

(* A zero total throws.  `held` is the total from here on. *)
CureCount(l) ==
    /\ cureJob[l].phase = "Counting"
    /\ cureJob' = [cureJob EXCEPT ![l] =
           IF SeizedUnits(l) = 0 THEN IdleCure
           ELSE [@ EXCEPT !.phase = "Booking", !.held = SeizedUnits(l)]]
    /\ touched' = [touched EXCEPT ![l] = @ \/ pledgeRows[l].unapplied # 0]
    /\ UNCHANGED <<chainVars, bookVars, failures, seized>>

(* The booking transaction: pledges, liquidation row, line. *)
CureBook(l) ==
    /\ cureJob[l].phase = "Booking"
    /\ pledgeRows' = [pledgeRows EXCEPT ![l].active = 0]
    /\ liquidationRow' = [liquidationRow EXCEPT ![l] =
           IF @ = None THEN cureJob[l].held ELSE @]
    /\ lineRow' = [lineRow EXCEPT ![l] = "liquidating"]
    /\ cureJob' = [cureJob EXCEPT ![l] = IdleCure]
    /\ UNCHANGED <<chainVars, marginEvents, failures, seized, touched>>

(* The contract would panic on the call the job is about to make. *)
ContractRefuses(l) ==
    \/ cureJob[l].phase = "Freezing" /\ ~ENABLED Liquidate(l)
    \/ cureJob[l].phase = "Seizing" /\ ~ENABLED Seize(l, lines[l].asset, cureJob[l].held)

(* The contract refuses the call: the simulation that builds it throws. *)
CureRefused(l) ==
    /\ ContractRefuses(l)
    /\ cureJob' = [cureJob EXCEPT ![l] = IdleCure]
    /\ UNCHANGED <<chainVars, bookVars, failures, seized, touched>>

(* A read, a submission or the transaction throws, or the keeper dies. *)
CureFails(l) ==
    /\ cureJob[l].phase # "Idle"
    /\ failures < MaxFailures
    /\ failures' = failures + 1
    /\ cureJob' = [cureJob EXCEPT ![l] = IdleCure]
    /\ UNCHANGED <<chainVars, bookVars, seized, touched>>

CureStep(l) ==
    \/ CureReadLine(l) \/ CureReadHeld(l) \/ CurePoke(l) \/ CureFreeze(l) \/ CureSeize(l)
    \/ CureCount(l) \/ CureBook(l) \/ CureRefused(l)

-----------------------------------------------------------------------------
(* The other parties.  The borrower's vault calls reach the pledge rows    *)
(* when the API applies their intents (TxIntents).                         *)
InLiquidation(l) == lines[l].status # "Open" \/ cureJob[l].phase # "Idle"

BorrowerMoves(l) ==
    \E p \in Party, a \in Asset, units \in Units :
        /\ \/ /\ pledgeRows[l].active + pledgeRows[l].unapplied + units <= MaxPledged
              /\ Pledge(p, l, a, units)
              /\ pledgeRows' = [pledgeRows EXCEPT ![l].unapplied = @ + units]
           \/ /\ Release(p, l, a, units)
              /\ pledgeRows' = [pledgeRows EXCEPT ![l].unapplied = @ - units]
        /\ touched' = [touched EXCEPT ![l] = @ \/ InLiquidation(l)]
        /\ UNCHANGED <<lineRow, marginEvents, cureJob, failures, liquidationRow, seized>>

ApplyIntents(l) ==
    /\ pledgeRows[l].unapplied # 0
    /\ pledgeRows' = [pledgeRows EXCEPT ![l] =
           [active |-> Max({0, @.active + @.unapplied}), unapplied |-> 0]]
    /\ UNCHANGED <<chainVars, lineRow, marginEvents, cureJob, failures, liquidationRow,
                   seized, touched>>

(* runInterestAccrualJob: an hourly poke of every line the books call open. *)
InterestAccrual(l) ==
    /\ lineRow[l] = "open"
    /\ Poke(l)
    /\ UNCHANGED <<vaultVars, keeperVars>>

(* Everything in LineCall but the keeper's own liquidate. *)
PartyCalls(l) ==
    /\ \/ \E p \in Party, amount \in Amounts :
              Fund(p, l, amount) \/ Draw(p, l, amount) \/ WithdrawUndrawn(p, l, amount)
                  \/ WithdrawInterest(p, l, amount)
       \/ \E amount \in Amounts : Repay(l, amount)
       \/ Poke(l)
       \/ \E p \in Party : CloseLiquidated(p, l)
    /\ UNCHANGED <<vaultVars, keeperVars>>

LiquidationNext ==
    \/ \E l \in LineId :
           CureStep(l) \/ CureFails(l) \/ RecomputeLine(l) \/ ApplyIntents(l)
               \/ InterestAccrual(l) \/ BorrowerMoves(l) \/ PartyCalls(l)
    \/ Environment /\ UNCHANGED <<vaultVars, keeperVars>>

(* The monitor polls, the API sweeps its intents, and the queue runs the   *)
(* job to its end again and again.                                         *)
LiquidationFairness ==
    \A l \in LineId :
        /\ WF_liquidationVars(RecomputeLine(l))
        /\ WF_liquidationVars(ApplyIntents(l))
        /\ WF_liquidationVars(CureStep(l))

LiquidationSpec ==
    LiquidationInit /\ [][LiquidationNext]_liquidationVars /\ LiquidationFairness

-----------------------------------------------------------------------------
(* Properties *)

(* The books say what happened: however often the job failed and resumed,  *)
(* the liquidation row holds the units the contract froze and the units    *)
(* the vault really sent, unless the borrower's own calls fell into it.    *)
BookedWhatWasSeized ==
    \A l \in LineId :
        liquidationRow[l] # None /\ ~touched[l] =>
            /\ liquidation[l] # None
            /\ liquidationRow[l] = liquidation[l].seized_units
            /\ liquidationRow[l] = seized[l]

(* Collateral leaves for the lender only from a line whose liquidation the *)
(* contract has recorded, and never more of it than was frozen, again      *)
(* unless the borrower pledged into the liquidation.                       *)
SeizureWithinRecord ==
    \A l \in LineId :
        seized[l] > 0 =>
            /\ liquidation[l] # None
            /\ ~touched[l] => seized[l] <= liquidation[l].seized_units

HalfDone(l) == lines[l].status = "Liquidating" /\ lineRow[l] = "open"

(* A liquidation the contract has recorded is finished on the books, or    *)
(* the lender closes it, or the monitor records that the line recovered,   *)
(* or the borrower never stops moving the collateral (his intents keep     *)
(* coming in), which can fall between the job's read of the vault and its  *)
(* seizure every time.                                                     *)
LiquidationCarriedOn ==
    \A l \in LineId :
        \/ HalfDone(l) ~> (~HalfDone(l) \/ ~LatestUnhealthy(l))
        \/ []<>(pledgeRows[l].unapplied # 0)

(* What cureExpiry.ts says of a run that dies: the next one finds the line *)
(* Liquidating and carries on from the vault.                              *)
DeadRunResumed == \A l \in LineId : HalfDone(l) ~> ~HalfDone(l)
=============================================================================
