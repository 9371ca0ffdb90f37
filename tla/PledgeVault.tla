---------------------------- MODULE PledgeVault -----------------------------
(***************************************************************************)
(* contracts/pledge-vault composed with the credit line it reports to.     *)
(* Every vault call that changes a position also calls                     *)
(* CreditLine::sync_from_vault in the same transaction, so the vault's     *)
(* actions conjoin CreditLine's SyncFromVault.  Position.lien_ref is kept  *)
(* for audit only and is left out.                                         *)
(***************************************************************************)
EXTENDS CreditLine

CONSTANTS
    VaultConfigs,  \* the vault's own AssetConfig records
    MaxUnits       \* bound: units pledged to one position, pending ones included

CustodyModes == {"Escrow", "IssuerLien", "CustodianLien"}

VaultConfig ==
    [haircut_bps : Nat, thresholds : MarginThresholds, custody_mode : CustodyModes]

Position == [units : Nat, pending_lien_units : Nat, mode : CustodyModes]

ASSUME PledgeVaultAssumption ==
    /\ MaxUnits \in Nat
    /\ Units = 0 .. MaxUnits
    /\ VaultConfigs \subseteq VaultConfig
    /\ None \notin VaultConfig

VARIABLES
    vaultConfig,  \* the vault's DataKey::AssetConfig
    positions,    \* DataKey::Position(line, asset)
    escrow        \* RWA tokens the vault's own address holds, per asset

vaultVars == <<vaultConfig, positions, escrow>>

NoPosition == [units |-> 0, pending_lien_units |-> 0, mode |-> "Escrow"]

VaultInit ==
    /\ Init
    /\ vaultConfig = [a \in Asset |-> None]
    /\ positions = [k \in LineId \X Asset |-> NoPosition]
    /\ escrow = [a \in Asset |-> 0]

-----------------------------------------------------------------------------
VaultConfigureAsset(a, config) ==
    /\ ValidThresholds(config.thresholds)
    /\ vaultConfig' = [vaultConfig EXCEPT ![a] = config]
    /\ UNCHANGED <<vars, positions, escrow>>

(* Mutant: units still awaiting their lien are reported as collateral. *)
WriteReportsPending(l, a, position) ==
    /\ positions' = [positions EXCEPT ![<<l, a>>] = position]
    /\ SyncFromVault(l, a, position.units + position.pending_lien_units)

(* Mutant: the report also clears the breach flag. *)
WriteDisarms(l, a, position) ==
    /\ positions' = [positions EXCEPT ![<<l, a>>] = position]
    /\ Exists(l)
    /\ lines[l].asset = a
    /\ WriteLine(l, [lines[l] EXCEPT !.pledged_units = position.units,
                                     !.breach_ledger = None])
    /\ UNCHANGED <<ledger, price, assetConfig, nextLineId, claimable, liquidation, pool>>

(* write_position followed by sync_credit_line. *)
WritePosition(l, a, position) ==
    /\ positions' = [positions EXCEPT ![<<l, a>>] = position]
    /\ SyncFromVault(l, a, position.units)

(* In escrow mode the token transfer is the proof of the units; in a lien  *)
(* mode they wait for the gateway.                                         *)
Pledge(borrower, l, a, units) ==
    LET p    == positions[<<l, a>>]
        mode == vaultConfig[a].custody_mode
    IN  /\ units > 0
        /\ vaultConfig[a] # None
        /\ lines[l].borrower = borrower
        /\ lines[l].asset = a
        /\ (p.units = 0 /\ p.pending_lien_units = 0) \/ p.mode = mode
        /\ p.units + p.pending_lien_units + units <= MaxUnits
        /\ \/ /\ mode = "Escrow"
              /\ escrow' = [escrow EXCEPT ![a] = @ + units]
              /\ WritePosition(l, a, [p EXCEPT !.units = @ + units, !.mode = mode])
           \/ /\ mode # "Escrow"
              /\ UNCHANGED escrow
              /\ WritePosition(l, a, [p EXCEPT !.pending_lien_units = @ + units,
                                               !.mode = mode])
        /\ UNCHANGED vaultConfig

(* Mutant: the mode is ignored and tokens leave the vault for a lien too. *)
TokensOutAnyMode(a, mode, units) == escrow' = [escrow EXCEPT ![a] = @ - units]

(* Tokens leave the vault only when it is the one holding them. *)
TokensOut(a, mode, units) ==
    escrow' = IF mode = "Escrow" THEN [escrow EXCEPT ![a] = @ - units] ELSE escrow

(* The price and LTV check a release must pass while anything is owed,     *)
(* under the vault's own haircut and thresholds.                           *)
ReleaseIsHealthy(l, a, remaining) ==
    LET config == vaultConfig[a]
    IN  /\ PriceOk(a)
        /\ LtvReadable(lines[l].asset)
        /\ HaircutUsable(config.haircut_bps)
        /\ Classify(LtvBps(DebtOf(lines[l], now),
                           CollateralValue(remaining, price[a].value, config.haircut_bps)),
                    config.thresholds) = "Healthy"

Release(borrower, l, a, units) ==
    LET p == positions[<<l, a>>]
    IN  /\ units > 0
        /\ vaultConfig[a] # None
        /\ lines[l].borrower = borrower
        /\ units <= p.units
        /\ DebtOf(lines[l], now) > 0 => ReleaseIsHealthy(l, a, p.units - units)
        /\ TokensOut(a, p.mode, units)
        /\ WritePosition(l, a, [p EXCEPT !.units = @ - units])
        /\ UNCHANGED vaultConfig

(* Gateway only: confirms pending units, in tranches if it likes. *)
RecordLien(l, a, units) ==
    LET p == positions[<<l, a>>]
    IN  /\ units > 0
        /\ units <= p.pending_lien_units
        /\ vaultConfig[a] # None
        /\ WritePosition(l, a, [p EXCEPT !.pending_lien_units = @ - units,
                                         !.units = @ + units])
        /\ UNCHANGED <<vaultConfig, escrow>>

(* Keeper only, with no LTV or status check: the seizing half of a         *)
(* liquidation, a transaction of its own.                                  *)
Seize(l, a, units) ==
    LET p == positions[<<l, a>>]
    IN  /\ units > 0
        /\ units <= p.units
        /\ vaultConfig[a] # None
        /\ TokensOut(a, p.mode, units)
        /\ WritePosition(l, a, [p EXCEPT !.units = @ - units])
        /\ UNCHANGED vaultConfig

-----------------------------------------------------------------------------
VaultCall(l) ==
    \E a \in Asset, units \in Units :
        \/ \E p \in Party : Pledge(p, l, a, units) \/ Release(p, l, a, units)
        \/ RecordLien(l, a, units)
        \/ Seize(l, a, units)

VaultNext ==
    \/ \E l \in LineId : VaultCall(l) \/ (LineCall(l) /\ UNCHANGED vaultVars)
    \/ Environment /\ UNCHANGED vaultVars
    \/ \E a \in Asset, config \in VaultConfigs : VaultConfigureAsset(a, config)

VaultSpec == VaultInit /\ [][VaultNext]_<<vars, vaultVars>>

-----------------------------------------------------------------------------
(* Properties *)

(* The vault's stored state has the shape its types declare. *)
VaultTypeOK ==
    /\ vaultConfig \in [Asset -> VaultConfig \cup {None}]
    /\ positions \in [LineId \X Asset -> Position]
    /\ escrow \in [Asset -> Int]

(* A line counts exactly the units the vault holds for it, in whatever     *)
(* order pledges, releases, lien confirmations, seizures, draws and        *)
(* repayments interleave.  (A closed line counts none until the vault      *)
(* next reports on it.)                                                    *)
CollateralInStep ==
    \A l \in LineId :
        lines[l].status \in {"Open", "Liquidating"} =>
            lines[l].pledged_units = positions[<<l, lines[l].asset>>].units

(* Positions hold units of the line's own collateral asset only, and units *)
(* awaiting a lien sit only in positions of a lien mode.                   *)
PositionsMatchLines ==
    \A l \in LineId, a \in Asset :
        LET p == positions[<<l, a>>]
        IN  /\ p.units + p.pending_lien_units > 0 => lines[l].asset = a
            /\ p.pending_lien_units > 0 => p.mode # "Escrow"

(* The inductive invariant: besides the two above, a position with any     *)
(* units belongs to an opened line, so opening a line finds its positions  *)
(* empty, and no position outgrows what a sync may report.                 *)
VaultInv ==
    /\ IndInv
    /\ VaultTypeOK
    /\ \A l \in LineId, a \in Asset :
           LET p == positions[<<l, a>>]
           IN  /\ p.units + p.pending_lien_units <= MaxUnits
               /\ p.units + p.pending_lien_units > 0 => Exists(l) /\ lines[l].asset = a
               /\ p.pending_lien_units > 0 => p.mode # "Escrow"
    /\ CollateralInStep

(* The units of a position whose tokens are at the vault's address. *)
Escrowed(p) == IF p.mode = "Escrow" THEN p.units ELSE 0

EscrowUnits(a) == [l \in LineId |-> Escrowed(positions[<<l, a>>])]

(* The tokens at the vault's address are exactly the units of the escrow   *)
(* positions, through custody-mode changes and both ways out.              *)
EscrowBacked ==
    \A a \in Asset : escrow[a] = SumFunctionOnSet(EscrowUnits(a), LineId)

(* A draw leaves the line healthy against what the vault really holds, not *)
(* only against the figure the credit line keeps.                          *)
DrawBackedByVault ==
    [][\A l \in LineId :
           lines'[l].drawn > lines[l].drawn =>
               LET a == lines[l].asset
               IN  MarginOf(DebtOf(lines'[l], now), positions[<<l, a>>].units, a)
                       = "Healthy"]_<<vars, vaultVars>>

SameTerms(a) ==
    /\ Configured(a) /\ vaultConfig[a] # None
    /\ vaultConfig[a].haircut_bps = assetConfig[a].haircut_bps
    /\ vaultConfig[a].thresholds = assetConfig[a].thresholds

(* While the two contracts hold the same haircut and thresholds for an     *)
(* asset, collateral leaves an indebted line without the keeper only if    *)
(* the line's own margin state is Healthy afterwards: releasing gives no   *)
(* leverage that drawing would not.                                        *)
ReleaseKeepsHealthy ==
    [][\A l \in LineId, p \in Party, a \in Asset, units \in Units :
           (Release(p, l, a, units) /\ SameTerms(a) /\ DebtOf(lines[l], now) > 0)
               => StateOf(lines[l])' = "Healthy" /\ PriceOk(a)]_<<vars, vaultVars>>
=============================================================================
