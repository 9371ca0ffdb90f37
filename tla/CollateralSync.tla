--------------------------- MODULE CollateralSync ---------------------------
(***************************************************************************)
(* services/keeper jobs/syncCollateral.ts beside the two contracts: the    *)
(* job that repairs a line's collateral figure from the vault's balance.   *)
(* It reads the line, then the vault, and when they differ signs and       *)
(* submits sync_collateral with the balance it read.  Those are three      *)
(* round trips, and contract calls of anybody fall between them.           *)
(***************************************************************************)
EXTENDS PledgeVault

VARIABLES
    syncJob  \* per line: where the job is, and what it has read

railVars == <<vars, vaultVars, syncJob>>

IdleSync == [phase |-> "Idle", pledged |-> 0, held |-> 0]

RailInit ==
    /\ VaultInit
    /\ syncJob = [l \in LineId |-> IdleSync]

(* creditLineClient.line(contractLine).  The job picks lines whose         *)
(* database row says open; the row may lag, so any line may be picked.     *)
SyncReadLine(l) ==
    /\ Exists(l)
    /\ syncJob[l].phase = "Idle"
    /\ syncJob' = [syncJob EXCEPT ![l] =
           [phase |-> "LineRead", pledged |-> lines[l].pledged_units, held |-> 0]]
    /\ UNCHANGED <<vars, vaultVars>>

(* Mutant: the skip is taken whenever the vault holds less than the line   *)
(* counts.                                                                 *)
SyncSkipsShortfall(l) ==
    LET held == positions[<<l, lines[l].asset>>].units
    IN  /\ syncJob[l].phase = "LineRead"
        /\ syncJob' = [syncJob EXCEPT ![l] =
               IF held <= @.pledged THEN IdleSync
               ELSE [phase |-> "InFlight", pledged |-> @.pledged, held |-> held]]
        /\ UNCHANGED <<vars, vaultVars>>

(* pledgeVaultClient.positionUnits, and skip when the figures agree. *)
SyncReadVault(l) ==
    LET held == positions[<<l, lines[l].asset>>].units
    IN  /\ syncJob[l].phase = "LineRead"
        /\ syncJob' = [syncJob EXCEPT ![l] =
               IF held = @.pledged THEN IdleSync
               ELSE [phase |-> "InFlight", pledged |-> @.pledged, held |-> held]]
        /\ UNCHANGED <<vars, vaultVars>>

(* The signed transaction is included. *)
SyncLands(l) ==
    /\ syncJob[l].phase = "InFlight"
    /\ SyncCollateral(l, syncJob[l].held)
    /\ syncJob' = [syncJob EXCEPT ![l] = IdleSync]
    /\ UNCHANGED vaultVars

(* A read or the submission throws: the error is collected, the next run   *)
(* starts over.                                                            *)
SyncFails(l) ==
    /\ syncJob[l].phase # "Idle"
    /\ syncJob' = [syncJob EXCEPT ![l] = IdleSync]
    /\ UNCHANGED <<vars, vaultVars>>

SyncStep(l) == SyncReadLine(l) \/ SyncReadVault(l) \/ SyncLands(l) \/ SyncFails(l)

RailNext ==
    \/ VaultNext /\ UNCHANGED syncJob
    \/ \E l \in LineId : SyncStep(l)

RailSpec == RailInit /\ [][RailNext]_railVars

(* The scheduler runs the job every minute, so it always starts and always *)
(* takes its next step; reads and submissions that keep being tried        *)
(* succeed in the end.                                                     *)
RailFairness ==
    \A l \in LineId :
        /\ WF_railVars(SyncReadLine(l))
        /\ SF_railVars(SyncReadVault(l))
        /\ SF_railVars(SyncLands(l))

FairRailSpec == RailSpec /\ RailFairness

-----------------------------------------------------------------------------
(* Properties *)

(* Drift never lasts: whatever leaves an open line's collateral figure     *)
(* different from the vault's balance, the two agree again later, because  *)
(* the vault reports or the job repairs.                                   *)
DriftRepaired ==
    \A l \in LineId :
        []<>(lines[l].status # "Open"
                \/ lines[l].pledged_units = positions[<<l, lines[l].asset>>].units)
=============================================================================
