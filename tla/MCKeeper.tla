------------------------------ MODULE MCKeeper ------------------------------
(***************************************************************************)
(* Model checking the keeper's two jobs on credit lines beside the two     *)
(* contracts, with the constants of MCPledgeVault.  The queue never runs   *)
(* both at once, and each has bookkeeping of its own, so a behaviour has   *)
(* one of them: `focus` names it, and the other never starts.              *)
(***************************************************************************)
EXTENDS CollateralSync, LiquidationKeeper, MCPledgeVault

VARIABLE focus

keeperRunVars == <<chainVars, syncJob, keeperVars, focus>>

(* The sync starts from empty contracts, the liquidation from a line that  *)
(* is drawn and pledged.                                                   *)
KeeperInit ==
    \/ /\ focus = "sync"
       /\ RailInit
       /\ KeeperIdle
       /\ pledgeRows = [l \in LineId |-> [active |-> 0, unapplied |-> 0]]
    \/ /\ focus = "liquidation"
       /\ LiquidationInit
       /\ syncJob = [l \in LineId |-> IdleSync]

KeeperNext ==
    /\ UNCHANGED focus
    /\ \/ focus = "sync" /\ RailNext /\ UNCHANGED keeperVars
       \/ focus = "liquidation" /\ LiquidationNext /\ UNCHANGED syncJob

(* Each job's own fairness, while it is the one that runs. *)
KeeperFairness ==
    \A l \in LineId :
        /\ WF_railVars(focus = "sync" /\ SyncReadLine(l))
        /\ SF_railVars(focus = "sync" /\ SyncReadVault(l))
        /\ SF_railVars(focus = "sync" /\ SyncLands(l))
        /\ WF_liquidationVars(focus = "liquidation" /\ RecomputeLine(l))
        /\ WF_liquidationVars(focus = "liquidation" /\ ApplyIntents(l))
        /\ WF_liquidationVars(focus = "liquidation" /\ CureStep(l))

KeeperSpec == KeeperInit /\ [][KeeperNext]_keeperRunVars /\ KeeperFairness

=============================================================================
