--------------------------- MODULE Reconciliation ---------------------------
(***************************************************************************)
(* services/ledger: the nightly comparison of the active pledges in        *)
(* Postgres with the pledge vault's events in chain_event, for one line    *)
(* and its asset, beside everything that moves either side: pledges and    *)
(* releases that land and are settled later (TxIntents), a seizure that    *)
(* is read, submitted and booked (keeper, cureExpiry.ts) and events that   *)
(* are indexed late (Indexer).                                             *)
(***************************************************************************)
EXTENDS Services, Sequences, Functions

CONSTANTS
    Pledges,
    UnitsOf,          \* per pledge: its units
    TOLERANCE_UNITS

ASSUME ReconciliationAssumption ==
    /\ IsFiniteSet(Pledges)
    /\ UnitsOf \in [Pledges -> Nat]
    /\ TOLERANCE_UNITS \in Nat
    /\ None \notin {"unsigned", "succeeded", "failed"}

VARIABLES
    pledgeRows,   \* table pledge: status per pledge
    envelopes,    \* per pledge: the envelope in flight and its fate
    vaultUnits,   \* PledgeVault: units of the position
    vaultEvents,  \* the vault's events, in order
    indexed,      \* ids of the events in chain_event
    seizure,      \* where the cure-expiry job is with this line
    raced,        \* a pledge was in flight when the seizure was booked
    breaks        \* reconciliation_run: breaks of the last run

reconVars == <<pledgeRows, envelopes, vaultUnits, vaultEvents, indexed, seizure,
               raced, breaks>>

ReconInit ==
    /\ pledgeRows = [p \in Pledges |-> "none"]
    /\ envelopes = [p \in Pledges |-> None]
    /\ vaultUnits = 0
    /\ vaultEvents = <<>>
    /\ indexed = {}
    /\ seizure = [at |-> "idle", units |-> 0]
    /\ raced = FALSE
    /\ breaks = 0

Emit(topic, units) == vaultEvents' = Append(vaultEvents, [topic |-> topic, units |-> units])

(* POST and DELETE .../pledges: a row and an unsigned envelope.            *)
RequestPledge(p) ==
    /\ \/ pledgeRows[p] = "none" /\ pledgeRows' = [pledgeRows EXCEPT ![p] = "pending"]
       \/ pledgeRows[p] = "active" /\ pledgeRows' = [pledgeRows EXCEPT ![p] = "pending_release"]
    /\ envelopes' = [envelopes EXCEPT ![p] = "unsigned"]
    /\ UNCHANGED <<vaultUnits, vaultEvents, indexed, seizure, raced, breaks>>

(* The envelope closes on the network, as a success or not; a release      *)
(* fails when the vault no longer holds its units.                         *)
Lands(p) ==
    /\ envelopes[p] = "unsigned"
    /\ \/ /\ pledgeRows[p] = "pending"
          /\ vaultUnits' = vaultUnits + UnitsOf[p]
          /\ Emit("pledged", UnitsOf[p])
          /\ envelopes' = [envelopes EXCEPT ![p] = "succeeded"]
       \/ /\ pledgeRows[p] = "pending_release"
          /\ vaultUnits >= UnitsOf[p]
          /\ vaultUnits' = vaultUnits - UnitsOf[p]
          /\ Emit("released", UnitsOf[p])
          /\ envelopes' = [envelopes EXCEPT ![p] = "succeeded"]
       \/ /\ envelopes' = [envelopes EXCEPT ![p] = "failed"]
          /\ UNCHANGED <<vaultUnits, vaultEvents>>
    /\ UNCHANGED <<pledgeRows, indexed, seizure, raced, breaks>>

(* The intent is settled: what the row becomes (intents.ts).               *)
SettledRow(row, fate) ==
    CASE row = "pending" /\ fate = "succeeded" -> "active"
      [] row = "pending" /\ fate = "failed" -> "failed"
      [] row = "pending_release" /\ fate = "succeeded" -> "released"
      [] OTHER -> "active"

Settles(p) ==
    /\ envelopes[p] \in {"succeeded", "failed"}
    /\ pledgeRows' = [pledgeRows EXCEPT ![p] = SettledRow(@, envelopes[p])]
    /\ envelopes' = [envelopes EXCEPT ![p] = None]
    /\ UNCHANGED <<vaultUnits, vaultEvents, indexed, seizure, raced, breaks>>

(* cureExpiry.ts, a liquidated line: the position is read, then seized ... *)
ReadHeld ==
    /\ seizure.at = "idle" /\ vaultUnits > 0
    /\ seizure' = [at |-> "read", units |-> vaultUnits]
    /\ UNCHANGED <<pledgeRows, envelopes, vaultUnits, vaultEvents, indexed, raced, breaks>>

SeizeHeld ==
    /\ seizure.at = "read" /\ vaultUnits >= seizure.units
    /\ vaultUnits' = vaultUnits - seizure.units
    /\ Emit("liquidated", seizure.units)
    /\ seizure' = [seizure EXCEPT !.at = "seized"]
    /\ UNCHANGED <<pledgeRows, envelopes, indexed, raced, breaks>>

(* ... and booked: the pledges that are active then become liquidated.     *)
BookSeizure ==
    /\ seizure.at = "seized"
    /\ pledgeRows' = [p \in Pledges |->
         IF pledgeRows[p] = "active" THEN "liquidated" ELSE pledgeRows[p]]
    /\ raced' = (vaultUnits > 0 \/ \E p \in Pledges : envelopes[p] # None)
    /\ seizure' = [seizure EXCEPT !.at = "booked"]
    /\ UNCHANGED <<envelopes, vaultUnits, vaultEvents, indexed, breaks>>

IndexEvent(i) ==
    /\ indexed' = indexed \union {i}
    /\ UNCHANGED <<pledgeRows, envelopes, vaultUnits, vaultEvents, seizure, raced, breaks>>

(* The two sides of the comparison, and the verdict.                       *)
PgUnits ==
    SumFunctionOnSet([p \in Pledges |-> IF pledgeRows[p] = "active" THEN UnitsOf[p] ELSE 0],
                     Pledges)

(* Mutant: a seizure counts as collateral coming in.                       *)
TopicDeltaSeizedIn(e) == IF e.topic = "released" THEN 0 - e.units ELSE e.units

TopicDelta(e) ==
    CASE e.topic = "pledged" -> e.units
      [] e.topic \in {"released", "liquidated"} -> 0 - e.units
      [] OTHER -> 0

ChainUnits ==
    SumFunctionOnSet([i \in DOMAIN vaultEvents |-> TopicDelta(vaultEvents[i])], indexed)

Mismatch ==
    LET diff == PgUnits - ChainUnits
    IN  (IF diff < 0 THEN 0 - diff ELSE diff) > TOLERANCE_UNITS

RunReconciliation ==
    /\ breaks' = IF Mismatch THEN 1 ELSE 0
    /\ UNCHANGED <<pledgeRows, envelopes, vaultUnits, vaultEvents, indexed, seizure, raced>>

ReconNext ==
    \/ \E p \in Pledges : RequestPledge(p) \/ Lands(p) \/ Settles(p)
    \/ ReadHeld \/ SeizeHeld \/ BookSeizure
    \/ \E i \in DOMAIN vaultEvents \ indexed : IndexEvent(i)
    \/ RunReconciliation

ReconSpec == ReconInit /\ [][ReconNext]_reconVars

-----------------------------------------------------------------------------
(* Properties.                                                             *)

(* Nothing is in flight and every event is indexed.                        *)
Quiet ==
    /\ \A p \in Pledges : envelopes[p] = None
    /\ seizure.at \in {"idle", "booked"}
    /\ indexed = DOMAIN vaultEvents

(* The books match the chain (reconcile.ts:2) whenever nothing is in       *)
(* flight, unless a seizure was booked while a pledge was: then a row that *)
(* was not active yet, or not active any more, may end up active without   *)
(* units behind it.                                                        *)
QuietBooksReconcile == Quiet /\ ~raced => ~Mismatch

=============================================================================
