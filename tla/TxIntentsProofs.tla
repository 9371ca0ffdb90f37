--------------------------- MODULE TxIntentsProofs ---------------------------
(***************************************************************************)
(* Proofs about TxIntents for any number of envelopes, submit calls and    *)
(* faults and any timeouts with LAG <= MARGIN.                             *)
(***************************************************************************)
EXTENDS TxIntents, TLAPS

-----------------------------------------------------------------------------
(* Facts about the tables of statuses *)

(* Every kind has a table. *)
LEMMA TableOfKind ==
    ASSUME NEW kind \in IntentKind
    PROVE  TableOf(kind) \in Tables
    BY DEF TableOf, Tables

(* Rows stay rows through a route's write and an intent's end. *)
LEMMA WritesRow ==
    ASSUME NEW kind \in IntentKind, NEW row \in Row
    PROVE  /\ RouteWrites(kind, row) \in Row
           /\ applySuccess(kind, row) \in Row
           /\ applyFailure(kind, row) \in Row
<1>1. RouteWrites(kind, row) \in Row
    BY DEF RouteWrites, Row
<1>2. applySuccess(kind, row) \in Row
    BY DEF applySuccess, Row
<1>3. applyFailure(kind, row) \in Row
    BY DEF applyFailure, Row
<1>4. QED
    BY <1>1, <1>2, <1>3

(* The end of an optimistic intent ends the row's wait, and no other kind  *)
(* starts one.                                                             *)
LEMMA EndsWait ==
    ASSUME NEW kind \in IntentKind, NEW row \in Row
    PROVE  /\ applySuccess(kind, row).status \in Awaiting =>
                  applySuccess(kind, row).status = row.status /\ kind \notin OptimisticKinds
           /\ applyFailure(kind, row).status \in Awaiting =>
                  applyFailure(kind, row).status = row.status /\ kind \notin OptimisticKinds
           /\ kind \notin OptimisticKinds /\ RouteWrites(kind, row).status \in Awaiting =>
                  RouteWrites(kind, row).status = row.status
<1>1. applySuccess(kind, row).status \in Awaiting =>
          applySuccess(kind, row).status = row.status /\ kind \notin OptimisticKinds
    BY DEF applySuccess, Row, Awaiting, OptimisticKinds
<1>2. applyFailure(kind, row).status \in Awaiting =>
          applyFailure(kind, row).status = row.status /\ kind \notin OptimisticKinds
    BY DEF applyFailure, Row, Awaiting, OptimisticKinds
<1>3. kind \notin OptimisticKinds /\ RouteWrites(kind, row).status \in Awaiting =>
          RouteWrites(kind, row).status = row.status
    BY DEF RouteWrites, Row, Awaiting, OptimisticKinds
<1>4. QED
    BY <1>1, <1>2, <1>3

(* A claimed or written-off intent keeps everything but its status. *)
LEMMA ApplyEffect ==
    ASSUME IntentTypeOK, NEW tx \in Tx, intents[tx] # None,
           NEW next \in {"settled", "failed", "expired"}, Apply(tx, next)
    PROVE  /\ intents' \in [Tx -> Intent \cup {None}]
           /\ rows' \in [Tables -> Row]
           /\ booked' \in [Tx -> 0..2]
           /\ intents'[tx] # None
           /\ intents'[tx].status = next
           /\ intents'[tx].kind = intents[tx].kind
           /\ intents'[tx].error = intents[tx].error
           /\ intents'[tx].created_at = intents[tx].created_at
           /\ \A u \in Tx \ {tx} : intents'[u] = intents[u] /\ booked'[u] = booked[u]
           /\ booked'[tx] = IF next # "settled" THEN booked[tx]
                            ELSE IF booked[tx] = 0 THEN 1 ELSE 2
<1>1. intents[tx] \in Intent
    BY DEF IntentTypeOK
<1>2. [intents[tx] EXCEPT !.status = next] \in Intent
    BY <1>1 DEF Intent
<1>3. intents' = [intents EXCEPT ![tx] = [intents[tx] EXCEPT !.status = next]]
    BY DEF Apply, IntentTypeOK
<1>4. /\ intents' \in [Tx -> Intent \cup {None}]
      /\ intents'[tx] = [intents[tx] EXCEPT !.status = next]
      /\ \A u \in Tx \ {tx} : intents'[u] = intents[u]
    BY <1>2, <1>3 DEF IntentTypeOK
<1>5. /\ intents'[tx] # None
      /\ intents'[tx].status = next
      /\ intents'[tx].kind = intents[tx].kind
      /\ intents'[tx].error = intents[tx].error
      /\ intents'[tx].created_at = intents[tx].created_at
    BY <1>1, <1>2, <1>4, IntentsAssumption DEF Intent
<1>6. /\ booked' \in [Tx -> 0..2]
      /\ \A u \in Tx \ {tx} : booked'[u] = booked[u]
      /\ booked'[tx] = IF next # "settled" THEN booked[tx]
                       ELSE IF booked[tx] = 0 THEN 1 ELSE 2
    BY DEF Apply, IntentTypeOK
<1>7. rows' \in [Tables -> Row]
    <2>1. intents[tx].kind \in IntentKind
        BY <1>1 DEF Intent
    <2>2. TableOf(intents[tx].kind) \in Tables
        BY <2>1, TableOfKind
    <2>3. QED
        BY <2>1, <2>2, WritesRow DEF Apply, IntentTypeOK
<1>8. QED
    BY <1>4, <1>5, <1>6, <1>7

(* A settler that gets a recorded intent, or none, is well-formed. *)
LEMMA SettlerMoves ==
    ASSUME IntentTypeOK, NEW s \in Settlers, UNCHANGED intents,
           NEW at \in {"idle", "outcome", "read", "claim", "undo", "expire"},
           NEW tx \in Tx \cup {None}, NEW next \in {"settled", "failed", None},
           at # "idle" => tx \in Tx /\ intents[tx] # None,
           settler' = [settler EXCEPT ![s] = [at |-> at, tx |-> tx, next |-> next]]
    PROVE  /\ settler' \in [Settlers ->
                  [at : {"idle", "outcome", "read", "claim", "undo", "expire"},
                   tx : Tx \cup {None}, next : {"settled", "failed", None}]]
           /\ \A r \in Settlers : settler'[r].at # "idle" =>
                  settler'[r].tx \in Tx /\ intents'[settler'[r].tx] # None
    BY DEF IntentTypeOK

(* The same for a settler that moves on with the intent it has, or stops. *)
LEMMA SettlerGoes ==
    ASSUME IntentTypeOK, NEW s \in Settlers, settler[s].at # "idle",
           NEW at \in {"outcome", "read", "claim", "undo", "expire"},
           Goes(s, at) \/ Ends(s)
    PROVE  /\ settler' \in [Settlers ->
                  [at : {"idle", "outcome", "read", "claim", "undo", "expire"},
                   tx : Tx \cup {None}, next : {"settled", "failed", None}]]
           /\ \A r \in Settlers : settler'[r].at # "idle" =>
                  settler'[r].tx = settler[r].tx /\ settler[r].at # "idle"
<1>1. Idle \in [at : {"idle", "outcome", "read", "claim", "undo", "expire"},
                tx : Tx \cup {None}, next : {"settled", "failed", None}]
    BY DEF Idle
<1>2. CASE Goes(s, at)
    BY <1>2 DEF Goes, IntentTypeOK
<1>3. CASE Ends(s)
    BY <1>1, <1>3 DEF Ends, Idle, IntentTypeOK
<1>4. QED
    BY <1>2, <1>3

-----------------------------------------------------------------------------
(* Types *)

(* The rows a run starts from are rows. *)
LEMMA TypeInit == IntentInit => IntentTypeOK
    BY IntentsAssumption DEF IntentInit, IntentTypeOK, Idle, Settlers, Row, Tables

(* Every step of a route, settler, sweep or fault keeps the types. *)
LEMMA TypeStep ==
    ASSUME IntentTypeOK, WorkIsRecorded, SettlersKnow, [IntentNext]_intentVars
    PROVE  IntentTypeOK'
<1>1. ASSUME NEW tx \in Tx, NEW kind \in Kinds, Admit(tx, kind)
      PROVE  IntentTypeOK'
    BY <1>1, IntentsAssumption DEF Admit, IntentTypeOK
<1>2. ASSUME NEW tx \in Tx, RecordIntent(tx)
      PROVE  IntentTypeOK'
    <2>1. requests[tx] \in IntentKind /\ TableOf(requests[tx]) \in Tables
        BY <1>2, TableOfKind DEF RecordIntent, IntentTypeOK
    <2>2. /\ intents' \in [Tx -> Intent \cup {None}]
          /\ \A u \in Tx : intents[u] # None => intents'[u] # None
        <3>1. [kind |-> requests[tx], status |-> "pending", error |-> FALSE,
               created_at |-> clock] \in Intent
            BY <2>1 DEF Intent, IntentTypeOK
        <3>2. QED
            BY <1>2, <3>1, IntentsAssumption DEF RecordIntent, IntentTypeOK
    <2>3. rows' \in [Tables -> Row]
        BY <1>2, <2>1, WritesRow DEF RecordIntent, IntentTypeOK
    <2>4. requests' \in [Tx -> IntentKind \cup {None}]
        BY <1>2 DEF RecordIntent, IntentTypeOK
    <2>5. QED
        BY <1>2, <2>2, <2>3, <2>4 DEF RecordIntent, IntentTypeOK
<1>3. ASSUME NEW tx \in Tx, NEW ok \in BOOLEAN, Land(tx, ok)
      PROVE  IntentTypeOK'
    BY <1>3 DEF Land, IntentTypeOK
<1>4. ASSUME NEW s \in Submitters, NEW tx \in Tx, Submit(s, tx)
      PROVE  IntentTypeOK'
    <2>1. s \in Settlers /\ UNCHANGED intents
        BY <1>4 DEF Submit, Settlers
    <2>2. settler' = [settler EXCEPT ![s] = [at |-> "outcome", tx |-> tx, next |-> None]]
        BY <1>4 DEF Submit
    <2>3. intents[tx] # None
        BY <1>4 DEF Submit
    <2>4. QED
        BY <1>4, <2>1, <2>2, <2>3, SettlerMoves DEF Submit, IntentTypeOK
<1>5. ASSUME NEW s \in Settlers, Ask(s)
      PROVE  IntentTypeOK'
    <2> DEFINE tx == settler[s].tx
               at == IF Verdict(tx) = "settled" /\ intents[tx].kind \in ReadsContract
                       THEN "read" ELSE "claim"
    <2>1. /\ tx \in Tx /\ intents[tx] # None
          /\ UNCHANGED intents
        BY <1>5 DEF Ask, IntentTypeOK
    <2>2. settler' = [settler EXCEPT ![s] = [at |-> at, tx |-> tx, next |-> Verdict(tx)]]
        BY <1>5 DEF Ask
    <2>3. Verdict(tx) \in {"settled", "failed", None} /\ at \in {"read", "claim"}
        BY DEF Verdict
    <2> HIDE DEF at, tx
    <2>4. QED
        BY <1>5, <2>1, <2>2, <2>3, SettlerMoves DEF Ask, IntentTypeOK
<1>6. ASSUME NEW s \in Settlers, settler[s].at # "idle",
             NEW at \in {"outcome", "read", "claim", "undo", "expire"},
             Goes(s, at) \/ Ends(s),
             UNCHANGED <<clock, requests, intents, landed, rows, booked, sweep>>,
             faults' \in Nat
      PROVE  IntentTypeOK'
    BY <1>6, SettlerGoes DEF IntentTypeOK
<1>7. ASSUME NEW s \in Settlers, ReadContract(s) \/ Throws(s) \/ SweepSkips \/ AskMissing \/ GivesUp(s)
      PROVE  IntentTypeOK'
    <2>1. Sweeper \in Settlers /\ faults \in Nat
        BY DEF Settlers, IntentTypeOK
    <2>2. CASE ReadContract(s)
        BY <2>1, <2>2, <1>6 DEF ReadContract
    <2>3. CASE Throws(s)
        BY <2>1, <2>3, <1>6 DEF Throws
    <2>4. CASE SweepSkips
        <3>1. settler[Sweeper].at # "idle" \/ settler[Sweeper].at = "idle"
            OBVIOUS
        <3>2. CASE settler[Sweeper].at # "idle"
            BY <2>1, <2>4, <3>2, <1>6 DEF SweepSkips
        <3>3. CASE settler[Sweeper].at = "idle"
            BY <2>1, <2>4, <3>3 DEF SweepSkips, Ends, Idle, IntentTypeOK
        <3>4. QED
            BY <3>2, <3>3
    <2>5. CASE AskMissing
        BY <2>1, <2>5, <1>6 DEF AskMissing
    <2>6. CASE GivesUp(s)
        BY <2>1, <2>6, <1>6 DEF GivesUp
    <2>7. QED
        BY <1>7, <2>2, <2>3, <2>4, <2>5, <2>6
<1>8. ASSUME NEW s \in Settlers, Claim(s) \/ (s = Sweeper /\ Expire)
      PROVE  IntentTypeOK'
    <2>1. /\ settler[s].at # "idle"
          /\ Ends(s)
          /\ UNCHANGED <<clock, requests, landed, sweep, faults>>
          /\ \/ UNCHANGED <<intents, rows, booked>>
             \/ Claim(s) /\ settler[s].at = "claim" /\ Apply(settler[s].tx, settler[s].next)
             \/ Apply(settler[s].tx, "expired")
        BY <1>8 DEF Claim, Expire
    <2>2. settler[s].tx \in Tx /\ intents[settler[s].tx] # None
        BY <2>1 DEF IntentTypeOK
    <2>3. settler[s].at = "claim" => settler[s].next \in {"settled", "failed"}
        BY <2>2 DEF SettlersKnow, Verdict
    <2>4. /\ intents' \in [Tx -> Intent \cup {None}]
          /\ rows' \in [Tables -> Row]
          /\ booked' \in [Tx -> 0..2]
          /\ \A u \in Tx : intents[u] # None => intents'[u] # None
        BY <2>1, <2>2, <2>3, ApplyEffect DEF IntentTypeOK
    <2>5. QED
        BY <2>1, <2>4, SettlerGoes DEF IntentTypeOK
<1>9. ASSUME NEW s \in Settlers, recordSettleError(s)
      PROVE  IntentTypeOK'
    <2> DEFINE tx == settler[s].tx
    <2>1. tx \in Tx /\ intents[tx] \in Intent /\ intents[tx] # None
        BY <1>9 DEF recordSettleError, IntentTypeOK
    <2>2. intents' = [intents EXCEPT ![tx] =
              [intents[tx] EXCEPT !.status = "pending", !.error = TRUE]]
        BY <1>9, <2>1 DEF recordSettleError, IntentTypeOK
    <2>3. [intents[tx] EXCEPT !.status = "pending", !.error = TRUE] \in Intent
        BY <2>1 DEF Intent
    <2>4. /\ intents' \in [Tx -> Intent \cup {None}]
          /\ \A u \in Tx : intents[u] # None => intents'[u] # None
        BY <2>2, <2>3, IntentsAssumption DEF IntentTypeOK
    <2>5. Goes(s, "outcome") \/ Ends(s)
        BY <1>9 DEF recordSettleError, Resumes
    <2>6. QED
        BY <1>9, <2>4, <2>5, SettlerGoes DEF recordSettleError, IntentTypeOK
<1>10. CASE SweepStart
    BY <1>10 DEF SweepStart, Pending, IntentTypeOK
<1>11. ASSUME NEW tx \in Tx, SweepTake(tx)
       PROVE  IntentTypeOK'
    <2>1. Sweeper \in Settlers /\ UNCHANGED intents
        BY <1>11 DEF SweepTake, Settlers
    <2>2. settler' = [settler EXCEPT ![Sweeper] = [at |-> "outcome", tx |-> tx, next |-> None]]
        BY <1>11 DEF SweepTake
    <2>3. intents[tx] # None
        BY <1>11 DEF SweepTake, WorkIsRecorded
    <2>4. QED
        BY <1>11, <2>1, <2>2, <2>3, SettlerMoves DEF SweepTake, IntentTypeOK
<1>12. CASE Restart
    BY <1>12 DEF Restart, Idle, IntentTypeOK
<1>13. CASE QuoteExpires \/ KeeperLiquidates \/ KeeperEndsRepo
    <2>1. rows' \in [Tables -> Row]
        BY <1>13 DEF QuoteExpires, KeeperLiquidates, KeeperEndsRepo, IntentTypeOK, Row, Tables
    <2>2. QED
        BY <1>13, <2>1 DEF QuoteExpires, KeeperLiquidates, KeeperEndsRepo, IntentTypeOK
<1>14. CASE Tick
    BY <1>14 DEF Tick, IntentTypeOK
<1>15. CASE UNCHANGED intentVars
    BY <1>15 DEF intentVars, IntentTypeOK
<1>16. Sweeper \in Settlers /\ Submitters \subseteq Settlers
    BY DEF Settlers
<1>17. QED
    BY <1>1, <1>2, <1>3, <1>4, <1>5, <1>7, <1>8, <1>9, <1>10, <1>11, <1>12, <1>13,
       <1>14, <1>15, <1>16
    DEF IntentNext, SweeperStep, SettleStep

-----------------------------------------------------------------------------
(* Steps *)

(* The steps that move the clock, an intent, the network or a booking. *)
LEMMA StepCases ==
    ASSUME [IntentNext]_intentVars
    PROVE  \/ \E tx \in Tx : RecordIntent(tx)
           \/ \E tx \in Tx, ok \in BOOLEAN : Land(tx, ok)
           \/ \E s \in Settlers : Claim(s)
           \/ Expire
           \/ \E s \in Settlers : recordSettleError(s)
           \/ Tick
           \/ UNCHANGED <<clock, intents, landed, booked>>
<1>1. Sweeper \in Settlers /\ Submitters \subseteq Settlers
    BY DEF Settlers
<1>2. ASSUME NEW tx \in Tx, NEW kind \in Kinds, Admit(tx, kind)
      PROVE  UNCHANGED <<clock, intents, landed, booked>>
    BY <1>2 DEF Admit
<1>3. ASSUME NEW s \in Settlers, NEW tx \in Tx,
             Submit(s, tx) \/ SweepTake(tx) \/ Ask(s) \/ ReadContract(s) \/ Throws(s) \/ GivesUp(s)
      PROVE  UNCHANGED <<clock, intents, landed, booked>>
    BY <1>3 DEF Submit, SweepTake, Ask, ReadContract, Throws, GivesUp
<1>4. ASSUME \/ SweepStart \/ AskMissing \/ SweepSkips \/ Restart
             \/ QuoteExpires \/ KeeperLiquidates \/ KeeperEndsRepo
      PROVE  UNCHANGED <<clock, intents, landed, booked>>
    BY <1>4 DEF SweepStart, AskMissing, SweepSkips, Restart, QuoteExpires,
                KeeperLiquidates, KeeperEndsRepo
<1>5. ASSUME NEW s \in Settlers, Ask(s) \/ ReadContract(s) \/ Throws(s) \/ GivesUp(s)
      PROVE  UNCHANGED <<clock, intents, landed, booked>>
    BY <1>5 DEF Ask, ReadContract, Throws, GivesUp
<1>6. UNCHANGED intentVars => UNCHANGED <<clock, intents, landed, booked>>
    BY DEF intentVars
<1>7. QED
    BY <1>1, <1>2, <1>3, <1>4, <1>5, <1>6 DEF IntentNext, SweeperStep, SettleStep

(* A claim or a write-off changes nothing, or applies a verdict that is    *)
(* true: what the settler carried across its awaits still holds.           *)
LEMMA EndIsTrue ==
    ASSUME IntentTypeOK, SettlersKnow, NEW s \in Settlers,
           Claim(s) \/ (s = Sweeper /\ Expire)
    PROVE  /\ UNCHANGED <<clock, landed>>
           /\ \/ UNCHANGED <<intents, booked, rows>>
              \/ \E tx \in Tx, next \in {"settled", "failed", "expired"} :
                    /\ intents[tx] # None
                    /\ intents[tx].status = "pending"
                    /\ Apply(tx, next)
                    /\ next # "expired" => landed[tx] # None /\ next = Verdict(tx)
                    /\ next = "expired" => Gone(tx)
<1> DEFINE tx == settler[s].tx
<1>1. CASE Claim(s)
    <2>1. tx \in Tx /\ intents[tx] # None
        BY <1>1 DEF Claim, IntentTypeOK
    <2>2. landed[tx] # None /\ settler[s].next = Verdict(tx)
        BY <1>1, <2>1 DEF Claim, SettlersKnow
    <2>3. settler[s].next \in {"settled", "failed"}
        BY <2>2 DEF Verdict
    <2>4. QED
        BY <1>1, <2>1, <2>2, <2>3 DEF Claim
<1>2. CASE s = Sweeper /\ Expire
    <2>1. tx \in Tx /\ intents[tx] # None
        BY <1>2 DEF Expire, IntentTypeOK
    <2>2. Gone(tx)
        BY <1>2, <2>1 DEF Expire, SettlersKnow
    <2>3. QED
        BY <1>2, <2>1, <2>2 DEF Expire
<1>3. QED
    BY <1>1, <1>2

(* recordSettleError touches the status and the error of one intent. *)
LEMMA HandBack ==
    ASSUME IntentTypeOK, NEW s \in Settlers, recordSettleError(s)
    PROVE  \E tx \in Tx :
               /\ intents[tx] # None
               /\ intents'[tx] # None
               /\ intents'[tx].status = "pending"
               /\ intents'[tx].error = TRUE
               /\ intents'[tx].kind = intents[tx].kind
               /\ intents'[tx].created_at = intents[tx].created_at
               /\ \A u \in Tx \ {tx} : intents'[u] = intents[u]
<1> DEFINE tx == settler[s].tx
           new == [intents[tx] EXCEPT !.status = "pending", !.error = TRUE]
<1>1. tx \in Tx /\ intents[tx] \in Intent /\ intents[tx] # None
    BY DEF recordSettleError, IntentTypeOK
<1>2. intents' = [intents EXCEPT ![tx] = new]
    BY <1>1 DEF recordSettleError, IntentTypeOK
<1>3. /\ new \in Intent
      /\ new.status = "pending"
      /\ new.error = TRUE
      /\ new.kind = intents[tx].kind
      /\ new.created_at = intents[tx].created_at
    BY <1>1 DEF Intent
<1>4. intents'[tx] = new /\ \A u \in Tx \ {tx} : intents'[u] = intents[u]
    BY <1>1, <1>2 DEF IntentTypeOK
<1>5. new # None
    BY <1>3, IntentsAssumption
<1>6. QED
    BY <1>1, <1>3, <1>4, <1>5

(* Time does not run back, an intent keeps its kind, date and error, and   *)
(* an envelope closes once, in its time.                                   *)
LEMMA StepFrame ==
    ASSUME IntentTypeOK, WorkIsRecorded, SettlersKnow, [IntentNext]_intentVars
    PROVE  /\ clock' >= clock
           /\ \A tx \in Tx : intents[tx] # None =>
                  /\ intents'[tx] # None
                  /\ intents'[tx].kind = intents[tx].kind
                  /\ intents'[tx].created_at = intents[tx].created_at
                  /\ intents[tx].error => intents'[tx].error
           /\ \A tx \in Tx : landed[tx] # None => landed'[tx] = landed[tx]
           /\ \A tx \in Tx : landed[tx] = None /\ landed'[tx] # None =>
                  /\ intents[tx] # None
                  /\ clock <= intents[tx].created_at + TIMEOUT
                  /\ landed'[tx].at = clock
<1>1. ASSUME NEW u \in Tx, RecordIntent(u)
      PROVE  /\ UNCHANGED <<clock, landed>>
             /\ \A tx \in Tx : intents[tx] # None => intents'[tx] = intents[tx]
    BY <1>1 DEF RecordIntent, IntentTypeOK, WorkIsRecorded
<1>2. ASSUME NEW u \in Tx, NEW ok \in BOOLEAN, Land(u, ok)
      PROVE  /\ UNCHANGED <<clock, intents>>
             /\ \A tx \in Tx : landed[tx] # None => landed'[tx] = landed[tx]
             /\ \A tx \in Tx : landed[tx] = None /\ landed'[tx] # None =>
                    /\ intents[tx] # None
                    /\ clock <= intents[tx].created_at + TIMEOUT
                    /\ landed'[tx].at = clock
    BY <1>2 DEF Land, IntentTypeOK
<1>3. ASSUME NEW s \in Settlers, Claim(s) \/ (s = Sweeper /\ Expire)
      PROVE  /\ UNCHANGED <<clock, landed>>
             /\ \A tx \in Tx : intents[tx] # None =>
                    /\ intents'[tx] # None
                    /\ intents'[tx].kind = intents[tx].kind
                    /\ intents'[tx].created_at = intents[tx].created_at
                    /\ intents[tx].error => intents'[tx].error
    BY <1>3, EndIsTrue, ApplyEffect
<1>4. ASSUME NEW s \in Settlers, recordSettleError(s)
      PROVE  /\ UNCHANGED <<clock, landed>>
             /\ \A tx \in Tx : intents[tx] # None =>
                    /\ intents'[tx] # None
                    /\ intents'[tx].kind = intents[tx].kind
                    /\ intents'[tx].created_at = intents[tx].created_at
                    /\ intents[tx].error => intents'[tx].error
    <2>1. UNCHANGED <<clock, landed>>
        BY <1>4 DEF recordSettleError
    <2>2. QED
        BY <1>4, <2>1, HandBack
<1>5. CASE Tick
    BY <1>5 DEF Tick, IntentTypeOK
<1>6. clock \in Nat /\ Sweeper \in Settlers
    BY DEF IntentTypeOK, Settlers
<1>7. QED
    BY <1>1, <1>2, <1>3, <1>4, <1>5, <1>6, StepCases

(* What is gone stays gone. *)
LEMMA GoneStays ==
    ASSUME IntentTypeOK, IntentTypeOK', WorkIsRecorded, SettlersKnow, [IntentNext]_intentVars,
           NEW tx \in Tx, intents[tx] # None, Gone(tx)
    PROVE  Gone(tx)'
<1>1. /\ intents[tx].created_at \in Nat /\ clock \in Nat /\ clock' \in Nat
      /\ landed[tx] # None => landed[tx].at \in Nat
      /\ TIMEOUT \in Nat /\ RETENTION \in Nat
    BY IntentsAssumption DEF IntentTypeOK, Intent
<1>2. clock' >= clock /\ intents'[tx].created_at = intents[tx].created_at
    BY StepFrame
<1>3. CASE landed[tx] = None
    <2>1. landed'[tx] = None
        BY <1>1, <1>3, StepFrame DEF Gone
    <2>2. QED
        BY <1>1, <1>2, <1>3, <2>1 DEF Gone
<1>4. CASE landed[tx] # None
    <2>1. landed'[tx] = landed[tx]
        BY <1>4, StepFrame
    <2>2. QED
        BY <1>1, <1>2, <1>4, <2>1 DEF Gone
<1>5. QED
    BY <1>3, <1>4

(* An intent is dated when it is recorded, an envelope when it closes. *)
LEMMA TimesStep ==
    ASSUME IntentTypeOK, IntentTypeOK', WorkIsRecorded, SettlersKnow, TimesInOrder,
           [IntentNext]_intentVars
    PROVE  TimesInOrder'
<1>1. sweep'.now <= clock'
    <2>1. sweep'.now = sweep.now \/ sweep'.now = clock
        <3>1. SweepStart => sweep'.now = clock
            BY DEF SweepStart
        <3>2. \A tx \in Tx : SweepTake(tx) => sweep'.now = sweep.now
            BY DEF SweepTake, IntentTypeOK
        <3>3. Restart => sweep'.now = sweep.now
            BY DEF Restart, IntentTypeOK
        <3>4. SweepStart \/ (\E tx \in Tx : SweepTake(tx)) \/ Restart \/ UNCHANGED sweep
            BY DEF IntentNext, intentVars, SweeperStep, SettleStep, Admit, RecordIntent, Land,
                   Submit, Ask, AskMissing, ReadContract, Claim, Expire, Throws,
                   recordSettleError, SweepSkips, GivesUp, QuoteExpires, KeeperLiquidates,
                   KeeperEndsRepo, Tick
        <3>5. QED
            BY <3>1, <3>2, <3>3, <3>4
    <2>2. clock' >= clock /\ clock \in Nat /\ clock' \in Nat /\ sweep.now \in Nat
        BY StepFrame DEF IntentTypeOK
    <2>3. QED
        BY <2>1, <2>2 DEF TimesInOrder
<1>2. ASSUME NEW tx \in Tx
      PROVE  /\ intents'[tx] = None => landed'[tx] = None
             /\ intents'[tx] # None => intents'[tx].created_at <= clock'
             /\ landed'[tx] # None =>
                    /\ landed'[tx].at <= clock'
                    /\ landed'[tx].at <= intents'[tx].created_at + TIMEOUT
    <2>1. clock' >= clock /\ clock \in Nat /\ clock' \in Nat /\ TIMEOUT \in Nat
        BY StepFrame, IntentsAssumption DEF IntentTypeOK
    <2>2. CASE intents[tx] # None
        <3>1. /\ intents'[tx] # None
              /\ intents'[tx].created_at = intents[tx].created_at
              /\ intents[tx].created_at \in Nat
              /\ landed[tx] # None => landed[tx].at \in Nat
            BY <2>2, StepFrame DEF IntentTypeOK, Intent
        <3>2. \/ landed'[tx] = landed[tx]
              \/ landed'[tx].at = clock /\ clock <= intents[tx].created_at + TIMEOUT
            BY StepFrame
        <3>3. QED
            BY <2>1, <2>2, <3>1, <3>2 DEF TimesInOrder
    <2>3. CASE intents[tx] = None
        <3>1. landed'[tx] = None
            BY <2>3, StepFrame DEF TimesInOrder
        <3>2. intents'[tx] # None => intents'[tx].created_at = clock
            <4>1. ASSUME NEW u \in Tx, RecordIntent(u), intents'[tx] # None
                  PROVE  intents'[tx].created_at = clock
                BY <2>3, <4>1 DEF RecordIntent, IntentTypeOK
            <4>2. ASSUME NEW s \in Settlers, Claim(s) \/ (s = Sweeper /\ Expire)
                  PROVE  intents'[tx] = None
                BY <2>3, <4>2, EndIsTrue, ApplyEffect
            <4>3. ASSUME NEW s \in Settlers, recordSettleError(s)
                  PROVE  intents'[tx] = None
                BY <2>3, <4>3, HandBack
            <4>4. ASSUME NEW u \in Tx, NEW ok \in BOOLEAN, Land(u, ok)
                  PROVE  intents'[tx] = None
                BY <2>3, <4>4 DEF Land
            <4>5. Tick => intents'[tx] = None
                BY <2>3 DEF Tick
            <4>6. Sweeper \in Settlers
                BY DEF Settlers
            <4>7. QED
                BY <2>3, <4>1, <4>2, <4>3, <4>4, <4>5, <4>6, StepCases
        <3>3. QED
            BY <2>1, <3>1, <3>2
    <2>4. QED
        BY <2>2, <2>3
<1>3. QED
    BY <1>1, <1>2 DEF TimesInOrder

(* How a settler's position moves in one step. *)
LEMMA SettlerCases ==
    ASSUME IntentTypeOK, [IntentNext]_intentVars, NEW r \in Settlers
    PROVE  \/ settler'[r] = settler[r]
           \/ settler'[r].at \in {"idle", "outcome"}
           \/ Ask(r)
           \/ /\ settler[r].at \in {"read", "claim"}
              /\ settler'[r].tx = settler[r].tx
              /\ settler'[r].next = settler[r].next
              /\ settler'[r].at \in {"claim", "undo"}
           \/ r = Sweeper /\ AskMissing
<1> DEFINE Fits == \/ settler'[r] = settler[r]
                   \/ settler'[r].at \in {"idle", "outcome"}
                   \/ Ask(r)
                   \/ /\ settler[r].at \in {"read", "claim"}
                      /\ settler'[r].tx = settler[r].tx
                      /\ settler'[r].next = settler[r].next
                      /\ settler'[r].at \in {"claim", "undo"}
                   \/ r = Sweeper /\ AskMissing
<1>1. ASSUME NEW tx \in Tx, NEW s \in Settlers, Submit(s, tx) \/ SweepTake(tx)
      PROVE  Fits
    BY <1>1 DEF Submit, SweepTake, IntentTypeOK
<1>2. ASSUME NEW s \in Settlers, Ask(s)
      PROVE  Fits
    <2>1. s # r => settler'[r] = settler[r]
        BY <1>2 DEF Ask, IntentTypeOK
    <2>2. QED
        BY <1>2, <2>1
<1>3. ASSUME NEW s \in Settlers, ReadContract(s) \/ Throws(s)
      PROVE  Fits
    BY <1>3 DEF ReadContract, Throws, Goes, IntentTypeOK
<1>4. ASSUME NEW s \in Settlers, Ends(s) \/ Goes(s, "outcome")
      PROVE  Fits
    BY <1>4 DEF Ends, Goes, Idle, IntentTypeOK
<1>5. ASSUME NEW s \in Settlers, Claim(s) \/ recordSettleError(s) \/ GivesUp(s)
      PROVE  Fits
    <2>1. Ends(s) \/ Goes(s, "outcome")
        BY <1>5 DEF Claim, recordSettleError, GivesUp, Resumes
    <2> HIDE DEF Fits
    <2>2. QED
        BY <2>1, <1>4
<1>6. Sweeper \in Settlers /\ Submitters \subseteq Settlers
    BY DEF Settlers
<1>7. ASSUME Expire \/ SweepSkips
      PROVE  Fits
    <2>1. Ends(Sweeper)
        BY <1>7 DEF Expire, SweepSkips
    <2> HIDE DEF Fits
    <2>2. QED
        BY <2>1, <1>4, <1>6
<1>8. ASSUME AskMissing
      PROVE  Fits
    <2>1. r # Sweeper => settler'[r] = settler[r]
        BY <1>8 DEF AskMissing, Goes, Ends, IntentTypeOK
    <2>2. QED
        BY <1>8, <2>1
<1>9. ASSUME Restart
      PROVE  Fits
    BY <1>9 DEF Restart, Idle
<1>10. ASSUME \/ SweepStart \/ QuoteExpires \/ KeeperLiquidates \/ KeeperEndsRepo \/ Tick
              \/ UNCHANGED intentVars
       PROVE  Fits
    BY <1>10 DEF SweepStart, QuoteExpires, KeeperLiquidates, KeeperEndsRepo, Tick, intentVars
<1>11. ASSUME NEW tx \in Tx, NEW kind \in Kinds, NEW ok \in BOOLEAN,
              Admit(tx, kind) \/ RecordIntent(tx) \/ Land(tx, ok)
       PROVE  Fits
    BY <1>11 DEF Admit, RecordIntent, Land
<1>12. ASSUME NEW tx \in Tx, NEW ok \in BOOLEAN, RecordIntent(tx) \/ Land(tx, ok)
       PROVE  Fits
    BY <1>12 DEF RecordIntent, Land
<1> HIDE DEF Fits
<1>13. Fits
    BY <1>1, <1>2, <1>3, <1>5, <1>6, <1>7, <1>8, <1>9, <1>10, <1>11, <1>12
    DEF IntentNext, SweeperStep, SettleStep
<1>14. QED
    BY <1>13 DEF Fits

(* The write-off is safe: past the expiry, with an answer NOT_FOUND, the   *)
(* envelope cannot have closed unseen, because LAG <= MARGIN.              *)
LEMMA MissingIsGone ==
    ASSUME IntentTypeOK, TimesInOrder, AskMissing, settler'[Sweeper].at = "expire"
    PROVE  /\ Gone(settler[Sweeper].tx)
           /\ settler'[Sweeper].tx = settler[Sweeper].tx
           /\ UNCHANGED <<clock, intents, landed>>
<1> DEFINE tx == settler[Sweeper].tx
<1>1. Sweeper \in Settlers /\ tx \in Tx /\ intents[tx] # None
    BY DEF AskMissing, IntentTypeOK, Settlers
<1>2. ~Ends(Sweeper)
    BY <1>1 DEF Ends, Idle, IntentTypeOK
<1>3. sweep.now - intents[tx].created_at > TIMEOUT + MARGIN /\ Goes(Sweeper, "expire")
    BY <1>2 DEF AskMissing
<1>4. settler'[Sweeper].tx = tx
    BY <1>1, <1>3 DEF Goes, IntentTypeOK
<1>5. /\ intents[tx].created_at \in Nat /\ clock \in Nat /\ sweep.now \in Nat
      /\ landed[tx] # None => landed[tx].at \in Nat
    BY <1>1 DEF IntentTypeOK, Intent
<1>6. /\ TIMEOUT \in Nat /\ MARGIN \in Nat /\ LAG \in Nat /\ RETENTION \in Nat
      /\ LAG <= MARGIN
    BY IntentsAssumption
<1>7. clock > intents[tx].created_at + TIMEOUT + MARGIN
    BY <1>3, <1>5, <1>6 DEF TimesInOrder
<1>8. Gone(tx)
    <2>1. CASE landed[tx] = None
        BY <1>5, <1>6, <1>7, <2>1 DEF Gone
    <2>2. CASE landed[tx] # None
        <3>1. clock - landed[tx].at > LAG
            BY <1>1, <1>5, <1>6, <1>7, <2>2 DEF TimesInOrder
        <3>2. clock - landed[tx].at \notin (LAG + 1)..RETENTION
            BY <2>2 DEF AskMissing, NotFound
        <3>3. clock - landed[tx].at > RETENTION
            BY <1>5, <1>6, <2>2, <3>1, <3>2
        <3>4. QED
            BY <2>2, <3>3 DEF Gone
    <2>3. QED
        BY <2>1, <2>2
<1>9. UNCHANGED <<clock, intents, landed>>
    BY DEF AskMissing
<1>10. QED
    BY <1>4, <1>8, <1>9

(* What a settler learnt stays true while others act. *)
LEMMA SettlersStep ==
    ASSUME IntentTypeOK, IntentTypeOK', WorkIsRecorded, TimesInOrder, SettlersKnow,
           [IntentNext]_intentVars
    PROVE  SettlersKnow'
<1>1. SUFFICES ASSUME NEW r \in Settlers, NEW tx \in Tx, settler'[r].tx = tx
               PROVE  /\ settler'[r].at \in {"read", "claim", "undo"} =>
                             landed'[tx] # None /\ settler'[r].next = Verdict(tx)'
                      /\ settler'[r].at = "expire" => Gone(tx)'
    BY DEF SettlersKnow
<1>2. landed[tx] # None => landed'[tx] # None /\ Verdict(tx)' = Verdict(tx)
    BY StepFrame DEF Verdict
<1>3. settler[r].at # "idle" => settler[r].tx \in Tx /\ intents[settler[r].tx] # None
    BY DEF IntentTypeOK
<1>4. CASE settler'[r] = settler[r]
    <2>1. settler[r].at \in {"read", "claim", "undo"} =>
              landed'[tx] # None /\ settler[r].next = Verdict(tx)'
        BY <1>1, <1>2, <1>4 DEF SettlersKnow
    <2>2. settler[r].at = "expire" => intents[tx] # None /\ Gone(tx)
        BY <1>1, <1>3, <1>4 DEF SettlersKnow
    <2>3. settler[r].at = "expire" => Gone(tx)'
        BY <2>2, GoneStays
    <2>4. QED
        BY <1>4, <2>1, <2>3
<1>5. CASE settler'[r].at \in {"idle", "outcome"}
    BY <1>5
<1>6. CASE Ask(r)
    <2>1. /\ settler'[r].tx = settler[r].tx
          /\ settler'[r].next = Verdict(settler[r].tx)
          /\ settler'[r].at \in {"read", "claim"}
        BY <1>6 DEF Ask, IntentTypeOK
    <2>2. landed[tx] # None /\ settler'[r].next = Verdict(tx)
        BY <1>1, <1>6, <2>1 DEF Ask, Found
    <2>3. QED
        BY <1>2, <2>1, <2>2
<1>7. CASE /\ settler[r].at \in {"read", "claim"}
           /\ settler'[r].tx = settler[r].tx
           /\ settler'[r].next = settler[r].next
           /\ settler'[r].at \in {"claim", "undo"}
    BY <1>1, <1>2, <1>7 DEF SettlersKnow
<1>8. CASE r = Sweeper /\ AskMissing
    <2>1. settler'[r].at \in {"idle", "expire"}
        BY <1>8 DEF AskMissing, Ends, Goes, Idle, IntentTypeOK
    <2>2. settler'[r].at = "expire" => intents[tx] # None /\ Gone(tx)
        BY <1>1, <1>3, <1>8, MissingIsGone DEF AskMissing
    <2>3. settler'[r].at = "expire" => Gone(tx)'
        BY <2>2, GoneStays
    <2>4. QED
        BY <2>1, <2>3
<1>9. QED
    BY <1>4, <1>5, <1>6, <1>7, <1>8, SettlerCases

(* Intents are not deleted, and a route records its intent once. *)
LEMMA WorkStep ==
    ASSUME IntentTypeOK, WorkIsRecorded, SettlersKnow, [IntentNext]_intentVars
    PROVE  WorkIsRecorded'
<1>1. \A tx \in Tx : intents[tx] # None => intents'[tx] # None
    BY StepFrame
<1>2. \A tx \in sweep'.pending : intents'[tx] # None
    <2>1. CASE SweepStart
        BY <2>1 DEF SweepStart, Pending
    <2>2. CASE sweep'.pending \subseteq sweep.pending
        BY <1>1, <2>2 DEF WorkIsRecorded, IntentTypeOK
    <2>3. SweepStart \/ sweep'.pending \subseteq sweep.pending
        BY DEF IntentNext, intentVars, SweeperStep, SettleStep, Admit, RecordIntent, Land,
               Submit, Ask, AskMissing, ReadContract, Claim, Expire, Throws,
               recordSettleError, SweepSkips, GivesUp, QuoteExpires, KeeperLiquidates,
               KeeperEndsRepo, Tick, SweepTake, Restart, IntentTypeOK
    <2>4. QED
        BY <2>1, <2>2, <2>3
<1>3. \A tx \in Tx : requests'[tx] # None => intents'[tx] = None
    <2>1. ASSUME NEW tx \in Tx, NEW kind \in Kinds, Admit(tx, kind)
          PROVE  \A u \in Tx : requests'[u] # None => intents'[u] = None
        BY <2>1 DEF Admit, WorkIsRecorded, IntentTypeOK
    <2>2. ASSUME NEW tx \in Tx, RecordIntent(tx)
          PROVE  \A u \in Tx : requests'[u] # None => intents'[u] = None
        BY <2>2 DEF RecordIntent, WorkIsRecorded, IntentTypeOK
    <2>3. CASE Restart
        BY <2>3 DEF Restart
    <2>4. ASSUME NEW s \in Settlers, Claim(s) \/ (s = Sweeper /\ Expire)
          PROVE  \A u \in Tx : intents[u] = None => intents'[u] = None
        BY <2>4, EndIsTrue, ApplyEffect
    <2>5. ASSUME NEW s \in Settlers, recordSettleError(s)
          PROVE  \A u \in Tx : intents[u] = None => intents'[u] = None
        BY <2>5, HandBack
    <2>6. ASSUME NEW tx \in Tx, NEW ok \in BOOLEAN, Land(tx, ok)
          PROVE  UNCHANGED intents
        BY <2>6 DEF Land
    <2>7. Tick => UNCHANGED intents
        BY DEF Tick
    <2>8. \/ \E tx \in Tx, kind \in Kinds : Admit(tx, kind)
          \/ \E tx \in Tx : RecordIntent(tx)
          \/ Restart
          \/ UNCHANGED requests
        BY DEF IntentNext, intentVars, SweeperStep, SettleStep, Land,
               Submit, Ask, AskMissing, ReadContract, Claim, Expire, Throws,
               recordSettleError, SweepSkips, GivesUp, QuoteExpires, KeeperLiquidates,
               KeeperEndsRepo, Tick, SweepTake, SweepStart
    <2>9. Sweeper \in Settlers
        BY DEF Settlers
    <2>10. \/ \E tx \in Tx : RecordIntent(tx)
           \/ \A u \in Tx : intents[u] = None => intents'[u] = None
        BY <2>4, <2>5, <2>6, <2>7, <2>9, StepCases
    <2>11. QED
        BY <2>1, <2>2, <2>3, <2>8, <2>10 DEF WorkIsRecorded
<1>4. QED
    BY <1>2, <1>3 DEF WorkIsRecorded

-----------------------------------------------------------------------------
(* The safety properties *)

(* Each way an intent ends agrees with the network, now and later. *)
LEMMA FinalStep ==
    ASSUME IntentTypeOK, IntentTypeOK', WorkIsRecorded, SettlersKnow, TimesInOrder,
           FinalStatusIsTrue, [IntentNext]_intentVars
    PROVE  FinalStatusIsTrue'
<1>1. SUFFICES ASSUME NEW tx \in Tx, intents'[tx] # None
               PROVE  /\ intents'[tx].status = "settled" => landed'[tx] # None /\ landed'[tx].ok
                      /\ intents'[tx].status = "failed" => landed'[tx] # None /\ ~landed'[tx].ok
                      /\ intents'[tx].status = "expired" => Gone(tx)'
    BY DEF FinalStatusIsTrue
<1>2. CASE intents[tx] # None /\ intents'[tx].status = intents[tx].status
    <2>1. landed[tx] # None => landed'[tx] = landed[tx]
        BY StepFrame
    <2>2. Gone(tx) => Gone(tx)'
        BY <1>2, GoneStays
    <2>3. QED
        BY <1>2, <2>1, <2>2 DEF FinalStatusIsTrue
<1>3. CASE intents'[tx].status = "pending"
    BY <1>3
<1>4. ASSUME NEW s \in Settlers, Claim(s) \/ (s = Sweeper /\ Expire)
      PROVE  \/ intents'[tx] = intents[tx]
             \/ /\ intents[tx] # None
                /\ UNCHANGED landed
                /\ intents'[tx].status # "expired" =>
                       landed[tx] # None /\ intents'[tx].status = Verdict(tx)
                /\ intents'[tx].status = "expired" => Gone(tx)
    BY <1>4, EndIsTrue, ApplyEffect
<1>5. ASSUME intents[tx] # None, UNCHANGED landed,
             intents'[tx].status # "expired" =>
                 landed[tx] # None /\ intents'[tx].status = Verdict(tx),
             intents'[tx].status = "expired" => Gone(tx)
      PROVE  /\ intents'[tx].status = "settled" => landed'[tx] # None /\ landed'[tx].ok
             /\ intents'[tx].status = "failed" => landed'[tx] # None /\ ~landed'[tx].ok
             /\ intents'[tx].status = "expired" => Gone(tx)'
    <2>1. intents'[tx].status = "expired" => Gone(tx)'
        BY <1>5, GoneStays
    <2>2. QED
        BY <1>5, <2>1 DEF Verdict
<1>6. ASSUME NEW s \in Settlers, recordSettleError(s)
      PROVE  intents'[tx] = intents[tx] \/ intents'[tx].status = "pending"
    BY <1>6, HandBack
<1>7. ASSUME NEW u \in Tx, RecordIntent(u)
      PROVE  intents'[tx] = intents[tx] \/ intents'[tx].status = "pending"
    BY <1>7 DEF RecordIntent, IntentTypeOK
<1>8. ASSUME NEW u \in Tx, NEW ok \in BOOLEAN, Land(u, ok)
      PROVE  UNCHANGED intents
    BY <1>8 DEF Land
<1>9. Tick => UNCHANGED intents
    BY DEF Tick
<1>10. Sweeper \in Settlers
    BY DEF Settlers
<1>11. QED
    BY <1>1, <1>2, <1>3, <1>4, <1>5, <1>6, <1>7, <1>8, <1>9, <1>10, StepCases

(* The conditional flip lets one settler book, the others nothing. *)
LEMMA OnceStep ==
    ASSUME IntentTypeOK, IntentTypeOK', WorkIsRecorded, SettlersKnow,
           AppliedOnceUnlessFlagged, [IntentNext]_intentVars
    PROVE  AppliedOnceUnlessFlagged'
<1>1. SUFFICES ASSUME NEW tx \in Tx
               PROVE  IF intents'[tx] = None THEN booked'[tx] = 0
                      ELSE ~intents'[tx].error =>
                               booked'[tx] = IF intents'[tx].status = "settled" THEN 1 ELSE 0
    BY DEF AppliedOnceUnlessFlagged
<1>2. CASE intents'[tx] = intents[tx] /\ booked'[tx] = booked[tx]
    BY <1>2 DEF AppliedOnceUnlessFlagged
<1>3. ASSUME NEW u \in Tx, RecordIntent(u), u = tx
      PROVE  /\ booked'[tx] = 0 /\ intents'[tx] # None /\ intents'[tx].status = "pending"
    <2>1. intents[tx] = None
        BY <1>3 DEF RecordIntent, WorkIsRecorded
    <2>2. intents'[tx] \in Intent /\ intents'[tx].status = "pending" /\ booked'[tx] = booked[tx]
        BY <1>3, IntentsAssumption DEF RecordIntent, IntentTypeOK, Intent
    <2>3. QED
        BY <2>1, <2>2, IntentsAssumption DEF AppliedOnceUnlessFlagged
<1>4. ASSUME NEW u \in Tx, RecordIntent(u), u # tx
      PROVE  intents'[tx] = intents[tx] /\ booked'[tx] = booked[tx]
    BY <1>4 DEF RecordIntent, IntentTypeOK
<1>5. ASSUME NEW s \in Settlers, Claim(s) \/ (s = Sweeper /\ Expire)
      PROVE  \/ intents'[tx] = intents[tx] /\ booked'[tx] = booked[tx]
             \/ /\ intents[tx] # None /\ intents[tx].status = "pending"
                /\ intents'[tx] # None /\ intents'[tx].error = intents[tx].error
                /\ booked'[tx] = IF intents'[tx].status # "settled" THEN booked[tx]
                                 ELSE IF booked[tx] = 0 THEN 1 ELSE 2
    BY <1>5, EndIsTrue, ApplyEffect
<1>6. ASSUME NEW s \in Settlers, recordSettleError(s)
      PROVE  \/ intents'[tx] = intents[tx] /\ booked'[tx] = booked[tx]
             \/ intents'[tx] # None /\ intents'[tx].error
    <2>1. UNCHANGED booked
        BY <1>6 DEF recordSettleError
    <2>2. QED
        BY <1>6, <2>1, HandBack
<1>7. ASSUME NEW u \in Tx, NEW ok \in BOOLEAN, Land(u, ok)
      PROVE  UNCHANGED <<intents, booked>>
    BY <1>7 DEF Land
<1>8. Tick => UNCHANGED <<intents, booked>>
    BY DEF Tick
<1>9. Sweeper \in Settlers
    BY DEF Settlers
<1>10. CASE /\ intents[tx] # None /\ intents[tx].status = "pending"
            /\ intents'[tx] # None /\ intents'[tx].error = intents[tx].error
            /\ booked'[tx] = IF intents'[tx].status # "settled" THEN booked[tx]
                             ELSE IF booked[tx] = 0 THEN 1 ELSE 2
    BY <1>10 DEF AppliedOnceUnlessFlagged
<1>11. QED
    BY <1>2, <1>3, <1>4, <1>5, <1>6, <1>7, <1>8, <1>9, <1>10, StepCases

(* A row's wait outlives a step only with a pending intent to end it. *)
LEMMA PendingStep ==
    ASSUME IntentTypeOK, IntentTypeOK', WorkIsRecorded, SettlersKnow, PendingRowHasIntent,
           [IntentNext]_intentVars
    PROVE  PendingRowHasIntent'
<1> DEFINE Ending(t, tx) == /\ intents[tx] # None
                            /\ intents[tx].status = "pending"
                            /\ intents[tx].kind \in OptimisticKinds
                            /\ TableOf(intents[tx].kind) = t
<1>1. SUFFICES ASSUME NEW t \in Tables, rows'[t].status \in Awaiting
               PROVE  \E tx \in Tx : Ending(t, tx)'
    BY DEF PendingRowHasIntent
<1>2. rows[t].status \in Awaiting => \E tx \in Tx : Ending(t, tx)
    BY DEF PendingRowHasIntent
<1>3. ASSUME NEW tx \in Tx, RecordIntent(tx)
      PROVE  \E u \in Tx : Ending(t, u)'
    <2> DEFINE kind == requests[tx]
    <2>1. kind \in IntentKind /\ intents[tx] = None /\ TableOf(kind) \in Tables
        BY <1>3, TableOfKind DEF RecordIntent, WorkIsRecorded, IntentTypeOK
    <2>2. \A u \in Tx \ {tx} : intents'[u] = intents[u]
        BY <1>3 DEF RecordIntent, IntentTypeOK
    <2>3. /\ intents'[tx] # None
          /\ intents'[tx].status = "pending"
          /\ intents'[tx].kind = kind
        <3>1. intents'[tx] = [kind |-> kind, status |-> "pending", error |-> FALSE,
                              created_at |-> clock]
            BY <1>3 DEF RecordIntent, IntentTypeOK
        <3>2. intents'[tx] \in Intent
            BY <2>1, <3>1 DEF Intent, IntentTypeOK
        <3>3. intents'[tx] # None
            BY <3>2, IntentsAssumption
        <3>4. intents'[tx].status = "pending" /\ intents'[tx].kind = kind
            BY <3>1
        <3>5. QED
            BY <3>3, <3>4
    <2>4. CASE kind \in OptimisticKinds /\ TableOf(kind) = t
        BY <2>3, <2>4
    <2>5. CASE kind \notin OptimisticKinds \/ TableOf(kind) # t
        <3>1. rows'[t].status = rows[t].status
            <4>1. TableOf(kind) # t => rows'[t] = rows[t]
                BY <1>3 DEF RecordIntent, IntentTypeOK
            <4>2. TableOf(kind) = t => rows'[t] = RouteWrites(kind, rows[t])
                BY <1>3 DEF RecordIntent, IntentTypeOK
            <4>3. rows[t] \in Row
                BY DEF IntentTypeOK
            <4>4. QED
                BY <1>1, <2>1, <2>5, <4>1, <4>2, <4>3, EndsWait
        <3>2. PICK u \in Tx : Ending(t, u)
            BY <1>1, <1>2, <3>1
        <3>3. u # tx
            BY <2>1, <3>2
        <3>4. QED
            BY <2>2, <3>2, <3>3
    <2>6. QED
        BY <2>4, <2>5
<1>4. ASSUME NEW tx \in Tx, NEW next \in {"settled", "failed", "expired"},
             intents[tx] # None, Apply(tx, next)
      PROVE  \E u \in Tx : Ending(t, u)'
    <2> DEFINE kind == intents[tx].kind
    <2>1. kind \in IntentKind /\ TableOf(kind) \in Tables
        BY <1>4, TableOfKind DEF IntentTypeOK, Intent
    <2>2. \A u \in Tx \ {tx} : intents'[u] = intents[u]
        BY <1>4, ApplyEffect
    <2>3. /\ rows'[t].status = rows[t].status
          /\ kind \notin OptimisticKinds \/ TableOf(kind) # t
        <3>1. TableOf(kind) # t => rows'[t] = rows[t]
            BY <1>4 DEF Apply, IntentTypeOK
        <3>2. TableOf(kind) = t => \/ rows'[t] = applySuccess(kind, rows[t])
                                   \/ rows'[t] = applyFailure(kind, rows[t])
            BY <1>4 DEF Apply, IntentTypeOK
        <3>3. rows[t] \in Row
            BY DEF IntentTypeOK
        <3>4. QED
            BY <1>1, <2>1, <3>1, <3>2, <3>3, EndsWait
    <2>4. PICK u \in Tx : Ending(t, u)
        BY <1>1, <1>2, <2>3
    <2>5. u # tx
        BY <2>3, <2>4
    <2>6. QED
        BY <2>2, <2>4, <2>5
<1>5. ASSUME rows'[t].status = rows[t].status, UNCHANGED intents
      PROVE  \E u \in Tx : Ending(t, u)'
    BY <1>1, <1>2, <1>5
<1>6. ASSUME NEW s \in Settlers, Claim(s) \/ (s = Sweeper /\ Expire)
      PROVE  \E u \in Tx : Ending(t, u)'
    <2> HIDE DEF Ending
    <2>1. QED
        BY <1>4, <1>5, <1>6, EndIsTrue
<1>7. ASSUME NEW s \in Settlers, recordSettleError(s)
      PROVE  \E u \in Tx : Ending(t, u)'
    <2>1. UNCHANGED rows
        BY <1>7 DEF recordSettleError
    <2>2. PICK u \in Tx : Ending(t, u)
        BY <1>1, <1>2, <2>1
    <2>3. Ending(t, u)'
        BY <1>7, <2>2, HandBack
    <2>4. QED
        BY <2>3
<1>8. CASE QuoteExpires \/ KeeperLiquidates \/ KeeperEndsRepo
    <2>1. rows'[t].status = rows[t].status
        <3>1. /\ "liquidated" \notin Awaiting /\ "liquidating" \notin Awaiting
              /\ "expired" \notin Awaiting
              /\ "unwound" \notin Awaiting /\ "defaulted" \notin Awaiting
            BY DEF Awaiting
        <3>2. CASE QuoteExpires
            BY <1>1, <3>1, <3>2 DEF QuoteExpires, IntentTypeOK, Row
        <3>3. CASE KeeperLiquidates
            BY <1>1, <3>1, <3>3 DEF KeeperLiquidates, IntentTypeOK, Row
        <3>4. CASE KeeperEndsRepo
            BY <1>1, <3>1, <3>4 DEF KeeperEndsRepo, IntentTypeOK, Row
        <3>5. QED
            BY <1>8, <3>2, <3>3, <3>4
    <2>2. UNCHANGED intents
        BY <1>8 DEF QuoteExpires, KeeperLiquidates, KeeperEndsRepo
    <2>3. QED
        BY <1>5, <2>1, <2>2
<1>9. \/ \E tx \in Tx : RecordIntent(tx)
      \/ \E s \in Settlers : Claim(s) \/ (s = Sweeper /\ Expire)
      \/ \E s \in Settlers : recordSettleError(s)
      \/ QuoteExpires \/ KeeperLiquidates \/ KeeperEndsRepo
      \/ UNCHANGED <<rows, intents>>
    <2>1. Sweeper \in Settlers /\ Submitters \subseteq Settlers
        BY DEF Settlers
    <2>2. ASSUME NEW tx \in Tx, NEW kind \in Kinds, Admit(tx, kind)
          PROVE  UNCHANGED <<rows, intents>>
        BY <2>2 DEF Admit
    <2>3. ASSUME NEW tx \in Tx, NEW ok \in BOOLEAN, Land(tx, ok)
          PROVE  UNCHANGED <<rows, intents>>
        BY <2>3 DEF Land
    <2>4. ASSUME NEW tx \in Tx, NEW s \in Settlers, Submit(s, tx) \/ SweepTake(tx)
          PROVE  UNCHANGED <<rows, intents>>
        BY <2>4 DEF Submit, SweepTake
    <2>5. ASSUME NEW s \in Settlers, Ask(s) \/ ReadContract(s) \/ Throws(s) \/ GivesUp(s)
          PROVE  UNCHANGED <<rows, intents>>
        BY <2>5 DEF Ask, ReadContract, Throws, GivesUp
    <2>6. ASSUME SweepStart \/ AskMissing \/ SweepSkips \/ Restart \/ Tick
          PROVE  UNCHANGED <<rows, intents>>
        BY <2>6 DEF SweepStart, AskMissing, SweepSkips, Restart, Tick
    <2>7. UNCHANGED intentVars => UNCHANGED <<rows, intents>>
        BY DEF intentVars
    <2>8. QED
        BY <2>1, <2>2, <2>3, <2>4, <2>5, <2>6, <2>7 DEF IntentNext, SweeperStep, SettleStep
<1> HIDE DEF Ending
<1>10. QED
    BY <1>3, <1>5, <1>6, <1>7, <1>8, <1>9

(* Nothing is recorded at the start. *)
LEMMA InvInit == IntentInit => IntentInv
<1>1. SUFFICES ASSUME IntentInit
               PROVE  IntentInv
    OBVIOUS
<1>2. IntentTypeOK
    BY <1>1, TypeInit
<1>3. SettlersKnow
    BY <1>1 DEF IntentInit, SettlersKnow, Idle
<1>4. TimesInOrder /\ WorkIsRecorded
    BY <1>1 DEF IntentInit, TimesInOrder, WorkIsRecorded
<1>5. FinalStatusIsTrue /\ AppliedOnceUnlessFlagged
    BY <1>1 DEF IntentInit, FinalStatusIsTrue, AppliedOnceUnlessFlagged
<1>6. PendingRowHasIntent
    BY <1>1, IntentsAssumption DEF IntentInit, PendingRowHasIntent
<1>7. QED
    BY <1>2, <1>3, <1>4, <1>5, <1>6 DEF IntentInv

(* Every step keeps the inductive invariant. *)
LEMMA InvStep ==
    ASSUME IntentInv, [IntentNext]_intentVars
    PROVE  IntentInv'
<1>1. /\ IntentTypeOK /\ SettlersKnow /\ TimesInOrder /\ WorkIsRecorded
      /\ FinalStatusIsTrue /\ AppliedOnceUnlessFlagged /\ PendingRowHasIntent
    BY DEF IntentInv
<1>2. IntentTypeOK'
    BY <1>1, TypeStep
<1>3. SettlersKnow' /\ TimesInOrder' /\ WorkIsRecorded'
    BY <1>1, <1>2, SettlersStep, TimesStep, WorkStep
<1>4. FinalStatusIsTrue' /\ AppliedOnceUnlessFlagged' /\ PendingRowHasIntent'
    BY <1>1, <1>2, FinalStep, OnceStep, PendingStep
<1>5. QED
    BY <1>2, <1>3, <1>4 DEF IntentInv

(* The inductive invariant holds of routes, settlers, sweep and faults. *)
THEOREM IntentInvHolds == IntentSpec => []IntentInv
<1>1. IntentInv /\ UNCHANGED intentVars => IntentInv'
    BY InvStep
<1>2. QED
    BY <1>1, InvInit, InvStep, PTL DEF IntentSpec

(* Type correctness of the API's intents, rows and settlers. *)
THEOREM IntentTypesHold == IntentSpec => []IntentTypeOK
<1>1. IntentInv => IntentTypeOK
    BY DEF IntentInv
<1>2. QED
    BY <1>1, IntentInvHolds, PTL

(* settle and the sweep never record an outcome the network contradicts,   *)
(* for any timeout, any number of settlers and any LAG <= MARGIN.          *)
THEOREM FinalStatusTrue == IntentSpec => []FinalStatusIsTrue
<1>1. IntentInv => FinalStatusIsTrue
    BY DEF IntentInv
<1>2. QED
    BY <1>1, IntentInvHolds, PTL

(* Any number of concurrent settlers apply an intent exactly once, unless  *)
(* recordSettleError handed it back.                                       *)
THEOREM AppliedOnceHolds == IntentSpec => []AppliedOnceUnlessFlagged
<1>1. IntentInv => AppliedOnceUnlessFlagged
    BY DEF IntentInv
<1>2. QED
    BY <1>1, IntentInvHolds, PTL

(* No restart, race or write-off leaves a waiting row without an intent.   *)
THEOREM NoOrphanRow == IntentSpec => []PendingRowHasIntent
<1>1. IntentInv => PendingRowHasIntent
    BY DEF IntentInv
<1>2. QED
    BY <1>1, IntentInvHolds, PTL

(* A row takes a status only from its own table's kinds, and announces     *)
(* what the verdict applied says.                                          *)
LEMMA ApplyAnnounces ==
    ASSUME IntentTypeOK, NEW tx \in Tx, intents[tx] # None,
           NEW next \in {"settled", "failed", "expired"}, Apply(tx, next),
           NEW a \in Announces,
           rows[a[1]].status # a[2], rows'[a[1]].status = a[2]
    PROVE  \/ next = "settled" /\ intents[tx].kind = a[3]
           \/ next # "settled" /\ a[2] = "active" /\ intents[tx].kind = "pledge.release"
<1> DEFINE kind == intents[tx].kind
<1>1. kind \in IntentKind
    BY DEF IntentTypeOK, Intent
<1>2. a[1] \in Tables /\ TableOf(kind) = a[1]
    BY DEF Apply, IntentTypeOK, Announces, Tables
<1>3. rows[a[1]] \in Row
    BY <1>2 DEF IntentTypeOK
<1>4. rows'[a[1]] = IF next = "settled" THEN applySuccess(kind, rows[a[1]])
                    ELSE applyFailure(kind, rows[a[1]])
    BY <1>2 DEF Apply, IntentTypeOK
<1>5. CASE next = "settled"
    <2>1. applySuccess(kind, rows[a[1]]).status = a[2]
        BY <1>4, <1>5
    <2>2. QED
        BY <1>1, <1>2, <1>3, <1>5, <2>1
        DEF applySuccess, Announces, Row, TableOf, LineKinds, LineUseKinds, PledgeKinds,
            RepoKinds, IntentKind
<1>6. CASE next # "settled"
    <2>1. applyFailure(kind, rows[a[1]]).status = a[2]
        BY <1>4, <1>6
    <2>2. QED
        BY <1>1, <1>2, <1>3, <1>6, <2>1
        DEF applyFailure, Announces, Row, TableOf, LineKinds, LineUseKinds, PledgeKinds,
            RepoKinds, IntentKind
<1>7. QED
    BY <1>5, <1>6

(* Only the end of an intent makes a row announce something. *)
LEMMA OnlyEndsAnnounce ==
    ASSUME IntentTypeOK, WorkIsRecorded, [IntentNext]_intentVars, NEW a \in Announces,
           rows[a[1]].status # a[2], rows'[a[1]].status = a[2]
    PROVE  \E s \in Settlers : Claim(s) \/ (s = Sweeper /\ Expire)
<1>1. ASSUME NEW tx \in Tx, RecordIntent(tx)
      PROVE  FALSE
    <2> DEFINE kind == requests[tx]
    <2>1. kind \in IntentKind
        BY <1>1 DEF RecordIntent, IntentTypeOK
    <2>2. a[1] \in Tables /\ TableOf(kind) = a[1] /\ rows[a[1]] \in Row
        BY <1>1 DEF RecordIntent, IntentTypeOK, Announces, Tables
    <2>3. rows'[a[1]] = RouteWrites(kind, rows[a[1]])
        BY <1>1, <2>2 DEF RecordIntent, IntentTypeOK
    <2>4. QED
        BY <2>1, <2>2, <2>3 DEF RouteWrites, Announces, Row
<1>2. CASE QuoteExpires \/ KeeperLiquidates \/ KeeperEndsRepo
    BY <1>2 DEF QuoteExpires, KeeperLiquidates, KeeperEndsRepo, IntentTypeOK, Announces, Tables,
                Row
<1>3. rows' # rows
    OBVIOUS
<1>4. Sweeper \in Settlers /\ Submitters \subseteq Settlers
    BY DEF Settlers
<1>5. ASSUME NEW tx \in Tx, NEW kind \in Kinds, Admit(tx, kind)
      PROVE  FALSE
    BY <1>3, <1>5 DEF Admit
<1>6. ASSUME NEW tx \in Tx, NEW ok \in BOOLEAN, Land(tx, ok)
      PROVE  FALSE
    BY <1>3, <1>6 DEF Land
<1>7. ASSUME NEW tx \in Tx, NEW s \in Settlers, Submit(s, tx) \/ SweepTake(tx)
      PROVE  FALSE
    BY <1>3, <1>7 DEF Submit, SweepTake
<1>8. ASSUME NEW s \in Settlers,
             Ask(s) \/ ReadContract(s) \/ Throws(s) \/ GivesUp(s) \/ recordSettleError(s)
      PROVE  FALSE
    BY <1>3, <1>8 DEF Ask, ReadContract, Throws, GivesUp, recordSettleError
<1>9. ASSUME SweepStart \/ AskMissing \/ SweepSkips \/ Restart \/ Tick \/ UNCHANGED intentVars
      PROVE  FALSE
    BY <1>3, <1>9 DEF SweepStart, AskMissing, SweepSkips, Restart, Tick, intentVars
<1>10. QED
    BY <1>1, <1>2, <1>4, <1>5, <1>6, <1>7, <1>8, <1>9 DEF IntentNext, SweeperStep, SettleStep

(* Whatever the routes, settlers, sweep and restarts do, a row announces   *)
(* only what the network did.                                              *)
THEOREM BooksFollow == IntentSpec => BooksFollowNetwork
<1>1. ASSUME IntentInv, [IntentNext]_intentVars
      PROVE  \A a \in Announces :
                 rows[a[1]].status # a[2] /\ rows'[a[1]].status = a[2] =>
                     \/ LandedOk(a[3])
                     \/ a[2] = "active" /\ ReleaseFails
    <2>1. SUFFICES ASSUME NEW a \in Announces,
                          rows[a[1]].status # a[2], rows'[a[1]].status = a[2]
                   PROVE  LandedOk(a[3]) \/ (a[2] = "active" /\ ReleaseFails)
        OBVIOUS
    <2>2. IntentTypeOK /\ WorkIsRecorded /\ SettlersKnow
        BY <1>1 DEF IntentInv
    <2>3. PICK s \in Settlers : Claim(s) \/ (s = Sweeper /\ Expire)
        BY <1>1, <2>1, <2>2, OnlyEndsAnnounce
    <2>4. rows' # rows
        BY <2>1
    <2>5. PICK tx \in Tx, next \in {"settled", "failed", "expired"} :
              /\ intents[tx] # None
              /\ intents[tx].status = "pending"
              /\ Apply(tx, next)
              /\ next # "expired" => landed[tx] # None /\ next = Verdict(tx)
        BY <2>2, <2>3, <2>4, EndIsTrue
    <2>6. intents'[tx].status = next
        BY <2>2, <2>5, ApplyEffect
    <2>7. \/ next = "settled" /\ intents[tx].kind = a[3]
          \/ next # "settled" /\ a[2] = "active" /\ intents[tx].kind = "pledge.release"
        BY <2>1, <2>2, <2>5, ApplyAnnounces
    <2>8. CASE next = "settled" /\ intents[tx].kind = a[3]
        BY <2>5, <2>8 DEF LandedOk, Verdict
    <2>9. CASE a[2] = "active" /\ intents[tx].kind = "pledge.release" /\ next # "settled"
        BY <2>5, <2>6, <2>9 DEF ReleaseFails
    <2>10. QED
        BY <2>7, <2>8, <2>9
<1>2. QED
    BY <1>1, IntentInvHolds, PTL DEF IntentSpec, BooksFollowNetwork

=============================================================================
