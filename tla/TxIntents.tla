------------------------------ MODULE TxIntents ------------------------------
(***************************************************************************)
(* services/api intents.ts and the routes that use it: from the unsigned   *)
(* transaction a route hands out to the books that follow the network.     *)
(*                                                                         *)
(* A route reads its row, builds an envelope (an await) and then records   *)
(* an intent, with the row's optimistic status in the same database        *)
(* transaction.  The customer signs and sends when they like, or never.    *)
(* Settlers - submit calls that poll, and one sweeper - ask the network,   *)
(* read the contract where needed, and claim the intent to apply it.       *)
(* One row of each table is followed; tx is the hash of an envelope.       *)
(***************************************************************************)
EXTENDS Integers

CONSTANTS
    Tx,           \* envelope hashes
    Submitters,   \* requests of /v1/tx/submit and /v1/tx/:hash/settle
    Sweeper,      \* the interval in index.ts
    None,
    Kinds,        \* the routes that are called, a subset of IntentKind
    Books,        \* the rows to start from
    TIMEOUT,      \* UNSIGNED_TX_TIMEOUT_S
    MARGIN,       \* what INTENT_EXPIRY_MS adds to it
    LAG,          \* how late the RPC may report a closed transaction
    RETENTION,    \* how long the RPC remembers one
    LastRequest,  \* bound: routes are called until then
    MaxTime,      \* bound on the clock
    MaxFaults     \* bound on throws, lost steps and restarts

VARIABLES
    clock,     \* seconds, of the API and the network alike
    requests,  \* per tx: the kind of a route call between its read and its write
    intents,   \* table tx_intent
    landed,    \* per tx: how and when it closed on the network
    rows,      \* the business row of each table
    booked,    \* per tx: how often its success was applied (2: more than once)
    settler,   \* per settler: where its call of settle is
    sweep,     \* the sweeper's selection and its `now`
    faults

intentVars == <<clock, requests, intents, landed, rows, booked, settler, sweep, faults>>

LineUseKinds == {"credit_line.fund", "credit_line.withdraw", "credit_line.draw",
                 "credit_line.repay"}

LineKinds == LineUseKinds \cup {"credit_line.open", "credit_line.close_liquidated"}

PledgeKinds == {"pledge.create", "pledge.release"}

RepoKinds == {"repo.propose", "repo.accept", "repo.unwind", "repo.top_up"}

IntentKind == LineKinds \cup PledgeKinds \cup RepoKinds \cup {"exit.execute"}

Tables == {"credit_line", "pledge", "exit_quote", "repo_trade"}

TableOf(kind) ==
    IF kind \in LineKinds THEN "credit_line"
    ELSE IF kind \in PledgeKinds THEN "pledge"
    ELSE IF kind \in RepoKinds THEN "repo_trade"
    ELSE "exit_quote"

(* on_chain: contractLineId or contractTradeId is set. *)
Row == [status : {"none", "pending_open", "open", "liquidating", "closed", "failed",
                  "pending", "active", "pending_release", "released", "liquidated",
                  "filled", "expired",
                  "proposed", "settled", "unwound", "defaulted"},
        on_chain : BOOLEAN]

(* Statuses that wait for an intent to end, and the kinds that write them. *)
Awaiting == {"pending_open", "pending", "pending_release"}

OptimisticKinds == {"credit_line.open", "pledge.create", "pledge.release"}

Settlers == Submitters \cup {Sweeper}

Intent == [kind : IntentKind, status : {"pending", "settled", "failed", "expired"},
           error : BOOLEAN, created_at : Nat]

Idle == [at |-> "idle", tx |-> None, next |-> None]

ASSUME IntentsAssumption ==
    /\ Sweeper \notin Submitters
    /\ None \notin Tx \cup IntentKind \cup Intent \cup {"settled", "failed"}
                   \cup [ok : BOOLEAN, at : Nat]
    /\ Kinds \subseteq IntentKind
    /\ Books \subseteq [Tables -> Row]
    /\ {TIMEOUT, MARGIN, LAG, RETENTION, LastRequest, MaxTime, MaxFaults} \subseteq Nat
    /\ \A book \in Books, t \in Tables : book[t].status \notin Awaiting
    /\ LAG <= MARGIN

-----------------------------------------------------------------------------
(* Routes *)

(* The statuses a route accepts, and what else it asks for.                *)
Admitted(kind) ==
    LET row == rows[TableOf(kind)]
        lineUsable == rows["credit_line"].on_chain
        asked(k) == \E tx \in Tx : requests[tx] = k
    IN  CASE kind \in {"credit_line.open", "repo.propose"} ->
                 row.status = "none" /\ ~asked(kind)
          [] kind \in LineUseKinds -> lineUsable
          [] kind = "credit_line.close_liquidated" ->
                 lineUsable /\ row.status = "liquidating"
          [] kind = "pledge.create" ->
                 lineUsable /\ row.status = "none" /\ ~asked(kind)
          [] kind = "pledge.release" -> lineUsable /\ row.status = "active"
          [] kind = "exit.execute" ->
                 /\ row.status = "open"
                 /\ ~\E tx \in Tx : /\ intents[tx] # None
                                    /\ intents[tx].kind = kind
                                    /\ intents[tx].status = "pending"
          [] kind = "repo.accept" -> row.status = "proposed"
          [] kind = "repo.unwind" -> row.status = "settled"
          [] kind = "repo.top_up" -> row.status = "settled" /\ row.on_chain

(* The row a route inserts or flips beside the intent.                     *)
RouteWrites(kind, row) ==
    CASE kind = "credit_line.open" -> [status |-> "pending_open", on_chain |-> FALSE]
      [] kind = "pledge.create" -> [status |-> "pending", on_chain |-> FALSE]
      [] kind = "pledge.release" -> [row EXCEPT !.status = "pending_release"]
      [] kind = "repo.propose" -> [status |-> "proposed", on_chain |-> FALSE]
      [] OTHER -> row

(* A route reads and checks its row, and goes on to build the envelope.    *)
Admit(tx, kind) ==
    /\ clock <= LastRequest
    /\ requests[tx] = None
    /\ intents[tx] = None
    /\ Admitted(kind)
    /\ requests' = [requests EXCEPT ![tx] = kind]
    /\ UNCHANGED <<clock, intents, landed, rows, booked, settler, sweep, faults>>

(* The route's database transaction: the row and recordIntent.             *)
RecordIntent(tx) ==
    LET kind == requests[tx]
    IN  /\ clock <= LastRequest
        /\ kind # None
        /\ requests' = [requests EXCEPT ![tx] = None]
        /\ intents' = [intents EXCEPT ![tx] =
               [kind |-> kind, status |-> "pending", error |-> FALSE, created_at |-> clock]]
        /\ rows' = [rows EXCEPT ![TableOf(kind)] = RouteWrites(kind, @)]
        /\ UNCHANGED <<clock, landed, booked, settler, sweep, faults>>

(* The signed envelope closes, through the API or not.  It was built       *)
(* before the intent was recorded and is valid for TIMEOUT.                *)
Land(tx, ok) ==
    /\ intents[tx] # None
    /\ landed[tx] = None
    /\ clock <= intents[tx].created_at + TIMEOUT
    /\ landed' = [landed EXCEPT ![tx] = [ok |-> ok, at |-> clock]]
    /\ UNCHANGED <<clock, requests, intents, rows, booked, settler, sweep, faults>>

(* A late execute finds the quote expired and writes that.                 *)
QuoteExpires ==
    /\ rows["exit_quote"].status = "open"
    /\ rows' = [rows EXCEPT !["exit_quote"].status = "expired"]
    /\ UNCHANGED <<clock, requests, intents, landed, booked, settler, sweep, faults>>

(* The keeper's own writes to these rows.                                  *)
KeeperLiquidates ==
    /\ rows["credit_line"].status = "open"
    /\ rows["credit_line"].on_chain
    /\ rows' = [rows EXCEPT !["credit_line"].status = "liquidating",
                            !["pledge"].status = IF @ = "active" THEN "liquidated" ELSE @]
    /\ UNCHANGED <<clock, requests, intents, landed, booked, settler, sweep, faults>>

KeeperEndsRepo ==
    /\ rows["repo_trade"].status = "settled"
    /\ \E s \in {"unwound", "defaulted"} : rows' = [rows EXCEPT !["repo_trade"].status = s]
    /\ UNCHANGED <<clock, requests, intents, landed, booked, settler, sweep, faults>>

-----------------------------------------------------------------------------
(* Settlers *)

ReadsContract == {"credit_line.close_liquidated", "credit_line.repay", "repo.top_up"}

Verdict(tx) == IF landed[tx].ok THEN "settled" ELSE "failed"

(* chain.outcome says how tx closed, or NOT_FOUND: not closed, closed a    *)
(* moment ago, or forgotten.                                               *)
Found(tx) == landed[tx] # None /\ clock - landed[tx].at <= RETENTION

NotFound(tx) ==
    landed[tx] # None => clock - landed[tx].at \notin (LAG + 1)..RETENTION

Goes(s, at) == settler' = [settler EXCEPT ![s].at = at]

Ends(s) == settler' = [settler EXCEPT ![s] = Idle]

(* A settle call that threw: the sweeper turns to the next intent, a       *)
(* submit call keeps polling with the intent it read.                      *)
Resumes(s) == IF s = Sweeper THEN Ends(s) ELSE Goes(s, "outcome")

(* A call to submit or settle finds its intent pending.                    *)
Submit(s, tx) ==
    /\ settler[s] = Idle
    /\ intents[tx] # None
    /\ intents[tx].status = "pending"
    /\ settler' = [settler EXCEPT ![s] = [at |-> "outcome", tx |-> tx, next |-> None]]
    /\ UNCHANGED <<clock, requests, intents, landed, rows, booked, sweep, faults>>

Pending == {tx \in Tx : intents[tx] # None /\ intents[tx].status = "pending"}

(* The sweep selects what is pending and notes the time ...                *)
SweepStart ==
    /\ settler[Sweeper] = Idle
    /\ sweep.pending = {}
    /\ sweep' = [pending |-> Pending, now |-> clock]
    /\ UNCHANGED <<clock, requests, intents, landed, rows, booked, settler, faults>>

(* ... and goes through the selection.                                     *)
SweepTake(tx) ==
    /\ settler[Sweeper] = Idle
    /\ tx \in sweep.pending
    /\ sweep' = [sweep EXCEPT !.pending = @ \ {tx}]
    /\ settler' = [settler EXCEPT ![Sweeper] = [at |-> "outcome", tx |-> tx, next |-> None]]
    /\ UNCHANGED <<clock, requests, intents, landed, rows, booked, faults>>

(* settle: the network has an answer.                                      *)
Ask(s) ==
    LET tx == settler[s].tx
        next == Verdict(tx)
    IN  /\ settler[s].at = "outcome"
        /\ Found(tx)
        /\ settler' = [settler EXCEPT ![s] =
               [at |-> IF next = "settled" /\ intents[tx].kind \in ReadsContract
                         THEN "read" ELSE "claim",
                tx |-> tx, next |-> next]]
        /\ UNCHANGED <<clock, requests, intents, landed, rows, booked, sweep, faults>>

(* Mutant: an intent is written off as soon as its envelope is invalid. *)
AskMissingNoMargin ==
    LET tx == settler[Sweeper].tx
    IN  /\ settler[Sweeper].at = "outcome"
        /\ NotFound(tx)
        /\ IF sweep.now - intents[tx].created_at > TIMEOUT
             THEN Goes(Sweeper, "expire") ELSE Ends(Sweeper)
        /\ UNCHANGED <<clock, requests, intents, landed, rows, booked, sweep, faults>>

(* Mutant: nothing is written off. *)
AskMissingWaits ==
    /\ settler[Sweeper].at = "outcome"
    /\ NotFound(settler[Sweeper].tx)
    /\ Ends(Sweeper)
    /\ UNCHANGED <<clock, requests, intents, landed, rows, booked, sweep, faults>>

(* sweepPendingIntents: NOT_FOUND writes off what is past INTENT_EXPIRY_MS *)
(* (a submit call keeps asking: no step).                                  *)
AskMissing ==
    LET tx == settler[Sweeper].tx
    IN  /\ settler[Sweeper].at = "outcome"
        /\ NotFound(tx)
        /\ IF sweep.now - intents[tx].created_at > TIMEOUT + MARGIN
             THEN Goes(Sweeper, "expire") ELSE Ends(Sweeper)
        /\ UNCHANGED <<clock, requests, intents, landed, rows, booked, sweep, faults>>

ReadContract(s) ==
    /\ settler[s].at = "read"
    /\ Goes(s, "claim")
    /\ UNCHANGED <<clock, requests, intents, landed, rows, booked, sweep, faults>>

(* What a success means for the row.                                       *)
applySuccess(kind, row) ==
    CASE kind = "credit_line.open" -> [status |-> "open", on_chain |-> TRUE]
      [] kind = "credit_line.close_liquidated" -> [row EXCEPT !.status = "closed"]
      [] kind = "pledge.create" -> [row EXCEPT !.status = "active"]
      [] kind = "pledge.release" -> [row EXCEPT !.status = "released"]
      [] kind = "exit.execute" -> [row EXCEPT !.status = "filled"]
      [] kind = "repo.propose" -> [row EXCEPT !.on_chain = TRUE]
      [] kind = "repo.accept" -> [row EXCEPT !.status = "settled"]
      [] kind = "repo.unwind" -> [row EXCEPT !.status = "unwound"]
      [] OTHER -> row

(* Mutant: a pledge that never landed is activated too. *)
FailureActivates(kind, row) ==
    CASE kind \in {"credit_line.open", "repo.propose"} -> [row EXCEPT !.status = "failed"]
      [] kind \in PledgeKinds -> [row EXCEPT !.status = "active"]
      [] OTHER -> row

(* What a failure or a write-off undoes.                                   *)
applyFailure(kind, row) ==
    CASE kind \in {"credit_line.open", "pledge.create", "repo.propose"} ->
             [row EXCEPT !.status = "failed"]
      [] kind = "pledge.release" -> [row EXCEPT !.status = "active"]
      [] OTHER -> row

Apply(tx, next) ==
    LET kind == intents[tx].kind
    IN  /\ intents' = [intents EXCEPT ![tx].status = next]
        /\ rows' = [rows EXCEPT ![TableOf(kind)] =
               IF next = "settled" THEN applySuccess(kind, @) ELSE applyFailure(kind, @)]
        /\ booked' = [booked EXCEPT ![tx] =
               IF next # "settled" THEN @ ELSE IF @ = 0 THEN 1 ELSE 2]

(* Mutant: the flip does not ask for a pending intent. *)
ClaimAlways(s) ==
    /\ settler[s].at = "claim"
    /\ Apply(settler[s].tx, settler[s].next)
    /\ Ends(s)
    /\ UNCHANGED <<clock, requests, landed, sweep, faults>>

(* The conditional flip and the effect, in one database transaction.       *)
Claim(s) ==
    LET tx == settler[s].tx
    IN  /\ settler[s].at = "claim"
        /\ IF intents[tx].status = "pending"
             THEN Apply(tx, settler[s].next)
             ELSE UNCHANGED <<intents, rows, booked>>
        /\ Ends(s)
        /\ UNCHANGED <<clock, requests, landed, sweep, faults>>

(* The write-off, likewise conditional and in one transaction.             *)
Expire ==
    LET tx == settler[Sweeper].tx
    IN  /\ settler[Sweeper].at = "expire"
        /\ IF intents[tx].status = "pending"
             THEN Apply(tx, "expired")
             ELSE UNCHANGED <<intents, rows, booked>>
        /\ Ends(Sweeper)
        /\ UNCHANGED <<clock, requests, landed, sweep, faults>>

-----------------------------------------------------------------------------
(* Faults, each counted *)

(* The contract read or the database transaction throws ...                *)
Throws(s) ==
    /\ faults < MaxFaults
    /\ settler[s].at \in {"read", "claim"}
    /\ Goes(s, "undo")
    /\ faults' = faults + 1
    /\ UNCHANGED <<clock, requests, intents, landed, rows, booked, sweep>>

(* ... and recordSettleError hands the intent back.                        *)
recordSettleError(s) ==
    /\ settler[s].at = "undo"
    /\ intents' = [intents EXCEPT ![settler[s].tx].status = "pending",
                                  ![settler[s].tx].error = TRUE]
    /\ Resumes(s)
    /\ UNCHANGED <<clock, requests, landed, rows, booked, sweep, faults>>

(* The sweeper passes over an intent: the RPC threw, the write-off rolled  *)
(* back, or recordSettleError could not write.                             *)
SweepSkips ==
    /\ faults < MaxFaults
    /\ settler[Sweeper] # Idle
    /\ Ends(Sweeper)
    /\ faults' = faults + 1
    /\ UNCHANGED <<clock, requests, intents, landed, rows, booked, sweep>>

(* The API process dies and comes back: calls in progress are gone.        *)
Restart ==
    /\ faults < MaxFaults
    /\ settler' = [s \in Settlers |-> Idle]
    /\ sweep' = [sweep EXCEPT !.pending = {}]
    /\ requests' = [tx \in Tx |-> None]
    /\ faults' = faults + 1
    /\ UNCHANGED <<clock, intents, landed, rows, booked>>

(* A submit call stops polling (POLL_ATTEMPTS, a lost connection).         *)
GivesUp(s) ==
    /\ settler[s].at = "outcome"
    /\ Ends(s)
    /\ UNCHANGED <<clock, requests, intents, landed, rows, booked, sweep, faults>>

Tick ==
    /\ clock < MaxTime
    /\ clock' = clock + 1
    /\ UNCHANGED <<requests, intents, landed, rows, booked, settler, sweep, faults>>

-----------------------------------------------------------------------------
IntentInit ==
    /\ clock = 0
    /\ requests = [tx \in Tx |-> None]
    /\ intents = [tx \in Tx |-> None]
    /\ landed = [tx \in Tx |-> None]
    /\ rows \in Books
    /\ booked = [tx \in Tx |-> 0]
    /\ settler = [s \in Settlers |-> Idle]
    /\ sweep = [pending |-> {}, now |-> 0]
    /\ faults = 0

SettleStep(s) == Ask(s) \/ ReadContract(s) \/ Claim(s) \/ recordSettleError(s)

SweeperStep ==
    \/ SweepStart
    \/ \E tx \in Tx : SweepTake(tx)
    \/ SettleStep(Sweeper)
    \/ AskMissing
    \/ Expire

IntentNext ==
    \/ \E tx \in Tx : \/ \E kind \in Kinds : Admit(tx, kind)
                      \/ RecordIntent(tx)
                      \/ \E ok \in BOOLEAN : Land(tx, ok)
    \/ \E s \in Submitters : \/ \E tx \in Tx : Submit(s, tx)
                             \/ SettleStep(s)
                             \/ GivesUp(s)
    \/ SweeperStep
    \/ \E s \in Settlers : Throws(s)
    \/ SweepSkips \/ Restart
    \/ QuoteExpires \/ KeeperLiquidates \/ KeeperEndsRepo
    \/ Tick

(* Time passes, and the interval of index.ts keeps the sweep going.        *)
IntentFairness == WF_intentVars(Tick) /\ WF_intentVars(SweeperStep)

IntentSpec == IntentInit /\ [][IntentNext]_intentVars /\ IntentFairness

-----------------------------------------------------------------------------
(* Properties *)

(* Every variable keeps its shape; a settler at work holds a recorded      *)
(* intent.                                                                 *)
IntentTypeOK ==
    /\ clock \in Nat
    /\ requests \in [Tx -> IntentKind \cup {None}]
    /\ intents \in [Tx -> Intent \cup {None}]
    /\ landed \in [Tx -> [ok : BOOLEAN, at : Nat] \cup {None}]
    /\ rows \in [Tables -> Row]
    /\ booked \in [Tx -> 0..2]
    /\ settler \in [Settlers ->
           [at : {"idle", "outcome", "read", "claim", "undo", "expire"},
            tx : Tx \cup {None}, next : {"settled", "failed", None}]]
    /\ sweep \in [pending : SUBSET Tx, now : Nat]
    /\ faults \in Nat
    /\ \A s \in Settlers : settler[s].at # "idle" =>
           settler[s].tx \in Tx /\ intents[settler[s].tx] # None

(* tx did not close and never will, or closed longer ago than the RPC      *)
(* remembers.                                                              *)
Gone(tx) ==
    IF landed[tx] = None THEN clock > intents[tx].created_at + TIMEOUT
    ELSE clock - landed[tx].at > RETENTION

(* settle and sweepPendingIntents: what the books call settled closed with *)
(* success, what they call failed was rejected, and what they wrote off as *)
(* expired can no longer land, whatever stale answers and `now` it rests   *)
(* on (a success the RPC has forgotten is the one exception).              *)
FinalStatusIsTrue ==
    \A tx \in Tx : intents[tx] # None =>
        /\ intents[tx].status = "settled" => landed[tx] # None /\ landed[tx].ok
        /\ intents[tx].status = "failed" => landed[tx] # None /\ ~landed[tx].ok
        /\ intents[tx].status = "expired" => Gone(tx)

(* settle: concurrent settlers apply a success exactly once, and only      *)
(* while the intent is settled, unless recordSettleError handed it back.   *)
AppliedOnceUnlessFlagged ==
    \A tx \in Tx :
        IF intents[tx] = None THEN booked[tx] = 0
        ELSE ~intents[tx].error =>
                 booked[tx] = IF intents[tx].status = "settled" THEN 1 ELSE 0

(* The comment on settleIntent: the effect is applied exactly once.        *)
AppliedOnce == \A tx \in Tx : booked[tx] <= 1

(* withTransaction, settle and the sweep's write-off: a row that waits has *)
(* a pending intent that will end the wait.                                *)
PendingRowHasIntent ==
    \A t \in Tables : rows[t].status \in Awaiting =>
        \E tx \in Tx : /\ intents[tx] # None
                       /\ intents[tx].status = "pending"
                       /\ intents[tx].kind \in OptimisticKinds
                       /\ TableOf(intents[tx].kind) = t

LandedOk(kind) ==
    \E tx \in Tx : /\ intents[tx] # None
                   /\ intents[tx].kind = kind
                   /\ landed[tx] # None
                   /\ landed[tx].ok

(* Row statuses that tell a customer what happened on the network.         *)
Announces ==
    {<<"credit_line", "open", "credit_line.open">>,
     <<"credit_line", "closed", "credit_line.close_liquidated">>,
     <<"pledge", "active", "pledge.create">>,
     <<"pledge", "released", "pledge.release">>,
     <<"exit_quote", "filled", "exit.execute">>,
     <<"repo_trade", "settled", "repo.accept">>}

(* applyFailure hands a pledge back when its release ends without effect.  *)
ReleaseFails ==
    \E tx \in Tx : /\ intents[tx] # None
                   /\ intents[tx].kind = "pledge.release"
                   /\ intents[tx].status = "pending"
                   /\ intents'[tx].status \in {"failed", "expired"}

(* applySuccess and applyFailure: no interleaving of routes, settlers,     *)
(* sweep and restarts makes a row announce what the network did not do.    *)
BooksFollowNetwork ==
    [][\A a \in Announces :
          rows[a[1]].status # a[2] /\ rows'[a[1]].status = a[2] =>
              \/ LandedOk(a[3])
              \/ a[2] = "active" /\ ReleaseFails
      ]_intentVars

(* The sweep: once the faults are over, every intent comes to an end for   *)
(* good, also those nobody submits.                                        *)
EveryIntentEnds ==
    \A tx \in Tx : <>[](intents[tx] = None \/ intents[tx].status # "pending")

-----------------------------------------------------------------------------
(* The inductive invariant *)

(* What a settler carries across its awaits is still true.                 *)
SettlersKnow ==
    \A s \in Settlers, tx \in Tx : settler[s].tx = tx =>
        /\ settler[s].at \in {"read", "claim", "undo"} =>
               landed[tx] # None /\ settler[s].next = Verdict(tx)
        /\ settler[s].at = "expire" => Gone(tx)

(* Envelopes close in their time, and nothing is dated in the future.      *)
TimesInOrder ==
    /\ sweep.now <= clock
    /\ \A tx \in Tx :
        /\ intents[tx] = None => landed[tx] = None
        /\ intents[tx] # None => intents[tx].created_at <= clock
        /\ landed[tx] # None =>
               landed[tx].at <= clock /\ landed[tx].at <= intents[tx].created_at + TIMEOUT

(* The sweep works on recorded intents; a route call is not recorded yet.  *)
WorkIsRecorded ==
    /\ \A tx \in sweep.pending : intents[tx] # None
    /\ \A tx \in Tx : requests[tx] # None => intents[tx] = None

(* FinalStatusIsTrue and AppliedOnceUnlessFlagged with what carries them   *)
(* over a step: what settlers hold, the order of times and recorded work.  *)
IntentInv ==
    /\ IntentTypeOK
    /\ SettlersKnow
    /\ TimesInOrder
    /\ WorkIsRecorded
    /\ FinalStatusIsTrue
    /\ AppliedOnceUnlessFlagged
    /\ PendingRowHasIntent

=============================================================================
