------------------------------ MODULE Webhooks ------------------------------
(***************************************************************************)
(* services/api webhooks: the subscription routes, and the outbox pass the *)
(* API process runs on a timer (fan out recent rows into deliveries, then  *)
(* POST what is due).  One pass at a time (`delivering`); it can die       *)
(* anywhere, and a POST may arrive although its answer does not.           *)
(*                                                                         *)
(* Time is relative, so it need not be bounded: a row has an age, a        *)
(* delivery the time until its next attempt, the pass the time since it    *)
(* read the clock.  The URL check (ssrf.ts) and the signature are reasons  *)
(* for an attempt to fail.  A row is a source row of any of the five       *)
(* tables; its kind says which events it stands for.                       *)
(***************************************************************************)
EXTENDS Services, Integers, Sequences, FiniteSetsExt, Functions

CONSTANTS
    Subs, Rows,     \* webhook_subscription ids, source rows
    RowKinds,       \* <<from, to>> for a margin event, <<event>> for the others
    Wants,          \* the events a subscription's party may see and asked for
    WINDOW,         \* FANOUT_WINDOW_MS
    MAX_ATTEMPTS,   \* 6 in the code
    BACKOFF,        \* BACKOFF_S
    BATCH_SIZE      \* 50 in the code

ASSUME WebhooksAssumption ==
    /\ WINDOW \in Nat
    /\ MAX_ATTEMPTS \in Nat \ {0}
    /\ BATCH_SIZE \in Nat \ {0}
    /\ BACKOFF \in Seq(Nat) /\ BACKOFF # <<>>
    /\ None \notin [kind : RowKinds, age : Nat]

VARIABLES
    hookRows,       \* per row: None, or its kind and age
    subscriptions,  \* per subscription: "none", "active" or "inactive"
    predates,       \* rows older than the subscription
    deliveries,     \* webhook_delivery: <<subscription, row, event>> -> record
    outboxPass,     \* the running pass and what it has read
    received,       \* ghost: deliveries whose POST has arrived
    scanned,        \* ghost: <<subscription, row>> some complete fan-out looked at
    hookFaults      \* passes that have died

hookVars == <<hookRows, subscriptions, predates, deliveries, outboxPass, received,
              scanned, hookFaults>>

sourceVars == <<hookRows, subscriptions, predates>>

ghosts == <<received, scanned>>

IdlePass == [phase |-> "idle", scope |-> {}, todo |-> {}, attempts |-> <<>>, elapsed |-> 0]

HooksInit ==
    /\ hookRows = [r \in Rows |-> None]
    /\ subscriptions = [s \in Subs |-> "none"]
    /\ predates = [s \in Subs |-> {}]
    /\ deliveries = <<>>
    /\ outboxPass = IdlePass
    /\ received = {}
    /\ scanned = {}
    /\ hookFaults = 0

-----------------------------------------------------------------------------
(* eventsForMarginTransition, and the single event of any other row. *)
EventsOf(kind) ==
    IF Len(kind) = 1 THEN {kind[1]}
    ELSE {"margin.state_changed"}
           \cup (IF kind[2] = "MarginCall" THEN {"margin.call_issued"} ELSE {})
           \cup (IF kind[1] = "MarginCall" /\ kind[2] \in {"Healthy", "Warning"}
                 THEN {"margin.cured"} ELSE {})
           \cup (IF kind[2] = "Liquidation" THEN {"liquidation.started"} ELSE {})

Happened == {r \in Rows : hookRows[r] # None}

(* Mutant: a row exactly as old as the window is missed. *)
StrictWindow(row) == row.age < WINDOW

InWindow(row) == row.age <= WINDOW

(* Every delivery the subscriptions in `subs` should have for these rows.  *)
Matching(subs, rows) ==
    {d \in subs \X rows \X UNION {EventsOf(k) : k \in RowKinds} :
        /\ d[3] \in EventsOf(hookRows[d[2]].kind) \cap Wants[d[1]]
        /\ d[2] \notin predates[d[1]]}

-----------------------------------------------------------------------------
(* The routes, and the services that write the rows *)

RowHappens(r, kind) ==
    /\ hookRows[r] = None
    /\ hookRows' = [hookRows EXCEPT ![r] = [kind |-> kind, age |-> 0]]
    /\ UNCHANGED <<subscriptions, predates, deliveries, outboxPass, ghosts, hookFaults>>

Subscribe(s) ==
    /\ subscriptions[s] = "none"
    /\ subscriptions' = [subscriptions EXCEPT ![s] = "active"]
    /\ predates' = [predates EXCEPT ![s] = Happened]
    /\ UNCHANGED <<hookRows, deliveries, outboxPass, ghosts, hookFaults>>

Unsubscribe(s) ==
    /\ subscriptions[s] # "none"
    /\ subscriptions' = [subscriptions EXCEPT ![s] = "inactive"]
    /\ UNCHANGED <<hookRows, predates, deliveries, outboxPass, ghosts, hookFaults>>

(* Mutant: the attempts of the first round still count. *)
RedeliverKeepsAttempts(d) ==
    /\ deliveries[d].status = "dead"
    /\ deliveries' = [deliveries EXCEPT ![d].status = "pending", ![d].wait = 0]
    /\ UNCHANGED <<sourceVars, outboxPass, ghosts, hookFaults>>

Redeliver(d) ==
    /\ deliveries[d].status = "dead"
    /\ deliveries' = [deliveries EXCEPT ![d] =
           [status |-> "pending", attempts |-> 0, wait |-> 0]]
    /\ UNCHANGED <<sourceVars, outboxPass, ghosts, hookFaults>>

(* Time passes, up to where the code no longer tells it apart. *)
HookTick ==
    LET longest == Max(Range(BACKOFF))
    IN  /\ hookRows' = [r \in Rows |-> IF hookRows[r] = None THEN None
                            ELSE [hookRows[r] EXCEPT !.age = Min({@ + 1, WINDOW + 1})]]
        /\ deliveries' = [d \in DOMAIN deliveries |->
                              [deliveries[d] EXCEPT !.wait = Max({@ - 1, 0})]]
        /\ outboxPass' = [outboxPass EXCEPT !.elapsed =
                              IF outboxPass.phase = "idle" THEN 0 ELSE Min({@ + 1, longest})]
        /\ UNCHANGED <<subscriptions, predates, ghosts, hookFaults>>

-----------------------------------------------------------------------------
(* fanOutRecentEvents: reads the active subscriptions and the recent rows, *)
(* then inserts the deliveries one by one.                                 *)
FanOutStart ==
    LET active == {s \in Subs : subscriptions[s] = "active"}
    IN  /\ outboxPass.phase = "idle"
        /\ outboxPass' = [IdlePass EXCEPT !.phase = "fanout",
               !.scope = {p \in active \X Happened :
                              hookRows[p[2]].age <= WINDOW /\ p[2] \notin predates[p[1]]},
               !.todo = Matching(active, {r \in Happened : InWindow(hookRows[r])})]
        /\ UNCHANGED <<sourceVars, deliveries, ghosts, hookFaults>>

(* Insert, or nothing when the (subscription, event_key) is there already. *)
Enqueue(d) ==
    /\ outboxPass.phase = "fanout"
    /\ d \in outboxPass.todo
    /\ deliveries' = IF d \in DOMAIN deliveries THEN deliveries
           ELSE [k \in DOMAIN deliveries \cup {d} |->
                     IF k = d THEN [status |-> "pending", attempts |-> 0, wait |-> 0]
                     ELSE deliveries[k]]
    /\ outboxPass' = [outboxPass EXCEPT !.todo = @ \ {d}]
    /\ UNCHANGED <<sourceVars, ghosts, hookFaults>>

(* deliverDue reads a batch of what is due; the copies it works on keep    *)
(* the attempts they had.                                                  *)
DeliverStart ==
    LET due == {d \in DOMAIN deliveries :
                    deliveries[d].status = "pending" /\ deliveries[d].wait = 0}
    IN  /\ outboxPass.phase = "fanout"
        /\ outboxPass.todo = {}
        /\ \E batch \in kSubset(Min({BATCH_SIZE, Cardinality(due)}), due) :
               outboxPass' = [IdlePass EXCEPT !.phase = "deliver", !.todo = batch,
                                  !.attempts = [d \in batch |-> deliveries[d].attempts]]
        /\ scanned' = scanned \cup outboxPass.scope
        /\ UNCHANGED <<sourceVars, deliveries, received, hookFaults>>

Delay(attempts) == IF attempts <= Len(BACKOFF) THEN BACKOFF[attempts] ELSE BACKOFF[Len(BACKOFF)]

(* Mutant: the last attempt is rescheduled like the others, with the count *)
(* it was read with.                                                       *)
FailForgetsAttempt(d, permanent) ==
    LET attempts == outboxPass.attempts[d]
    IN  [status |-> IF permanent \/ attempts >= MAX_ATTEMPTS THEN "dead" ELSE "pending",
         attempts |-> attempts,
         wait |-> Max({Delay(attempts + 1) - outboxPass.elapsed, 0})]

(* fail: one more attempt than the copy had, and dead after the last. *)
Fail(d, permanent) ==
    LET attempts == outboxPass.attempts[d] + 1
    IN  [status |-> IF permanent \/ attempts >= MAX_ATTEMPTS THEN "dead" ELSE "pending",
         attempts |-> attempts,
         wait |-> Max({Delay(attempts) - outboxPass.elapsed, 0})]

(* One delivery of the batch: refused for a dead subscription, POSTed and  *)
(* answered, or POSTed in vain (the subscriber may have it all the same).  *)
Deliver(d) ==
    LET copy == outboxPass.attempts[d]
    IN  /\ outboxPass.phase = "deliver"
        /\ d \in outboxPass.todo
        /\ outboxPass' = [outboxPass EXCEPT !.todo = @ \ {d}]
        /\ \/ /\ subscriptions[d[1]] # "active"
              /\ deliveries' = [deliveries EXCEPT ![d] = Fail(d, TRUE)]
              /\ UNCHANGED received
           \/ /\ subscriptions[d[1]] = "active"
              /\ deliveries' = [deliveries EXCEPT ![d] =
                     [status |-> "delivered", attempts |-> copy + 1, wait |-> @.wait]]
              /\ received' = received \cup {d}
           \/ /\ subscriptions[d[1]] = "active"
              /\ deliveries' = [deliveries EXCEPT ![d] = Fail(d, FALSE)]
              /\ received' \in {received, received \cup {d}}
        /\ UNCHANGED <<sourceVars, scanned, hookFaults>>

PassEnds ==
    /\ outboxPass.phase = "deliver"
    /\ outboxPass.todo = {}
    /\ outboxPass' = IdlePass
    /\ UNCHANGED <<sourceVars, deliveries, ghosts, hookFaults>>

(* A query throws or the process dies, perhaps right after a POST. *)
PassDies ==
    /\ outboxPass.phase # "idle"
    /\ hookFaults < MaxFaults
    /\ hookFaults' = hookFaults + 1
    /\ outboxPass' = IdlePass
    /\ \/ UNCHANGED received
       \/ /\ outboxPass.phase = "deliver"
          /\ \E d \in outboxPass.todo : received' = received \cup {d}
    /\ UNCHANGED <<sourceVars, deliveries, scanned>>

PassStep ==
    \/ FanOutStart \/ DeliverStart \/ PassEnds
    \/ \E d \in outboxPass.todo : Enqueue(d) \/ Deliver(d)

HooksNext ==
    \/ \E r \in Rows, kind \in RowKinds : RowHappens(r, kind)
    \/ \E s \in Subs : Subscribe(s) \/ Unsubscribe(s)
    \/ \E d \in DOMAIN deliveries : Redeliver(d)
    \/ HookTick \/ PassStep \/ PassDies

(* The timer keeps starting passes, and time passes. *)
HooksFairness == WF_hookVars(PassStep) /\ WF_hookVars(HookTick)

HooksSpec == HooksInit /\ [][HooksNext]_hookVars /\ HooksFairness

-----------------------------------------------------------------------------
(* Properties *)

(* What the books call delivered has arrived, and a delivery is given up   *)
(* only after all its attempts or for a subscription that is gone, across  *)
(* redeliveries and passes that die.                                       *)
OutcomesAreTrue ==
    \A d \in DOMAIN deliveries :
        /\ deliveries[d].status = "delivered" => d \in received
        /\ deliveries[d].status = "dead" =>
               deliveries[d].attempts = MAX_ATTEMPTS \/ subscriptions[d[1]] = "inactive"

WantedOf(s, r) == IF hookRows[r] = None THEN {} ELSE EventsOf(hookRows[r].kind) \cap Wants[s]

(* A fan-out that runs to its end leaves nothing in its window unqueued:   *)
(* every row it saw while the subscription was there has a delivery for    *)
(* each event the subscription wants, whatever died before.                *)
CompletePassMissesNothing ==
    \A s \in Subs, r \in Rows : <<s, r>> \in scanned =>
        \A e \in WantedOf(s, r) : <<s, r, e>> \in DOMAIN deliveries

(* What the delivery table says can be relied on: its outcomes are true,   *)
(* and nothing that a complete pass has looked at is missing from it.      *)
OutboxIsTrue == OutcomesAreTrue /\ CompletePassMissesNothing

Deliverable == Subs \X Rows \X UNION {EventsOf(k) : k \in RowKinds}

InState(d, status) == d \in DOMAIN deliveries /\ deliveries[d].status = status

(* No delivery is queued for ever: it is delivered or dead-lettered in the *)
(* end, unless dead ones are requeued for ever ahead of it (the batch has  *)
(* no order).                                                              *)
DeliveriesEnd ==
    \/ \A d \in Deliverable : []<>~InState(d, "pending")
    \/ []<><<\E d \in DOMAIN deliveries : Redeliver(d)>>_hookVars

=============================================================================
