------------------------------- MODULE Indexer -------------------------------
(***************************************************************************)
(* services/indexer: contract events copied from Stellar RPC into          *)
(* chain_event, with a cursor in memory and one in Postgres.               *)
(*                                                                         *)
(* The chain is external: a sequence of events in ledger order, seen       *)
(* through RPC nodes that lag behind its tip, each call answered by any of *)
(* them, and that forget ledgers older than their retention window.  One   *)
(* poll is a chain of awaits and may throw or die at each of them.         *)
(***************************************************************************)
EXTENDS Services, Sequences

CONSTANTS
    RpcNodes,
    RPC_RETENTION,               \* ledgers a node keeps
    COLD_START_LOOKBACK_LEDGERS,
    PAGE_SIZE,
    MaxLedgers,                  \* bound on the chain
    MaxEvents                    \* bound on events

ASSUME IndexerAssumption ==
    /\ RPC_RETENTION \in Nat /\ COLD_START_LOOKBACK_LEDGERS \in Nat
    /\ PAGE_SIZE \in Nat \ {0} /\ MaxLedgers \in Nat \ {0} /\ MaxEvents \in Nat
    /\ None \notin Nat

VARIABLES
    tip,         \* the newest closed ledger
    chain,       \* the events of the watched contracts; an id is an index
    nodeTips,    \* per RPC node: the newest ledger it knows
    chainEvents, \* table chain_event: ids
    cursorRow,   \* table indexer_cursor
    lastScanned, \* IndexerState.lastScannedLedger
    gapRows,     \* table chain_event_gap
    poll,        \* where pollOnce stands
    since,       \* the newest ledger that a cold start has asked for first
    indexerFaults

indexerVars == <<tip, chain, nodeTips, chainEvents, cursorRow, lastScanned,
                 gapRows, poll, since, indexerFaults>>

NoPoll == [at |-> "idle", start |-> 0, events |-> {}, latest |-> 0]

Later(a, b) == IF a > b THEN a ELSE b

IndexerInit ==
    /\ tip = 1
    /\ chain = <<>>
    /\ nodeTips = [n \in RpcNodes |-> 1]
    /\ chainEvents = {}
    /\ cursorRow = None
    /\ lastScanned = None
    /\ gapRows = {}
    /\ poll = NoPoll
    /\ since = None
    /\ indexerFaults = 0

IndexerFault == indexerFaults < MaxFaults /\ indexerFaults' = indexerFaults + 1

(* The world outside: a ledger closes, with an event or without one; nodes *)
(* catch up.                                                               *)
CloseWithEvents ==
    /\ tip < MaxLedgers
    /\ tip' = tip + 1
    /\ \E n \in 0 .. MaxEvents - Len(chain) :
         chain' = chain \o [i \in 1 .. n |-> tip + 1]
    /\ UNCHANGED <<nodeTips, chainEvents, cursorRow, lastScanned, gapRows, poll,
                   since, indexerFaults>>

NodeCatchesUp(n) ==
    /\ nodeTips[n] < tip
    /\ nodeTips' = [nodeTips EXCEPT ![n] = @ + 1]
    /\ UNCHANGED <<tip, chain, chainEvents, cursorRow, lastScanned, gapRows,
                   poll, since, indexerFaults>>

Oldest(n) == Later(1, nodeTips[n] - RPC_RETENTION + 1)

(* getLastIngestedLedger: the cursor row, or else the newest stored event. *)
NewestStored ==
    IF chainEvents = {} THEN None
    ELSE CHOOSE g \in 1 .. MaxLedgers :
            /\ \E i \in chainEvents : chain[i] = g
            /\ \A i \in chainEvents : chain[i] <= g

(* Where the poll resumes: memory, Postgres, or a cold start near the tip. *)
ResumeFrom(g) ==
    /\ poll' = [NoPoll EXCEPT !.at = "located", !.start = g + 1]
    /\ UNCHANGED since

ColdStart(n) ==
    LET g == Later(1, nodeTips[n] - COLD_START_LOOKBACK_LEDGERS) IN
    /\ poll' = [NoPoll EXCEPT !.at = "located", !.start = g]
    /\ since' = IF since = None THEN g ELSE Later(since, g)

RunIndexerCycle ==
    /\ poll.at = "idle"
    /\ \/ /\ lastScanned # None
          /\ ResumeFrom(lastScanned)
          /\ UNCHANGED indexerFaults
       \/ /\ lastScanned = None /\ cursorRow # None
          /\ ResumeFrom(cursorRow)
          /\ UNCHANGED indexerFaults
       \/ /\ lastScanned = None
          /\ IF cursorRow = None THEN UNCHANGED indexerFaults ELSE IndexerFault
          /\ \/ NewestStored # None /\ ResumeFrom(NewestStored)
             \/ NewestStored = None /\ \E n \in RpcNodes : ColdStart(n)
    /\ UNCHANGED <<tip, chain, nodeTips, chainEvents, cursorRow, lastScanned, gapRows>>

(* Mutant: the clamp leaves no record.                                     *)
SkippedRangeForgotten(start, oldest) == {}

(* getHealth: the start is clamped to what the node still has, and what is *)
(* skipped is written down before anything is fetched.                     *)
SkippedRange(start, oldest) ==
    IF start < oldest THEN {<<start, oldest - 1>>} ELSE {}

ClampToRetention ==
    /\ poll.at = "located"
    /\ \E n \in RpcNodes :
         /\ gapRows' = gapRows \union SkippedRange(poll.start, Oldest(n))
         /\ poll' = [poll EXCEPT !.at = "paging", !.start = Later(@, Oldest(n))]
    /\ UNCHANGED <<tip, chain, nodeTips, chainEvents, cursorRow, lastScanned,
                   since, indexerFaults>>

(* getEvents: from the start ledger, or after the last event of the page   *)
(* before.  A node refuses a start it has forgotten or does not know yet.  *)
Resume == IF poll.events = {} THEN poll.start
          ELSE CHOOSE g \in 1 .. MaxLedgers :
                 /\ \E i \in poll.events : chain[i] = g
                 /\ \A i \in poll.events : chain[i] <= g

Serves(n) == Oldest(n) <= Resume /\ Resume <= nodeTips[n]

PageOf(n) ==
    LET rest == {i \in DOMAIN chain :
                   /\ poll.start <= chain[i] /\ chain[i] <= nodeTips[n]
                   /\ \A j \in poll.events : j < i}
    IN  {i \in rest : Cardinality({j \in rest : j < i}) < PAGE_SIZE}

(* Mutant: the first page is taken for the last.                           *)
FirstPageIsLast(page) == TRUE

LastPage(page) == Cardinality(page) < PAGE_SIZE

GetEvents ==
    /\ poll.at = "paging"
    /\ \E n \in RpcNodes :
         /\ Serves(n)
         /\ poll' = [poll EXCEPT
              !.at = IF LastPage(PageOf(n)) THEN "fetched" ELSE "paging",
              !.events = @ \union PageOf(n), !.latest = nodeTips[n]]
    /\ UNCHANGED <<tip, chain, nodeTips, chainEvents, cursorRow, lastScanned,
                   gapRows, since, indexerFaults>>

GetEventsRefused ==
    /\ poll.at = "paging"
    /\ \E n \in RpcNodes : ~Serves(n)
    /\ poll' = NoPoll
    /\ UNCHANGED <<tip, chain, nodeTips, chainEvents, cursorRow, lastScanned,
                   gapRows, since, indexerFaults>>

(* One insert of all rows; event_id is unique.                             *)
InsertEvents ==
    /\ poll.at = "fetched"
    /\ chainEvents' = chainEvents \union poll.events
    /\ poll' = [poll EXCEPT !.at = "stored"]
    /\ UNCHANGED <<tip, chain, nodeTips, cursorRow, lastScanned, gapRows, since,
                   indexerFaults>>

(* The cursor row is written, or its write throws and that is ignored; the *)
(* cursor in memory moves either way and never back.                       *)
ScannedUpTo == IF lastScanned = None THEN poll.latest ELSE Later(lastScanned, poll.latest)

MoveCursor ==
    /\ poll.at = "stored"
    /\ \/ cursorRow' = poll.latest /\ UNCHANGED indexerFaults
       \/ IndexerFault /\ UNCHANGED cursorRow
    /\ lastScanned' = ScannedUpTo
    /\ poll' = NoPoll
    /\ UNCHANGED <<tip, chain, nodeTips, chainEvents, gapRows, since>>

(* A call throws and the cycle is given up, or the process restarts.       *)
PollFails ==
    /\ poll.at # "idle"
    /\ IndexerFault
    /\ poll' = NoPoll
    /\ \/ UNCHANGED lastScanned
       \/ lastScanned' = None
    /\ UNCHANGED <<tip, chain, nodeTips, chainEvents, cursorRow, gapRows, since>>

PollStep ==
    \/ RunIndexerCycle \/ ClampToRetention \/ GetEvents \/ GetEventsRefused
    \/ InsertEvents \/ MoveCursor

IndexerNext ==
    \/ CloseWithEvents
    \/ \E n \in RpcNodes : NodeCatchesUp(n)
    \/ PollStep \/ PollFails

(* The loop in index.ts polls every five seconds for ever, and nodes catch *)
(* up; that a ledger closes is not needed.                                 *)
IndexerFairness ==
    /\ \A n \in RpcNodes : WF_indexerVars(NodeCatchesUp(n))
    /\ WF_indexerVars(PollStep)

IndexerSpec == IndexerInit /\ [][IndexerNext]_indexerVars /\ IndexerFairness

-----------------------------------------------------------------------------
(* Properties.                                                             *)

InGap(i) == \E g \in gapRows : g[1] <= chain[i] /\ chain[i] <= g[2]
Kept(i) == i \in chainEvents \/ InGap(i)

(* No event is lost in silence: what lies behind a cursor, in memory or in *)
(* Postgres, and after every cold start, is stored or inside a recorded    *)
(* gap - with pages that fill up, nodes that disagree about the tip, a     *)
(* retention window that moves on, lost writes and restarts (poller.ts:126 *)
(* and 168).                                                               *)
NothingLostSilently ==
    \A i \in DOMAIN chain :
        /\ since # None /\ since <= chain[i]
        /\ \E c \in {lastScanned, cursorRow} \ {None} : chain[i] <= c
        => Kept(i)

(* Every event after every cold start is stored or given up on the         *)
(* record in the end: the cursor never gets stuck (poller.ts:124).         *)
EventsGetIndexed ==
    \A i \in 1 .. MaxEvents :
        []<>(i \in DOMAIN chain => since # None /\ (chain[i] < since \/ Kept(i)))

=============================================================================
