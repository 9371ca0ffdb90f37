--------------------------- MODULE PricePublisher ---------------------------
(***************************************************************************)
(* services/price-guard: the cron job that reads an asset's issuer NAV and *)
(* its independent feed, records both, publishes each to the PriceGuard    *)
(* contract and stores the contract's own guarded price, for one asset.    *)
(*                                                                         *)
(* Cron starts a cycle every minute whether or not the last one is over,   *)
(* so cycles overlap; each await ends a step.  A reading is known by its   *)
(* timestamp: its value goes with it.  The contract keeps the reading that *)
(* was published last, whatever its timestamp (PriceGuard).                *)
(***************************************************************************)
EXTENDS Services

CONSTANTS
    Cycles,      \* cycles that may run at the same time
    HasNavApi,   \* the issuer has a NAV API (getIssuerNavAdapter)
    Shadow,      \* PRICE_GUARD_PUBLISH is "false"
    MaxTs        \* bound on readings of a source

ASSUME PricePublisherAssumption ==
    HasNavApi \in BOOLEAN /\ Shadow \in BOOLEAN /\ MaxTs \in Nat

VARIABLES
    sourceTs,     \* per source: the newest reading it offers
    onChain,      \* per source: the reading the contract holds, 0 for none
    observations, \* price_observation: <<source, ts>>
    snapshot,     \* the last price_snapshot: the readings behind it
    cycle,        \* per running cycle: where runPriceUpdateCycle is
    feedFaults    \* failures that may hit the feed's side of a cycle

publisherVars == <<sourceTs, onChain, observations, snapshot, cycle, feedFaults>>

PriceSources == {"nav", "feed"}

NoCycle == [at |-> "idle", nav |-> None, feed |-> None]

(* The first readings are on chain; a NAV there is only with an API. *)
PublisherInit ==
    /\ sourceTs = [s \in PriceSources |-> 1]
    /\ onChain = [s \in PriceSources |-> IF s = "feed" \/ HasNavApi THEN 1 ELSE 0]
    /\ observations = {<<s, 1>> : s \in {x \in PriceSources : onChain[x] = 1}}
    /\ snapshot = None
    /\ cycle = [c \in Cycles |-> NoCycle]
    /\ feedFaults = 0

FeedFault == feedFaults < MaxFaults /\ feedFaults' = feedFaults + 1

Advance(c, at) == cycle' = [cycle EXCEPT ![c].at = at]

(* The source publishes a new reading. *)
NewReading(s) ==
    /\ sourceTs[s] < MaxTs
    /\ sourceTs' = [sourceTs EXCEPT ![s] = @ + 1]
    /\ UNCHANGED <<onChain, observations, snapshot, cycle, feedFaults>>

(* Both sources are asked at once; each answers or is given up.  The NAV   *)
(* may fail for ever.                                                      *)
FetchReadings(c) ==
    /\ cycle[c].at = "idle"
    /\ \E nav \in {None} \cup (IF HasNavApi THEN {sourceTs["nav"]} ELSE {}),
          feed \in {None, sourceTs["feed"]} :
           /\ IF feed = None THEN FeedFault ELSE UNCHANGED feedFaults
           /\ cycle' = [cycle EXCEPT ![c] =
                  IF nav = None /\ feed = None THEN NoCycle
                  ELSE [at |-> "observe", nav |-> nav, feed |-> feed]]
    /\ UNCHANGED <<sourceTs, onChain, observations, snapshot>>

Readings(c) ==
    {<<"nav", cycle[c].nav>>, <<"feed", cycle[c].feed>>} \ {<<"nav", None>>, <<"feed", None>>}

(* The readings are recorded; a shadow run ends here.  A write that throws *)
(* ends the cycle for this asset.                                          *)
Observe(c) ==
    /\ cycle[c].at = "observe"
    /\ \/ /\ observations' = observations \cup Readings(c)
          /\ IF Shadow THEN cycle' = [cycle EXCEPT ![c] = NoCycle] ELSE Advance(c, "nav")
          /\ UNCHANGED feedFaults
       \/ /\ cycle' = [cycle EXCEPT ![c] = NoCycle]
          /\ FeedFault
          /\ UNCHANGED observations
    /\ UNCHANGED <<sourceTs, onChain, snapshot>>

(* Mutant: a NAV that cannot be published ends the cycle. *)
AfterNavStops(c, published) ==
    cycle' = [cycle EXCEPT ![c] = IF published THEN [@ EXCEPT !.at = "feed"] ELSE NoCycle]

(* A NAV that cannot be published does not stop the feed. *)
AfterNav(c, published) == Advance(c, "feed")

(* The NAV is attested, published and waited for, if there is one; any of  *)
(* this may throw, after the transaction landed too.                       *)
PublishNavReading(c) ==
    /\ cycle[c].at = "nav"
    /\ \/ cycle[c].nav = None /\ UNCHANGED onChain /\ Advance(c, "feed")
       \/ /\ cycle[c].nav # None
          /\ \E published \in BOOLEAN :
                 /\ onChain' \in {[onChain EXCEPT !["nav"] = cycle[c].nav]}
                                  \cup (IF published THEN {} ELSE {onChain})
                 /\ AfterNav(c, published)
    /\ UNCHANGED <<sourceTs, observations, snapshot, feedFaults>>

PublishFeedReading(c) ==
    /\ cycle[c].at = "feed"
    /\ \/ cycle[c].feed = None /\ UNCHANGED <<onChain, feedFaults>>
       \/ /\ cycle[c].feed # None
          /\ onChain' = [onChain EXCEPT !["feed"] = cycle[c].feed]
          /\ UNCHANGED feedFaults
       \/ cycle[c].feed # None /\ UNCHANGED onChain /\ FeedFault
    /\ Advance(c, "read back")
    /\ UNCHANGED <<sourceTs, observations, snapshot>>

(* The contract's guarded price is read and stored, or the read throws. *)
ReadBack(c) ==
    /\ cycle[c].at = "read back"
    /\ snapshot' \in {snapshot, onChain}
    /\ cycle' = [cycle EXCEPT ![c] = NoCycle]
    /\ UNCHANGED <<sourceTs, onChain, observations, feedFaults>>

CycleStep(c) ==
    \/ FetchReadings(c) \/ Observe(c) \/ PublishNavReading(c) \/ PublishFeedReading(c)
    \/ ReadBack(c)

PublisherNext ==
    \/ \E s \in PriceSources : NewReading(s)
    \/ \E c \in Cycles : CycleStep(c)

(* Cron starts cycles for ever, and each await returns or throws. *)
PublisherFairness == \A c \in Cycles : WF_publisherVars(CycleStep(c))

PublisherSpec == PublisherInit /\ [][PublisherNext]_publisherVars /\ PublisherFairness

-----------------------------------------------------------------------------
(***************************************************************************)
(* The newest feed reading is on chain again and again, although a cycle   *)
(* that was overtaken may put an older one back, and although the NAV's    *)
(* API and its transaction may fail for ever (pipeline.ts:124-125); and    *)
(* the contract never holds a reading that was not recorded first.         *)
(***************************************************************************)
FeedKeepsFlowing ==
    /\ ~ Shadow => []<>(onChain["feed"] = sourceTs["feed"])
    /\ [](\A s \in PriceSources : onChain[s] # 0 => <<s, onChain[s]>> \in observations)

=============================================================================
