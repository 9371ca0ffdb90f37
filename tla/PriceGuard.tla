----------------------------- MODULE PriceGuard -----------------------------
(***************************************************************************)
(* contracts/price-guard for one asset: readings pushed by source name,    *)
(* the median / band / staleness / halt rules, and the settings whose      *)
(* loosening waits out a timelock.  One action is one contract call; a     *)
(* call that panics changes nothing, so its asserts are guards.            *)
(*                                                                         *)
(* Left out: the roles that may call (fixed here), events, storage TTLs,   *)
(* the stored NavRecord (never read), and PriceSource.stale (never set).   *)
(* A signature is the key that made it: it verifies under that key only.   *)
(***************************************************************************)
EXTENDS Integers, FiniteSets

CONSTANTS
    BPS_DENOMINATOR,         \* 10_000 in the code
    MAX_FUTURE_SKEW_S,       \* 60 in the code
    TIMELOCK_DELAY_SECONDS,  \* 48 hours in the code
    SORT_CAPACITY,           \* 8 in the code: more fresh readings panic
    None,                    \* Rust's Option::None
    Sources,                 \* source names a publisher may use
    ISSUER_SOURCE,           \* the name publish_nav writes under
    Keys,                    \* issuer keys
    Prices,                  \* values a publisher may send
    ReadingTimes,            \* timestamps a publisher may send
    GuardConfigs,            \* settings the admin may apply directly
    SignatureChoices,        \* answers the admin may give to "verify signatures?"
    Changes,                 \* changes the admin may queue
    MaxPrice,                \* bound: largest price (i128::MAX in the code)
    MaxDailyBand,            \* bound: widest daily_move_band_bps ever set
    MaxWindowBand,           \* bound: widest window_move_band_bps ever set
    MinWindow,               \* bound: shortest window_seconds ever set
    MaxChanges,              \* bound: changes ever queued
    MaxTime                  \* bound: seconds

ConfigFields ==
    {"band_bps", "daily_move_band_bps", "window_seconds", "window_move_band_bps",
     "max_staleness_s"}

AssetGuardConfig == [ConfigFields -> Nat]

ConfigChange ==
    [kind : {"Field"}, field : ConfigFields, value : Nat]
        \cup [kind : {"Asset"}, config : AssetGuardConfig]
        \cup [kind : {"IssuerPubKey"}, key : Keys]
        \cup [kind : {"RequireNavSignature"}, required : BOOLEAN]

(* What an i128 price that passed require_sane_reading can be. *)
PositivePrice == 1 .. MaxPrice

PriceSource == [value : PositivePrice, observed_at : Nat]

Reference == [value : PositivePrice, updated : Nat]

PriceStatus == {"Ok", "Degraded", "Halted"}

ChangeId == 0 .. (MaxChanges - 1)

(* The settings stay inside the named bounds. *)
Bounded(c) ==
    /\ c["daily_move_band_bps"] <= MaxDailyBand
    /\ c["window_move_band_bps"] <= MaxWindowBand
    /\ c["window_seconds"] >= MinWindow

BoundedChange(c) ==
    /\ c.kind = "Asset" => Bounded(c.config)
    /\ (c.kind = "Field" /\ c.field = "daily_move_band_bps") => c.value <= MaxDailyBand
    /\ (c.kind = "Field" /\ c.field = "window_move_band_bps") => c.value <= MaxWindowBand
    /\ (c.kind = "Field" /\ c.field = "window_seconds") => c.value >= MinWindow

ASSUME PriceGuardAssumption ==
    /\ BPS_DENOMINATOR \in Nat \ {0}
    /\ MAX_FUTURE_SKEW_S \in Nat
    /\ TIMELOCK_DELAY_SECONDS \in Nat
    /\ SORT_CAPACITY \in Nat
    /\ None \notin Nat
    /\ None \notin Keys
    /\ None \notin BOOLEAN
    /\ None \notin PriceStatus
    /\ None \notin PriceSource
    /\ None \notin AssetGuardConfig
    /\ None \notin Reference
    /\ None \notin [change : ConfigChange, executes_at : Nat]
    /\ IsFiniteSet(Sources)
    /\ ISSUER_SOURCE \in Sources
    /\ Prices \subseteq Int
    /\ ReadingTimes \subseteq Nat
    /\ GuardConfigs \subseteq AssetGuardConfig
    /\ SignatureChoices \subseteq BOOLEAN
    /\ Changes \subseteq ConfigChange
    /\ \A c \in GuardConfigs : Bounded(c)
    /\ \A c \in Changes : BoundedChange(c)
    /\ MaxPrice \in Nat
    /\ \A p \in Prices : p <= MaxPrice
    /\ MaxDailyBand \in Nat
    /\ MaxWindowBand \in Nat
    /\ MinWindow \in Nat
    /\ MaxChanges \in Nat
    /\ MaxTime \in Nat

VARIABLES
    clock,          \* env.ledger().timestamp()
    sources,        \* DataKey::Source, by name
    lastGood,       \* DataKey::LastGood
    rolling,        \* DataKey::RollingReference and RollingReferenceUpdated
    halted,         \* DataKey::Halted
    pendingHalt,    \* DataKey::PendingHaltValue
    lastStatus,     \* DataKey::LastStatus
    guardConfig,    \* DataKey::Config
    issuerKey,      \* DataKey::IssuerPubKey
    requireSig,     \* DataKey::RequireNavSignature
    pendingConfig,  \* DataKey::PendingConfig
    nextId          \* TimelockDataKey::NextId

feedVars == <<clock, lastGood, rolling, halted, pendingHalt>>
settingVars == <<guardConfig, issuerKey, requireSig, pendingConfig, nextId>>
guardVars == <<feedVars, sources, lastStatus, settingVars>>

GuardInit ==
    /\ clock = 0
    /\ sources = [n \in Sources |-> None]
    /\ lastGood = None
    /\ rolling = None
    /\ halted = FALSE
    /\ pendingHalt = None
    /\ lastStatus = None
    /\ guardConfig = None
    /\ issuerKey = None
    /\ requireSig = None
    /\ pendingConfig = [id \in ChangeId |-> None]
    /\ nextId = 0

-----------------------------------------------------------------------------
(* Evaluating the readings *)

(* is_fresh *)
IsFresh(src) ==
    /\ src # None
    /\ src.observed_at <= clock + MAX_FUTURE_SKEW_S
    /\ clock - src.observed_at <= guardConfig["max_staleness_s"]

FreshSources(srcs) == {n \in Sources : IsFresh(srcs[n])}

(* The k-th entry of the sorted buffer of fresh values, as a one-element   *)
(* set: fewer than k values lie below it and at least k do not exceed it.  *)
Kth(srcs, k) ==
    LET fresh == FreshSources(srcs)
    IN  {v \in {srcs[n].value : n \in fresh} :
            /\ Cardinality({n \in fresh : srcs[n].value < v}) < k
            /\ k <= Cardinality({n \in fresh : srcs[n].value <= v})}

(* Mutant: the lower middle index is rounded down. *)
MedianLowIndex(srcs) ==
    LET len == Cardinality(FreshSources(srcs))
    IN  {(a + b) \div 2 : a \in Kth(srcs, len \div 2), b \in Kth(srcs, len \div 2 + 1)}

(* The middle value, or the average of the two middle values rounded down. *)
Median(srcs) ==
    LET len == Cardinality(FreshSources(srcs))
    IN  {(a + b) \div 2 : a \in Kth(srcs, (len + 1) \div 2), b \in Kth(srcs, len \div 2 + 1)}

(* within_band: the spread in bps of the lower value, for every two values. *)
WithinBand(srcs) ==
    \A m, n \in FreshSources(srcs) :
        ((srcs[m].value - srcs[n].value) * BPS_DENOMINATOR) \div srcs[n].value
            <= guardConfig["band_bps"]

MoveBps(v, from) ==
    LET move == IF v >= from THEN v - from ELSE from - v
    IN  (move * BPS_DENOMINATOR) \div from

(* The median is too far from the last good value, or has drifted too far  *)
(* from the rolling reference.                                             *)
TooFar(median) ==
    \/ lastGood # None /\ MoveBps(median, lastGood) > guardConfig["daily_move_band_bps"]
    \/ rolling # None /\ MoveBps(median, rolling.value) > guardConfig["window_move_band_bps"]

LatchHalt(median) ==
    /\ halted' = TRUE
    /\ pendingHalt' = median
    /\ lastStatus' = "Halted"
    /\ UNCHANGED <<clock, lastGood, rolling>>

(* Mutant: the reference follows every accepted price. *)
AcceptChasesPrice(median) ==
    /\ rolling' = [value |-> median, updated |-> clock]
    /\ lastGood' = median
    /\ lastStatus' = "Ok"
    /\ UNCHANGED <<clock, halted, pendingHalt>>

AcceptMedian(median) ==
    /\ rolling' =
           IF rolling = None THEN [value |-> median, updated |-> clock]
           ELSE IF clock - rolling.updated >= guardConfig["window_seconds"]
           THEN [value |-> median, updated |-> clock]
           ELSE rolling
    /\ lastGood' = median
    /\ lastStatus' = "Ok"
    /\ UNCHANGED <<clock, halted, pendingHalt>>

Degrade ==
    /\ lastStatus' = "Degraded"
    /\ UNCHANGED feedVars

StayHalted ==
    /\ halted
    /\ lastStatus' = "Halted"
    /\ UNCHANGED feedVars

(* evaluate: the rules over the readings srcs, in the code's order.  The   *)
(* sort buffer panics above its capacity, but a halted asset or too few    *)
(* readings return before it is filled.                                    *)
Evaluate(srcs) ==
    LET len == Cardinality(FreshSources(srcs))
    IN  /\ guardConfig # None
        /\ \/ StayHalted
           \/ ~halted /\ len < 2 /\ Degrade
           \/ /\ ~halted /\ len >= 2 /\ len <= SORT_CAPACITY
              /\ \/ ~WithinBand(srcs) /\ Degrade
                 \/ /\ WithinBand(srcs)
                    /\ \E median \in Median(srcs) :
                          \/ TooFar(median) /\ LatchHalt(median)
                          \/ ~TooFar(median) /\ AcceptMedian(median)

-----------------------------------------------------------------------------
(* Calls of the publisher, of readers and of the risk desk *)

(* require_sane_reading *)
SaneReading(value, ts) == value > 0 /\ ts <= clock + MAX_FUTURE_SKEW_S

(* write_source, then evaluate. *)
WriteSource(name, value, ts) ==
    LET srcs == [sources EXCEPT ![name] = [value |-> value, observed_at |-> ts]]
    IN  /\ sources' = srcs
        /\ Evaluate(srcs)
        /\ UNCHANGED settingVars

(* require_nav_signature: unset means required. *)
RequireNavSignature == requireSig # FALSE

PublishNav(value, ts, signer) ==
    /\ guardConfig # None
    /\ SaneReading(value, ts)
    /\ RequireNavSignature => issuerKey # None /\ signer = issuerKey
    /\ WriteSource(ISSUER_SOURCE, value, ts)

PublishSource(name, value, ts) ==
    /\ guardConfig # None
    /\ SaneReading(value, ts)
    /\ WriteSource(name, value, ts)

(* guarded_price and lastprice inside a transaction. *)
GuardedPrice ==
    /\ Evaluate(sources)
    /\ UNCHANGED <<sources, settingVars>>

(* confirm_halt_cleared: without a pending value only the latch is cleared. *)
ConfirmHaltCleared ==
    /\ IF pendingHalt = None
       THEN UNCHANGED <<lastGood, rolling>>
       ELSE /\ lastGood' = pendingHalt
            /\ rolling' = [value |-> pendingHalt, updated |-> clock]
    /\ pendingHalt' = None
    /\ halted' = FALSE
    /\ UNCHANGED <<clock, sources, lastStatus, settingVars>>

-----------------------------------------------------------------------------
(* Calls of the admin *)

IsLoosening(old, c) ==
    \/ c["band_bps"] > old["band_bps"]
    \/ c["daily_move_band_bps"] > old["daily_move_band_bps"]
    \/ c["window_move_band_bps"] > old["window_move_band_bps"]
    \/ c["max_staleness_s"] > old["max_staleness_s"]
    \/ c["window_seconds"] < old["window_seconds"]

(* Mutant: a shorter window is not taken for a loosening. *)
ConfigureAssetAnyWindow(c) ==
    /\ guardConfig # None =>
           ~IsLoosening([guardConfig EXCEPT !["window_seconds"] = c["window_seconds"]], c)
    /\ guardConfig' = c
    /\ lastStatus' = "Degraded"
    /\ UNCHANGED <<feedVars, sources, issuerKey, requireSig, pendingConfig, nextId>>

ConfigureAsset(c) ==
    /\ guardConfig # None => ~IsLoosening(guardConfig, c)
    /\ guardConfig' = c
    /\ lastStatus' = "Degraded"
    /\ UNCHANGED <<feedVars, sources, issuerKey, requireSig, pendingConfig, nextId>>

ConfigureIssuerKey(key) ==
    /\ issuerKey # None => issuerKey = key
    /\ issuerKey' = key
    /\ UNCHANGED <<feedVars, sources, lastStatus, guardConfig, requireSig, pendingConfig,
                   nextId>>

ConfigureSignatureRequirement(required) ==
    /\ requireSig = TRUE => required
    /\ requireSig' = required
    /\ UNCHANGED <<feedVars, sources, lastStatus, guardConfig, issuerKey, pendingConfig, nextId>>

RemoveSource(name) ==
    LET srcs == [sources EXCEPT ![name] = None]
    IN  /\ sources' = srcs
        /\ Evaluate(srcs)
        /\ UNCHANGED settingVars

QueueConfig(change) ==
    /\ nextId \in ChangeId
    /\ pendingConfig' = [pendingConfig EXCEPT ![nextId] =
           [change |-> change, executes_at |-> clock + TIMELOCK_DELAY_SECONDS]]
    /\ nextId' = nextId + 1
    /\ UNCHANGED <<feedVars, sources, lastStatus, guardConfig, issuerKey, requireSig>>

CancelConfig(id) ==
    /\ pendingConfig[id] # None
    /\ pendingConfig' = [pendingConfig EXCEPT ![id] = None]
    /\ UNCHANGED <<feedVars, sources, lastStatus, guardConfig, issuerKey, requireSig, nextId>>

(* The match of execute_config. *)
Apply(change) ==
    \/ /\ change.kind = "Field"
       /\ guardConfig # None
       /\ guardConfig' = [guardConfig EXCEPT ![change.field] = change.value]
       /\ UNCHANGED <<issuerKey, requireSig>>
    \/ /\ change.kind = "Asset"
       /\ guardConfig' = change.config
       /\ UNCHANGED <<issuerKey, requireSig>>
    \/ /\ change.kind = "IssuerPubKey"
       /\ issuerKey' = change.key
       /\ UNCHANGED <<guardConfig, requireSig>>
    \/ /\ change.kind = "RequireNavSignature"
       /\ requireSig' = change.required
       /\ UNCHANGED <<guardConfig, issuerKey>>

ExecuteConfig(id) ==
    /\ pendingConfig[id] # None
    /\ clock >= pendingConfig[id].executes_at
    /\ Apply(pendingConfig[id].change)
    /\ pendingConfig' = [pendingConfig EXCEPT ![id] = None]
    /\ UNCHANGED <<feedVars, sources, lastStatus, nextId>>

-----------------------------------------------------------------------------
Tick ==
    /\ clock < MaxTime
    /\ clock' = clock + 1
    /\ UNCHANGED <<sources, lastGood, rolling, halted, pendingHalt, lastStatus, settingVars>>

PriceCall ==
    \/ \E value \in Prices, ts \in ReadingTimes :
          \/ \E signer \in Keys : PublishNav(value, ts, signer)
          \/ \E name \in Sources : PublishSource(name, value, ts)
    \/ GuardedPrice
    \/ ConfirmHaltCleared
    \/ \E name \in Sources : RemoveSource(name)

SettingCall ==
    \/ \E c \in GuardConfigs : ConfigureAsset(c)
    \/ \E key \in Keys : ConfigureIssuerKey(key)
    \/ \E required \in SignatureChoices : ConfigureSignatureRequirement(required)
    \/ \E change \in Changes : QueueConfig(change)
    \/ \E id \in ChangeId : CancelConfig(id) \/ ExecuteConfig(id)

GuardNext == PriceCall \/ SettingCall \/ Tick

GuardSpec == GuardInit /\ [][GuardNext]_guardVars

-----------------------------------------------------------------------------
(* Properties *)

(* Every stored value has its type; in particular a price that is ever     *)
(* trusted or held back is positive.                                       *)
GuardTypeOK ==
    /\ clock \in Nat
    /\ sources \in [Sources -> PriceSource \cup {None}]
    /\ lastGood \in PositivePrice \cup {None}
    /\ rolling \in Reference \cup {None}
    /\ halted \in BOOLEAN
    /\ pendingHalt \in PositivePrice \cup {None}
    /\ lastStatus \in PriceStatus \cup {None}
    /\ guardConfig \in AssetGuardConfig \cup {None}
    /\ issuerKey \in Keys \cup {None}
    /\ requireSig \in BOOLEAN \cup {None}
    /\ pendingConfig \in [ChangeId -> [change : ConfigChange, executes_at : Nat] \cup {None}]
    /\ nextId \in 0 .. MaxChanges

(* evaluate and confirm_halt_cleared keep the latch and the value it holds *)
(* back together: a halted asset always has a value to promote and a last  *)
(* good value to answer with, and none is left over after the halt.        *)
HaltHoldsValue ==
    /\ halted <=> (pendingHalt # None)
    /\ halted => lastGood # None
    /\ (lastGood = None) <=> (rolling = None)

(* A slow ramp is caught: however many accepted steps, halts and           *)
(* confirmations there were, the last good value is within the widest      *)
(* window band of the rolling reference, which is never from the future.   *)
DriftBounded ==
    rolling # None =>
        /\ MoveBps(lastGood, rolling.value) <= MaxWindowBand
        /\ rolling.updated <= clock

(* evaluate trusts a new value only when at least two fresh readings stand *)
(* behind it, and neither more than half of them above nor more than half  *)
(* below it.                                                               *)
NoMinorityMovesPrice ==
    [][(~halted /\ lastGood' # lastGood) =>
          LET fresh == FreshSources(sources')
              Count(S) == 2 * Cardinality(S)
          IN  /\ Cardinality(fresh) >= 2
              /\ Count({n \in fresh : sources'[n].value < lastGood'}) <= Cardinality(fresh)
              /\ Count({n \in fresh : sources'[n].value > lastGood'}) <= Cardinality(fresh)
      ]_guardVars

(* No call loosens the rules at once: bands, staleness, window, issuer key *)
(* and an explicit signature requirement change that way only by consuming *)
(* a queued change whose 48 hours are over.                                *)
LooseningWaits ==
    [][(\/ guardConfig # None /\ IsLoosening(guardConfig, guardConfig')
        \/ issuerKey # None /\ issuerKey' # issuerKey
        \/ requireSig = TRUE /\ requireSig' = FALSE) =>
          \E id \in ChangeId :
             /\ pendingConfig[id] # None
             /\ pendingConfig[id].executes_at <= clock
             /\ pendingConfig'[id] = None
      ]_guardVars

(* The bounds the other results are stated with hold of the settings in    *)
(* force and of the ones waiting, so no queued change can break them.      *)
SettingsBounded ==
    /\ guardConfig # None => Bounded(guardConfig)
    /\ \A id \in ChangeId : pendingConfig[id] # None => BoundedChange(pendingConfig[id].change)

(* The inductive invariant behind the theorems. *)
GuardInv ==
    /\ GuardTypeOK
    /\ HaltHoldsValue
    /\ DriftBounded
    /\ SettingsBounded

Feed == INSTANCE BoundedFeed

(* The price guard implements the bounded feed: sources and settings only  *)
(* decide which of its steps is taken.                                     *)
FeedSpec == Feed!Spec
=============================================================================
