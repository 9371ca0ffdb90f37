-------------------------- MODULE PriceGuardProofs --------------------------
(***************************************************************************)
(* The price guard for every number of sources, every price, every setting *)
(* and every queue of changes: its inductive invariant, that it implements *)
(* the bounded feed, that a trusted price has a majority behind it, and    *)
(* that no call loosens the rules at once.                                 *)
(***************************************************************************)
EXTENDS PriceGuard, FiniteSetTheorems, TLAPS

(* The readings a call may evaluate: what is stored, with one replaced. *)
Readings == [Sources -> PriceSource \cup {None}]

(* A move in basis points is a natural number, and staying put is none. *)
LEMMA MoveType ==
    ASSUME NEW v \in PositivePrice, NEW from \in PositivePrice
    PROVE  MoveBps(v, from) \in Nat /\ MoveBps(v, v) = 0
<1>1. BPS_DENOMINATOR \in Nat BY PriceGuardAssumption
<1>2. v \in Nat /\ from \in Nat /\ from > 0 /\ v > 0
  BY PriceGuardAssumption DEF PositivePrice
<1>3. ASSUME NEW move \in Nat
      PROVE  (move * BPS_DENOMINATOR) \div from \in Nat
  <2>1. move * BPS_DENOMINATOR \in Nat BY <1>1, <1>3
  <2> QED BY <2>1, <1>2
<1>4. MoveBps(v, from) \in Nat
  <2>1. (IF v >= from THEN v - from ELSE from - v) \in Nat BY <1>2
  <2> QED BY <2>1, <1>3 DEF MoveBps
<1>5. MoveBps(v, v) = 0
  <2>1. (IF v >= v THEN v - v ELSE v - v) = 0 BY <1>2
  <2>2. 0 * BPS_DENOMINATOR = 0 BY <1>1
  <2>3. 0 \div v = 0 BY <1>2
  <2> QED BY <2>1, <2>2, <2>3 DEF MoveBps
<1> QED BY <1>4, <1>5

(* A fresh reading is a stored one. *)
LEMMA FreshType ==
    ASSUME NEW srcs \in Readings, NEW n \in FreshSources(srcs)
    PROVE  n \in Sources /\ srcs[n].value \in PositivePrice
BY DEF Readings, FreshSources, IsFresh, PriceSource

(* The k-th fresh value is a positive price. *)
LEMMA KthType ==
    ASSUME NEW srcs \in Readings, NEW k, NEW v \in Kth(srcs, k)
    PROVE  v \in PositivePrice
BY FreshType DEF Kth

(* The median of positive prices is one. *)
LEMMA MedianType ==
    ASSUME NEW srcs \in Readings, NEW m \in Median(srcs)
    PROVE  m \in PositivePrice
<1> DEFINE len == Cardinality(FreshSources(srcs))
<1>1. PICK a \in Kth(srcs, (len + 1) \div 2), b \in Kth(srcs, len \div 2 + 1) :
          m = (a + b) \div 2
  BY DEF Median
<1>2. a \in PositivePrice /\ b \in PositivePrice BY KthType
<1>3. MaxPrice \in Nat BY PriceGuardAssumption
<1> QED BY <1>1, <1>2, <1>3 DEF PositivePrice

-----------------------------------------------------------------------------
(* What evaluate does to the feed *)

(* The part of the invariant that evaluate writes. *)
FeedInv ==
    /\ clock \in Nat
    /\ lastGood \in PositivePrice \cup {None}
    /\ rolling \in Reference \cup {None}
    /\ halted \in BOOLEAN
    /\ pendingHalt \in PositivePrice \cup {None}
    /\ lastStatus \in PriceStatus \cup {None}
    /\ HaltHoldsValue
    /\ DriftBounded

(* evaluate either leaves the feed alone, latches a halt on a positive     *)
(* median, or trusts one that is inside the bounds.                        *)
LEMMA EvaluateCases ==
    ASSUME NEW srcs \in Readings, Evaluate(srcs)
    PROVE  \/ UNCHANGED feedVars /\ lastStatus' \in PriceStatus
           \/ \E median \in PositivePrice :
                 /\ median \in Median(srcs)
                 /\ Cardinality(FreshSources(srcs)) >= 2
                 /\ ~halted
                 /\ \/ TooFar(median) /\ LatchHalt(median)
                    \/ ~TooFar(median) /\ AcceptMedian(median)
BY MedianType DEF Evaluate, StayHalted, Degrade, PriceStatus

(* Trusting a median keeps the feed's invariant and is a step of the       *)
(* bounded feed.                                                           *)
LEMMA AcceptStep ==
    ASSUME FeedInv, guardConfig \in AssetGuardConfig, Bounded(guardConfig), ~halted,
           NEW median \in PositivePrice, ~TooFar(median), AcceptMedian(median)
    PROVE  FeedInv' /\ Feed!Accept(median)
<1>1. guardConfig["daily_move_band_bps"] \in Nat /\ guardConfig["window_move_band_bps"] \in Nat
      /\ guardConfig["window_seconds"] \in Nat
  BY DEF AssetGuardConfig, ConfigFields
<1>2. MaxDailyBand \in Nat /\ MaxWindowBand \in Nat /\ MinWindow \in Nat /\ None \notin Reference
      /\ None \notin Nat
  BY PriceGuardAssumption
<1>3. lastGood # None => MoveBps(median, lastGood) <= MaxDailyBand
  <2> SUFFICES ASSUME lastGood # None PROVE MoveBps(median, lastGood) <= MaxDailyBand
    OBVIOUS
  <2>1. MoveBps(median, lastGood) \in Nat BY MoveType DEF FeedInv
  <2>2. ~(MoveBps(median, lastGood) > guardConfig["daily_move_band_bps"]) BY DEF TooFar
  <2>3. guardConfig["daily_move_band_bps"] <= MaxDailyBand BY DEF Bounded
  <2> QED BY <2>1, <2>2, <2>3, <1>1, <1>2
<1>4. rolling # None => MoveBps(median, rolling.value) <= MaxWindowBand
  <2> SUFFICES ASSUME rolling # None PROVE MoveBps(median, rolling.value) <= MaxWindowBand
    OBVIOUS
  <2>1. rolling.value \in PositivePrice BY DEF FeedInv, Reference
  <2>2. MoveBps(median, rolling.value) \in Nat BY <2>1, MoveType
  <2>3. ~(MoveBps(median, rolling.value) > guardConfig["window_move_band_bps"]) BY DEF TooFar
  <2>4. guardConfig["window_move_band_bps"] <= MaxWindowBand BY DEF Bounded
  <2> QED BY <2>2, <2>3, <2>4, <1>1, <1>2
<1>5. \/ rolling # None /\ rolling' = rolling
      \/ /\ rolling # None => clock - rolling.updated >= MinWindow
         /\ rolling' = [value |-> median, updated |-> clock]
  <2>1. CASE rolling = None BY <2>1 DEF AcceptMedian
  <2>2. CASE rolling # None
    <3>1. rolling.updated \in Nat /\ clock \in Nat BY <2>2 DEF FeedInv, Reference
    <3>2. guardConfig["window_seconds"] >= MinWindow BY DEF Bounded
    <3> QED BY <2>2, <3>1, <3>2, <1>1, <1>2 DEF AcceptMedian
  <2> QED BY <2>1, <2>2
<1>6. /\ lastGood' = median /\ halted' = halted /\ pendingHalt' = pendingHalt /\ clock' = clock
      /\ lastStatus' = "Ok"
  BY DEF AcceptMedian
<1>7. Feed!Accept(median)
  <2>1. \A v, w : Feed!StepBps(v, w) = MoveBps(v, w)
    BY DEF Feed!StepBps, Feed!Distance, MoveBps
  <2> QED BY <1>3, <1>4, <1>5, <1>6, <2>1 DEF Feed!Accept, Feed!Rereference
<1>8. rolling' \in Reference /\ rolling' # None
  BY <1>2, <1>5 DEF FeedInv, Reference
<1>9. DriftBounded'
  <2>1. CASE rolling # None /\ rolling' = rolling
    BY <2>1, <1>4, <1>6 DEF DriftBounded, MoveBps, FeedInv
  <2>2. CASE rolling' = [value |-> median, updated |-> clock]
    <3>1. rolling'.value = median /\ rolling'.updated = clock BY <2>2
    <3>2. MoveBps(median, median) = 0 BY MoveType
    <3>3. MoveBps(lastGood', rolling'.value) = 0 BY <1>6, <3>1, <3>2
    <3>4. clock \in Nat BY DEF FeedInv
    <3> QED BY <3>1, <3>3, <3>4, <1>2, <1>6 DEF DriftBounded, MoveBps
  <2> QED BY <1>5, <2>1, <2>2
<1>10. HaltHoldsValue'
  <2>1. median # None BY <1>2 DEF PositivePrice
  <2> QED BY <2>1, <1>6, <1>8 DEF HaltHoldsValue, FeedInv
<1> QED BY <1>6, <1>7, <1>8, <1>9, <1>10 DEF FeedInv, PriceStatus

(* Latching a halt keeps the feed's invariant and is a step of the bounded *)
(* feed.                                                                   *)
LEMMA LatchStep ==
    ASSUME FeedInv, ~halted, NEW median \in PositivePrice, TooFar(median), LatchHalt(median)
    PROVE  FeedInv' /\ Feed!Latch(median)
<1>1. median # None BY PriceGuardAssumption DEF PositivePrice
<1>2. lastGood # None BY DEF TooFar, FeedInv, HaltHoldsValue
<1>3. Feed!Latch(median) BY <1>2 DEF LatchHalt, Feed!Latch
<1>4. HaltHoldsValue' BY <1>1, <1>2 DEF LatchHalt, FeedInv, HaltHoldsValue
<1>5. DriftBounded' BY DEF LatchHalt, FeedInv, DriftBounded, MoveBps
<1> QED BY <1>3, <1>4, <1>5 DEF FeedInv, LatchHalt, PriceStatus

(* Confirming a halt, likewise. *)
LEMMA ConfirmStep ==
    ASSUME FeedInv, ConfirmHaltCleared
    PROVE  FeedInv' /\ (Feed!Confirm \/ UNCHANGED feedVars)
<1>1. CASE pendingHalt = None
  <2>1. UNCHANGED feedVars /\ lastStatus' = lastStatus
    BY <1>1 DEF ConfirmHaltCleared, feedVars, FeedInv, HaltHoldsValue
  <2> QED BY <2>1 DEF FeedInv, feedVars, HaltHoldsValue, DriftBounded, MoveBps
<1>2. CASE pendingHalt # None
  <2>1. pendingHalt \in PositivePrice /\ clock \in Nat BY <1>2 DEF FeedInv
  <2>2. /\ lastGood' = pendingHalt /\ rolling' = [value |-> pendingHalt, updated |-> clock]
        /\ pendingHalt' = None /\ halted' = FALSE /\ clock' = clock /\ lastStatus' = lastStatus
    BY <1>2 DEF ConfirmHaltCleared
  <2>3. Feed!Confirm BY <1>2, <2>2 DEF Feed!Confirm, FeedInv, HaltHoldsValue
  <2>4. rolling' \in Reference BY <2>1, <2>2 DEF Reference
  <2>5. rolling' # None BY <2>4, PriceGuardAssumption
  <2>6. DriftBounded'
    <3>1. MoveBps(pendingHalt, pendingHalt) = 0 BY <2>1, MoveType
    <3>2. rolling'.value = pendingHalt /\ rolling'.updated = clock BY <2>2
    <3>3. MoveBps(lastGood', rolling'.value) = 0 BY <2>2, <3>1, <3>2
    <3> QED BY <2>1, <2>2, <3>2, <3>3, PriceGuardAssumption DEF DriftBounded, MoveBps
  <2> QED BY <2>1, <2>2, <2>3, <2>4, <2>5, <2>6, <1>2 DEF FeedInv, HaltHoldsValue
<1> QED BY <1>1, <1>2

(* Whatever evaluate decides, the feed's invariant is kept and the bounded *)
(* feed takes a step or stays put.                                         *)
LEMMA EvaluateStep ==
    ASSUME FeedInv, guardConfig \in AssetGuardConfig \cup {None}, SettingsBounded,
           NEW srcs \in Readings, Evaluate(srcs)
    PROVE  FeedInv' /\ (Feed!Next \/ UNCHANGED feedVars)
<1>1. CASE UNCHANGED feedVars /\ lastStatus' \in PriceStatus
  BY <1>1 DEF FeedInv, feedVars, HaltHoldsValue, DriftBounded, MoveBps
<1>2. ASSUME NEW median \in PositivePrice, ~halted,
             \/ TooFar(median) /\ LatchHalt(median)
             \/ ~TooFar(median) /\ AcceptMedian(median)
      PROVE  FeedInv' /\ Feed!Next
  <2>1. guardConfig # None BY DEF Evaluate
  <2>2. Bounded(guardConfig) BY <2>1 DEF SettingsBounded
  <2>3. median \in Feed!Values BY DEF PositivePrice, Feed!Values
  <2>4. FeedInv' /\ (Feed!Latch(median) \/ Feed!Accept(median))
    BY <1>2, <2>1, <2>2, AcceptStep, LatchStep
  <2> QED BY <2>3, <2>4 DEF Feed!Next
<1> QED BY <1>1, <1>2, EvaluateCases

-----------------------------------------------------------------------------
(* One call *)

(* The part of the invariant that the settings calls write. *)
SettingInv ==
    /\ guardConfig \in AssetGuardConfig \cup {None}
    /\ issuerKey \in Keys \cup {None}
    /\ requireSig \in BOOLEAN \cup {None}
    /\ pendingConfig \in [ChangeId -> [change : ConfigChange, executes_at : Nat] \cup {None}]
    /\ nextId \in 0 .. MaxChanges
    /\ SettingsBounded

LEMMA InvSplits == GuardInv <=> (FeedInv /\ SettingInv /\ sources \in Readings)
BY DEF GuardInv, FeedInv, SettingInv, GuardTypeOK, Readings

LEMMA InvSplitsNext == GuardInv' <=> (FeedInv' /\ SettingInv' /\ sources' \in Readings)
BY DEF GuardInv, FeedInv, SettingInv, GuardTypeOK, Readings

(* A call that leaves the settings alone keeps their invariant. *)
LEMMA SettingsKept == SettingInv /\ UNCHANGED settingVars => SettingInv'
BY DEF SettingInv, settingVars, SettingsBounded, Bounded, BoundedChange

(* A call that leaves the feed alone keeps its invariant. *)
LEMMA FeedKept ==
    FeedInv /\ UNCHANGED feedVars /\ lastStatus' \in PriceStatus \cup {None} => FeedInv'
BY DEF FeedInv, feedVars, HaltHoldsValue, DriftBounded, MoveBps

(* Every call of a publisher, a reader or the risk desk. *)
LEMMA PriceCallStep ==
    ASSUME GuardInv, PriceCall
    PROVE  GuardInv' /\ (Feed!Next \/ UNCHANGED feedVars) /\ UNCHANGED settingVars
<1> USE InvSplits
<1>1. ASSUME NEW srcs \in Readings, Evaluate(srcs), sources' = srcs, UNCHANGED settingVars
      PROVE  GuardInv' /\ (Feed!Next \/ UNCHANGED feedVars)
  <2>1. FeedInv' /\ (Feed!Next \/ UNCHANGED feedVars)
    BY <1>1, EvaluateStep DEF SettingInv
  <2>2. SettingInv' BY <1>1, SettingsKept
  <2> QED BY <1>1, <2>1, <2>2, InvSplitsNext
<1>2. ASSUME NEW name \in Sources, NEW value \in Prices, NEW ts \in ReadingTimes,
             SaneReading(value, ts), WriteSource(name, value, ts)
      PROVE  GuardInv' /\ (Feed!Next \/ UNCHANGED feedVars) /\ UNCHANGED settingVars
  <2>1. [value |-> value, observed_at |-> ts] \in PriceSource
    <3>1. value \in PositivePrice
      BY <1>2, PriceGuardAssumption DEF SaneReading, PositivePrice
    <3> QED BY <3>1, PriceGuardAssumption DEF PriceSource
  <2>2. [sources EXCEPT ![name] = [value |-> value, observed_at |-> ts]] \in Readings
    BY <2>1 DEF Readings
  <2> QED BY <1>1, <1>2, <2>2 DEF WriteSource
<1>3. ASSUME NEW value \in Prices, NEW ts \in ReadingTimes, NEW signer \in Keys,
             PublishNav(value, ts, signer)
      PROVE  GuardInv' /\ (Feed!Next \/ UNCHANGED feedVars) /\ UNCHANGED settingVars
  BY <1>2, <1>3, PriceGuardAssumption DEF PublishNav
<1>4. ASSUME NEW value \in Prices, NEW ts \in ReadingTimes, NEW name \in Sources,
             PublishSource(name, value, ts)
      PROVE  GuardInv' /\ (Feed!Next \/ UNCHANGED feedVars) /\ UNCHANGED settingVars
  BY <1>2, <1>4 DEF PublishSource
<1>5. ASSUME GuardedPrice
      PROVE  GuardInv' /\ (Feed!Next \/ UNCHANGED feedVars) /\ UNCHANGED settingVars
  <2>1. sources' = sources /\ UNCHANGED settingVars BY <1>5 DEF GuardedPrice
  <2> QED BY <1>1, <1>5, <2>1 DEF GuardedPrice
<1>6. ASSUME ConfirmHaltCleared
      PROVE  GuardInv' /\ (Feed!Next \/ UNCHANGED feedVars) /\ UNCHANGED settingVars
  <2>1. sources' = sources /\ UNCHANGED settingVars BY <1>6 DEF ConfirmHaltCleared
  <2>2. SettingInv' BY <2>1, SettingsKept
  <2>3. FeedInv' /\ (Feed!Next \/ UNCHANGED feedVars) BY <1>6, ConfirmStep DEF Feed!Next
  <2> QED BY <2>1, <2>2, <2>3, InvSplitsNext
<1>7. ASSUME NEW name \in Sources, RemoveSource(name)
      PROVE  GuardInv' /\ (Feed!Next \/ UNCHANGED feedVars) /\ UNCHANGED settingVars
  <2>1. [sources EXCEPT ![name] = None] \in Readings BY DEF Readings
  <2> QED BY <1>1, <1>7, <2>1 DEF RemoveSource
<1> QED BY <1>3, <1>4, <1>5, <1>6, <1>7 DEF PriceCall

(* A queued change inside the bounds leaves the settings inside them. *)
LEMMA ApplyStep ==
    ASSUME SettingInv, NEW change \in ConfigChange, BoundedChange(change), Apply(change)
    PROVE  /\ guardConfig' \in AssetGuardConfig \cup {None}
           /\ guardConfig' # None => Bounded(guardConfig')
           /\ issuerKey' \in Keys \cup {None}
           /\ requireSig' \in BOOLEAN \cup {None}
<1>1. CASE change.kind = "Field"
  <2>1. /\ guardConfig \in AssetGuardConfig
        /\ guardConfig' = [guardConfig EXCEPT ![change.field] = change.value]
        /\ UNCHANGED <<issuerKey, requireSig>>
    BY <1>1 DEF Apply, SettingInv
  <2>2. change.field \in ConfigFields /\ change.value \in Nat BY <1>1 DEF ConfigChange
  <2>3. guardConfig' \in AssetGuardConfig BY <2>1, <2>2 DEF AssetGuardConfig
  <2>4. Bounded(guardConfig)
    BY <2>1, PriceGuardAssumption DEF SettingInv, SettingsBounded
  <2>5. \A f \in ConfigFields :
           guardConfig'[f] = IF f = change.field THEN change.value ELSE guardConfig[f]
    BY <2>1, <2>2 DEF AssetGuardConfig
  <2>6. Bounded(guardConfig')
    BY <1>1, <2>4, <2>5 DEF Bounded, BoundedChange, ConfigFields
  <2> QED BY <2>1, <2>3, <2>6 DEF SettingInv
<1>2. CASE change.kind = "Asset"
  <2>1. guardConfig' = change.config /\ UNCHANGED <<issuerKey, requireSig>> BY <1>2 DEF Apply
  <2>2. change.config \in AssetGuardConfig BY <1>2 DEF ConfigChange
  <2>3. Bounded(change.config) BY <1>2 DEF BoundedChange
  <2> QED BY <2>1, <2>2, <2>3 DEF SettingInv
<1>3. CASE change.kind = "IssuerPubKey"
  <2>1. issuerKey' = change.key /\ UNCHANGED <<guardConfig, requireSig>> BY <1>3 DEF Apply
  <2>2. change.key \in Keys BY <1>3 DEF ConfigChange
  <2> QED BY <2>1, <2>2 DEF SettingInv, SettingsBounded
<1>4. CASE change.kind = "RequireNavSignature"
  <2>1. requireSig' = change.required /\ UNCHANGED <<guardConfig, issuerKey>> BY <1>4 DEF Apply
  <2>2. change.required \in BOOLEAN BY <1>4 DEF ConfigChange
  <2> QED BY <2>1, <2>2 DEF SettingInv, SettingsBounded
<1> QED BY <1>1, <1>2, <1>3, <1>4 DEF Apply

(* Every call of the admin, and the permissionless execution. *)
LEMMA SettingCallStep ==
    ASSUME SettingInv, clock \in Nat, SettingCall
    PROVE  SettingInv'
<1> USE PriceGuardAssumption
<1>1. ASSUME NEW c \in GuardConfigs, ConfigureAsset(c) PROVE SettingInv'
  <2>1. c \in AssetGuardConfig /\ Bounded(c) OBVIOUS
  <2> QED BY <1>1, <2>1 DEF ConfigureAsset, SettingInv, SettingsBounded
<1>2. ASSUME NEW key \in Keys, ConfigureIssuerKey(key) PROVE SettingInv'
  BY <1>2 DEF ConfigureIssuerKey, SettingInv, SettingsBounded
<1>3. ASSUME NEW required \in SignatureChoices, ConfigureSignatureRequirement(required)
      PROVE  SettingInv'
  BY <1>3 DEF ConfigureSignatureRequirement, SettingInv, SettingsBounded
<1>4. ASSUME NEW change \in Changes, QueueConfig(change) PROVE SettingInv'
  <2> DEFINE entry == [change |-> change, executes_at |-> clock + TIMELOCK_DELAY_SECONDS]
  <2>1. change \in ConfigChange /\ BoundedChange(change) OBVIOUS
  <2>2. entry \in [change : ConfigChange, executes_at : Nat] BY <2>1
  <2>3. /\ pendingConfig' = [pendingConfig EXCEPT ![nextId] = entry]
        /\ nextId \in ChangeId /\ nextId' = nextId + 1
        /\ UNCHANGED <<guardConfig, issuerKey, requireSig>>
    BY <1>4 DEF QueueConfig
  <2>4. pendingConfig' \in [ChangeId -> [change : ConfigChange, executes_at : Nat] \cup {None}]
    BY <2>2, <2>3 DEF SettingInv
  <2>5. nextId' \in 0 .. MaxChanges BY <2>3 DEF ChangeId
  <2>6. \A id \in ChangeId : pendingConfig'[id] # None => BoundedChange(pendingConfig'[id].change)
    <3> SUFFICES ASSUME NEW id \in ChangeId, pendingConfig'[id] # None
                 PROVE  BoundedChange(pendingConfig'[id].change)
      OBVIOUS
    <3>1. CASE id = nextId
      <4>1. pendingConfig'[id] = entry BY <2>3, <3>1 DEF SettingInv
      <4>2. entry.change = change OBVIOUS
      <4> QED BY <4>1, <4>2, <2>1
    <3>2. CASE id # nextId
      <4>1. pendingConfig'[id] = pendingConfig[id] BY <2>3, <3>2 DEF SettingInv
      <4> QED BY <4>1 DEF SettingInv, SettingsBounded
    <3> QED BY <3>1, <3>2
  <2> QED BY <2>3, <2>4, <2>5, <2>6 DEF SettingInv, SettingsBounded
<1>5. ASSUME NEW id \in ChangeId, pendingConfig' = [pendingConfig EXCEPT ![id] = None]
      PROVE  /\ pendingConfig' \in
                    [ChangeId -> [change : ConfigChange, executes_at : Nat] \cup {None}]
             /\ \A other \in ChangeId :
                   pendingConfig'[other] # None => BoundedChange(pendingConfig'[other].change)
  BY <1>5 DEF SettingInv, SettingsBounded
<1>6. ASSUME NEW id \in ChangeId, CancelConfig(id) PROVE SettingInv'
  <2>1. /\ pendingConfig' = [pendingConfig EXCEPT ![id] = None]
        /\ UNCHANGED <<guardConfig, issuerKey, requireSig, nextId>>
    BY <1>6 DEF CancelConfig
  <2> QED BY <1>5, <2>1 DEF SettingInv, SettingsBounded
<1>7. ASSUME NEW id \in ChangeId, ExecuteConfig(id) PROVE SettingInv'
  <2> DEFINE change == pendingConfig[id].change
  <2>1. change \in ConfigChange /\ BoundedChange(change) /\ Apply(change)
    BY <1>7 DEF ExecuteConfig, SettingInv, SettingsBounded
  <2>2. pendingConfig' = [pendingConfig EXCEPT ![id] = None] /\ nextId' = nextId
    BY <1>7 DEF ExecuteConfig
  <2> HIDE DEF change
  <2>3. /\ guardConfig' \in AssetGuardConfig \cup {None}
        /\ guardConfig' # None => Bounded(guardConfig')
        /\ issuerKey' \in Keys \cup {None}
        /\ requireSig' \in BOOLEAN \cup {None}
    BY <2>1, ApplyStep
  <2> QED BY <1>5, <2>2, <2>3 DEF SettingInv, SettingsBounded
<1> QED BY <1>1, <1>2, <1>3, <1>4, <1>6, <1>7 DEF SettingCall

(* The settings calls leave the readings and the feed alone. *)
LEMMA SettingCallFrame ==
    ASSUME FeedInv, SettingCall
    PROVE  UNCHANGED <<feedVars, sources>> /\ lastStatus' \in PriceStatus \cup {None}
BY DEF SettingCall, ConfigureAsset, ConfigureIssuerKey, ConfigureSignatureRequirement, QueueConfig,
       CancelConfig, ExecuteConfig, FeedInv, PriceStatus

(* Time passing ages the readings and the reference, nothing else. *)
LEMMA TickStep ==
    ASSUME GuardInv, Tick
    PROVE  GuardInv' /\ Feed!Next
<1>1. FeedInv /\ SettingInv /\ sources \in Readings BY InvSplits
<1>2. SettingInv' BY <1>1, SettingsKept DEF Tick
<1>3. FeedInv'
  <2>1. /\ clock' = clock + 1 /\ clock \in Nat
        /\ UNCHANGED <<lastGood, rolling, halted, pendingHalt, lastStatus>>
    BY <1>1 DEF Tick, FeedInv
  <2>2. HaltHoldsValue' BY <1>1, <2>1 DEF FeedInv, HaltHoldsValue
  <2>3. DriftBounded' BY <1>1, <2>1 DEF FeedInv, DriftBounded, MoveBps, Reference
  <2> QED BY <1>1, <2>1, <2>2, <2>3 DEF FeedInv
<1>4. Feed!Next BY DEF Tick, Feed!Next, Feed!Advance
<1> QED BY <1>1, <1>2, <1>3, <1>4, InvSplitsNext DEF Tick

(* One step of the guard keeps its invariant and is a step, or none, of    *)
(* the bounded feed.                                                       *)
LEMMA GuardStep ==
    ASSUME GuardInv, [GuardNext]_guardVars
    PROVE  GuardInv' /\ [Feed!Next]_(Feed!feedVars)
<1>1. CASE PriceCall BY <1>1, PriceCallStep DEF feedVars, Feed!feedVars
<1>2. CASE SettingCall
  <2>1. FeedInv /\ SettingInv /\ sources \in Readings BY InvSplits
  <2>2. UNCHANGED <<feedVars, sources>> /\ lastStatus' \in PriceStatus \cup {None}
    BY <1>2, <2>1, SettingCallFrame
  <2>3. FeedInv' BY <2>1, <2>2, FeedKept
  <2>4. SettingInv' BY <1>2, <2>1, SettingCallStep DEF FeedInv
  <2> QED BY <2>1, <2>2, <2>3, <2>4, InvSplitsNext DEF feedVars, Feed!feedVars
<1>3. CASE Tick BY <1>3, TickStep
<1>4. CASE UNCHANGED guardVars
  <2>1. FeedInv /\ SettingInv /\ sources \in Readings BY InvSplits
  <2>2. UNCHANGED feedVars /\ UNCHANGED settingVars /\ sources' = sources
        /\ lastStatus' = lastStatus
    BY <1>4 DEF guardVars
  <2>3. FeedInv' BY <2>1, <2>2, FeedKept DEF FeedInv
  <2>4. SettingInv' BY <2>1, <2>2, SettingsKept
  <2> QED BY <2>1, <2>2, <2>3, <2>4, InvSplitsNext DEF feedVars, Feed!feedVars
<1> QED BY <1>1, <1>2, <1>3, <1>4 DEF GuardNext

LEMMA GuardStart == GuardInit => GuardInv
<1> SUFFICES ASSUME GuardInit PROVE GuardInv
  OBVIOUS
<1>1. nextId \in 0 .. MaxChanges BY PriceGuardAssumption DEF GuardInit
<1>2. GuardTypeOK BY <1>1 DEF GuardInit, GuardTypeOK
<1>3. HaltHoldsValue BY DEF GuardInit, HaltHoldsValue
<1>4. DriftBounded BY DEF GuardInit, DriftBounded
<1>5. SettingsBounded BY DEF GuardInit, SettingsBounded
<1> QED BY <1>2, <1>3, <1>4, <1>5 DEF GuardInv

-----------------------------------------------------------------------------
(* The results *)

(* Every call of publisher, reader, risk desk and admin keeps the price    *)
(* guard's inductive invariant.                                            *)
THEOREM GuardInvariantHolds == GuardSpec => []GuardInv
<1>1. GuardInv /\ [GuardNext]_guardVars => GuardInv' BY GuardStep
<1> QED BY GuardStart, <1>1, PTL DEF GuardSpec

(* Every stored value keeps its type: a price that is trusted or held back *)
(* is positive, for any number of sources.                                 *)
THEOREM GuardTypesHold == GuardSpec => []GuardTypeOK
<1>1. GuardInv => GuardTypeOK BY DEF GuardInv
<1> QED BY GuardInvariantHolds, <1>1, PTL

(* A halted asset always holds back a value and has one to answer with.    *)
THEOREM HaltHolds == GuardSpec => []HaltHoldsValue
<1>1. GuardInv => HaltHoldsValue BY DEF GuardInv
<1> QED BY GuardInvariantHolds, <1>1, PTL

(* However many small steps are accepted, the last good value stays within *)
(* the widest window band of the rolling reference.                        *)
THEOREM DriftHolds == GuardSpec => []DriftBounded
<1>1. GuardInv => DriftBounded BY DEF GuardInv
<1> QED BY GuardInvariantHolds, <1>1, PTL

(* The price guard implements the bounded feed it is meant to be. *)
THEOREM GuardImplementsFeed == GuardSpec => FeedSpec
<1>1. GuardInit => Feed!Init BY DEF GuardInit, Feed!Init
<1>2. GuardInv /\ [GuardNext]_guardVars => [Feed!Next]_(Feed!feedVars) BY GuardStep
<1> QED BY <1>1, <1>2, GuardInvariantHolds, PTL DEF GuardSpec, FeedSpec, Feed!Spec

-----------------------------------------------------------------------------
(* A majority behind every trusted price *)

(* At most half of the fresh readings lie below a median, and at most half *)
(* above it: the two middle values are in order, fewer than len \div 2 + 1 *)
(* readings are below the upper one, and at least (len + 1) \div 2 do not  *)
(* exceed the lower one.                                                   *)
LEMMA MedianIsMiddle ==
    ASSUME NEW srcs \in Readings, NEW m \in Median(srcs)
    PROVE  LET fresh == FreshSources(srcs)
           IN  /\ 2 * Cardinality({n \in fresh : srcs[n].value < m}) <= Cardinality(fresh)
               /\ 2 * Cardinality({n \in fresh : srcs[n].value > m}) <= Cardinality(fresh)
<1> DEFINE fresh == FreshSources(srcs)
           len == Cardinality(fresh)
           Below(v) == {n \in fresh : srcs[n].value < v}
           UpTo(v) == {n \in fresh : srcs[n].value <= v}
           Above(v) == {n \in fresh : srcs[n].value > v}
<1>1. IsFiniteSet(fresh)
  <2>1. fresh \subseteq Sources BY DEF FreshSources
  <2> QED BY <2>1, FS_Subset, PriceGuardAssumption
<1>2. len \in Nat BY <1>1, FS_CardinalityType
<1>3. PICK a \in Kth(srcs, (len + 1) \div 2), b \in Kth(srcs, len \div 2 + 1) :
          m = (a + b) \div 2
  BY DEF Median
<1>4. a \in Nat /\ b \in Nat
  BY KthType, PriceGuardAssumption DEF PositivePrice
<1>5. \A n \in fresh : srcs[n].value \in Nat
  BY FreshType, PriceGuardAssumption DEF PositivePrice
<1>6. /\ (len + 1) \div 2 <= Cardinality(UpTo(a))
      /\ Cardinality(Below(a)) < (len + 1) \div 2
      /\ Cardinality(Below(b)) < len \div 2 + 1
      /\ len \div 2 + 1 <= Cardinality(UpTo(b))
  BY DEF Kth
<1>7. \A S \in SUBSET fresh : IsFiniteSet(S) /\ Cardinality(S) \in Nat
  BY <1>1, FS_Subset, FS_CardinalityType
<1> HIDE DEF fresh, len
<1>8. a <= b
  <2> SUFFICES ASSUME b < a PROVE FALSE
    BY <1>4
  <2>1. UpTo(b) \subseteq Below(a) BY <1>4, <1>5
  <2>2. Below(a) \in SUBSET fresh /\ UpTo(b) \in SUBSET fresh OBVIOUS
  <2>3. Cardinality(UpTo(b)) <= Cardinality(Below(a)) BY <2>1, <2>2, <1>7, FS_Subset
  <2>4. Cardinality(UpTo(b)) \in Nat /\ Cardinality(Below(a)) \in Nat BY <2>2, <1>7
  <2> HIDE DEF UpTo, Below
  <2> QED BY <1>2, <1>6, <2>3, <2>4
<1>9. a <= m /\ m <= b /\ m \in Nat BY <1>3, <1>4, <1>8
<1>10. 2 * Cardinality(Below(m)) <= len
  <2>1. Below(m) \subseteq Below(b) BY <1>4, <1>5, <1>9
  <2>2. Below(b) \in SUBSET fresh /\ Below(m) \in SUBSET fresh OBVIOUS
  <2>3. Cardinality(Below(m)) <= Cardinality(Below(b)) BY <2>1, <2>2, <1>7, FS_Subset
  <2>4. Cardinality(Below(m)) \in Nat /\ Cardinality(Below(b)) \in Nat BY <2>2, <1>7
  <2> HIDE DEF UpTo, Below
  <2> QED BY <1>2, <1>6, <2>3, <2>4
<1>11. 2 * Cardinality(Above(m)) <= len
  <2>1. Above(m) \subseteq fresh \ UpTo(a) BY <1>4, <1>5, <1>9
  <2>2. /\ UpTo(a) \in SUBSET fresh /\ Above(m) \in SUBSET fresh
        /\ fresh \ UpTo(a) \in SUBSET fresh
    OBVIOUS
  <2>3. Cardinality(Above(m)) <= Cardinality(fresh \ UpTo(a))
    BY <2>1, <2>2, <1>7, FS_Subset
  <2>4. Cardinality(fresh \ UpTo(a)) = len - Cardinality(UpTo(a))
    <3>1. fresh \cap UpTo(a) = UpTo(a) BY <2>2
    <3>2. Cardinality(fresh \ UpTo(a)) = Cardinality(fresh) - Cardinality(fresh \cap UpTo(a))
      BY <1>1, FS_Difference
    <3> QED BY <3>1, <3>2 DEF len
  <2>5. Cardinality(Above(m)) \in Nat /\ Cardinality(UpTo(a)) \in Nat BY <2>2, <1>7
  <2> HIDE DEF UpTo, Above
  <2> QED BY <1>2, <1>6, <2>3, <2>4, <2>5
<1> QED BY <1>10, <1>11 DEF fresh, len

(* A call moves the last good value of an asset that is not halted only to *)
(* a median of at least two fresh readings.                                *)
LEMMA OnlyMediansTrusted ==
    ASSUME GuardInv, [GuardNext]_guardVars, ~halted, lastGood' # lastGood
    PROVE  /\ sources' \in Readings
           /\ lastGood' \in Median(sources')
           /\ Cardinality(FreshSources(sources')) >= 2
           /\ UNCHANGED <<clock, guardConfig>>
<1>1. FeedInv /\ SettingInv /\ sources \in Readings BY InvSplits
<1>2. GuardInv' BY GuardStep
<1>3. sources' \in Readings BY <1>2, InvSplitsNext
<1>4. ASSUME NEW srcs \in Readings, Evaluate(srcs), sources' = srcs, UNCHANGED settingVars
      PROVE  /\ lastGood' \in Median(srcs)
             /\ Cardinality(FreshSources(srcs)) >= 2
             /\ UNCHANGED <<clock, guardConfig>>
  BY <1>4, EvaluateCases DEF feedVars, settingVars, LatchHalt, AcceptMedian
<1>5. CASE PriceCall
  <2>1. ~ConfirmHaltCleared
    BY <1>1 DEF ConfirmHaltCleared, FeedInv, HaltHoldsValue
  <2>2. Evaluate(sources') /\ UNCHANGED settingVars
    BY <1>5, <2>1 DEF PriceCall, PublishNav, PublishSource, WriteSource, RemoveSource, GuardedPrice
  <2> QED BY <1>3, <1>4, <2>2
<1>6. CASE SettingCall BY <1>1, <1>6, SettingCallFrame DEF feedVars
<1>7. CASE Tick BY <1>7 DEF Tick
<1>8. CASE UNCHANGED guardVars BY <1>8 DEF guardVars, feedVars
<1> QED BY <1>5, <1>6, <1>7, <1>8 DEF GuardNext

(* Outside a human's confirmation the price only moves to a value with at  *)
(* least two fresh readings behind it and no majority on either side.      *)
THEOREM MajorityHolds == GuardSpec => NoMinorityMovesPrice
<1> DEFINE Trusted ==
        (~halted /\ lastGood' # lastGood) =>
          LET fresh == FreshSources(sources')
              Count(S) == 2 * Cardinality(S)
          IN  /\ Cardinality(fresh) >= 2
              /\ Count({n \in fresh : sources'[n].value < lastGood'}) <= Cardinality(fresh)
              /\ Count({n \in fresh : sources'[n].value > lastGood'}) <= Cardinality(fresh)
<1>1. GuardInv /\ [GuardNext]_guardVars => [Trusted]_guardVars
  BY OnlyMediansTrusted, MedianIsMiddle
<1> QED BY <1>1, GuardInvariantHolds, PTL DEF GuardSpec, NoMinorityMovesPrice

-----------------------------------------------------------------------------
(* Loosening waits *)

(* Settings are no looser than themselves. *)
LEMMA NotLooserThanItself ==
    ASSUME NEW c \in AssetGuardConfig
    PROVE  ~IsLoosening(c, c)
BY DEF IsLoosening, AssetGuardConfig, ConfigFields

(* No call loosens bands, staleness, window, key or signature requirement  *)
(* except by consuming a queued change whose timelock is over.             *)
THEOREM LooseningHolds == GuardSpec => LooseningWaits
<1> DEFINE Loosens ==
        \/ guardConfig # None /\ IsLoosening(guardConfig, guardConfig')
        \/ issuerKey # None /\ issuerKey' # issuerKey
        \/ requireSig = TRUE /\ requireSig' = FALSE
      Consumed(id) ==
        /\ pendingConfig[id] # None
        /\ pendingConfig[id].executes_at <= clock
        /\ pendingConfig'[id] = None
<1>1. ASSUME GuardInv, UNCHANGED <<guardConfig, issuerKey, requireSig>> PROVE ~Loosens
  BY <1>1, NotLooserThanItself DEF GuardInv, GuardTypeOK
<1>2. ASSUME GuardInv, GuardNext, Loosens PROVE \E id \in ChangeId : Consumed(id)
  <2>1. ASSUME NEW c \in GuardConfigs, ConfigureAsset(c) PROVE FALSE
    BY <1>2, <2>1 DEF ConfigureAsset
  <2>2. ASSUME NEW key \in Keys, ConfigureIssuerKey(key) PROVE FALSE
    <3>1. UNCHANGED <<guardConfig, requireSig>> BY <2>2 DEF ConfigureIssuerKey
    <3>2. ~(issuerKey # None /\ issuerKey' # issuerKey) BY <2>2 DEF ConfigureIssuerKey
    <3> QED BY <1>2, <3>1, <3>2, NotLooserThanItself DEF GuardInv, GuardTypeOK
  <2>3. ASSUME NEW required \in SignatureChoices, ConfigureSignatureRequirement(required)
        PROVE  FALSE
    <3>1. UNCHANGED <<guardConfig, issuerKey>> BY <2>3 DEF ConfigureSignatureRequirement
    <3>2. ~(requireSig = TRUE /\ requireSig' = FALSE)
      BY <2>3 DEF ConfigureSignatureRequirement
    <3> QED BY <1>2, <3>1, <3>2, NotLooserThanItself DEF GuardInv, GuardTypeOK
  <2>4. ASSUME NEW id \in ChangeId, ExecuteConfig(id) PROVE Consumed(id)
    <3>1. pendingConfig[id] # None /\ clock >= pendingConfig[id].executes_at
      BY <2>4 DEF ExecuteConfig
    <3>2. pendingConfig[id].executes_at \in Nat /\ clock \in Nat
      BY <1>2, <3>1 DEF GuardInv, GuardTypeOK
    <3>3. pendingConfig'[id] = None BY <1>2, <2>4 DEF ExecuteConfig, GuardInv, GuardTypeOK
    <3> QED BY <3>1, <3>2, <3>3
  <2>5. ASSUME \/ PriceCall \/ Tick
               \/ \E change \in Changes : QueueConfig(change)
               \/ \E id \in ChangeId : CancelConfig(id)
        PROVE  FALSE
    <3>1. UNCHANGED <<guardConfig, issuerKey, requireSig>>
      BY <1>2, <2>5, PriceCallStep DEF settingVars, Tick, QueueConfig, CancelConfig
    <3> QED BY <1>1, <1>2, <3>1
  <2> QED BY <1>2, <2>1, <2>2, <2>3, <2>4, <2>5 DEF GuardNext, SettingCall
<1>3. GuardInv /\ [GuardNext]_guardVars =>
          [Loosens => \E id \in ChangeId : Consumed(id)]_guardVars
  BY <1>2
<1> QED BY <1>3, GuardInvariantHolds, PTL DEF GuardSpec, LooseningWaits
=============================================================================
