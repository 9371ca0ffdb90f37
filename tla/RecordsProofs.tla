--------------------------- MODULE RecordsProofs ----------------------------
(***************************************************************************)
(* Theorems about the records the services keep, for any number of         *)
(* requests, rows, subscriptions, nodes and faults: the compliance gate    *)
(* holds a match until a person clears it and refuses a stale list, the    *)
(* delivery table of the outbox tells the truth, no contract event is lost *)
(* behind the cursor of the indexer, and quiet books match the chain.      *)
(***************************************************************************)
EXTENDS Compliance, Webhooks, Indexer, Reconciliation, FiniteSums, SequenceTheorems, TLAPS

-----------------------------------------------------------------------------
(* The compliance gate *)

GateSteps == {"outside", "latest", "collect", "load", "record", "passed"}

GateRequest == [at : GateSteps, now : Nat, began : Nat, reviewed : SUBSET Entries,
                age : Int, found : SUBSET Entries]

CheckRow == [result : {"match", "clear"}, matches : SUBSET Entries, manual : BOOLEAN,
          checkedAt : Nat, listAge : Int \cup {None}, alone : BOOLEAN]

ComplianceTypes ==
    /\ time \in Nat
    /\ register \in SUBSET Entries
    /\ list \in (SUBSET Entries) \cup {None}
    /\ loadedAt \in Nat
    /\ checks \in Seq(CheckRow)
    /\ gate \in [GateRequests -> GateRequest]

(* Nobody is ahead of the clock, and the age a waiting request has read    *)
(* bounds the age of the copy when it entered.                             *)
RequestsInOrder ==
    /\ loadedAt <= time
    /\ \A r \in GateRequests :
         /\ gate[r].now <= time
         /\ gate[r].began <= Len(checks)
         /\ gate[r].at = "load" => gate[r].now - loadedAt <= gate[r].age
         /\ gate[r].at = "record" => gate[r].age < MAX_AGE

RowsInOrder ==
    \A i \in 1 .. Len(checks) :
        /\ ~ checks[i].manual => checks[i].listAge \in Int /\ checks[i].listAge < MAX_AGE
        /\ checks[i].alone => \A j \in 1 .. i - 1 : checks[j].checkedAt < checks[i].checkedAt

(* The i-th check is a match that was recorded alone and that no person    *)
(* has cleared.                                                            *)
Standing(i) == checks[i].result = "match" /\ checks[i].alone /\ ~ ClearedAfter(i)

StandingIsLatest ==
    \A i \in 1 .. Len(checks) : Standing(i) =>
        /\ i = Len(checks)
        /\ \A r \in GateRequests :
             /\ gate[r].at \in {"outside", "latest", "passed"}
             /\ gate[r].at = "passed" => gate[r].began < i

ComplianceInv == ComplianceTypes /\ RequestsInOrder /\ RowsInOrder /\ StandingIsLatest

(* A request that is not in the gate is a request.                         *)
LEMMA OutsideType == Outside \in GateRequest /\ Outside.at = "outside" /\ Outside.now = 0
                     /\ Outside.began = 0
  BY DEF Outside, GateRequest, GateSteps

(* A request that has passed remembers only when it entered.               *)
LEMMA PassedType ==
    ASSUME NEW q \in GateRequest
    PROVE  /\ Passed(q) \in GateRequest
           /\ Passed(q).at = "passed"
           /\ Passed(q).now = 0
           /\ Passed(q).began = q.began
<1>1. q.began \in Nat /\ "passed" \in GateSteps
  BY DEF GateRequest, GateSteps
<1>2. QED
  BY <1>1, OutsideType DEF Passed, GateRequest

(* No check has been recorded and no request is in the gate.               *)
LEMMA ComplianceInvInit == ComplianceInit => ComplianceInv
<1> SUFFICES ASSUME ComplianceInit PROVE ComplianceInv
  OBVIOUS
<1>1. checks \in Seq(CheckRow) /\ Len(checks) = 0
  BY DEF ComplianceInit
<1>2. \A r \in GateRequests : gate[r] = Outside
  BY DEF ComplianceInit
<1>3. ComplianceTypes
  <2>1. gate \in [GateRequests -> GateRequest]
    BY OutsideType DEF ComplianceInit
  <2>2. QED
    BY <1>1, <2>1 DEF ComplianceInit, ComplianceTypes
<1>4. RequestsInOrder
  BY <1>1, <1>2, OutsideType DEF ComplianceInit, RequestsInOrder
<1>5. QED
  BY <1>1, <1>3, <1>4 DEF ComplianceInv, RowsInOrder, StandingIsLatest

(* Requests that move while the rows stay keep it when a standing match    *)
(* turns them away.                                                        *)
LEMMA GateMoves ==
    ASSUME ComplianceInv, checks' = checks, ComplianceTypes', RequestsInOrder',
           \A i \in 1 .. Len(checks), r \in GateRequests : Standing(i) =>
               gate'[r].at \in {"outside", "latest"} \/ gate'[r] = gate[r]
    PROVE  ComplianceInv'
<1>1. RowsInOrder'
  BY DEF ComplianceInv, RowsInOrder
<1>2. \A i \in 1 .. Len(checks) : Standing(i)' => Standing(i)
  BY DEF Standing, ClearedAfter
<1>3. StandingIsLatest'
  BY <1>2 DEF ComplianceInv, StandingIsLatest
<1>4. QED
  BY <1>1, <1>3 DEF ComplianceInv

(* One request moves on and nothing else changes.                          *)
LEMMA OneMoves ==
    ASSUME ComplianceInv, NEW r \in GateRequests, NEW step \in GateRequest, Gate(r, step),
           UNCHANGED <<time, register, list, loadedAt, checks>>,
           step.now <= time, step.began <= Len(checks),
           step.at = "load" => step.now - loadedAt <= step.age,
           step.at = "record" => step.age < MAX_AGE,
           \A i \in 1 .. Len(checks) : Standing(i) => step.at \in {"outside", "latest"}
    PROVE  ComplianceInv'
<1>1. ComplianceTypes'
  BY DEF ComplianceInv, ComplianceTypes, Gate
<1>2. \A q \in GateRequests : gate'[q] = IF q = r THEN step ELSE gate[q]
  BY DEF ComplianceInv, ComplianceTypes, Gate
<1>3. RequestsInOrder'
  BY <1>2 DEF ComplianceInv, RequestsInOrder
<1>4. QED
  BY <1>1, <1>2, <1>3, GateMoves

(* A request that enters is turned away or reads the clock.                *)
LEMMA EnterGateKeeps ==
    ASSUME ComplianceInv, NEW r \in GateRequests, EnterGate(r)
    PROVE  ComplianceInv'
<1> DEFINE in == [Outside EXCEPT !.at = "latest", !.now = time, !.began = Len(checks)]
<1>1. time \in Nat /\ Len(checks) \in Nat
  BY DEF ComplianceInv, ComplianceTypes
<1>2. in \in GateRequest /\ in.at = "latest" /\ in.now = time /\ in.began = Len(checks)
  <2>1. "latest" \in GateSteps
    BY DEF GateSteps
  <2>2. QED
    BY <1>1, <2>1, OutsideType DEF GateRequest
<1>3. CASE Gate(r, in)
  <2> HIDE DEF in
  <2> QED
    BY <1>1, <1>2, <1>3, OneMoves DEF EnterGate
<1>4. CASE Gate(r, Outside)
  BY <1>1, <1>4, OutsideType, OneMoves DEF EnterGate
<1>5. QED
  BY <1>3, <1>4 DEF EnterGate

(* The latest row by date is the standing match when there is one, so a    *)
(* request that reads it is turned away.                                   *)
LEMMA ReadLatestKeeps ==
    ASSUME ComplianceInv, NEW r \in GateRequests, ReadLatest(r)
    PROVE  ComplianceInv'
<1> DEFINE again == [gate[r] EXCEPT !.at = "collect"]
<1>1. gate[r] \in GateRequest /\ gate[r].now <= time /\ gate[r].began <= Len(checks)
      /\ time \in Nat /\ Len(checks) \in Nat /\ checks \in Seq(CheckRow)
  BY DEF ComplianceInv, ComplianceTypes, RequestsInOrder
<1>2. again \in GateRequest /\ again.at = "collect" /\ again.now = gate[r].now
      /\ again.began = gate[r].began
  BY <1>1 DEF GateRequest, GateSteps
<1>3. UNCHANGED <<time, register, list, loadedAt, checks>>
  BY DEF ReadLatest
<1>4. \A i \in Latest, k \in 1 .. Len(checks) : Standing(k) => i = k
  <2> SUFFICES ASSUME NEW i \in Latest, NEW k \in 1 .. Len(checks), Standing(k) PROVE i = k
    OBVIOUS
  <2>1. k = Len(checks) /\ \A j \in 1 .. k - 1 : checks[j].checkedAt < checks[k].checkedAt
    BY DEF ComplianceInv, StandingIsLatest, RowsInOrder, Standing
  <2>2. i \in 1 .. Len(checks) /\ checks[k].checkedAt <= checks[i].checkedAt
    BY <1>1 DEF Latest
  <2>3. checks[i].checkedAt \in Nat /\ checks[k].checkedAt \in Nat
    <3>1. checks[i] \in CheckRow /\ checks[k] \in CheckRow
      BY <1>1, <2>2
    <3>2. QED
      BY <3>1 DEF CheckRow
  <2>4. QED
    BY <2>1, <2>2, <2>3
<1> HIDE DEF again
<1>5. CASE checks = << >> /\ Gate(r, again)
  BY <1>1, <1>2, <1>3, <1>5, OneMoves
<1>6. ASSUME NEW i \in Latest, ByLatest(r, i) PROVE ComplianceInv'
  <2>1. i \in 1 .. Len(checks)
    BY <1>1 DEF Latest
  <2>2. CASE checks[i].result = "match"
    <3>1. Gate(r, Outside)
      BY <1>6, <2>2 DEF ByLatest
    <3>2. QED
      BY <1>1, <1>3, <3>1, OutsideType, OneMoves
  <2>3. CASE checks[i].result # "match"
    <3>1. \A k \in 1 .. Len(checks) : ~ Standing(k)
      BY <1>4, <2>3 DEF Standing
    <3>2. Gate(r, Passed(gate[r])) \/ Gate(r, again)
      BY <1>6, <2>3 DEF ByLatest, again
    <3>3. CASE Gate(r, Passed(gate[r]))
      BY <1>1, <1>3, <3>1, <3>3, PassedType, OneMoves
    <3>4. CASE Gate(r, again)
      BY <1>1, <1>2, <1>3, <3>1, <3>4, OneMoves
    <3>5. QED
      BY <3>2, <3>3, <3>4
  <2>4. QED
    BY <2>2, <2>3
<1>7. QED
  BY <1>5, <1>6 DEF ReadLatest, again

(* What people have reviewed is a set of entries.                          *)
LEMMA ReviewedType ==
    ASSUME ComplianceTypes
    PROVE  Reviewed \in SUBSET Entries
<1>1. \A m \in Range(checks) : m.matches \in SUBSET Entries
  <2>1. \A i \in DOMAIN checks : checks[i] \in CheckRow
    BY DEF ComplianceTypes
  <2>2. QED
    BY <2>1 DEF Range, CheckRow
<1>2. \A c : ReviewedBy(c) \in SUBSET Entries
  BY <1>1 DEF ReviewedBy
<1>3. QED
  BY <1>2 DEF Reviewed

(* A request screened with the copy in memory has the age of that copy at  *)
(* the time it entered.                                                    *)
LEMMA ScreenedType ==
    ASSUME ComplianceInv, NEW r \in GateRequests, list # None
    PROVE  /\ Screened(r) \in GateRequest
           /\ Screened(r).at = "record"
           /\ Screened(r).now = gate[r].now
           /\ Screened(r).began = gate[r].began
           /\ Screened(r).age = gate[r].now - loadedAt
<1>1. /\ gate[r] \in GateRequest /\ list \in SUBSET Entries
      /\ "record" \in GateSteps /\ loadedAt \in Nat
  BY DEF ComplianceInv, ComplianceTypes, GateSteps
<1>2. gate[r].now - loadedAt \in Int
  BY <1>1 DEF GateRequest
<1>3. QED
  BY <1>1, <1>2 DEF Screened, GateRequest

(* A request between its read of the rows and its record leaves no match   *)
(* standing.                                                               *)
LEMMA NoneStands ==
    ASSUME ComplianceInv, NEW r \in GateRequests, gate[r].at \in {"collect", "load", "record"},
           NEW i \in 1 .. Len(checks)
    PROVE  ~ Standing(i)
  BY DEF ComplianceInv, StandingIsLatest

(* A request uses the copy only while it is younger than the refresh       *)
(* interval, or waits for a new one.                                       *)
LEMMA CollectReviewedKeeps ==
    ASSUME ComplianceInv, NEW r \in GateRequests, CollectReviewed(r)
    PROVE  ComplianceInv'
<1> DEFINE age == time - loadedAt
           now == [Screened(r) EXCEPT !.reviewed = Reviewed]
           wait == [gate[r] EXCEPT !.at = "load", !.reviewed = Reviewed, !.age = age]
<1>1. gate[r] \in GateRequest /\ gate[r].now <= time /\ gate[r].began <= Len(checks)
      /\ time \in Nat /\ loadedAt \in Nat /\ loadedAt <= time /\ gate[r].now \in Nat
  BY DEF ComplianceInv, ComplianceTypes, RequestsInOrder, GateRequest
<1>2. UNCHANGED <<time, register, list, loadedAt, checks>> /\ gate[r].at = "collect"
  BY DEF CollectReviewed
<1>3. \A i \in 1 .. Len(checks) : ~ Standing(i)
  BY <1>2, NoneStands
<1>4. Reviewed \in SUBSET Entries
  BY ReviewedType DEF ComplianceInv
<1>5. CASE list # None /\ age < REFRESH /\ Gate(r, now)
  <2>1. /\ now \in GateRequest /\ now.at = "record" /\ now.now = gate[r].now
        /\ now.began = gate[r].began /\ now.age = gate[r].now - loadedAt
    <3> HIDE DEF Reviewed
    <3> QED
      BY <1>4, <1>5, ScreenedType DEF GateRequest, GateSteps
  <2>2. now.age < MAX_AGE
    BY <1>1, <1>5, <2>1, ComplianceAssumption
  <2> HIDE DEF now
  <2>3. QED
    BY <1>1, <1>2, <1>3, <1>5, <2>1, <2>2, OneMoves
<1>6. CASE Gate(r, wait)
  <2>1. /\ wait \in GateRequest /\ wait.at = "load" /\ wait.now = gate[r].now
        /\ wait.began = gate[r].began /\ wait.age = time - loadedAt
    <3>1. "load" \in GateSteps /\ age \in Int
      BY <1>1 DEF GateSteps
    <3>2. QED
      BY <1>1, <1>4, <3>1 DEF GateRequest
  <2> HIDE DEF wait
  <2>2. QED
    BY <1>1, <1>2, <1>3, <1>6, <2>1, OneMoves
<1>7. QED
  BY <1>5, <1>6 DEF CollectReviewed

(* Every request that waited uses the list just loaded.                    *)
LEMMA ListLoadsKeeps ==
    ASSUME ComplianceInv, ListLoads
    PROVE  ComplianceInv'
<1> DEFINE done(r) == [gate[r] EXCEPT !.at = "record", !.found = list', !.age = gate[r].now - time]
<1>1. list' \in SUBSET Entries
  BY DEF ListLoads, Parsed, ComplianceInv, ComplianceTypes
<1>2. \A r \in GateRequests :
         /\ gate[r] \in GateRequest /\ gate[r].now <= time /\ gate[r].began <= Len(checks)
         /\ gate[r].now \in Nat
  BY DEF ComplianceInv, ComplianceTypes, RequestsInOrder, GateRequest
<1>3. time \in Nat
  BY DEF ComplianceInv, ComplianceTypes
<1>4. \A r \in GateRequests :
         /\ done(r) \in GateRequest /\ done(r).at = "record" /\ done(r).now = gate[r].now
         /\ done(r).began = gate[r].began /\ done(r).age = gate[r].now - time
  <2>1. "record" \in GateSteps /\ \A r \in GateRequests : gate[r].now - time \in Int
    BY <1>2, <1>3 DEF GateSteps
  <2>2. QED
    BY <1>1, <1>2, <2>1 DEF GateRequest
<1> HIDE DEF done
<1>5. gate' = [r \in GateRequests |-> IF r \in LoadWaiters THEN done(r) ELSE gate[r]]
  BY DEF ListLoads, done
<1>6. ComplianceTypes'
  BY <1>1, <1>2, <1>4, <1>5 DEF ListLoads, ComplianceInv, ComplianceTypes
<1>7. RequestsInOrder'
  <2>1. \A r \in GateRequests : gate'[r] = IF gate[r].at = "load" THEN done(r) ELSE gate[r]
    BY <1>5 DEF LoadWaiters
  <2>2. MAX_AGE \in Nat \ {0}
    BY ComplianceAssumption
  <2>3. QED
    <3>1. /\ loadedAt' = time /\ time' = time /\ checks' = checks
          /\ \A r \in GateRequests : gate[r].at = "record" => gate[r].age < MAX_AGE
      BY DEF ListLoads, ComplianceInv, RequestsInOrder
    <3>2. ASSUME NEW r \in GateRequests
          PROVE  /\ gate'[r].now <= time /\ gate'[r].began <= Len(checks)
                 /\ gate'[r].at # "load"
                 /\ gate'[r].at = "record" => gate'[r].age < MAX_AGE
      <4>1. CASE gate[r].at = "load"
        BY <1>2, <1>3, <1>4, <2>1, <2>2, <4>1
      <4>2. CASE gate[r].at # "load"
        BY <1>2, <2>1, <3>1, <4>2
      <4>3. QED
        BY <4>1, <4>2
    <3>3. QED
      BY <1>3, <3>1, <3>2 DEF RequestsInOrder
<1>8. \A i \in 1 .. Len(checks) : ~ Standing(i)
  BY NoneStands DEF ListLoads, LoadWaiters
<1>9. QED
  BY <1>6, <1>7, <1>8, GateMoves DEF ListLoads

(* When the download fails, a request uses the old copy only while it is   *)
(* younger than the limit, and is turned away otherwise.                   *)
LEMMA ListLoadFailsKeeps ==
    ASSUME ComplianceInv, ListLoadFails
    PROVE  ComplianceInv'
<1>1. \A r \in GateRequests :
         /\ gate[r] \in GateRequest /\ gate[r].now <= time /\ gate[r].began <= Len(checks)
         /\ gate[r].now \in Nat /\ gate[r].age \in Int
  BY DEF ComplianceInv, ComplianceTypes, RequestsInOrder, GateRequest
<1>2. time \in Nat /\ loadedAt \in Nat /\ MAX_AGE \in Nat /\ Len(checks) \in Nat
  BY ComplianceAssumption DEF ComplianceInv, ComplianceTypes
<1>3. \A r \in GateRequests :
         \/ gate'[r] = gate[r] /\ gate[r].at # "load"
         \/ gate'[r] = Screened(r) /\ CopyUsable(r) /\ gate[r].at = "load"
         \/ gate'[r] = Outside
  BY DEF ListLoadFails, LoadWaiters
<1>4. \A r \in GateRequests : CopyUsable(r) =>
         /\ Screened(r) \in GateRequest
         /\ Screened(r).at = "record" /\ Screened(r).now = gate[r].now
         /\ Screened(r).began = gate[r].began /\ Screened(r).age = gate[r].now - loadedAt
  BY ScreenedType DEF CopyUsable
<1>5. ComplianceTypes'
  <2>1. \A r \in GateRequests : gate'[r] \in GateRequest
    BY <1>1, <1>3, <1>4, OutsideType
  <2>2. gate' \in [GateRequests -> GateRequest]
    BY <2>1 DEF ListLoadFails
  <2>3. QED
    BY <2>2 DEF ListLoadFails, ComplianceInv, ComplianceTypes
<1>6. RequestsInOrder'
  <2>1. \A r \in GateRequests : gate[r].at = "load" /\ CopyUsable(r) =>
           gate[r].now - loadedAt < MAX_AGE
    BY <1>1, <1>2 DEF CopyUsable, ComplianceInv, RequestsInOrder
  <2>2. QED
    BY <1>1, <1>2, <1>3, <1>4, <2>1, OutsideType
       DEF ListLoadFails, ComplianceInv, RequestsInOrder
<1>7. \A i \in 1 .. Len(checks) : ~ Standing(i)
  BY NoneStands DEF ListLoadFails, LoadWaiters
<1>8. QED
  BY <1>5, <1>6, <1>7, GateMoves DEF ListLoadFails

(* A row is added at the end; those before it stay what they are.          *)
LEMMA RowAdded ==
    ASSUME ComplianceInv, NEW row \in CheckRow, checks' = Append(checks, row)
    PROVE  /\ checks' \in Seq(CheckRow)
           /\ Len(checks') = Len(checks) + 1 /\ Len(checks) \in Nat
           /\ checks'[Len(checks) + 1] = row
           /\ \A i \in 1 .. Len(checks) : checks'[i] = checks[i]
           /\ \A i \in 1 .. Len(checks) : Standing(i)' => Standing(i) /\ ~ row.manual
<1>1. checks \in Seq(CheckRow)
  BY DEF ComplianceInv, ComplianceTypes
<1>2. /\ checks' \in Seq(CheckRow) /\ Len(checks') = Len(checks) + 1 /\ Len(checks) \in Nat
      /\ checks'[Len(checks) + 1] = row
      /\ \A i \in 1 .. Len(checks) : checks'[i] = checks[i]
  BY <1>1
<1>3. ASSUME NEW i \in 1 .. Len(checks), Standing(i)' PROVE Standing(i) /\ ~ row.manual
  <2>1. DOMAIN checks = 1 .. Len(checks) /\ DOMAIN checks' = 1 .. Len(checks) + 1
    BY <1>1, <1>2
  <2>2. \A j \in 1 .. Len(checks) + 1 : j > i => ~ checks'[j].manual
    BY <1>3, <2>1 DEF Standing, ClearedAfter
  <2>3. ~ row.manual
    BY <1>2, <2>2
  <2>4. ~ ClearedAfter(i)
    BY <1>2, <2>1, <2>2 DEF ClearedAfter
  <2>5. QED
    BY <1>2, <1>3, <2>3, <2>4 DEF Standing
<1>4. QED
  BY <1>2, <1>3

(* A recorded match that was alone stands: nobody else is in the gate past *)
(* the read of the rows, and it is dated after every row.                  *)
LEMMA RecordCheckKeeps ==
    ASSUME ComplianceInv, NEW r \in GateRequests, RecordCheck(r)
    PROVE  ComplianceInv'
<1> DEFINE req == gate[r]
           hit == ~ (req.found \subseteq req.reviewed)
           alone == /\ \A q \in GateRequests \ {r} : gate[q].at \in {"outside", "passed"}
                    /\ \A i \in DOMAIN checks : checks[i].checkedAt < req.now
           row == [result |-> IF hit THEN "match" ELSE "clear", matches |-> req.found,
                   manual |-> FALSE, checkedAt |-> req.now, listAge |-> req.age, alone |-> alone]
           out == IF hit THEN Outside ELSE Passed(req)
<1>1. /\ req \in GateRequest /\ req.at = "record" /\ req.age < MAX_AGE /\ req.now <= time
      /\ req.began <= Len(checks) /\ req.began \in Nat /\ req.age \in Int
      /\ time \in Nat /\ Len(checks) \in Nat /\ checks \in Seq(CheckRow)
  BY DEF RecordCheck, ComplianceInv, ComplianceTypes, RequestsInOrder, GateRequest
<1>2. \A i \in 1 .. Len(checks) : ~ Standing(i)
  BY <1>1, NoneStands
<1>3. CASE checks' = checks /\ Gate(r, Outside)
  BY <1>1, <1>3, OutsideType, OneMoves DEF RecordCheck
<1>4. CASE checks' = Append(checks, row) /\ Gate(r, out)
  <2>1. row \in CheckRow
    <3>1. alone \in BOOLEAN /\ req.found \in SUBSET Entries /\ req.now \in Nat
      BY <1>1 DEF GateRequest
    <3> HIDE DEF alone, hit, req
    <3> QED
      BY <1>1, <3>1 DEF CheckRow
  <2>2. row.manual = FALSE /\ row.listAge = req.age /\ row.checkedAt = req.now
        /\ row.alone = alone /\ (row.result = "match" => hit)
    OBVIOUS
  <2>3. out \in GateRequest /\ out.now = 0 /\ out.began <= Len(checks)
        /\ out.at \in {"outside", "passed"} /\ (hit => out.at = "outside")
    BY <1>1, OutsideType, PassedType
  <2> HIDE DEF row, out
  <2>4. \A q \in GateRequests : gate'[q] = IF q = r THEN out ELSE gate[q]
    BY <1>4 DEF Gate, ComplianceInv, ComplianceTypes
  <2>5. /\ checks' \in Seq(CheckRow)
        /\ Len(checks') = Len(checks) + 1
        /\ checks'[Len(checks) + 1] = row
        /\ \A i \in 1 .. Len(checks) : checks'[i] = checks[i]
        /\ \A i \in 1 .. Len(checks) : ~ Standing(i)'
    BY <1>2, <1>4, <2>1, RowAdded
  <2>6. ComplianceTypes'
    BY <1>4, <2>3, <2>5 DEF ComplianceInv, ComplianceTypes, Gate, RecordCheck
  <2>7. RequestsInOrder'
    BY <1>1, <2>3, <2>4, <2>5
       DEF ComplianceInv, ComplianceTypes, RequestsInOrder, RecordCheck, GateRequest
  <2>8. RowsInOrder'
    <3> SUFFICES ASSUME NEW i \in 1 .. Len(checks) + 1
                 PROVE  /\ ~ checks'[i].manual =>
                             checks'[i].listAge \in Int /\ checks'[i].listAge < MAX_AGE
                        /\ checks'[i].alone =>
                             \A j \in 1 .. i - 1 : checks'[j].checkedAt < checks'[i].checkedAt
      BY <2>5 DEF RowsInOrder
    <3>1. CASE i \in 1 .. Len(checks)
      BY <1>1, <2>5, <3>1 DEF ComplianceInv, RowsInOrder
    <3>2. CASE i = Len(checks) + 1
      <4>1. checks'[i] = row /\ \A j \in 1 .. i - 1 : checks'[j] = checks[j]
        BY <1>1, <2>5, <3>2
      <4>2. DOMAIN checks = 1 .. i - 1
        BY <1>1, <3>2
      <4>3. QED
        BY <1>1, <2>2, <4>1, <4>2
    <3>3. QED
      BY <1>1, <3>1, <3>2
  <2>9. StandingIsLatest'
    <3> SUFFICES ASSUME NEW i \in 1 .. Len(checks) + 1, Standing(i)'
                 PROVE  /\ i = Len(checks')
                        /\ \A q \in GateRequests :
                             /\ gate'[q].at \in {"outside", "latest", "passed"}
                             /\ gate'[q].at = "passed" => gate'[q].began < i
      BY <2>5 DEF StandingIsLatest
    <3>1. i = Len(checks) + 1
      BY <1>1, <2>5
    <3>2. hit /\ alone
      BY <2>2, <2>5, <3>1 DEF Standing
    <3>3. \A q \in GateRequests :
             \/ gate'[q].at = "outside"
             \/ gate'[q] = gate[q] /\ gate[q].at \in {"outside", "passed"}
      <4>1. \A q \in GateRequests \ {r} : gate[q].at \in {"outside", "passed"}
        BY <3>2
      <4>2. out.at = "outside"
        BY <2>3, <3>2
      <4>3. QED
        <5> SUFFICES ASSUME NEW q \in GateRequests
                     PROVE  \/ gate'[q].at = "outside"
                            \/ gate'[q] = gate[q] /\ gate[q].at \in {"outside", "passed"}
          OBVIOUS
        <5>1. CASE q = r
          BY <2>4, <4>2, <5>1
        <5>2. CASE q # r
          BY <2>4, <4>1, <5>2
        <5>3. QED
          BY <5>1, <5>2
    <3>4. \A q \in GateRequests : gate[q].began \in Nat /\ gate[q].began <= Len(checks)
      BY DEF ComplianceInv, ComplianceTypes, RequestsInOrder, GateRequest
    <3>5. QED
      BY <1>1, <2>5, <3>1, <3>3, <3>4
  <2>10. QED
    BY <2>6, <2>7, <2>8, <2>9 DEF ComplianceInv
<1>5. QED
  BY <1>3, <1>4 DEF RecordCheck

(* A person's clear ends every standing match before it.                   *)
LEMMA ManualClearKeeps ==
    ASSUME ComplianceInv, ManualClear
    PROVE  ComplianceInv'
<1> DEFINE row == [result |-> "clear", matches |-> {}, manual |-> TRUE,
                   checkedAt |-> time, listAge |-> None, alone |-> FALSE]
<1>1. row \in CheckRow /\ row.manual /\ row.result = "clear" /\ ~ row.alone
  BY DEF ComplianceInv, ComplianceTypes, CheckRow
<1>2. checks' = Append(checks, row)
  BY DEF ManualClear
<1> HIDE DEF row
<1>3. /\ checks' \in Seq(CheckRow)
      /\ Len(checks') = Len(checks) + 1 /\ Len(checks) \in Nat
      /\ checks'[Len(checks) + 1] = row
      /\ \A i \in 1 .. Len(checks) : checks'[i] = checks[i]
      /\ \A i \in 1 .. Len(checks) : ~ Standing(i)'
  BY <1>1, <1>2, RowAdded
<1>4. ComplianceTypes'
  BY <1>3 DEF ComplianceInv, ComplianceTypes, ManualClear
<1>5. RequestsInOrder'
  <2>1. \A r \in GateRequests : gate[r].began \in Nat /\ gate[r].began <= Len(checks)
    BY DEF ComplianceInv, ComplianceTypes, RequestsInOrder, GateRequest
  <2>2. QED
    BY <1>3, <2>1 DEF ComplianceInv, RequestsInOrder, ManualClear
<1>6. RowsInOrder'
  BY <1>1, <1>3 DEF ComplianceInv, RowsInOrder
<1>7. \A i \in {Len(checks) + 1} : ~ Standing(i)'
  BY <1>1, <1>3 DEF Standing, ClearedAfter
<1>8. StandingIsLatest'
  BY <1>3, <1>7 DEF StandingIsLatest
<1>9. QED
  BY <1>4, <1>5, <1>6, <1>8 DEF ComplianceInv

(* Every step keeps the rows in order and a standing match the latest.     *)
LEMMA ComplianceInvStep ==
    ASSUME ComplianceInv, [ComplianceNext]_gateVars
    PROVE  ComplianceInv'
<1> USE DEF ComplianceInv, ComplianceTypes, RequestsInOrder
<1>1. CASE SetKyb \/ Publish \/ UNCHANGED gateVars
  <2>1. ComplianceTypes' /\ RequestsInOrder'
    BY <1>1 DEF SetKyb, Publish, gateVars
  <2>2. checks' = checks /\ gate' = gate
    BY <1>1 DEF SetKyb, Publish, gateVars
  <2>3. QED
    BY <2>1, <2>2, GateMoves
<1>2. CASE GateTick
  <2>1. ComplianceTypes' /\ RequestsInOrder'
    BY <1>2 DEF GateTick, GateRequest
  <2>2. checks' = checks /\ gate' = gate
    BY <1>2 DEF GateTick
  <2>3. QED
    BY <2>1, <2>2, GateMoves
<1>3. CASE ApiRestarts
  <2>1. \A r \in GateRequests : gate'[r] = Outside
    BY <1>3 DEF ApiRestarts
  <2>2. ComplianceTypes' /\ RequestsInOrder'
    <3>1. gate' \in [GateRequests -> GateRequest]
      BY <1>3, OutsideType DEF ApiRestarts
    <3>2. QED
      BY <1>3, <2>1, <3>1, OutsideType DEF ApiRestarts
  <2>3. checks' = checks
    BY <1>3 DEF ApiRestarts
  <2>4. QED
    BY <2>1, <2>2, <2>3, OutsideType, GateMoves
<1>4. QED
  BY <1>1, <1>2, <1>3, EnterGateKeeps, ReadLatestKeeps, CollectReviewedKeeps, RecordCheckKeeps,
     ListLoadsKeeps, ListLoadFailsKeeps, ManualClearKeeps DEF ComplianceNext

(* The inductive invariant of the compliance gate.                         *)
THEOREM ComplianceInvHolds == ComplianceSpec => []ComplianceInv
  BY ComplianceInvInit, ComplianceInvStep, PTL DEF ComplianceSpec

(* No check is ever recorded from a copy of the sanctions list that was as *)
(* old as the limit when the request entered, however downloads fail and   *)
(* requests overlap (screener.ts): the gate fails closed.                  *)
THEOREM StaleListRefused == ComplianceSpec => []StaleListFailsClosed
<1>1. ComplianceInv => StaleListFailsClosed
  BY DEF ComplianceInv, ComplianceTypes, RowsInOrder, StaleListFailsClosed
<1>2. QED
  BY <1>1, ComplianceInvHolds, PTL

(* Nobody passes the gate while a match recorded before they entered has   *)
(* not been cleared by a person, unless that match was recorded while      *)
(* another request was in the gate or with an older clock (gate.ts).       *)
THEOREM MatchHolds == ComplianceSpec => []MatchHoldsUntilCleared
<1>1. ComplianceInv => MatchHoldsUntilCleared
  <2> SUFFICES ASSUME ComplianceInv, NEW r \in GateRequests, gate[r].at = "passed",
                      NEW i \in 1 .. gate[r].began, checks[i].result = "match", checks[i].alone
               PROVE  ClearedAfter(i)
    BY DEF MatchHoldsUntilCleared
  <2>1. gate[r].began \in Nat /\ gate[r].began <= Len(checks) /\ Len(checks) \in Nat
    BY DEF ComplianceInv, ComplianceTypes, RequestsInOrder, GateRequest
  <2>2. QED
    BY <2>1 DEF ComplianceInv, StandingIsLatest, Standing
<1>2. QED
  BY <1>1, ComplianceInvHolds, PTL

-----------------------------------------------------------------------------
(* The outbox *)

(* A delivery row; `wait`, which no safety property reads, may be anything. *)
IsDelivery(x) ==
    x \in [status : {"pending", "delivered", "dead"}, attempts : Nat, wait : {x.wait}]

IsPass(x) ==
    x \in [phase : {"idle", "fanout", "deliver"}, scope : SUBSET (Subs \X Rows),
           todo : SUBSET Deliverable, attempts : {x.attempts}, elapsed : {x.elapsed}]

HookTypes ==
    /\ hookRows \in [Rows -> [kind : RowKinds, age : Nat] \cup {None}]
    /\ subscriptions \in [Subs -> {"none", "active", "inactive"}]
    /\ DOMAIN deliveries \subseteq Deliverable
    /\ \A d \in DOMAIN deliveries : IsDelivery(deliveries[d])
    /\ IsPass(outboxPass)

(* Nothing is queued, or about to be, for a subscription nobody made.      *)
SubscribersKnown ==
    \A d \in DOMAIN deliveries \cup outboxPass.todo : subscriptions[d[1]] # "none"

(* Which deliveries still have an attempt left, and that the copies a pass *)
(* works on are what the table says: nobody else writes a pending row.     *)
BatchIsCurrent ==
    /\ \A d \in DOMAIN deliveries :
         deliveries[d].status = "pending" => deliveries[d].attempts < MAX_ATTEMPTS
    /\ outboxPass.phase = "deliver" => \A d \in outboxPass.todo :
         /\ d \in DOMAIN deliveries
         /\ deliveries[d].status = "pending"
         /\ outboxPass.attempts[d] = deliveries[d].attempts

(* What a fan-out has looked at is queued already or still on its list.    *)
FanOutCovers ==
    /\ outboxPass.phase = "fanout" => \A s \in Subs, r \in Rows :
         <<s, r>> \in outboxPass.scope =>
           /\ hookRows[r] # None
           /\ \A e \in WantedOf(s, r) : <<s, r, e>> \in outboxPass.todo \cup DOMAIN deliveries
    /\ \A s \in Subs, r \in Rows : <<s, r>> \in scanned => hookRows[r] # None

HookInv ==
    /\ HookTypes /\ SubscribersKnown /\ BatchIsCurrent /\ FanOutCovers /\ OutboxIsTrue

-----------------------------------------------------------------------------
(* Of two numbers, the library's Max and Min are one.                      *)
LEMMA PairBounds ==
    ASSUME NEW a \in Int, NEW b \in Int
    PROVE  Max({a, b}) \in {a, b} /\ Min({a, b}) \in {a, b}
<1>1. \E x \in {a, b} : \A y \in {a, b} : x >= y
    BY DEF Max
<1>2. \E x \in {a, b} : \A y \in {a, b} : x =< y
    BY DEF Min
<1>3. QED
    BY <1>1, <1>2 DEF Max, Min

(* A pass that is not running has nothing to do.                           *)
LEMMA IdlePassShape ==
    /\ IsPass(IdlePass) /\ IdlePass.phase = "idle" /\ IdlePass.todo = {}
    /\ IdlePass.scope = {} /\ IdlePass.attempts = <<>> /\ IdlePass.elapsed = 0
    BY DEF IsPass, IdlePass

(* Nothing has happened and nobody has subscribed.                         *)
LEMMA HookInvInit == HooksInit => HookInv
<1> SUFFICES ASSUME HooksInit PROVE HookInv
    OBVIOUS
<1>1. DOMAIN deliveries = {}
    BY DEF HooksInit
<1>2. HookTypes
    BY <1>1, IdlePassShape DEF HooksInit, HookTypes
<1>3. SubscribersKnown /\ BatchIsCurrent /\ FanOutCovers
    BY <1>1, IdlePassShape DEF HooksInit, SubscribersKnown, BatchIsCurrent, FanOutCovers
<1>4. OutboxIsTrue
    BY <1>1 DEF HooksInit, OutboxIsTrue, OutcomesAreTrue, CompletePassMissesNothing
<1>5. QED
    BY <1>2, <1>3, <1>4 DEF HookInv

-----------------------------------------------------------------------------
(* The rows: a row that has happened keeps its kind, so what is wanted of  *)
(* it stays the same.                                                      *)
RowsStay ==
    /\ hookRows' \in [Rows -> [kind : RowKinds, age : Nat] \cup {None}]
    /\ \A r \in Rows : hookRows[r] # None =>
         /\ hookRows'[r] # None
         /\ hookRows'[r].kind = hookRows[r].kind

(* What is wanted of a row that has happened stays the same.               *)
LEMMA SameWants ==
    ASSUME RowsStay, NEW s \in Subs, NEW r \in Rows, hookRows[r] # None
    PROVE  hookRows'[r] # None /\ WantedOf(s, r)' = WantedOf(s, r)
    BY DEF RowsStay, WantedOf

(* Rows that do not change stay.                                           *)
LEMMA SameRows ==
    ASSUME HookTypes, UNCHANGED hookRows
    PROVE  RowsStay
    BY DEF RowsStay, HookTypes

(* A step that leaves the pass and the statuses and attempts of the table  *)
(* alone keeps the invariant.                                              *)
TableStays ==
    /\ DOMAIN deliveries' = DOMAIN deliveries
    /\ \A d \in DOMAIN deliveries :
         /\ IsDelivery(deliveries'[d])
         /\ deliveries'[d].status = deliveries[d].status
         /\ deliveries'[d].attempts = deliveries[d].attempts

PassStays ==
    /\ IsPass(outboxPass')
    /\ outboxPass'.phase = outboxPass.phase
    /\ outboxPass'.scope = outboxPass.scope
    /\ outboxPass'.todo = outboxPass.todo
    /\ outboxPass'.attempts = outboxPass.attempts

SubscriptionsStay ==
    /\ subscriptions' \in [Subs -> {"none", "active", "inactive"}]
    /\ \A s \in Subs : /\ subscriptions[s] # "none" => subscriptions'[s] # "none"
                       /\ subscriptions[s] = "inactive" => subscriptions'[s] = "inactive"

(* A step that leaves the pass, the statuses and the attempts alone, lets  *)
(* rows age or happen and subscriptions come and go, keeps the invariant.  *)
LEMMA InfoStays ==
    ASSUME HookInv, RowsStay, TableStays, PassStays, SubscriptionsStay,
           UNCHANGED ghosts
    PROVE  HookInv'
<1>1. DOMAIN deliveries \subseteq Deliverable /\ outboxPass.todo \subseteq Deliverable
    BY DEF HookInv, HookTypes, IsPass
<1>2. \A d \in Deliverable : d[1] \in Subs
    BY DEF Deliverable
<1>3. HookTypes'
    BY DEF HookInv, HookTypes, RowsStay, TableStays, PassStays, SubscriptionsStay
<1>4. SubscribersKnown'
    BY <1>1, <1>2 DEF HookInv, SubscribersKnown, TableStays, PassStays, SubscriptionsStay
<1>5. BatchIsCurrent'
    BY DEF HookInv, BatchIsCurrent, TableStays, PassStays
<1>6. FanOutCovers'
    BY SameWants DEF HookInv, FanOutCovers, TableStays, PassStays, ghosts
<1>7. OutcomesAreTrue'
    BY <1>1, <1>2
       DEF HookInv, OutboxIsTrue, OutcomesAreTrue, TableStays, SubscriptionsStay, ghosts
<1>8. CompletePassMissesNothing'
    BY SameWants DEF HookInv, OutboxIsTrue, CompletePassMissesNothing, FanOutCovers,
       TableStays, ghosts
<1>9. QED
    BY <1>3, <1>4, <1>5, <1>6, <1>7, <1>8 DEF HookInv, OutboxIsTrue

(* What does not change stays.                                             *)
LEMMA NothingMoves ==
    ASSUME HookInv
    PROVE  /\ UNCHANGED subscriptions => SubscriptionsStay
           /\ UNCHANGED deliveries => TableStays
           /\ UNCHANGED outboxPass => PassStays
    BY DEF HookInv, HookTypes, SubscriptionsStay, TableStays, PassStays

(* A row that happens changes no row that was there.                       *)
LEMMA RowHappensKeeps ==
    ASSUME HookInv, NEW r \in Rows, NEW kind \in RowKinds, RowHappens(r, kind)
    PROVE  HookInv'
<1>1. [kind |-> kind, age |-> 0] \in [kind : RowKinds, age : Nat]
    OBVIOUS
<1>2. RowsStay
    BY <1>1 DEF RowHappens, RowsStay, HookInv, HookTypes
<1>3. QED
    BY <1>2, NothingMoves, InfoStays DEF RowHappens

(* A subscription is made once and ended once.                             *)
LEMMA SubscribeKeeps ==
    ASSUME HookInv, NEW s \in Subs, Subscribe(s) \/ Unsubscribe(s)
    PROVE  HookInv'
<1>1. SubscriptionsStay
    BY DEF HookInv, HookTypes, SubscriptionsStay, Subscribe, Unsubscribe
<1>2. RowsStay
    BY SameRows DEF HookInv, Subscribe, Unsubscribe
<1>3. QED
    BY <1>1, <1>2, NothingMoves, InfoStays DEF Subscribe, Unsubscribe

(* Time ages rows, shortens waits and lengthens the pass.                  *)
LEMMA HookTickKeeps ==
    ASSUME HookInv, HookTick
    PROVE  HookInv'
<1>1. RowsStay
    <2>1. ASSUME NEW r \in Rows, hookRows[r] # None
          PROVE  /\ hookRows'[r] \in [kind : RowKinds, age : Nat]
                 /\ hookRows'[r].kind = hookRows[r].kind
        <3>1. hookRows[r] \in [kind : RowKinds, age : Nat]
            BY <2>1 DEF HookInv, HookTypes
        <3>2. hookRows[r].age + 1 \in Nat /\ WINDOW + 1 \in Nat
            BY <3>1, WebhooksAssumption
        <3> DEFINE next == hookRows[r].age + 1
        <3> DEFINE older == Min({hookRows[r].age + 1, WINDOW + 1})
        <3>3. hookRows'[r] = [hookRows[r] EXCEPT !.age = older]
            BY <2>1 DEF HookTick
        <3>4. older \in {hookRows[r].age + 1, WINDOW + 1}
            <4>1. next \in Int /\ WINDOW + 1 \in Int
                BY <3>2
            <4> HIDE DEF next
            <4>2. Min({next, WINDOW + 1}) \in {next, WINDOW + 1}
                BY <4>1, PairBounds, Zenon
            <4>3. QED
                BY <4>2 DEF next
        <3>5. older \in Nat
            BY <3>2, <3>4
        <3> HIDE DEF older
        <3>6. QED
            BY <3>1, <3>3, <3>5
    <2>2. ASSUME NEW r \in Rows, hookRows[r] = None
          PROVE  hookRows'[r] = None
        BY <2>2 DEF HookTick
    <2>3. hookRows' = [r \in Rows |-> IF hookRows[r] = None THEN None ELSE
                [hookRows[r] EXCEPT !.age = Min({hookRows[r].age + 1, WINDOW + 1})]]
        BY Zenon DEF HookTick
    <2>4. QED
        BY <2>1, <2>2, <2>3, WebhooksAssumption DEF RowsStay
<1>2. TableStays
    <2>1. DOMAIN deliveries' = DOMAIN deliveries
        BY Zenon DEF HookTick
    <2>2. ASSUME NEW d \in DOMAIN deliveries
          PROVE  /\ IsDelivery(deliveries'[d])
                 /\ deliveries'[d].status = deliveries[d].status
                 /\ deliveries'[d].attempts = deliveries[d].attempts
        <3>1. PICK w : deliveries'[d] = [deliveries[d] EXCEPT !.wait = w]
            BY DEF HookTick
        <3>2. IsDelivery(deliveries[d])
            BY DEF HookInv, HookTypes
        <3>3. QED
            BY <3>1, <3>2 DEF IsDelivery
    <2>3. QED
        BY <2>1, <2>2 DEF TableStays
<1>3. PassStays
    <2>1. PICK e : outboxPass' = [outboxPass EXCEPT !.elapsed = e]
        BY DEF HookTick
    <2>2. IsPass(outboxPass)
        BY DEF HookInv, HookTypes
    <2>3. QED
        BY <2>1, <2>2 DEF PassStays, IsPass
<1>4. UNCHANGED <<subscriptions, ghosts>>
    BY DEF HookTick
<1>5. QED
    BY <1>1, <1>2, <1>3, <1>4, NothingMoves, InfoStays

(* Ending a pass, well or not, keeps the invariant: the table and what has *)
(* been scanned stay, and what was received is received.                   *)
LEMMA PassGone ==
    ASSUME HookInv, outboxPass' = IdlePass, UNCHANGED <<sourceVars, deliveries, scanned>>,
           received \subseteq received'
    PROVE  HookInv'
<1>1. HookTypes'
    BY IdlePassShape DEF HookInv, HookTypes, sourceVars
<1>2. SubscribersKnown' /\ BatchIsCurrent'
    BY IdlePassShape DEF HookInv, SubscribersKnown, BatchIsCurrent, sourceVars
<1>3. FanOutCovers'
    BY IdlePassShape DEF HookInv, FanOutCovers, sourceVars
<1>4. OutcomesAreTrue'
    BY DEF HookInv, OutboxIsTrue, OutcomesAreTrue, sourceVars
<1>5. CompletePassMissesNothing'
    BY DEF HookInv, OutboxIsTrue, CompletePassMissesNothing, WantedOf, sourceVars
<1>6. QED
    BY <1>1, <1>2, <1>3, <1>4, <1>5 DEF HookInv, OutboxIsTrue

(* A pass ends, or dies with an attempt the subscriber may have received.  *)
LEMMA PassEndsKeeps ==
    ASSUME HookInv, PassEnds \/ PassDies
    PROVE  HookInv'
<1>1. CASE PassEnds
    BY <1>1, PassGone DEF PassEnds, ghosts
<1>2. CASE PassDies
    <2>1. received \subseteq received'
        BY <1>2 DEF PassDies
    <2>2. QED
        BY <1>2, <2>1, PassGone DEF PassDies
<1>3. QED
    BY <1>1, <1>2

(* A dead delivery starts again, outside any running batch.                *)
LEMMA RedeliverKeeps ==
    ASSUME HookInv, NEW d \in DOMAIN deliveries, Redeliver(d)
    PROVE  HookInv'
<1> DEFINE fresh == [status |-> "pending", attempts |-> 0, wait |-> 0]
<1>1. IsDelivery(fresh) /\ fresh.status = "pending" /\ fresh.attempts = 0
    BY DEF IsDelivery
<1>2. /\ deliveries[d].status = "dead"
      /\ DOMAIN deliveries' = DOMAIN deliveries
      /\ deliveries'[d] = fresh
      /\ \A k \in DOMAIN deliveries \ {d} : deliveries'[k] = deliveries[k]
      /\ UNCHANGED <<hookRows, subscriptions, outboxPass, received, scanned>>
    BY DEF Redeliver, sourceVars, ghosts
<1> HIDE DEF fresh
<1>3. HookTypes'
    BY <1>1, <1>2 DEF HookInv, HookTypes
<1>4. SubscribersKnown'
    BY <1>2 DEF HookInv, SubscribersKnown
<1>5. BatchIsCurrent'
    BY <1>1, <1>2, WebhooksAssumption DEF HookInv, BatchIsCurrent
<1>6. FanOutCovers'
    BY <1>2 DEF HookInv, FanOutCovers, WantedOf
<1>7. OutcomesAreTrue'
    BY <1>1, <1>2 DEF HookInv, OutboxIsTrue, OutcomesAreTrue
<1>8. CompletePassMissesNothing'
    BY <1>2 DEF HookInv, OutboxIsTrue, CompletePassMissesNothing, WantedOf
<1>9. QED
    BY <1>3, <1>4, <1>5, <1>6, <1>7, <1>8 DEF HookInv, OutboxIsTrue

(* The fan-out starts with everything wanted in its scope on its list.     *)
LEMMA FanOutStartKeeps ==
    ASSUME HookInv, FanOutStart
    PROVE  HookInv'
<1> DEFINE active == {s \in Subs : subscriptions[s] = "active"}
           recent == {r \in Happened : InWindow(hookRows[r])}
           seen == {p \in active \X Happened :
                        hookRows[p[2]].age <= WINDOW /\ p[2] \notin predates[p[1]]}
           wanted == Matching(active, recent)
<1>1. /\ outboxPass' = [IdlePass EXCEPT !.phase = "fanout", !.scope = seen, !.todo = wanted]
      /\ UNCHANGED <<hookRows, subscriptions, deliveries, received, scanned>>
    BY DEF FanOutStart, sourceVars, ghosts
<1>2. seen \in SUBSET (Subs \X Rows)
    BY DEF Happened
<1>3. /\ wanted \in SUBSET Deliverable
      /\ \A d \in wanted : subscriptions[d[1]] = "active"
    BY DEF Matching, Deliverable, Happened
<1>4. ASSUME NEW s \in Subs, NEW r \in Rows, <<s, r>> \in seen
      PROVE  /\ hookRows[r] # None
             /\ \A e \in WantedOf(s, r) : <<s, r, e>> \in wanted
    <2>1. /\ s \in active /\ r \in recent /\ r \notin predates[s] /\ hookRows[r] # None
        BY <1>4 DEF Happened, InWindow
    <2>2. hookRows[r].kind \in RowKinds
        BY <2>1 DEF HookInv, HookTypes
    <2>3. ASSUME NEW e \in WantedOf(s, r)
          PROVE  <<s, r, e>> \in wanted
        <3>1. e \in EventsOf(hookRows[r].kind) \cap Wants[s]
            BY <2>1, <2>3 DEF WantedOf
        <3>2. e \in UNION {EventsOf(k) : k \in RowKinds}
            BY <2>2, <3>1
        <3>3. QED
            BY <2>1, <3>1, <3>2 DEF Matching
    <2>4. QED
        BY <2>1, <2>3
<1> HIDE DEF active, recent, seen, wanted
<1>5. /\ IsPass(outboxPass') /\ outboxPass'.phase = "fanout"
      /\ outboxPass'.scope = seen /\ outboxPass'.todo = wanted
    BY <1>1, <1>2, <1>3, IdlePassShape DEF IsPass
<1>6. HookTypes'
    BY <1>1, <1>5 DEF HookInv, HookTypes
<1>7. SubscribersKnown' /\ BatchIsCurrent'
    BY <1>1, <1>3, <1>5 DEF HookInv, SubscribersKnown, BatchIsCurrent
<1>8. FanOutCovers'
    BY <1>1, <1>4, <1>5 DEF HookInv, FanOutCovers, WantedOf
<1>9. OutboxIsTrue'
    BY <1>1 DEF HookInv, OutboxIsTrue, OutcomesAreTrue, CompletePassMissesNothing, WantedOf
<1>10. QED
    BY <1>6, <1>7, <1>8, <1>9 DEF HookInv

(* What is taken off the list is in the table.                             *)
LEMMA EnqueueKeeps ==
    ASSUME HookInv, NEW d \in outboxPass.todo, Enqueue(d)
    PROVE  HookInv'
<1> DEFINE fresh == [status |-> "pending", attempts |-> 0, wait |-> 0]
<1>1. IsDelivery(fresh) /\ fresh.status = "pending" /\ fresh.attempts = 0
    BY DEF IsDelivery
<1>2. /\ outboxPass.phase = "fanout"
      /\ DOMAIN deliveries' = DOMAIN deliveries \cup {d}
      /\ \A k \in DOMAIN deliveries : deliveries'[k] = deliveries[k]
      /\ d \notin DOMAIN deliveries => deliveries'[d] = fresh
      /\ outboxPass' = [outboxPass EXCEPT !.todo = outboxPass.todo \ {d}]
      /\ UNCHANGED <<hookRows, subscriptions, received, scanned>>
    BY DEF Enqueue, sourceVars, ghosts
<1> HIDE DEF fresh
<1>3. /\ IsPass(outboxPass') /\ outboxPass'.phase = "fanout"
      /\ outboxPass'.scope = outboxPass.scope /\ outboxPass'.todo = outboxPass.todo \ {d}
      /\ d \in Deliverable
    BY <1>2 DEF HookInv, HookTypes, IsPass
<1>4. HookTypes'
    BY <1>1, <1>2, <1>3 DEF HookInv, HookTypes
<1>5. SubscribersKnown'
    BY <1>2, <1>3 DEF HookInv, SubscribersKnown
<1>6. BatchIsCurrent'
    BY <1>1, <1>2, <1>3, WebhooksAssumption DEF HookInv, BatchIsCurrent
<1>7. FanOutCovers'
    BY <1>2, <1>3 DEF HookInv, FanOutCovers, WantedOf
<1>8. OutcomesAreTrue'
    BY <1>1, <1>2 DEF HookInv, OutboxIsTrue, OutcomesAreTrue
<1>9. CompletePassMissesNothing'
    BY <1>2 DEF HookInv, OutboxIsTrue, CompletePassMissesNothing, WantedOf
<1>10. QED
    BY <1>4, <1>5, <1>6, <1>7, <1>8, <1>9 DEF HookInv, OutboxIsTrue

(* The fan-out is complete when its list is empty, and the batch is copied *)
(* from the table.                                                         *)
LEMMA DeliverStartKeeps ==
    ASSUME HookInv, DeliverStart
    PROVE  HookInv'
<1> DEFINE due == {d \in DOMAIN deliveries :
                       deliveries[d].status = "pending" /\ deliveries[d].wait = 0}
<1>1. PICK batch \in kSubset(Min({BATCH_SIZE, Cardinality(due)}), due) :
        outboxPass' = [IdlePass EXCEPT !.phase = "deliver", !.todo = batch,
                           !.attempts = [d \in batch |-> deliveries[d].attempts]]
    BY DEF DeliverStart
<1>2. batch \subseteq due
    BY DEF kSubset
<1>3. /\ outboxPass.phase = "fanout" /\ outboxPass.todo = {}
      /\ scanned' = scanned \cup outboxPass.scope
      /\ UNCHANGED <<hookRows, subscriptions, deliveries, received>>
    BY DEF DeliverStart, sourceVars
<1> DEFINE copies == [d \in batch |-> deliveries[d].attempts]
<1>4. batch \in SUBSET Deliverable
    BY <1>2 DEF HookInv, HookTypes
<1>5. \A d \in batch : copies[d] = deliveries[d].attempts
    OBVIOUS
<1> HIDE DEF copies
<1>6. /\ IsPass(outboxPass') /\ outboxPass'.phase = "deliver"
      /\ outboxPass'.todo = batch /\ outboxPass'.attempts = copies
    BY <1>1, <1>4, IdlePassShape DEF IsPass, copies
<1>7. HookTypes'
    BY <1>3, <1>6 DEF HookInv, HookTypes
<1>8. SubscribersKnown'
    BY <1>2, <1>3, <1>6 DEF HookInv, SubscribersKnown
<1>9. BatchIsCurrent'
    BY <1>2, <1>3, <1>5, <1>6 DEF HookInv, BatchIsCurrent
<1>10. FanOutCovers'
    BY <1>3, <1>6 DEF HookInv, FanOutCovers, WantedOf
<1>11. OutcomesAreTrue'
    BY <1>3 DEF HookInv, OutboxIsTrue, OutcomesAreTrue
<1>12. CompletePassMissesNothing'
    BY <1>3 DEF HookInv, OutboxIsTrue, CompletePassMissesNothing, FanOutCovers, WantedOf
<1>13. QED
    BY <1>7, <1>8, <1>9, <1>10, <1>11, <1>12 DEF HookInv, OutboxIsTrue

(* The outcome of one attempt: one more than the copy had, and dead only   *)
(* after the last or for a subscription that is gone.                      *)
LEMMA DeliverKeeps ==
    ASSUME HookInv, NEW d \in outboxPass.todo, Deliver(d)
    PROVE  HookInv'
<1>1. /\ outboxPass.phase = "deliver" /\ d \in DOMAIN deliveries /\ d[1] \in Subs
      /\ IsDelivery(deliveries[d])
      /\ outboxPass.attempts[d] = deliveries[d].attempts
      /\ deliveries[d].attempts \in Nat /\ deliveries[d].attempts < MAX_ATTEMPTS
      /\ subscriptions[d[1]] \in {"active", "inactive"}
    <2>1. outboxPass.phase = "deliver"
        BY DEF Deliver
    <2>2. /\ d \in DOMAIN deliveries
          /\ outboxPass.attempts[d] = deliveries[d].attempts
          /\ deliveries[d].attempts < MAX_ATTEMPTS
        BY <2>1 DEF HookInv, BatchIsCurrent
    <2>3. d \in Deliverable /\ IsDelivery(deliveries[d])
        BY <2>2 DEF HookInv, HookTypes
    <2>4. d[1] \in Subs /\ deliveries[d].attempts \in Nat
        BY <2>3 DEF Deliverable, IsDelivery
    <2>5. QED
        BY <2>1, <2>2, <2>3, <2>4 DEF HookInv, HookTypes, SubscribersKnown
<1>2. PICK x :
        /\ deliveries' = [deliveries EXCEPT ![d] = x]
        /\ IsDelivery(x)
        /\ x.status = "pending" => x.attempts < MAX_ATTEMPTS
        /\ x.status = "delivered" => d \in received'
        /\ x.status = "dead" => x.attempts = MAX_ATTEMPTS \/ subscriptions[d[1]] = "inactive"
    <2>1. ASSUME NEW permanent \in BOOLEAN, permanent => subscriptions[d[1]] = "inactive"
          PROVE  /\ IsDelivery(Fail(d, permanent))
                 /\ Fail(d, permanent).status \in {"pending", "dead"}
                 /\ Fail(d, permanent).status = "pending" =>
                      Fail(d, permanent).attempts < MAX_ATTEMPTS
                 /\ Fail(d, permanent).status = "dead" =>
                      \/ Fail(d, permanent).attempts = MAX_ATTEMPTS
                      \/ subscriptions[d[1]] = "inactive"
        BY <1>1, <2>1, WebhooksAssumption DEF Fail, IsDelivery
    <2>2. CASE /\ subscriptions[d[1]] # "active"
               /\ deliveries' = [deliveries EXCEPT ![d] = Fail(d, TRUE)]
        BY <1>1, <2>1, <2>2
    <2>3. CASE /\ deliveries' = [deliveries EXCEPT ![d] =
                     [status |-> "delivered", attempts |-> outboxPass.attempts[d] + 1,
                      wait |-> @.wait]]
               /\ received' = received \cup {d}
        <3> DEFINE x == [status |-> "delivered", attempts |-> outboxPass.attempts[d] + 1,
                         wait |-> deliveries[d].wait]
        <3>1. deliveries' = [deliveries EXCEPT ![d] = x]
            BY <2>3
        <3>2. IsDelivery(x) /\ x.status = "delivered"
            BY <1>1 DEF IsDelivery
        <3> HIDE DEF x
        <3>3. QED
            BY <2>3, <3>1, <3>2
    <2>4. CASE deliveries' = [deliveries EXCEPT ![d] = Fail(d, FALSE)]
        BY <1>1, <2>1, <2>4
    <2>5. QED
        BY <2>2, <2>3, <2>4 DEF Deliver
<1>3. /\ outboxPass' = [outboxPass EXCEPT !.todo = outboxPass.todo \ {d}]
      /\ received \subseteq received'
      /\ UNCHANGED <<hookRows, subscriptions, scanned>>
    BY DEF Deliver, sourceVars
<1>4. /\ IsPass(outboxPass') /\ outboxPass'.phase = "deliver"
      /\ outboxPass'.todo = outboxPass.todo \ {d} /\ outboxPass'.attempts = outboxPass.attempts
    BY <1>1, <1>3 DEF HookInv, HookTypes, IsPass
<1>5. /\ DOMAIN deliveries' = DOMAIN deliveries /\ deliveries'[d] = x
      /\ \A k \in DOMAIN deliveries \ {d} : deliveries'[k] = deliveries[k]
    BY <1>1, <1>2
<1>6. HookTypes'
    BY <1>2, <1>3, <1>4, <1>5 DEF HookInv, HookTypes
<1>7. SubscribersKnown'
    BY <1>3, <1>4, <1>5 DEF HookInv, SubscribersKnown
<1>8. BatchIsCurrent'
    BY <1>1, <1>2, <1>4, <1>5 DEF HookInv, BatchIsCurrent
<1>9. FanOutCovers'
    BY <1>3, <1>4 DEF HookInv, FanOutCovers
<1>10. OutcomesAreTrue'
    BY <1>2, <1>3, <1>5 DEF HookInv, OutboxIsTrue, OutcomesAreTrue
<1>11. CompletePassMissesNothing'
    BY <1>3, <1>5 DEF HookInv, OutboxIsTrue, CompletePassMissesNothing, WantedOf
<1>12. QED
    BY <1>6, <1>7, <1>8, <1>9, <1>10, <1>11 DEF HookInv, OutboxIsTrue

(* Every step keeps the table true.                                        *)
LEMMA HookInvStep == HookInv /\ [HooksNext]_hookVars => HookInv'
<1> SUFFICES ASSUME HookInv, [HooksNext]_hookVars PROVE HookInv'
    OBVIOUS
<1>1. CASE UNCHANGED hookVars
    BY <1>1, SameRows, NothingMoves, InfoStays DEF hookVars, HookInv, ghosts
<1>2. CASE HooksNext
    BY <1>2, RowHappensKeeps, SubscribeKeeps, RedeliverKeeps, HookTickKeeps, FanOutStartKeeps,
       DeliverStartKeeps, EnqueueKeeps, DeliverKeeps, PassEndsKeeps
       DEF HooksNext, PassStep
<1>3. QED
    BY <1>1, <1>2

(* The webhook invariant holds in every reachable state.                   *)
THEOREM HookInvHolds == HooksSpec => []HookInv
    BY HookInvInit, HookInvStep, PTL DEF HooksSpec

(* What the delivery table says can be relied on (outbox.ts): delivered    *)
(* means received, dead means out of attempts or unsubscribed, and nothing *)
(* a complete fan-out has seen is missing - for any subscriptions, rows,   *)
(* window, back-off and batch size, across redeliveries and dying passes.  *)
THEOREM OutboxHolds == HooksSpec => []OutboxIsTrue
    BY HookInvHolds, PTL DEF HookInv

-----------------------------------------------------------------------------
(* The indexer *)

PollSteps == {"idle", "located", "paging", "fetched", "stored"}

Poll == [at : PollSteps, start : Nat, events : SUBSET Nat, latest : Nat]

(* Ledgers are in order, and nobody knows a ledger that has not closed.    *)
ChainTypes ==
    /\ tip \in 1 .. MaxLedgers
    /\ chain \in Seq(Nat \ {0})
    /\ \A i \in DOMAIN chain : chain[i] <= tip
    /\ \A i, j \in DOMAIN chain : i <= j => chain[i] <= chain[j]
    /\ nodeTips \in [RpcNodes -> Nat]
    /\ \A n \in RpcNodes : nodeTips[n] <= tip

IndexerTypes ==
    /\ chainEvents \subseteq DOMAIN chain
    /\ cursorRow \in Nat \cup {None} /\ lastScanned \in Nat \cup {None}
    /\ since \in Nat \cup {None}
    /\ poll \in Poll /\ poll.events \subseteq DOMAIN chain
    /\ \A c \in {cursorRow, lastScanned} \ {None} : c <= tip
    /\ poll.start <= tip + 1 /\ poll.latest <= tip
    /\ since = None => /\ cursorRow = None /\ lastScanned = None
                       /\ chainEvents = {} /\ poll.at = "idle"

(* After every cold start. *)
Promised(i) == since # None /\ since <= chain[i]

(* The newest stored event is as good a cursor as any.                     *)
StoredCovers ==
    \A i \in chainEvents, j \in DOMAIN chain :
        Promised(j) /\ chain[j] <= chain[i] => Kept(j)

(* What a poll can rely on and what it has: nothing is missing before its  *)
(* first ledger, its pages leave no hole, and once the last page is there  *)
(* it has every event up to the tip that page was read at.                 *)
PollCovers ==
    /\ poll.at # "idle" => \A i \in DOMAIN chain :
         Promised(i) /\ chain[i] < poll.start => Kept(i)
    /\ \A i \in poll.events, j \in DOMAIN chain :
         j <= i /\ poll.start <= chain[j] => j \in poll.events
    /\ poll.at \in {"fetched", "stored"} =>
         /\ \A i \in DOMAIN chain : poll.start <= chain[i] /\ chain[i] <= poll.latest =>
              i \in poll.events
         /\ \A i \in poll.events : chain[i] <= poll.latest
    /\ poll.at = "stored" => poll.events \subseteq chainEvents

IndexerInv ==
    /\ ChainTypes /\ IndexerTypes /\ StoredCovers /\ PollCovers /\ NothingLostSilently

-----------------------------------------------------------------------------
(* Of some events of the chain one is the newest.                          *)
LEMMA NewestOf ==
    ASSUME ChainTypes, NEW E \in SUBSET DOMAIN chain, E # {}
    PROVE  \E g \in 1 .. MaxLedgers :
              /\ \E i \in E : chain[i] = g
              /\ \A i \in E : chain[i] <= g
<1>1. MaxLedgers \in Nat /\ tip \in 1 .. MaxLedgers /\ chain \in Seq(Nat \ {0})
    BY IndexerAssumption DEF ChainTypes
<1>2. \A i \in E : chain[i] \in 1 .. MaxLedgers
    BY <1>1 DEF ChainTypes
<1> DEFINE T == {MaxLedgers - chain[i] : i \in E}
<1>3. T \in SUBSET Nat /\ T # {}
    BY <1>1, <1>2
<1> HIDE DEF T
<1>4. PICK x \in T : \A y \in T : x <= y
    BY <1>3, LeastOf
<1>5. PICK k \in E : x = MaxLedgers - chain[k]
    BY <1>4 DEF T
<1>6. \A i \in E : MaxLedgers - chain[k] <= MaxLedgers - chain[i]
    BY <1>4, <1>5 DEF T
<1>7. \A i \in E : chain[i] <= chain[k]
    BY <1>1, <1>2, <1>6
<1>8. QED
    BY <1>2, <1>7

(* The fallback cursor is the ledger of a stored event, and none is newer. *)
LEMMA NewestStoredIs ==
    ASSUME ChainTypes, chainEvents \subseteq DOMAIN chain, NewestStored # None
    PROVE  /\ NewestStored \in 1 .. MaxLedgers
           /\ \E i \in chainEvents : chain[i] = NewestStored
           /\ \A i \in chainEvents : chain[i] <= NewestStored
<1>1. chainEvents # {}
    BY DEF NewestStored
<1>2. QED
    BY <1>1, NewestOf DEF NewestStored

(* A later page is asked for from the newest event of the pages before it. *)
LEMMA ResumeIs ==
    ASSUME ChainTypes, poll.events \subseteq DOMAIN chain, poll.events # {}
    PROVE  /\ Resume \in 1 .. MaxLedgers
           /\ \A i \in poll.events : chain[i] <= Resume
    BY NewestOf DEF Resume

(* The events a node has left to give to this poll.                        *)
Rest(n) == {i \in DOMAIN chain :
              /\ poll.start <= chain[i] /\ chain[i] <= nodeTips[n]
              /\ \A j \in poll.events : j < i}

Before(i, n) == {j \in Rest(n) : j < i}

(* A page is the first PAGE_SIZE of what the node has left.                *)
LEMMA RestIsFinite ==
    ASSUME ChainTypes, NEW n
    PROVE  /\ Rest(n) \in SUBSET DOMAIN chain
           /\ Rest(n) \in SUBSET Nat
           /\ IsFiniteSet(Rest(n))
           /\ PageOf(n) = {i \in Rest(n) : Cardinality(Before(i, n)) < PAGE_SIZE}
<1>1. chain \in Seq(Nat \ {0})
    BY DEF ChainTypes
<1>2. Len(chain) \in Nat /\ DOMAIN chain = 1 .. Len(chain)
    BY <1>1
<1>3. IsFiniteSet(1 .. Len(chain))
    BY <1>2, FS_Interval
<1>4. Rest(n) \in SUBSET (1 .. Len(chain))
    BY <1>2 DEF Rest
<1>5. IsFiniteSet(Rest(n))
    BY <1>3, <1>4, FS_Subset
<1>6. PageOf(n) = {i \in Rest(n) : Cardinality(Before(i, n)) < PAGE_SIZE}
    BY DEF PageOf, Rest, Before
<1>7. Rest(n) \in SUBSET Nat
    BY <1>2, <1>4
<1>8. QED
    BY <1>2, <1>4, <1>5, <1>6, <1>7

(* A page is a prefix of what the node has left.                           *)
LEMMA PageIsPrefix ==
    ASSUME ChainTypes, NEW n, NEW i \in PageOf(n), NEW j \in Rest(n), j <= i
    PROVE  j \in PageOf(n)
<1>1. i \in Rest(n) /\ Cardinality(Before(i, n)) < PAGE_SIZE
    BY RestIsFinite
<1>2. IsFiniteSet(Before(i, n)) /\ Before(j, n) \in SUBSET Before(i, n)
  <2>1. Before(i, n) \in SUBSET Rest(n)
      BY DEF Before
  <2>2. IsFiniteSet(Before(i, n))
      BY <2>1, RestIsFinite, FS_Subset
  <2>3. i \in Nat /\ Rest(n) \in SUBSET Nat
      BY <1>1, RestIsFinite
  <2>4. Before(j, n) \in SUBSET Before(i, n)
      BY <2>3 DEF Before
  <2>5. QED
      BY <2>2, <2>4
<1>3. /\ Cardinality(Before(j, n)) <= Cardinality(Before(i, n))
      /\ IsFiniteSet(Before(j, n))
    BY <1>2, FS_Subset
<1>4. Cardinality(Before(j, n)) \in Nat /\ Cardinality(Before(i, n)) \in Nat
    BY <1>2, <1>3, FS_CardinalityType
<1>5. PAGE_SIZE \in Nat
    BY IndexerAssumption
<1>6. Cardinality(Before(j, n)) < PAGE_SIZE
    BY <1>1, <1>3, <1>4, <1>5
<1>7. QED
    BY <1>6, RestIsFinite

(* A page that is not full is everything the node has left.                *)
LEMMA LastPageIsAll ==
    ASSUME ChainTypes, NEW n, LastPage(PageOf(n))
    PROVE  PageOf(n) = Rest(n)
<1>1. PageOf(n) \in SUBSET Rest(n) /\ PageOf(n) \in SUBSET Nat /\ Rest(n) \in SUBSET Nat
    BY RestIsFinite
<1>2. SUFFICES ASSUME PageOf(n) # Rest(n)
               PROVE  FALSE
    OBVIOUS
<1> DEFINE T == Rest(n) \ PageOf(n)
<1>3. T \in SUBSET Nat /\ T # {}
    BY <1>1, <1>2
<1> HIDE DEF T
<1>4. PICK i \in T : \A y \in T : i <= y
    BY <1>3, LeastOf
<1>5. i \in Rest(n) /\ i \notin PageOf(n) /\ i \in Nat
    BY <1>3, <1>4 DEF T
<1>6. Before(i, n) \in SUBSET PageOf(n)
  <2>1. SUFFICES ASSUME NEW j \in Rest(n), j < i, j \notin PageOf(n)
                 PROVE  FALSE
      BY DEF Before
  <2>2. j \in T /\ j \in Nat
      BY <1>1, <2>1 DEF T
  <2>3. QED
      BY <1>4, <1>5, <2>1, <2>2
<1>7. IsFiniteSet(PageOf(n))
    BY <1>1, RestIsFinite, FS_Subset
<1>8. /\ Cardinality(Before(i, n)) <= Cardinality(PageOf(n))
      /\ IsFiniteSet(Before(i, n))
    BY <1>6, <1>7, FS_Subset
<1>9. Cardinality(Before(i, n)) \in Nat /\ Cardinality(PageOf(n)) \in Nat
    BY <1>7, <1>8, FS_CardinalityType
<1>10. Cardinality(PageOf(n)) < PAGE_SIZE /\ PAGE_SIZE \in Nat
    BY IndexerAssumption DEF LastPage
<1>11. Cardinality(Before(i, n)) < PAGE_SIZE
    BY <1>8, <1>9, <1>10
<1>12. QED
    BY <1>5, <1>11, RestIsFinite

-----------------------------------------------------------------------------
(* What a step that leaves the chain alone keeps: nothing stored or        *)
(* recorded is taken back.                                                 *)
LEMMA KeptStays ==
    ASSUME chain' = chain, chainEvents \subseteq chainEvents', gapRows \subseteq gapRows',
           NEW i, Kept(i)
    PROVE  Kept(i)'
    BY DEF Kept, InGap

(* A step that leaves the chain and the nodes alone.                       *)
LEMMA ChainStays ==
    ASSUME ChainTypes, UNCHANGED <<tip, chain, nodeTips>>
    PROVE  ChainTypes'
    BY DEF ChainTypes

(* A poll that is not running has nothing.                                 *)
LEMMA NoPollIsPoll ==
    /\ NoPoll \in Poll
    /\ NoPoll.at = "idle" /\ NoPoll.start = 0 /\ NoPoll.events = {} /\ NoPoll.latest = 0
    BY DEF NoPoll, Poll, PollSteps

(* An idle poll has nothing to answer for.                                 *)
LEMMA IdleCovers ==
    ASSUME poll' = NoPoll
    PROVE  PollCovers'
    BY NoPollIsPoll DEF PollCovers

(* Only the step of a poll moves, or it is given up.                       *)
LEMMA GivenUpKeeps ==
    ASSUME IndexerInv, poll' = NoPoll, lastScanned' \in {lastScanned, None},
           UNCHANGED <<tip, chain, nodeTips, chainEvents, cursorRow, gapRows, since>>
    PROVE  IndexerInv'
<1>1. ChainTypes'
    BY ChainStays DEF IndexerInv
<1>2. IndexerTypes'
  <2>1. IndexerTypes /\ tip \in Nat
      BY IndexerAssumption DEF IndexerInv, ChainTypes
  <2>2. QED
      BY <2>1, NoPollIsPoll DEF IndexerTypes
<1>3. StoredCovers'
    BY DEF IndexerInv, StoredCovers, Promised, Kept, InGap
<1>4. NothingLostSilently'
    BY DEF IndexerInv, NothingLostSilently, Kept, InGap
<1>5. QED
    BY <1>1, <1>2, <1>3, <1>4, IdleCovers DEF IndexerInv

(* A new ledger is newer than every cursor and every poll.                 *)
LEMMA CloseKeeps ==
    ASSUME IndexerInv, CloseWithEvents
    PROVE  IndexerInv'
<1>1. PICK n \in 0 .. MaxEvents - Len(chain) :
         chain' = chain \o [i \in 1 .. n |-> tip + 1]
    BY DEF CloseWithEvents
<1>2. /\ tip \in Nat \ {0} /\ tip < MaxLedgers /\ tip' = tip + 1 /\ MaxLedgers \in Nat
      /\ chain \in Seq(Nat \ {0}) /\ n \in Nat /\ Len(chain) \in Nat
    BY IndexerAssumption, <1>1 DEF IndexerInv, ChainTypes, CloseWithEvents
<1>3. /\ chain' \in Seq(Nat \ {0})
      /\ DOMAIN chain \subseteq DOMAIN chain'
      /\ DOMAIN chain = 1 .. Len(chain) /\ DOMAIN chain' = 1 .. (Len(chain) + n)
      /\ \A i \in DOMAIN chain : chain'[i] = chain[i]
      /\ \A i \in DOMAIN chain' : i \in DOMAIN chain \/ chain'[i] = tip + 1
  <2> DEFINE new == [i \in 1 .. n |-> tip + 1]
  <2>1. new \in Seq(Nat \ {0}) /\ Len(new) = n
      BY <1>2
  <2>2. \A i \in 1 .. n : new[i] = tip + 1
      OBVIOUS
  <2> HIDE DEF new
  <2>3. chain' = chain \o new
      BY <1>1 DEF new
  <2>4. /\ chain' \in Seq(Nat \ {0}) /\ Len(chain') = Len(chain) + n
        /\ \A i \in 1 .. Len(chain) : chain'[i] = chain[i]
        /\ \A i \in 1 .. (Len(chain) + n) :
              i > Len(chain) => chain'[i] = new[i - Len(chain)]
    <3>1. /\ chain' \in Seq(Nat \ {0}) /\ Len(chain') = Len(chain) + Len(new)
          /\ \A i \in 1 .. Len(chain) + Len(new) :
                chain'[i] = IF i <= Len(chain) THEN chain[i] ELSE new[i - Len(chain)]
        BY <1>2, <2>1, <2>3, ConcatProperties, Zenon
    <3>2. \A i \in 1 .. Len(chain) + n :
             chain'[i] = IF i <= Len(chain) THEN chain[i] ELSE new[i - Len(chain)]
        BY <2>1, <3>1
    <3>3. \A i \in 1 .. Len(chain) : chain'[i] = chain[i]
        BY <1>2, <3>2
    <3>4. QED
        BY <1>2, <2>1, <3>1, <3>2, <3>3
  <2>5. DOMAIN chain = 1 .. Len(chain) /\ DOMAIN chain' = 1 .. (Len(chain) + n)
      BY <1>2, <2>4
  <2>6. ASSUME NEW i \in DOMAIN chain', i \notin DOMAIN chain
        PROVE  chain'[i] = tip + 1
    <3>1. i \in Int /\ i > Len(chain) /\ i - Len(chain) \in 1 .. n
        BY <1>2, <2>5, <2>6
    <3>2. QED
        BY <2>2, <2>4, <2>5, <2>6, <3>1
  <2>7. QED
      BY <1>2, <2>4, <2>5, <2>6
<1>4. \A i \in DOMAIN chain : chain[i] \in Nat \ {0} /\ chain[i] <= tip
    BY <1>2 DEF IndexerInv, ChainTypes
<1>old. ASSUME NEW i \in DOMAIN chain
        PROVE  chain'[i] = chain[i] /\ chain[i] \in Nat \ {0} /\ chain[i] <= tip
    BY <1>3, <1>4
<1>new. ASSUME NEW i \in DOMAIN chain', i \notin DOMAIN chain
        PROVE  chain'[i] = tip + 1
    BY <1>3, <1>new
<1>5. ChainTypes'
  <2>1. tip' \in 1 .. MaxLedgers'
      BY <1>2
  <2>2. \A i \in DOMAIN chain' : chain'[i] <= tip'
    <3>1. ASSUME NEW i \in DOMAIN chain'
          PROVE  chain'[i] <= tip'
      <4>1. CASE i \in DOMAIN chain
          BY <1>2, <1>old, <4>1
      <4>2. CASE i \notin DOMAIN chain
          BY <1>2, <1>new, <4>2
      <4>3. QED
          BY <4>1, <4>2
    <3>2. QED
        BY <3>1
  <2>3. \A i, j \in DOMAIN chain' : i <= j => chain'[i] <= chain'[j]
    <3>1. SUFFICES ASSUME NEW i \in DOMAIN chain', NEW j \in DOMAIN chain', i <= j
                   PROVE  chain'[i] <= chain'[j]
        OBVIOUS
    <3>2. CASE j \in DOMAIN chain
      <4>1. i \in DOMAIN chain
          BY <1>2, <1>3, <3>1, <3>2
      <4>2. QED
          BY <1>3, <3>1, <3>2, <4>1 DEF IndexerInv, ChainTypes
    <3>3. CASE j \notin DOMAIN chain
      <4>1. chain'[j] = tip'
          BY <1>2, <1>new, <3>3
      <4>2. QED
          BY <2>2, <4>1
    <3>4. QED
        BY <3>2, <3>3
  <2>4. nodeTips' \in [RpcNodes -> Nat] /\ \A m \in RpcNodes : nodeTips'[m] <= tip'
    <3>1. nodeTips' = nodeTips
        BY DEF CloseWithEvents
    <3>2. nodeTips \in [RpcNodes -> Nat] /\ \A m \in RpcNodes : nodeTips[m] <= tip
        BY DEF IndexerInv, ChainTypes
    <3>3. QED
        BY <1>2, <3>1, <3>2
  <2>5. QED
      BY <1>3, <2>1, <2>2, <2>3, <2>4 DEF ChainTypes
<1>6. UNCHANGED <<chainEvents, cursorRow, lastScanned, gapRows, poll, since>>
    BY DEF CloseWithEvents
<1>7. /\ chainEvents \subseteq DOMAIN chain /\ poll.events \subseteq DOMAIN chain
      /\ cursorRow \in Nat \cup {None} /\ lastScanned \in Nat \cup {None}
      /\ \A c \in {cursorRow, lastScanned} \ {None} : c <= tip
      /\ poll \in Poll /\ poll.start \in Nat /\ poll.latest \in Nat
      /\ poll.start <= tip + 1 /\ poll.latest <= tip
    BY DEF IndexerInv, IndexerTypes, Poll
<1>8. IndexerTypes'
  <2>1. \A c \in {cursorRow, lastScanned} \ {None} : c <= tip'
    <3>1. ASSUME NEW c \in {cursorRow, lastScanned} \ {None}
          PROVE  c <= tip'
      <4>1. c \in Nat /\ c <= tip
          BY <1>7
      <4>2. QED
          BY <1>2, <4>1
    <3>2. QED
        BY <3>1
  <2>2. poll.start <= tip' + 1 /\ poll.latest <= tip'
      BY <1>2, <1>7
  <2>3. chainEvents \subseteq DOMAIN chain' /\ poll.events \subseteq DOMAIN chain'
      BY <1>3, <1>7
  <2>4. QED
      BY <1>6, <2>1, <2>2, <2>3 DEF IndexerInv, IndexerTypes
<1>9. ASSUME NEW i \in DOMAIN chain
      PROVE  (Promised(i)' => Promised(i)) /\ (Kept(i) => Kept(i)')
    BY <1>3, <1>6 DEF Promised, Kept, InGap
<1>10. StoredCovers'
  <2>1. SUFFICES ASSUME NEW i \in chainEvents, NEW j \in DOMAIN chain',
                        Promised(j)', chain'[j] <= chain'[i]
                 PROVE  Kept(j)'
      BY <1>6 DEF StoredCovers
  <2>2. i \in DOMAIN chain
      BY <1>7, <2>1
  <2>3. j \in DOMAIN chain
      BY <1>2, <1>old, <1>new, <2>1, <2>2
  <2>4. chain[j] <= chain[i]
      BY <1>old, <2>1, <2>2, <2>3
  <2>5. QED
    <3>1. Promised(j)
        BY <1>9, <2>1, <2>3
    <3>2. Kept(j)
        BY <2>1, <2>3, <2>4, <3>1 DEF IndexerInv, StoredCovers
    <3>3. QED
        BY <1>9, <2>3, <3>2
<1>11. PollCovers'
  <2>1. ASSUME poll.at # "idle", NEW i \in DOMAIN chain', Promised(i)',
               chain'[i] < poll.start
        PROVE  Kept(i)'
    <3>1. i \in DOMAIN chain /\ chain[i] < poll.start
        BY <1>2, <1>3, <1>7, <2>1
    <3>2. Promised(i)
        BY <1>9, <2>1, <3>1
    <3>3. Kept(i)
        BY <2>1, <3>1, <3>2 DEF IndexerInv, PollCovers
    <3>4. QED
        BY <1>9, <3>1, <3>3
  <2>2. ASSUME NEW i \in poll.events, NEW j \in DOMAIN chain', j <= i,
               poll.start <= chain'[j]
        PROVE  j \in poll.events
    <3>1. i \in 1 .. Len(chain) /\ j \in 1 .. (Len(chain) + n)
        BY <1>3, <1>7
    <3>2. j \in DOMAIN chain
        BY <1>2, <1>3, <2>2, <3>1
    <3>3. QED
        BY <1>3, <2>2, <3>2 DEF IndexerInv, PollCovers
  <2>3. ASSUME poll.at \in {"fetched", "stored"}
        PROVE  /\ \A i \in DOMAIN chain' :
                     poll.start <= chain'[i] /\ chain'[i] <= poll.latest => i \in poll.events
               /\ \A i \in poll.events : chain'[i] <= poll.latest
    <3>1. ASSUME NEW i \in DOMAIN chain', poll.start <= chain'[i], chain'[i] <= poll.latest
          PROVE  i \in poll.events
      <4>1. i \in DOMAIN chain /\ chain'[i] = chain[i]
          BY <1>2, <1>3, <1>7, <3>1
      <4>2. QED
          BY <2>3, <3>1, <4>1 DEF IndexerInv, PollCovers
    <3>2. \A i \in poll.events : chain'[i] <= poll.latest
        BY <1>3, <1>7, <2>3 DEF IndexerInv, PollCovers
    <3>3. QED
        BY <3>1, <3>2
  <2>4. poll.at = "stored" => poll.events \subseteq chainEvents
      BY DEF IndexerInv, PollCovers
  <2>5. QED
      BY <1>6, <2>1, <2>2, <2>3, <2>4 DEF PollCovers
<1>12. NothingLostSilently'
  <2>1. SUFFICES ASSUME NEW i \in DOMAIN chain', since # None, since <= chain'[i],
                        NEW c \in {lastScanned, cursorRow} \ {None}, chain'[i] <= c
                 PROVE  Kept(i)'
      BY <1>6 DEF NothingLostSilently
  <2>2. c \in Nat /\ c <= tip
      BY <1>7
  <2>3. i \in DOMAIN chain /\ chain'[i] = chain[i]
      BY <1>2, <1>3, <2>1, <2>2
  <2>4. QED
    <3>1. Kept(i)
        BY <2>1, <2>3 DEF IndexerInv, NothingLostSilently
    <3>2. QED
        BY <1>9, <2>3, <3>1
<1>13. QED
    BY <1>5, <1>8, <1>10, <1>11, <1>12 DEF IndexerInv

(* A node that catches up changes nothing the indexer has.                 *)
LEMMA NodeKeeps ==
    ASSUME IndexerInv, NEW n \in RpcNodes, NodeCatchesUp(n)
    PROVE  IndexerInv'
<1>1. UNCHANGED <<tip, chain, chainEvents, cursorRow, lastScanned, gapRows, poll, since>>
    BY DEF NodeCatchesUp
<1>2. ChainTypes'
  <2>1. nodeTips \in [RpcNodes -> Nat] /\ \A m \in RpcNodes : nodeTips[m] <= tip
      BY DEF IndexerInv, ChainTypes
  <2>2. tip \in Nat
      BY IndexerAssumption DEF IndexerInv, ChainTypes
  <2>3. nodeTips[n] < tip /\ nodeTips' = [nodeTips EXCEPT ![n] = @ + 1]
      BY DEF NodeCatchesUp
  <2>4. nodeTips' \in [RpcNodes -> Nat] /\ \A m \in RpcNodes : nodeTips'[m] <= tip
      BY <2>1, <2>2, <2>3
  <2>5. QED
      BY <1>1, <2>4 DEF IndexerInv, ChainTypes
<1>3. IndexerTypes'
    BY <1>1 DEF IndexerInv, IndexerTypes
<1>4. StoredCovers' /\ PollCovers'
  <2>1. StoredCovers'
      BY <1>1 DEF IndexerInv, StoredCovers, Promised, Kept, InGap
  <2>2. PollCovers'
      BY <1>1 DEF IndexerInv, PollCovers, Promised, Kept, InGap
  <2>3. QED
      BY <2>1, <2>2
<1>5. NothingLostSilently'
    BY <1>1 DEF IndexerInv, NothingLostSilently, Kept, InGap
<1>6. QED
    BY <1>2, <1>3, <1>4, <1>5 DEF IndexerInv

(* A poll that resumes behind a ledger up to which all is kept.            *)
LEMMA ResumeKeeps ==
    ASSUME IndexerInv, NEW g \in Nat, g <= tip, since # None,
           \A i \in DOMAIN chain : Promised(i) /\ chain[i] <= g => Kept(i),
           ResumeFrom(g),
           UNCHANGED <<tip, chain, nodeTips, chainEvents, cursorRow, lastScanned, gapRows>>
    PROVE  IndexerInv'
<1> DEFINE start == g + 1
<1>1. since' = since /\ poll' = [NoPoll EXCEPT !.at = "located", !.start = start]
    BY DEF ResumeFrom
<1>2. /\ poll' \in Poll
      /\ poll'.at = "located" /\ poll'.start = g + 1 /\ poll'.events = {} /\ poll'.latest = 0
  <2>1. start \in Nat
      OBVIOUS
  <2> HIDE DEF start
  <2>2. /\ poll' \in Poll
        /\ poll'.at = "located" /\ poll'.start = start /\ poll'.events = {} /\ poll'.latest = 0
      BY <1>1, <2>1, NoPollIsPoll DEF Poll, PollSteps
  <2>3. QED
      BY <2>2 DEF start
<1>3. tip \in Nat /\ chain \in Seq(Nat \ {0})
    BY IndexerAssumption DEF IndexerInv, ChainTypes
<1>4. ChainTypes'
    BY ChainStays DEF IndexerInv
<1>5. IndexerTypes'
  <2>1. poll'.start <= tip + 1 /\ poll'.latest <= tip
      BY <1>2, <1>3
  <2>2. QED
      BY <1>1, <1>2, <2>1 DEF IndexerInv, IndexerTypes
<1>6. StoredCovers'
    BY <1>1 DEF IndexerInv, StoredCovers, Promised, Kept, InGap
<1>7. PollCovers'
  <2>1. ASSUME NEW i \in DOMAIN chain, Promised(i)', chain[i] < poll'.start
        PROVE  Kept(i)'
    <3>1. chain[i] <= g
        BY <1>2, <1>3, <2>1
    <3>2. Promised(i)
        BY <1>1, <2>1 DEF Promised
    <3>3. Kept(i)
        BY <3>1, <3>2
    <3>4. QED
        BY <3>3, KeptStays
  <2>2. QED
      BY <1>2, <2>1 DEF PollCovers
<1>8. NothingLostSilently'
    BY <1>1 DEF IndexerInv, NothingLostSilently, Kept, InGap
<1>9. QED
    BY <1>4, <1>5, <1>6, <1>7, <1>8 DEF IndexerInv

(* A cold start promises nothing before its own first ledger.              *)
LEMMA ColdStartKeeps ==
    ASSUME IndexerInv, NEW n \in RpcNodes, ColdStart(n),
           UNCHANGED <<tip, chain, nodeTips, chainEvents, cursorRow, lastScanned, gapRows>>
    PROVE  IndexerInv'
<1> DEFINE g == Later(1, nodeTips[n] - COLD_START_LOOKBACK_LEDGERS)
<1>1. tip \in Nat \ {0} /\ chain \in Seq(Nat \ {0}) /\ nodeTips[n] \in Nat /\ nodeTips[n] <= tip
    BY IndexerAssumption DEF IndexerInv, ChainTypes
<1>2. COLD_START_LOOKBACK_LEDGERS \in Nat /\ None \notin Nat
    BY IndexerAssumption
<1>3. g \in Nat /\ g <= tip
    BY <1>1, <1>2 DEF Later
<1>4. /\ poll' = [NoPoll EXCEPT !.at = "located", !.start = g]
      /\ since' = IF since = None THEN g ELSE Later(since, g)
    BY DEF ColdStart
<1> HIDE DEF g
<1>5. /\ poll' \in Poll
      /\ poll'.at = "located" /\ poll'.start = g /\ poll'.events = {} /\ poll'.latest = 0
    BY <1>3, <1>4 DEF NoPoll, Poll, PollSteps
<1>6. since \in Nat \cup {None}
    BY DEF IndexerInv, IndexerTypes
<1>7. /\ since' \in Nat /\ since' # None /\ g <= since'
      /\ since # None => since <= since'
    BY <1>2, <1>3, <1>4, <1>6 DEF Later
<1>8. ChainTypes'
    BY ChainStays DEF IndexerInv
<1>9. IndexerTypes'
  <2>1. poll'.start <= tip + 1 /\ poll'.latest <= tip
      BY <1>1, <1>3, <1>5
  <2>2. QED
      BY <1>5, <1>7, <2>1 DEF IndexerInv, IndexerTypes
<1>10. ASSUME NEW i \in DOMAIN chain, Promised(i)', since # None
       PROVE  Promised(i)
  <2>1. chain[i] \in Nat /\ since \in Nat
      BY <1>1, <1>6, <1>10
  <2>2. QED
      BY <1>7, <1>10, <2>1 DEF Promised
<1>11. StoredCovers'
  <2>1. SUFFICES ASSUME NEW i \in chainEvents, NEW j \in DOMAIN chain, Promised(j)',
                        chain[j] <= chain[i]
                 PROVE  Kept(j)'
      BY DEF StoredCovers
  <2>2. since # None
      BY <2>1 DEF IndexerInv, IndexerTypes
  <2>3. Promised(j)
      BY <1>10, <2>1, <2>2
  <2>4. Kept(j)
      BY <2>1, <2>3 DEF IndexerInv, StoredCovers
  <2>5. QED
      BY <2>4, KeptStays
<1>12. PollCovers'
  <2>1. ASSUME NEW i \in DOMAIN chain, Promised(i)', chain[i] < poll'.start
        PROVE  FALSE
    <3>1. chain[i] \in Nat /\ since' <= chain[i]
        BY <1>1, <2>1 DEF Promised
    <3>2. QED
        BY <1>3, <1>5, <1>7, <2>1, <3>1
  <2>2. QED
      BY <1>5, <2>1 DEF PollCovers
<1>13. NothingLostSilently'
  <2>1. SUFFICES ASSUME NEW i \in DOMAIN chain, since' <= chain[i],
                        NEW c \in {lastScanned, cursorRow} \ {None}, chain[i] <= c
                 PROVE  Kept(i)'
      BY DEF NothingLostSilently
  <2>2. since # None
      BY <2>1 DEF IndexerInv, IndexerTypes
  <2>3. Promised(i)
      BY <1>7, <1>10, <2>1, <2>2 DEF Promised
  <2>4. Kept(i)
      BY <2>1, <2>3 DEF IndexerInv, NothingLostSilently, Promised
  <2>5. QED
      BY <2>4, KeptStays
<1>14. QED
    BY <1>8, <1>9, <1>11, <1>12, <1>13 DEF IndexerInv

(* Wherever a poll resumes, memory, the cursor row or the newest stored    *)
(* event, nothing is missing behind it.                                    *)
LEMMA CycleKeeps ==
    ASSUME IndexerInv, RunIndexerCycle
    PROVE  IndexerInv'
<1>1. UNCHANGED <<tip, chain, nodeTips, chainEvents, cursorRow, lastScanned, gapRows>>
    BY DEF RunIndexerCycle
<1>2. IndexerTypes /\ ChainTypes /\ StoredCovers /\ NothingLostSilently
    BY DEF IndexerInv
<1>3. ASSUME NEW c \in {lastScanned, cursorRow} \ {None}, ResumeFrom(c)
      PROVE  IndexerInv'
  <2>1. c \in Nat /\ c <= tip /\ since # None
      BY <1>2 DEF IndexerTypes
  <2>2. \A i \in DOMAIN chain : Promised(i) /\ chain[i] <= c => Kept(i)
      BY <1>2 DEF NothingLostSilently, Promised
  <2>3. QED
      BY <1>1, <1>3, <2>1, <2>2, ResumeKeeps
<1>4. ASSUME NewestStored # None, ResumeFrom(NewestStored)
      PROVE  IndexerInv'
  <2>1. chainEvents \subseteq DOMAIN chain /\ tip \in 1 .. MaxLedgers /\ MaxLedgers \in Nat
      BY <1>2, IndexerAssumption DEF IndexerTypes, ChainTypes
  <2>2. NewestStored \in Nat
      BY <1>2, <1>4, <2>1, NewestStoredIs
  <2>3. PICK k \in chainEvents : chain[k] = NewestStored
      BY <1>2, <1>4, <2>1, NewestStoredIs
  <2>4. NewestStored <= tip
      BY <1>2, <2>1, <2>3 DEF ChainTypes
  <2>5. since # None
      BY <1>2, <2>3 DEF IndexerTypes
  <2>6. \A i \in DOMAIN chain : Promised(i) /\ chain[i] <= NewestStored => Kept(i)
      BY <1>2, <2>3 DEF StoredCovers
  <2>7. QED
      BY <1>1, <1>4, <2>2, <2>4, <2>5, <2>6, ResumeKeeps
<1>5. ASSUME NEW n \in RpcNodes, ColdStart(n)
      PROVE  IndexerInv'
    BY <1>1, <1>5, ColdStartKeeps
<1>6. QED
    BY <1>3, <1>4, <1>5 DEF RunIndexerCycle

(* What the clamp skips is in the gap it records.                          *)
LEMMA ClampKeeps ==
    ASSUME IndexerInv, ClampToRetention
    PROVE  IndexerInv'
<1>1. /\ poll.at = "located"
      /\ UNCHANGED <<tip, chain, nodeTips, chainEvents, cursorRow, lastScanned, since>>
    BY DEF ClampToRetention
<1>2. PICK n \in RpcNodes :
         /\ gapRows' = gapRows \union SkippedRange(poll.start, Oldest(n))
         /\ poll' = [poll EXCEPT !.at = "paging", !.start = Later(@, Oldest(n))]
    BY DEF ClampToRetention
<1>3. tip \in Nat \ {0} /\ chain \in Seq(Nat \ {0}) /\ nodeTips[n] \in Nat /\ nodeTips[n] <= tip
    BY IndexerAssumption DEF IndexerInv, ChainTypes
<1>4. Oldest(n) \in Nat /\ Oldest(n) <= tip + 1
    BY <1>3, IndexerAssumption DEF Oldest, Later
<1>5. poll \in Poll /\ poll.start \in Nat /\ poll.start <= tip + 1
    BY DEF IndexerInv, IndexerTypes, Poll
<1> DEFINE start == Later(poll.start, Oldest(n))
<1>6. start \in Nat /\ poll.start <= start /\ start <= tip + 1 /\ start \in {poll.start, Oldest(n)}
    BY <1>3, <1>4, <1>5 DEF Later
<1>7. poll' = [poll EXCEPT !.at = "paging", !.start = start]
    BY <1>2
<1> HIDE DEF start
<1>8. /\ poll' \in Poll
      /\ poll'.at = "paging" /\ poll'.start = start
      /\ poll'.events = poll.events /\ poll'.latest = poll.latest
    BY <1>5, <1>6, <1>7 DEF Poll, PollSteps
<1>9. ChainTypes'
    BY <1>1, ChainStays DEF IndexerInv
<1>10. IndexerTypes'
    BY <1>1, <1>6, <1>8 DEF IndexerInv, IndexerTypes
<1>11. ASSUME NEW i \in DOMAIN chain, Kept(i)
       PROVE  Kept(i)'
    BY <1>1, <1>2, <1>11, KeptStays
<1>12. StoredCovers'
  <2>1. SUFFICES ASSUME NEW i \in chainEvents, NEW j \in DOMAIN chain, Promised(j)',
                        chain[j] <= chain[i]
                 PROVE  Kept(j)'
      BY <1>1 DEF StoredCovers
  <2>2. Promised(j)
      BY <1>1, <2>1 DEF Promised
  <2>3. Kept(j)
      BY <2>1, <2>2 DEF IndexerInv, StoredCovers
  <2>4. QED
      BY <1>11, <2>3
<1>13. PollCovers'
  <2>1. ASSUME NEW i \in DOMAIN chain, Promised(i)', chain[i] < start
        PROVE  Kept(i)'
    <3>1. chain[i] \in Nat
        BY <1>3
    <3>2. CASE chain[i] < poll.start
      <4>1. Promised(i)
          BY <1>1, <2>1 DEF Promised
      <4>2. Kept(i)
          BY <1>1, <3>2, <4>1 DEF IndexerInv, PollCovers
      <4>3. QED
          BY <1>11, <4>2
    <3>3. CASE poll.start <= chain[i]
      <4>1. poll.start < Oldest(n) /\ chain[i] <= Oldest(n) - 1
          BY <1>4, <1>5, <1>6, <2>1, <3>1, <3>3
      <4>2. <<poll.start, Oldest(n) - 1>> \in gapRows'
          BY <1>2, <4>1 DEF SkippedRange
      <4>3. InGap(i)'
          BY <1>1, <3>3, <4>1, <4>2 DEF InGap
      <4>4. QED
          BY <4>3 DEF Kept
    <3>4. QED
        BY <1>5, <3>1, <3>2, <3>3
  <2>2. ASSUME NEW i \in poll.events, NEW j \in DOMAIN chain, j <= i, start <= chain[j]
        PROVE  j \in poll.events
    <3>1. chain[j] \in Nat
        BY <1>3
    <3>2. poll.start <= chain[j]
        BY <1>5, <1>6, <2>2, <3>1
    <3>3. QED
        BY <2>2, <3>2 DEF IndexerInv, PollCovers
  <2>3. QED
      BY <1>1, <1>8, <2>1, <2>2 DEF PollCovers
<1>14. NothingLostSilently'
  <2>1. SUFFICES ASSUME NEW i \in DOMAIN chain, since # None, since <= chain[i],
                        NEW c \in {lastScanned, cursorRow} \ {None}, chain[i] <= c
                 PROVE  Kept(i)'
      BY <1>1 DEF NothingLostSilently
  <2>2. Kept(i)
      BY <2>1 DEF IndexerInv, NothingLostSilently
  <2>3. QED
      BY <1>11, <2>2
<1>15. QED
    BY <1>9, <1>10, <1>12, <1>13, <1>14 DEF IndexerInv

(* A page leaves no hole before it, and the last one leaves nothing out up *)
(* to the tip it was read at.                                              *)
LEMMA GetEventsKeeps ==
    ASSUME IndexerInv, GetEvents
    PROVE  IndexerInv'
<1>1. /\ poll.at = "paging"
      /\ UNCHANGED <<tip, chain, nodeTips, chainEvents, cursorRow, lastScanned, gapRows, since>>
    BY DEF GetEvents
<1>2. PICK n \in RpcNodes :
         /\ Serves(n)
         /\ poll' = [poll EXCEPT
              !.at = IF LastPage(PageOf(n)) THEN "fetched" ELSE "paging",
              !.events = @ \union PageOf(n), !.latest = nodeTips[n]]
    BY DEF GetEvents
<1>3. /\ tip \in Nat \ {0} /\ chain \in Seq(Nat \ {0})
      /\ nodeTips[n] \in Nat /\ nodeTips[n] <= tip
      /\ DOMAIN chain \subseteq Nat
    BY IndexerAssumption DEF IndexerInv, ChainTypes
<1>4. ChainTypes /\ poll \in Poll /\ poll.events \subseteq DOMAIN chain
    BY DEF IndexerInv, IndexerTypes
<1>5. PageOf(n) \subseteq Rest(n) /\ Rest(n) \subseteq DOMAIN chain
    BY <1>4, RestIsFinite
<1> DEFINE at == IF LastPage(PageOf(n)) THEN "fetched" ELSE "paging"
           events == poll.events \union PageOf(n)
<1>6. poll' = [poll EXCEPT !.at = at, !.events = events, !.latest = nodeTips[n]]
    BY <1>2
<1>7. /\ at \in {"fetched", "paging"} /\ (at = "fetched" => LastPage(PageOf(n)))
      /\ events \subseteq DOMAIN chain /\ events \in SUBSET Nat
    BY <1>3, <1>4, <1>5
<1>8. \A i \in events : i \in poll.events \/ i \in PageOf(n)
    OBVIOUS
<1>9. poll.events \subseteq events /\ PageOf(n) \subseteq events
    OBVIOUS
<1> HIDE DEF at, events
<1>10. /\ poll' \in Poll
       /\ poll'.at = at /\ poll'.start = poll.start
       /\ poll'.events = events /\ poll'.latest = nodeTips[n]
    BY <1>3, <1>4, <1>6, <1>7 DEF Poll, PollSteps
<1>11. ChainTypes'
    BY <1>1, ChainStays DEF IndexerInv
<1>12. IndexerTypes'
    BY <1>1, <1>3, <1>7, <1>10 DEF IndexerInv, IndexerTypes
<1>13. StoredCovers'
    BY <1>1 DEF IndexerInv, StoredCovers, Promised, Kept, InGap
<1>14. NothingLostSilently'
    BY <1>1 DEF IndexerInv, NothingLostSilently, Kept, InGap
<1>15. ASSUME NEW j \in DOMAIN chain, poll.start <= chain[j], chain[j] <= nodeTips[n]
       PROVE  j \in poll.events \/ j \in Rest(n)
  <2>1. CASE \E k \in poll.events : j <= k
      BY <1>15, <2>1 DEF IndexerInv, PollCovers
  <2>2. CASE \A k \in poll.events : k < j
      BY <1>15, <2>2 DEF Rest
  <2>3. QED
      BY <1>3, <1>4, <2>1, <2>2
<1>16. ASSUME NEW i \in events, NEW j \in DOMAIN chain, j <= i, poll.start <= chain[j]
       PROVE  j \in events
  <2>1. CASE i \in poll.events
      BY <1>9, <1>16, <2>1 DEF IndexerInv, PollCovers
  <2>2. CASE i \in PageOf(n)
    <3>1. i \in Rest(n) /\ i \in DOMAIN chain /\ chain[i] <= nodeTips[n]
        BY <1>5, <2>2 DEF Rest
    <3>2. chain[j] <= chain[i] /\ chain[i] \in Nat /\ chain[j] \in Nat
        BY <1>3, <1>4, <1>16, <3>1 DEF ChainTypes
    <3>3. chain[j] <= nodeTips[n]
        BY <1>3, <3>1, <3>2
    <3>4. j \in poll.events \/ j \in Rest(n)
        BY <1>15, <1>16, <3>3
    <3>5. QED
        BY <1>4, <1>9, <1>16, <2>2, <3>4, PageIsPrefix
  <2>3. QED
      BY <1>8, <1>16, <2>1, <2>2
<1>17. ASSUME at = "fetched"
       PROVE  /\ \A i \in DOMAIN chain :
                    poll.start <= chain[i] /\ chain[i] <= nodeTips[n] => i \in events
              /\ \A i \in events : chain[i] <= nodeTips[n]
  <2>1. PageOf(n) = Rest(n)
      BY <1>4, <1>7, <1>17, LastPageIsAll
  <2>2. \A i \in DOMAIN chain :
           poll.start <= chain[i] /\ chain[i] <= nodeTips[n] => i \in events
      BY <1>9, <1>15, <2>1
  <2>3. ASSUME NEW i \in events
        PROVE  chain[i] <= nodeTips[n]
    <3>1. CASE i \in PageOf(n)
        BY <1>5, <3>1 DEF Rest
    <3>2. CASE i \in poll.events
      <4>1. Resume \in 1 .. MaxLedgers /\ chain[i] <= Resume
          BY <1>4, <3>2, ResumeIs
      <4>2. Resume <= nodeTips[n]
          BY <1>2 DEF Serves
      <4>3. chain[i] \in Nat /\ Resume \in Nat
          BY <1>3, <1>7, <2>3, <4>1, IndexerAssumption
      <4>4. QED
          BY <1>3, <4>1, <4>2, <4>3
    <3>3. QED
        BY <1>8, <2>3, <3>1, <3>2
  <2>4. QED
      BY <2>2, <2>3
<1>18. PollCovers'
  <2>1. ASSUME NEW i \in DOMAIN chain, Promised(i)', chain[i] < poll.start
        PROVE  Kept(i)'
    <3>1. Promised(i)
        BY <1>1, <2>1 DEF Promised
    <3>2. Kept(i)
        BY <1>1, <2>1, <3>1 DEF IndexerInv, PollCovers
    <3>3. QED
        BY <1>1, <3>2, KeptStays
  <2>2. QED
      BY <1>1, <1>7, <1>10, <1>16, <1>17, <2>1 DEF PollCovers
<1>19. QED
    BY <1>11, <1>12, <1>13, <1>14, <1>18 DEF IndexerInv

(* The rows that are stored reach from the start of the poll to its tip,   *)
(* so the newest of them is a cursor as good as any.                       *)
LEMMA InsertKeeps ==
    ASSUME IndexerInv, InsertEvents
    PROVE  IndexerInv'
<1>1. /\ poll.at = "fetched" /\ chainEvents' = chainEvents \union poll.events
      /\ poll' = [poll EXCEPT !.at = "stored"]
      /\ UNCHANGED <<tip, chain, nodeTips, cursorRow, lastScanned, gapRows, since>>
    BY DEF InsertEvents
<1>2. /\ poll \in Poll /\ poll.events \subseteq DOMAIN chain
      /\ poll.start \in Nat /\ poll.latest \in Nat
    BY DEF IndexerInv, IndexerTypes, Poll
<1>3. /\ poll' \in Poll
      /\ poll'.at = "stored" /\ poll'.start = poll.start
      /\ poll'.events = poll.events /\ poll'.latest = poll.latest
    BY <1>1, <1>2 DEF Poll, PollSteps
<1>4. ChainTypes'
    BY <1>1, ChainStays DEF IndexerInv
<1>5. IndexerTypes'
    BY <1>1, <1>2, <1>3 DEF IndexerInv, IndexerTypes
<1>6. ASSUME NEW i \in DOMAIN chain, Kept(i)
      PROVE  Kept(i)'
    BY <1>1, <1>6, KeptStays
<1>7. ASSUME NEW i, i \in poll.events
      PROVE  Kept(i)'
    BY <1>1, <1>7 DEF Kept
<1>8. ASSUME NEW i \in DOMAIN chain, Promised(i)', chain[i] < poll.start
      PROVE  Kept(i)'
  <2>1. Promised(i)
      BY <1>1, <1>8 DEF Promised
  <2>2. Kept(i)
      BY <1>1, <1>8, <2>1 DEF IndexerInv, PollCovers
  <2>3. QED
      BY <1>6, <2>2
<1>9. StoredCovers'
  <2>1. SUFFICES ASSUME NEW i \in chainEvents', NEW j \in DOMAIN chain, Promised(j)',
                        chain[j] <= chain[i]
                 PROVE  Kept(j)'
      BY <1>1 DEF StoredCovers
  <2>2. CASE i \in chainEvents
    <3>1. Promised(j)
        BY <1>1, <2>1 DEF Promised
    <3>2. Kept(j)
        BY <2>1, <2>2, <3>1 DEF IndexerInv, StoredCovers
    <3>3. QED
        BY <1>6, <3>2
  <2>3. CASE i \in poll.events
    <3>1. chain[i] \in Nat /\ chain[j] \in Nat
        BY <1>2, <2>1, <2>3 DEF IndexerInv, ChainTypes
    <3>2. CASE chain[j] < poll.start
        BY <1>8, <2>1, <3>2
    <3>3. CASE poll.start <= chain[j]
      <4>1. chain[i] <= poll.latest
          BY <1>1, <2>3 DEF IndexerInv, PollCovers
      <4>2. chain[j] <= poll.latest
          BY <1>2, <2>1, <3>1, <4>1
      <4>3. j \in poll.events
          BY <1>1, <3>3, <4>2 DEF IndexerInv, PollCovers
      <4>4. QED
          BY <1>7, <4>3
    <3>4. QED
        BY <1>2, <3>1, <3>2, <3>3
  <2>4. QED
      BY <1>1, <2>1, <2>2, <2>3
<1>10. PollCovers'
    BY <1>1, <1>3, <1>8 DEF IndexerInv, PollCovers
<1>11. NothingLostSilently'
  <2>1. SUFFICES ASSUME NEW i \in DOMAIN chain, since # None, since <= chain[i],
                        NEW c \in {lastScanned, cursorRow} \ {None}, chain[i] <= c
                 PROVE  Kept(i)'
      BY <1>1 DEF NothingLostSilently
  <2>2. Kept(i)
      BY <2>1 DEF IndexerInv, NothingLostSilently
  <2>3. QED
      BY <1>6, <2>2
<1>12. QED
    BY <1>4, <1>5, <1>9, <1>10, <1>11 DEF IndexerInv

(* The cursor moves to a tip behind which everything is stored.            *)
LEMMA MoveCursorKeeps ==
    ASSUME IndexerInv, MoveCursor
    PROVE  IndexerInv'
<1>1. /\ poll.at = "stored" /\ poll' = NoPoll
      /\ cursorRow' \in {cursorRow, poll.latest} /\ lastScanned' = ScannedUpTo
      /\ UNCHANGED <<tip, chain, nodeTips, chainEvents, gapRows, since>>
    BY DEF MoveCursor
<1>2. /\ poll \in Poll /\ poll.events \subseteq DOMAIN chain
      /\ poll.start \in Nat /\ poll.latest \in Nat /\ poll.latest <= tip
      /\ lastScanned \in Nat \cup {None} /\ cursorRow \in Nat \cup {None}
      /\ since # None
    BY <1>1 DEF IndexerInv, IndexerTypes, Poll
<1>3. lastScanned' \in {lastScanned, poll.latest}
    BY <1>1 DEF ScannedUpTo, Later
<1>4. ChainTypes' /\ tip \in Nat
    BY <1>1, ChainStays, IndexerAssumption DEF IndexerInv, ChainTypes
<1>5. IndexerTypes'
    BY <1>1, <1>2, <1>3, <1>4, NoPollIsPoll DEF IndexerInv, IndexerTypes
<1>6. StoredCovers'
    BY <1>1 DEF IndexerInv, StoredCovers, Promised, Kept, InGap
<1>7. NothingLostSilently'
  <2>1. SUFFICES ASSUME NEW i \in DOMAIN chain, since # None, since <= chain[i],
                        NEW c \in {lastScanned', cursorRow'} \ {None}, chain[i] <= c
                 PROVE  Kept(i)
      BY <1>1 DEF NothingLostSilently, Kept, InGap
  <2>2. CASE c \in {lastScanned, cursorRow}
      BY <2>1, <2>2 DEF IndexerInv, NothingLostSilently
  <2>3. CASE c = poll.latest
    <3>1. chain[i] \in Nat
        BY DEF IndexerInv, ChainTypes
    <3>2. CASE chain[i] < poll.start
        BY <1>1, <2>1, <3>2 DEF IndexerInv, PollCovers, Promised
    <3>3. CASE poll.start <= chain[i]
        BY <1>1, <2>1, <2>3, <3>3 DEF IndexerInv, PollCovers, Kept
    <3>4. QED
        BY <1>2, <3>1, <3>2, <3>3
  <2>4. QED
      BY <1>1, <1>3, <2>1, <2>2, <2>3
<1>8. QED
    BY <1>1, <1>4, <1>5, <1>6, <1>7, IdleCovers DEF IndexerInv

(* No ledger after the first has closed and nothing is stored.             *)
LEMMA IndexerInvInit == IndexerInit => IndexerInv
<1> SUFFICES ASSUME IndexerInit
             PROVE  IndexerInv
    OBVIOUS
<1>1. chain = <<>> /\ DOMAIN chain = {} /\ chain \in Seq(Nat \ {0})
    BY DEF IndexerInit
<1>2. ChainTypes
    BY <1>1, IndexerAssumption DEF IndexerInit, ChainTypes
<1>3. IndexerTypes
    BY <1>1, NoPollIsPoll DEF IndexerInit, IndexerTypes
<1>4. StoredCovers /\ PollCovers /\ NothingLostSilently
    BY <1>1, NoPollIsPoll DEF IndexerInit, StoredCovers, PollCovers, NothingLostSilently
<1>5. QED
    BY <1>2, <1>3, <1>4 DEF IndexerInv

(* Every step keeps every cursor honest.                                   *)
LEMMA IndexerInvStep == IndexerInv /\ [IndexerNext]_indexerVars => IndexerInv'
<1> SUFFICES ASSUME IndexerInv, [IndexerNext]_indexerVars
             PROVE  IndexerInv'
    OBVIOUS
<1>1. CASE CloseWithEvents
    BY <1>1, CloseKeeps
<1>2. CASE \E n \in RpcNodes : NodeCatchesUp(n)
    BY <1>2, NodeKeeps
<1>3. CASE RunIndexerCycle
    BY <1>3, CycleKeeps
<1>4. CASE ClampToRetention
    BY <1>4, ClampKeeps
<1>5. CASE GetEvents
    BY <1>5, GetEventsKeeps
<1>6. CASE GetEventsRefused
    BY <1>6, GivenUpKeeps DEF GetEventsRefused
<1>7. CASE InsertEvents
    BY <1>7, InsertKeeps
<1>8. CASE MoveCursor
    BY <1>8, MoveCursorKeeps
<1>9. CASE PollFails
    BY <1>9, GivenUpKeeps DEF PollFails
<1>10. CASE UNCHANGED indexerVars
  <2>1. UNCHANGED <<tip, chain, nodeTips, chainEvents, cursorRow, lastScanned, gapRows,
                    poll, since>>
      BY <1>10 DEF indexerVars
  <2>2. ChainTypes'
      BY <2>1, ChainStays DEF IndexerInv
  <2>3. IndexerTypes'
      BY <2>1 DEF IndexerInv, IndexerTypes
  <2>4. StoredCovers'
      BY <2>1 DEF IndexerInv, StoredCovers, Promised, Kept, InGap
  <2>5. PollCovers'
      BY <2>1 DEF IndexerInv, PollCovers, Promised, Kept, InGap
  <2>6. NothingLostSilently'
      BY <2>1 DEF IndexerInv, NothingLostSilently, Kept, InGap
  <2>7. QED
      BY <2>2, <2>3, <2>4, <2>5, <2>6 DEF IndexerInv
<1>11. QED
    BY <1>1, <1>2, <1>3, <1>4, <1>5, <1>6, <1>7, <1>8, <1>9, <1>10 DEF IndexerNext, PollStep

(* The inductive invariant of the indexer.                                 *)
THEOREM IndexerInvHolds == IndexerSpec => []IndexerInv
    BY IndexerInvInit, IndexerInvStep, PTL DEF IndexerSpec

(* No event behind a cursor and after every cold start is lost in silence, *)
(* whatever the page size, the retention window, the number of nodes and   *)
(* the number of lost writes and restarts (poller.ts:126 and 168).         *)
THEOREM NothingLostHolds == IndexerSpec => []NothingLostSilently
<1>1. IndexerInv => NothingLostSilently
    BY DEF IndexerInv
<1>2. QED
    BY <1>1, IndexerInvHolds, PTL

-----------------------------------------------------------------------------
(* The books and the vault *)

RowStatus == {"none", "pending", "active", "pending_release", "released", "liquidated",
              "failed"}

VaultEvent == [topic : {"pledged", "released", "liquidated"}, units : Nat]

ReconTypes ==
    /\ pledgeRows \in [Pledges -> RowStatus]
    /\ envelopes \in [Pledges -> {"unsigned", "succeeded", "failed", None}]
    /\ vaultUnits \in Nat
    /\ vaultEvents \in Seq(VaultEvent)
    /\ indexed \subseteq DOMAIN vaultEvents
    /\ seizure \in [at : {"idle", "read", "seized", "booked"}, units : Nat]
    /\ raced \in BOOLEAN

(* A row waits for an envelope exactly while there is one. *)
InFlight ==
    \A p \in Pledges : envelopes[p] # None <=> pledgeRows[p] \in {"pending", "pending_release"}

(* The units that the vault holds for a pledge, going by its row and by    *)
(* what became of its envelope.                                            *)
BackedBy(row, fate, units) ==
    IF \/ row = "active"
       \/ row = "pending" /\ fate = "succeeded"
       \/ row = "pending_release" /\ fate # "succeeded"
    THEN units ELSE 0

Backing == [p \in Pledges |-> BackedBy(pledgeRows[p], envelopes[p], UnitsOf[p])]

Deltas(events) == [i \in DOMAIN events |-> TopicDelta(events[i])]

(* What was seized and is not booked yet. *)
Unbooked == IF seizure.at = "seized" THEN seizure.units ELSE 0

(* The vault's events add up to what it holds, and so do the pledges, with *)
(* what is seized and not booked yet.                                      *)
ReconInv ==
    /\ ReconTypes
    /\ InFlight
    /\ SumFunctionOnSet(Deltas(vaultEvents), DOMAIN vaultEvents) = vaultUnits
    /\ ~raced => SumFunctionOnSet(Backing, Pledges) = vaultUnits + Unbooked

(* An emitted event adds its own delta to the total.                       *)
LEMMA EmitAdds ==
    ASSUME NEW s \in Seq(VaultEvent), NEW e \in VaultEvent
    PROVE  /\ Append(s, e) \in Seq(VaultEvent)
           /\ DOMAIN s \subseteq DOMAIN Append(s, e)
           /\ SumFunctionOnSet(Deltas(Append(s, e)), DOMAIN Append(s, e))
                  = SumFunctionOnSet(Deltas(s), DOMAIN s) + TopicDelta(e)
<1>1. PICK n \in Nat : n = Len(s) /\ DOMAIN s = 1 .. n
    OBVIOUS
<1>2. PICK t \in Seq(VaultEvent) : t = Append(s, e)
    BY AppendProperties
<1>3. DOMAIN t = 1 .. (n + 1) /\ t[n + 1] = e /\ \A i \in 1 .. n : t[i] = s[i]
    BY <1>1, <1>2
<1>4. PICK f, g : f = Deltas(s) /\ g = Deltas(t)
    OBVIOUS
<1>5. /\ \A i \in 1 .. n : f[i] = TopicDelta(s[i])
      /\ \A i \in 1 .. (n + 1) : g[i] = TopicDelta(t[i])
    BY <1>1, <1>3, <1>4 DEF Deltas
<1>6. \A d \in VaultEvent : TopicDelta(d) \in Int
    BY DEF TopicDelta, VaultEvent
<1>7. \A i \in 1 .. (n + 1) : g[i] \in Int
    BY <1>3, <1>5, <1>6
<1>8. \A i \in 1 .. n : f[i] = g[i] /\ f[i] \in Int
    BY <1>1, <1>3, <1>5, <1>6
<1>9. IsFiniteSet(1 .. n) /\ IsFiniteSet(1 .. (n + 1)) /\ n + 1 \in 1 .. (n + 1)
  <2>1. 1 \in Int /\ n \in Int /\ n + 1 \in Int
      OBVIOUS
  <2>2. IsFiniteSet(1 .. n) /\ IsFiniteSet(1 .. (n + 1))
      BY <2>1, FS_Interval
  <2>3. QED
      BY <2>2
<1>10. (1 .. (n + 1)) \ {n + 1} = 1 .. n
    OBVIOUS
<1>11. SumFunctionOnSet(g, 1 .. (n + 1))
           = g[n + 1] + SumFunctionOnSet(g, (1 .. (n + 1)) \ {n + 1})
    BY <1>7, <1>9, SumTakesOut
<1>12. SumFunctionOnSet(f, 1 .. n) = SumFunctionOnSet(g, 1 .. n)
    BY <1>8, <1>9, SumSame
<1>13. SumFunctionOnSet(f, 1 .. n) \in Int
    BY <1>8, <1>9, SumInt
<1>14. g[n + 1] = TopicDelta(e) /\ TopicDelta(e) \in Int
    BY <1>3, <1>5, <1>6
<1>15. SumFunctionOnSet(g, 1 .. (n + 1)) = SumFunctionOnSet(f, 1 .. n) + TopicDelta(e)
  <2>1. PICK x \in Int, y \in Int : x = SumFunctionOnSet(f, 1 .. n) /\ y = TopicDelta(e)
      BY <1>13, <1>14
  <2>2. SumFunctionOnSet(g, 1 .. (n + 1)) = y + x
      BY <1>10, <1>11, <1>12, <1>14, <2>1, Zenon
  <2>3. y + x = x + y
      OBVIOUS
  <2>4. QED
      BY <2>1, <2>2, <2>3, Zenon
<1>16. DOMAIN s \subseteq DOMAIN t
    BY <1>1, <1>3
<1>17. QED
    BY <1>1, <1>2, <1>3, <1>4, <1>15, <1>16

(* When one pledge's row or envelope changes, the backing changes by what  *)
(* that pledge is backed by.                                               *)
LEMMA BackingMoves ==
    ASSUME ReconTypes, ReconTypes', NEW p \in Pledges,
           \A q \in Pledges \ {p} : /\ pledgeRows'[q] = pledgeRows[q]
                                    /\ envelopes'[q] = envelopes[q]
    PROVE  /\ SumFunctionOnSet(Backing', Pledges) = SumFunctionOnSet(Backing, Pledges)
                  + (BackedBy(pledgeRows'[p], envelopes'[p], UnitsOf[p])
                         - BackedBy(pledgeRows[p], envelopes[p], UnitsOf[p]))
           /\ SumFunctionOnSet(Backing, Pledges) \in Nat
<1>1. PICK f, g : f = Backing /\ g = Backing'
    OBVIOUS
<1>2. \A q \in Pledges : f[q] = BackedBy(pledgeRows[q], envelopes[q], UnitsOf[q])
    BY <1>1 DEF Backing
<1>3. \A q \in Pledges : g[q] = BackedBy(pledgeRows'[q], envelopes'[q], UnitsOf[q])
    BY <1>1 DEF Backing, BackedBy
<1>4. \A q \in Pledges : UnitsOf[q] \in Nat
    BY ReconciliationAssumption
<1>5. \A q \in Pledges : f[q] \in Nat /\ g[q] \in Nat
    BY <1>2, <1>3, <1>4 DEF BackedBy
<1>6. \A q \in Pledges \ {p} : f[q] = g[q]
    BY <1>2, <1>3
<1>7. IsFiniteSet(Pledges)
    BY ReconciliationAssumption
<1>8. \A q \in Pledges : f[q] \in Int /\ g[q] \in Int
    BY <1>5
<1>9. SumFunctionOnSet(g, Pledges) = SumFunctionOnSet(f, Pledges) + (g[p] - f[p])
    BY <1>6, <1>7, <1>8, SumMoves
<1>10. SumFunctionOnSet(f, Pledges) \in Nat
    BY <1>5, <1>7, SumNat
<1>11. QED
    BY <1>1, <1>2, <1>3, <1>9, <1>10

(* A request, and the settling of an intent, leave a pledge's backing as   *)
(* it is.                                                                  *)
LEMMA RowStepKeepsBacking ==
    ASSUME ReconInv, NEW p \in Pledges, RequestPledge(p) \/ Settles(p)
    PROVE  ReconInv'
<1>1. ReconTypes /\ InFlight
    BY DEF ReconInv
<1>2. PICK row \in RowStatus, fate \in {"unsigned", "succeeded", "failed", None} :
          /\ pledgeRows' = [pledgeRows EXCEPT ![p] = row]
          /\ envelopes' = [envelopes EXCEPT ![p] = fate]
          /\ fate # None <=> row \in {"pending", "pending_release"}
          /\ BackedBy(row, fate, UnitsOf[p])
                 = BackedBy(pledgeRows[p], envelopes[p], UnitsOf[p])
  <2>1. CASE RequestPledge(p) /\ pledgeRows[p] = "none"
      BY <2>1, ReconciliationAssumption DEF RequestPledge, RowStatus, BackedBy
  <2>2. CASE RequestPledge(p) /\ pledgeRows[p] = "active"
      BY <2>2, ReconciliationAssumption DEF RequestPledge, RowStatus, BackedBy
  <2>3. CASE Settles(p)
    <3>1. PICK row \in RowStatus : row = SettledRow(pledgeRows[p], envelopes[p])
        BY DEF SettledRow, RowStatus
    <3>2. /\ envelopes[p] \in {"succeeded", "failed"}
          /\ pledgeRows' = [pledgeRows EXCEPT ![p] = row]
          /\ envelopes' = [envelopes EXCEPT ![p] = None]
        BY <2>3, <3>1 DEF Settles
    <3>3. pledgeRows[p] \in {"pending", "pending_release"}
        BY <1>1, <3>2, ReconciliationAssumption DEF InFlight
    <3>4. /\ row \notin {"pending", "pending_release"}
          /\ BackedBy(row, None, UnitsOf[p])
                 = BackedBy(pledgeRows[p], envelopes[p], UnitsOf[p])
        BY <3>1, <3>2, <3>3 DEF SettledRow, BackedBy
    <3>5. QED
        BY <3>2, <3>4
  <2>4. QED
      BY <2>1, <2>2, <2>3 DEF RequestPledge
<1>3. UNCHANGED <<vaultUnits, vaultEvents, indexed, seizure, raced>>
    BY DEF RequestPledge, Settles
<1>4. ReconTypes'
    BY <1>1, <1>2, <1>3 DEF ReconTypes
<1>5. /\ pledgeRows'[p] = row /\ envelopes'[p] = fate
      /\ \A q \in Pledges \ {p} : pledgeRows'[q] = pledgeRows[q] /\ envelopes'[q] = envelopes[q]
    BY <1>1, <1>2 DEF ReconTypes
<1>6. InFlight'
    BY <1>1, <1>2, <1>5 DEF InFlight
<1>7. SumFunctionOnSet(Backing', Pledges) = SumFunctionOnSet(Backing, Pledges)
  <2>1. PICK x \in Nat : x = BackedBy(row, fate, UnitsOf[p])
      BY ReconciliationAssumption DEF BackedBy
  <2>2. /\ SumFunctionOnSet(Backing', Pledges) = SumFunctionOnSet(Backing, Pledges) + (x - x)
        /\ SumFunctionOnSet(Backing, Pledges) \in Nat
      BY <1>1, <1>2, <1>4, <1>5, <2>1, BackingMoves
  <2>3. QED
      BY <2>2
<1>8. QED
    BY <1>3, <1>4, <1>6, <1>7 DEF ReconInv, Unbooked

(* An envelope that lands moves the vault, its events and the backing of   *)
(* its pledge by the same units.                                           *)
LEMMA LandingMovesBoth ==
    ASSUME ReconInv, NEW p \in Pledges, Lands(p)
    PROVE  ReconInv'
<1>1. ReconTypes /\ InFlight
    BY DEF ReconInv
<1>2. PICK n \in Nat : n = UnitsOf[p]
    BY ReconciliationAssumption
<1>3. /\ UNCHANGED <<pledgeRows, indexed, seizure, raced>>
      /\ envelopes[p] = "unsigned"
    BY DEF Lands
<1>4. PICK fate \in {"succeeded", "failed"}, d \in Int :
          /\ envelopes' = [envelopes EXCEPT ![p] = fate]
          /\ vaultUnits' = vaultUnits + d /\ vaultUnits' \in Nat
          /\ \/ vaultEvents' = vaultEvents /\ d = 0
             \/ \E e \in VaultEvent : vaultEvents' = Append(vaultEvents, e) /\ TopicDelta(e) = d
          /\ BackedBy(pledgeRows[p], fate, n) = BackedBy(pledgeRows[p], "unsigned", n) + d
  <2>1. vaultUnits \in Nat /\ 0 - n \in Int
      BY <1>1 DEF ReconTypes
  <2>2. pledgeRows[p] \in {"pending", "pending_release"}
      BY <1>1, <1>3, ReconciliationAssumption DEF InFlight
  <2>3. CASE /\ pledgeRows[p] = "pending" /\ vaultUnits' = vaultUnits + UnitsOf[p]
             /\ Emit("pledged", UnitsOf[p])
             /\ envelopes' = [envelopes EXCEPT ![p] = "succeeded"]
    <3>1. PICK e \in VaultEvent : e = [topic |-> "pledged", units |-> n]
        BY DEF VaultEvent
    <3>2. TopicDelta(e) = n /\ vaultEvents' = Append(vaultEvents, e)
        BY <1>2, <2>3, <3>1 DEF Emit, TopicDelta
    <3>3. BackedBy(pledgeRows[p], "succeeded", n) = BackedBy(pledgeRows[p], "unsigned", n) + n
        BY <2>3 DEF BackedBy
    <3>4. QED
        BY <1>2, <2>1, <2>3, <3>2, <3>3
  <2>4. CASE /\ pledgeRows[p] = "pending_release" /\ vaultUnits >= UnitsOf[p]
             /\ vaultUnits' = vaultUnits - UnitsOf[p]
             /\ Emit("released", UnitsOf[p])
             /\ envelopes' = [envelopes EXCEPT ![p] = "succeeded"]
    <3>1. PICK e \in VaultEvent : e = [topic |-> "released", units |-> n]
        BY DEF VaultEvent
    <3>2. TopicDelta(e) = 0 - n /\ vaultEvents' = Append(vaultEvents, e)
        BY <1>2, <2>4, <3>1 DEF Emit, TopicDelta
    <3>3. BackedBy(pledgeRows[p], "succeeded", n)
              = BackedBy(pledgeRows[p], "unsigned", n) + (0 - n)
        BY <2>4 DEF BackedBy
    <3>4. vaultUnits' = vaultUnits + (0 - n) /\ vaultUnits' \in Nat
        BY <1>2, <2>1, <2>4
    <3>5. QED
        BY <2>1, <2>4, <3>2, <3>3, <3>4
  <2>5. CASE /\ envelopes' = [envelopes EXCEPT ![p] = "failed"]
             /\ UNCHANGED <<vaultUnits, vaultEvents>>
    <3>1. BackedBy(pledgeRows[p], "failed", n) = BackedBy(pledgeRows[p], "unsigned", n) + 0
        BY <2>2 DEF BackedBy
    <3>2. QED
        BY <2>1, <2>5, <3>1
  <2>6. QED
      BY <2>3, <2>4, <2>5 DEF Lands
<1>5. /\ vaultEvents' \in Seq(VaultEvent) /\ DOMAIN vaultEvents \subseteq DOMAIN vaultEvents'
      /\ SumFunctionOnSet(Deltas(vaultEvents'), DOMAIN vaultEvents')
             = SumFunctionOnSet(Deltas(vaultEvents), DOMAIN vaultEvents) + d
  <2>1. vaultEvents \in Seq(VaultEvent) /\ vaultUnits \in Nat
      BY <1>1 DEF ReconTypes
  <2>2. SumFunctionOnSet(Deltas(vaultEvents), DOMAIN vaultEvents) = vaultUnits
      BY DEF ReconInv
  <2>3. CASE vaultEvents' = vaultEvents /\ d = 0
      BY <2>1, <2>2, <2>3
  <2>4. CASE \E e \in VaultEvent : vaultEvents' = Append(vaultEvents, e) /\ TopicDelta(e) = d
      BY <2>1, <2>4, EmitAdds
  <2>5. QED
      BY <1>4, <2>3, <2>4
<1>6. ReconTypes'
    BY <1>1, <1>3, <1>4, <1>5 DEF ReconTypes
<1>7. /\ envelopes'[p] = fate /\ pledgeRows'[p] = pledgeRows[p]
      /\ \A q \in Pledges \ {p} : pledgeRows'[q] = pledgeRows[q] /\ envelopes'[q] = envelopes[q]
    BY <1>1, <1>3, <1>4 DEF ReconTypes
<1>8. InFlight'
    BY <1>1, <1>3, <1>7, ReconciliationAssumption DEF InFlight
<1>9. SumFunctionOnSet(Deltas(vaultEvents'), DOMAIN vaultEvents') = vaultUnits'
    BY <1>4, <1>5 DEF ReconInv
<1>10. ~raced => SumFunctionOnSet(Backing', Pledges) = vaultUnits' + Unbooked'
  <2>1. PICK x \in Nat, y \in Nat :
            /\ x = BackedBy(pledgeRows[p], "unsigned", n)
            /\ y = BackedBy(pledgeRows[p], fate, n)
      BY DEF BackedBy
  <2>2. /\ SumFunctionOnSet(Backing', Pledges) = SumFunctionOnSet(Backing, Pledges) + (y - x)
        /\ SumFunctionOnSet(Backing, Pledges) \in Nat
      BY <1>1, <1>2, <1>3, <1>6, <1>7, <2>1, BackingMoves
  <2>3. y = x + d
      BY <1>4, <2>1
  <2>4. ~raced => SumFunctionOnSet(Backing, Pledges) = vaultUnits + Unbooked
      BY DEF ReconInv
  <2>5. Unbooked' = Unbooked /\ Unbooked \in Nat /\ vaultUnits \in Nat
      BY <1>1, <1>3 DEF ReconTypes, Unbooked
  <2>6. QED
      BY <1>4, <2>2, <2>3, <2>4, <2>5
<1>11. QED
    BY <1>3, <1>6, <1>8, <1>9, <1>10 DEF ReconInv

(* The seizure takes units out of the vault that stay on the rows until it *)
(* is booked, and booking it takes them off, if nothing was in flight.     *)
LEMMA SeizureAccounted ==
    ASSUME ReconInv, ReadHeld \/ SeizeHeld \/ BookSeizure
    PROVE  ReconInv'
<1>1. /\ ReconTypes /\ InFlight
      /\ SumFunctionOnSet(Deltas(vaultEvents), DOMAIN vaultEvents) = vaultUnits
      /\ ~raced => SumFunctionOnSet(Backing, Pledges) = vaultUnits + Unbooked
    BY DEF ReconInv
<1>2. vaultUnits \in Nat /\ seizure.units \in Nat /\ vaultEvents \in Seq(VaultEvent)
    BY <1>1 DEF ReconTypes
<1>3. CASE ReadHeld
  <2>1. /\ seizure.at = "idle" /\ seizure' = [at |-> "read", units |-> vaultUnits]
        /\ UNCHANGED <<pledgeRows, envelopes, vaultUnits, vaultEvents, indexed, raced>>
      BY <1>3 DEF ReadHeld
  <2>2. ReconTypes' /\ InFlight'
      BY <1>1, <1>2, <2>1 DEF ReconTypes, InFlight
  <2>3. Unbooked' = 0 /\ Unbooked = 0
      BY <2>1 DEF Unbooked
  <2>4. Backing' = Backing
      BY <2>1 DEF Backing, BackedBy
  <2>5. QED
      BY <1>1, <2>1, <2>2, <2>3, <2>4 DEF ReconInv
<1>4. CASE SeizeHeld
  <2>1. PICK n \in Nat : n = seizure.units
      BY <1>2
  <2>2. /\ seizure.at = "read" /\ vaultUnits >= n /\ vaultUnits' = vaultUnits - n
        /\ seizure' = [seizure EXCEPT !.at = "seized"]
        /\ Emit("liquidated", n)
        /\ UNCHANGED <<pledgeRows, envelopes, indexed, raced>>
      BY <1>4, <2>1 DEF SeizeHeld
  <2>3. PICK e \in VaultEvent : e = [topic |-> "liquidated", units |-> n]
      BY DEF VaultEvent
  <2>4. TopicDelta(e) = 0 - n /\ vaultEvents' = Append(vaultEvents, e)
      BY <2>2, <2>3 DEF Emit, TopicDelta
  <2>5. /\ vaultEvents' \in Seq(VaultEvent) /\ DOMAIN vaultEvents \subseteq DOMAIN vaultEvents'
        /\ SumFunctionOnSet(Deltas(vaultEvents'), DOMAIN vaultEvents')
               = SumFunctionOnSet(Deltas(vaultEvents), DOMAIN vaultEvents) + (0 - n)
      BY <1>2, <2>4, EmitAdds
  <2>6. seizure'.at = "seized" /\ seizure'.units = n /\ vaultUnits' \in Nat
      BY <1>1, <1>2, <2>1, <2>2 DEF ReconTypes
  <2>7. ReconTypes' /\ InFlight'
      BY <1>1, <2>2, <2>5, <2>6 DEF ReconTypes, InFlight
  <2>8. Unbooked' = n /\ Unbooked = 0
      BY <2>2, <2>6 DEF Unbooked
  <2>9. Backing' = Backing
      BY <2>2 DEF Backing, BackedBy
  <2>10. vaultUnits' + n = vaultUnits + 0
      BY <1>2, <2>2
  <2>11. SumFunctionOnSet(Deltas(vaultEvents'), DOMAIN vaultEvents') = vaultUnits'
      BY <1>1, <1>2, <2>2, <2>5
  <2>12. QED
      BY <1>1, <2>2, <2>7, <2>8, <2>9, <2>10, <2>11 DEF ReconInv
<1>5. CASE BookSeizure
  <2>1. /\ seizure' = [seizure EXCEPT !.at = "booked"]
        /\ pledgeRows' = [p \in Pledges |->
               IF pledgeRows[p] = "active" THEN "liquidated" ELSE pledgeRows[p]]
        /\ raced' = (vaultUnits > 0 \/ \E p \in Pledges : envelopes[p] # None)
        /\ UNCHANGED <<envelopes, vaultUnits, vaultEvents, indexed>>
      BY <1>5 DEF BookSeizure
  <2>2. ReconTypes'
      BY <1>1, <2>1 DEF ReconTypes, RowStatus
  <2>3. InFlight'
      BY <1>1, <2>1 DEF InFlight
  <2>4. ASSUME ~raced' PROVE SumFunctionOnSet(Backing', Pledges) = vaultUnits' + Unbooked'
    <3>1. vaultUnits = 0 /\ \A p \in Pledges : envelopes[p] = None
      <4>1. ~(vaultUnits > 0) /\ ~ \E p \in Pledges : envelopes[p] # None
          BY <2>1, <2>4, Zenon
      <4>2. QED
          BY <1>2, <4>1
    <3>2. \A p \in Pledges : pledgeRows'[p] \notin {"active", "pending", "pending_release"}
        BY <1>1, <2>1, <3>1 DEF InFlight
    <3>3. PICK g : g = Backing'
        OBVIOUS
    <3>4. \A p \in Pledges : g[p] = 0
        BY <3>2, <3>3 DEF Backing, BackedBy
    <3>5. SumFunctionOnSet(g, Pledges) = 0
        BY <3>4, SumOfZeroes, ReconciliationAssumption
    <3>6. Unbooked' = 0
        BY <1>1, <2>1 DEF Unbooked, ReconTypes
    <3>7. QED
        BY <2>1, <3>1, <3>3, <3>5, <3>6
  <2>5. QED
      BY <1>1, <2>1, <2>2, <2>3, <2>4 DEF ReconInv
<1>6. QED
    BY <1>3, <1>4, <1>5

(* The books and the vault's events agree with the vault, for any number   *)
(* of pledges, up to what is in flight, seized but not booked, or raced.   *)
THEOREM ReconInvHolds == ReconSpec => []ReconInv
<1>1. ReconInit => ReconInv
  <2> SUFFICES ASSUME ReconInit PROVE ReconInv
      OBVIOUS
  <2>1. ReconTypes
    <3>1. /\ pledgeRows \in [Pledges -> RowStatus]
          /\ envelopes \in [Pledges -> {"unsigned", "succeeded", "failed", None}]
        BY DEF ReconInit, RowStatus
    <3>2. vaultEvents \in Seq(VaultEvent) /\ indexed \subseteq DOMAIN vaultEvents
        BY DEF ReconInit
    <3>3. /\ vaultUnits \in Nat /\ raced \in BOOLEAN
          /\ seizure \in [at : {"idle", "read", "seized", "booked"}, units : Nat]
        BY DEF ReconInit
    <3>4. QED
        BY <3>1, <3>2, <3>3 DEF ReconTypes
  <2>2. InFlight /\ Unbooked = 0 /\ vaultUnits = 0 /\ DOMAIN vaultEvents = {}
      BY DEF ReconInit, InFlight, Unbooked
  <2>3. \A p \in Pledges : Backing[p] = 0
      BY DEF ReconInit, Backing, BackedBy
  <2>4. SumFunctionOnSet(Backing, Pledges) = 0
      BY <2>3, SumOfZeroes, ReconciliationAssumption
  <2>5. SumFunctionOnSet(Deltas(vaultEvents), {}) = 0
      BY SumOfNone
  <2>6. QED
      BY <2>1, <2>2, <2>4, <2>5 DEF ReconInv
<1>2. ASSUME ReconInv, [ReconNext]_reconVars PROVE ReconInv'
  <2>1. CASE UNCHANGED <<pledgeRows, envelopes, vaultUnits, vaultEvents, seizure, raced>>
             /\ indexed' \subseteq DOMAIN vaultEvents
    <3>1. ReconTypes' /\ InFlight'
        BY <1>2, <2>1 DEF ReconInv, ReconTypes, InFlight
    <3>2. Backing' = Backing /\ Unbooked' = Unbooked
        BY <2>1 DEF Backing, BackedBy, Unbooked
    <3>3. QED
        BY <1>2, <2>1, <3>1, <3>2 DEF ReconInv
  <2>2. indexed \subseteq DOMAIN vaultEvents
      BY <1>2 DEF ReconInv, ReconTypes
  <2>3. CASE UNCHANGED reconVars
      BY <2>1, <2>2, <2>3 DEF reconVars
  <2>4. CASE RunReconciliation
      BY <2>1, <2>2, <2>4 DEF RunReconciliation
  <2>5. ASSUME NEW i \in DOMAIN vaultEvents \ indexed, IndexEvent(i) PROVE ReconInv'
      BY <2>1, <2>2, <2>5 DEF IndexEvent
  <2>6. QED
      BY <1>2, <2>3, <2>4, <2>5, RowStepKeepsBacking, LandingMovesBoth, SeizureAccounted
         DEF ReconNext
<1>3. QED
    BY <1>1, <1>2, PTL DEF ReconSpec

(* The nightly comparison finds no break, for any number of pledges and    *)
(* any order of landing, settling, indexing and seizing, once nothing is   *)
(* in flight, unless a seizure was booked while something was.             *)
THEOREM QuietBooksHold == ReconSpec => []QuietBooksReconcile
<1>1. ReconInv => QuietBooksReconcile
  <2> SUFFICES ASSUME ReconInv, Quiet, ~raced PROVE ~Mismatch
      BY DEF QuietBooksReconcile
  <2>1. ReconTypes /\ InFlight
      BY DEF ReconInv
  <2>2. \A p \in Pledges : pledgeRows[p] \notin {"pending", "pending_release"}
      BY <2>1 DEF Quiet, InFlight
  <2>3. Unbooked = 0 /\ vaultUnits \in Nat
      BY <2>1 DEF Quiet, Unbooked, ReconTypes
  <2>4. ChainUnits = vaultUnits
      BY DEF ReconInv, Quiet, ChainUnits, Deltas
  <2>5. PICK f : f = [p \in Pledges |-> IF pledgeRows[p] = "active" THEN UnitsOf[p] ELSE 0]
      OBVIOUS
  <2>6. \A p \in Pledges : f[p] = Backing[p]
      BY <2>2, <2>5 DEF Backing, BackedBy
  <2>7. SumFunctionOnSet(f, Pledges) = SumFunctionOnSet(Backing, Pledges)
      BY <2>6, SumSame, ReconciliationAssumption
  <2>8. PgUnits = vaultUnits
      BY <2>3, <2>5, <2>7 DEF PgUnits, ReconInv
  <2>9. QED
      BY <2>3, <2>4, <2>8, ReconciliationAssumption DEF Mismatch
<1>2. QED
    BY <1>1, ReconInvHolds, PTL

=============================================================================
