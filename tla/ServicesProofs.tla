--------------------------- MODULE ServicesProofs ---------------------------
(***************************************************************************)
(* Theorems about the services, for any number of keys, legs, workers,     *)
(* keepers, jobs and messages, and any number of faults: the two claim     *)
(* tables implement OnceOnly, what a key is answered and a leg is paid     *)
(* happens once unless an answer was lost, what is sent is booked, no job  *)
(* runs twice at once, and no signed message is let in twice while it is   *)
(* valid.                                                                  *)
(***************************************************************************)
EXTENDS PayoutHop, IssuerGateway, ApiAccess, KeeperQueue, FiniteSetTheorems, TLAPS

-----------------------------------------------------------------------------
(* The issuer gateway *)

ServingSteps == {"waiting", "claiming", "reading", "calling", "answered", "releasing", "replying"}

ClaimRow == [status : {"none", "in_flight", "completed"}, params : IdemParams \cup {None},
             response : Nat \cup {None}]

Call == [at : ServingSteps, key : IdemKeys \cup {None}, params : IdemParams \cup {None},
         ref : Nat \cup {None}]

GatewayTypes ==
    /\ idempotency \in [IdemKeys -> ClaimRow]
    /\ serving \in [GatewayWorkers -> Call]

(* The request owns the row of its key.                                    *)
HoldsKey(w) ==
    /\ serving[w].key # None
    /\ serving[w].at \in {"calling", "answered", "releasing"}

GatewayInv ==
    /\ GatewayTypes
    /\ \A w \in GatewayWorkers :
         /\ serving[w].at \in {"claiming", "reading", "releasing"} => serving[w].key # None
         /\ HoldsKey(w) => idempotency[serving[w].key].status = "in_flight"
    /\ \A w, v \in GatewayWorkers :
         HoldsKey(w) /\ HoldsKey(v) /\ serving[w].key = serving[v].key => w = v
    /\ \A k \in IdemKeys : idempotency[k].status # "completed" => idempotency[k].response = None

(* Moving a call on keeps its type.                                        *)
LEMMA CallMoves ==
    ASSUME NEW c \in Call, NEW a \in ServingSteps, NEW r \in Nat \cup {None}
    PROVE  [c EXCEPT !.at = a, !.ref = r] \in Call
  BY DEF Call

(* Completing a row keeps its type.                                        *)
LEMMA RowCompletes ==
    ASSUME NEW row \in ClaimRow, NEW r \in Nat \cup {None}
    PROVE  /\ [row EXCEPT !.status = "completed", !.response = r] \in ClaimRow
           /\ [row EXCEPT !.status = "completed", !.response = r].status = "completed"
  BY DEF ClaimRow

(* No request has been made, so nobody holds a key.                        *)
LEMMA GatewayInvInit == GatewayInit => GatewayInv
  BY DEF GatewayInit, GatewayInv, GatewayTypes, ClaimRow, Call,
                              NoClaim, NoCall, HoldsKey, ServingSteps

(* Every step of a request keeps the table and its holders together.       *)
LEMMA GatewayInvStep ==
    ASSUME GatewayInv, [GatewayNext]_gatewayVars
    PROVE  GatewayInv'
<1> USE GatewayAssumption DEF GatewayInv, GatewayTypes, ClaimRow, Call, ServingSteps, HoldsKey
<1>1. ASSUME NEW w \in GatewayWorkers, Obligation(w) PROVE GatewayInv'
  BY <1>1 DEF Obligation
<1>2. ASSUME NEW w \in GatewayWorkers, RunIdempotent(w) PROVE GatewayInv'
  <2>1. CASE KeyFree(serving[w].key) /\ serving' = [serving EXCEPT ![w].at = "calling"]
    <3>1. serving[w].key \in IdemKeys /\ idempotency[serving[w].key].status = "none"
      BY <1>2, <2>1 DEF RunIdempotent, KeyFree
    <3>2. idempotency' = [idempotency EXCEPT ![serving[w].key] =
             [status |-> "in_flight", params |-> serving[w].params, response |-> None]]
      BY <1>2, <2>1 DEF RunIdempotent
    <3>3. \A v \in GatewayWorkers :
             /\ serving'[v].key = serving[v].key
             /\ serving'[v].at = IF v = w THEN "calling" ELSE serving[v].at
      BY <2>1
    <3>4. GatewayTypes'
      <4>1. [serving[w] EXCEPT !.at = "calling"] \in Call
        OBVIOUS
      <4>2. [status |-> "in_flight", params |-> serving[w].params, response |-> None] \in ClaimRow
        OBVIOUS
      <4>3. QED
        BY <2>1, <3>2, <4>1, <4>2
    <3>5. QED
      BY <3>1, <3>2, <3>3, <3>4
  <2>2. CASE serving' = [serving EXCEPT ![w].at = "reading"] /\ UNCHANGED idempotency
    BY <1>2, <2>2 DEF RunIdempotent
  <2>3. QED
    BY <1>2, <2>1, <2>2 DEF RunIdempotent
<1>3. ASSUME NEW w \in GatewayWorkers, ReadExisting(w) PROVE GatewayInv'
  BY <1>3 DEF ReadExisting, Finished, NoCall, Replayable
<1>4. ASSUME NEW w \in GatewayWorkers, CallIssuer(w) PROVE GatewayInv'
  <2>1. PICK ref \in 1 .. MaxCalls :
           serving' = [serving EXCEPT ![w].at = "answered", ![w].ref = ref]
    BY <1>4 DEF CallIssuer
  <2>2. \A v \in GatewayWorkers :
           /\ serving'[v].key = serving[v].key
           /\ serving'[v].at = IF v = w THEN "answered" ELSE serving[v].at
    BY <2>1
  <2>3. serving[w].at = "calling" /\ UNCHANGED idempotency
    BY <1>4 DEF CallIssuer
  <2>4. GatewayTypes'
    <3>1. ref \in Nat
      OBVIOUS
    <3>2. serving' = [serving EXCEPT ![w] = [serving[w] EXCEPT !.at = "answered", !.ref = ref]]
      BY <2>1
    <3> HIDE DEF Call
    <3>3. [serving[w] EXCEPT !.at = "answered", !.ref = ref] \in Call
      BY <3>1, CallMoves
    <3>4. QED
      BY <2>3, <3>2, <3>3
  <2>5. QED
    BY <2>2, <2>3, <2>4
<1>5. ASSUME NEW w \in GatewayWorkers, CallThrows(w) PROVE GatewayInv'
  <2>1. serving[w].at = "calling" /\ UNCHANGED idempotency
    BY <1>5 DEF CallThrows
  <2>2. CASE serving[w].key = None
    BY <1>5, <2>1, <2>2 DEF CallThrows, Finished, NoCall
  <2>3. CASE serving[w].key # None
    BY <1>5, <2>1, <2>3 DEF CallThrows
  <2>4. QED
    BY <2>2, <2>3
<1>6. ASSUME NEW w \in GatewayWorkers, Release(w) PROVE GatewayInv'
  BY <1>6 DEF Release, Finished, NoCall, NoClaim
<1>7. ASSUME NEW w \in GatewayWorkers, Store(w) PROVE GatewayInv'
  <2>1. /\ serving[w].at = "answered" /\ serving[w].key \in IdemKeys
        /\ serving' = [serving EXCEPT ![w].at = "replying"]
        /\ idempotency' = idempotency \/ idempotency' =
              [idempotency EXCEPT ![serving[w].key] = StoredRow(w)]
    BY <1>7 DEF Store
  <2>2. \A v \in GatewayWorkers :
           /\ serving'[v].key = serving[v].key
           /\ serving'[v].at = IF v = w THEN "replying" ELSE serving[v].at
    BY <2>1
  <2>3. \A k \in IdemKeys :
           k # serving[w].key => idempotency'[k] = idempotency[k]
    BY <2>1
  <2>4. StoredRow(w) \in ClaimRow /\ StoredRow(w).status = "completed"
    <3>1. serving[w].ref \in Nat \cup {None}
      OBVIOUS
    <3> HIDE DEF ClaimRow
    <3>2. idempotency[serving[w].key] \in ClaimRow
      BY <2>1
    <3>3. QED
      BY <3>1, <3>2, RowCompletes DEF StoredRow
  <2>5. GatewayTypes'
    <3>1. [serving[w] EXCEPT !.at = "replying"] \in Call
      OBVIOUS
    <3>2. QED
      BY <2>1, <2>4, <3>1
  <2>6. QED
    BY <2>1, <2>2, <2>3, <2>4, <2>5
<1>8. ASSUME NEW w \in GatewayWorkers, Reply(w) PROVE GatewayInv'
  BY <1>8 DEF Reply, Finished, NoCall
<1>9. ASSUME NEW w \in GatewayWorkers, GatewayDies(w) PROVE GatewayInv'
  BY <1>9 DEF GatewayDies, Finished, NoCall
<1>10. CASE UNCHANGED gatewayVars
  BY <1>10 DEF gatewayVars
<1>11. QED
  BY <1>1, <1>2, <1>3, <1>4, <1>5, <1>6, <1>7, <1>8, <1>9, <1>10 DEF GatewayNext

GatewayTable ==
    <<[k \in IdemKeys |-> GatewaySlot(idempotency[k])],
      [k \in IdemKeys |-> idempotency[k].response]>>

(* Every step of a request is a step of the claim table or leaves it.      *)
LEMMA GatewayStepRefines ==
    ASSUME GatewayInv, [GatewayNext]_gatewayVars
    PROVE  [GatewayClaims!OnceNext]_GatewayTable
<1> USE GatewayAssumption DEF GatewayInv, GatewayTypes, ClaimRow, Call, ServingSteps, HoldsKey
<1>1. ASSUME NEW w \in GatewayWorkers, RunIdempotent(w), ~UNCHANGED idempotency
      PROVE  \E k \in IdemKeys : GatewayClaims!Take(k)
  <2>1. PICK k \in IdemKeys : k = serving[w].key
    BY <1>1 DEF RunIdempotent
  <2>2. /\ idempotency[k].status = "none"
        /\ idempotency' = [idempotency EXCEPT ![k] =
             [status |-> "in_flight", params |-> serving[w].params, response |-> None]]
    BY <1>1, <2>1 DEF RunIdempotent, KeyFree
  <2>3. \A x \in IdemKeys :
           /\ GatewaySlot(idempotency'[x]) =
                 IF x = k THEN "held" ELSE GatewaySlot(idempotency[x])
           /\ idempotency'[x].response = idempotency[x].response
    BY <2>2 DEF GatewaySlot
  <2>4. GatewaySlot(idempotency[k]) = "free"
    BY <2>2 DEF GatewaySlot
  <2>5. GatewayClaims!Take(k)
    BY <2>3, <2>4 DEF GatewayClaims!Take
  <2>6. QED
    BY <2>5
<1>2. ASSUME NEW w \in GatewayWorkers, Release(w)
      PROVE  \E k \in IdemKeys : GatewayClaims!GiveBack(k)
  <2>1. PICK k \in IdemKeys : k = serving[w].key
    BY <1>2 DEF Release
  <2>2. idempotency[k].status = "in_flight" /\ idempotency' = [idempotency EXCEPT ![k] = NoClaim]
    BY <1>2, <2>1 DEF Release
  <2>3. \A x \in IdemKeys :
           /\ GatewaySlot(idempotency'[x]) =
                 IF x = k THEN "free" ELSE GatewaySlot(idempotency[x])
           /\ idempotency'[x].response = idempotency[x].response
    BY <2>2 DEF GatewaySlot, NoClaim
  <2>4. GatewaySlot(idempotency[k]) = "held"
    BY <2>2 DEF GatewaySlot
  <2>5. GatewayClaims!GiveBack(k)
    BY <2>3, <2>4 DEF GatewayClaims!GiveBack
  <2>6. QED
    BY <2>5
<1>3. ASSUME NEW w \in GatewayWorkers, Store(w), ~UNCHANGED idempotency
      PROVE  \E k \in IdemKeys : GatewayClaims!Finish(k)
  <2>1. PICK k \in IdemKeys : k = serving[w].key
    BY <1>3 DEF Store
  <2>2. /\ idempotency[k].status = "in_flight"
        /\ idempotency' = [idempotency EXCEPT ![k] = StoredRow(w)]
    BY <1>3, <2>1 DEF Store
  <2>3. StoredRow(w).status = "completed"
    BY <2>1 DEF StoredRow
  <2>4. \A x \in IdemKeys :
           /\ GatewaySlot(idempotency'[x]) =
                 IF x = k THEN "done" ELSE GatewaySlot(idempotency[x])
           /\ x # k => idempotency'[x].response = idempotency[x].response
    BY <2>2, <2>3 DEF GatewaySlot
  <2>5. GatewaySlot(idempotency[k]) = "held"
    BY <2>2 DEF GatewaySlot
  <2>6. GatewayClaims!Finish(k)
    BY <2>4, <2>5 DEF GatewayClaims!Finish
  <2>7. QED
    BY <2>6
<1>4. ASSUME UNCHANGED idempotency PROVE UNCHANGED GatewayTable
  BY <1>4 DEF GatewayTable
<1>5. ASSUME NEW w \in GatewayWorkers,
             \/ Obligation(w) \/ ReadExisting(w) \/ CallIssuer(w) \/ CallThrows(w)
             \/ Reply(w) \/ GatewayDies(w)
      PROVE  UNCHANGED idempotency
  BY <1>5 DEF Obligation, ReadExisting, CallIssuer, CallThrows, Reply, GatewayDies
<1> HIDE DEF GatewayInv, GatewayTypes, ClaimRow, Call, ServingSteps, HoldsKey
<1>6. CASE UNCHANGED idempotency
  BY <1>4, <1>6
<1>7. CASE ~UNCHANGED idempotency
  <2>1. PICK w \in GatewayWorkers : RunIdempotent(w) \/ Release(w) \/ Store(w)
    BY <1>5, <1>7 DEF GatewayNext, gatewayVars
  <2>2. \E k \in IdemKeys :
           GatewayClaims!Take(k) \/ GatewayClaims!GiveBack(k) \/ GatewayClaims!Finish(k)
    BY <1>1, <1>2, <1>3, <1>7, <2>1
  <2>3. QED
    BY <2>2 DEF GatewayClaims!OnceNext
<1>8. QED
  BY <1>6, <1>7

(* issuer_idempotency keeps the promise of OnceOnly: a key has one holder, *)
(* a failed call gives it back, and an answer that was stored stands for   *)
(* good, whatever requests race, fail or die.                              *)
THEOREM GatewayClaimsHold == GatewaySpec => GatewayClaimsOnce
<1>1. GatewayInit => GatewayClaims!OnceInit
  BY DEF GatewayInit, NoClaim, GatewayClaims!OnceInit, GatewaySlot
<1>2. GatewaySpec => []GatewayInv
  BY GatewayInvInit, GatewayInvStep, PTL DEF GatewaySpec
<1>3. QED
  BY <1>1, <1>2, GatewayStepRefines, PTL
     DEF GatewaySpec, GatewayClaimsOnce, GatewayClaims!OnceSpec, GatewayTable

-----------------------------------------------------------------------------
(* What callers are answered *)

(* Obligation i was made for this key and these parameters.                *)
MadeFor(i, k, p) == i \in DOMAIN obligations /\ obligations[i] = [key |-> k, params |-> p]

(* Somebody has been answered i under key k, is about to be, or will be.   *)
Told(k, i) ==
    \/ \E r \in replies : r.key = k /\ r.ref = i
    \/ \E w \in GatewayWorkers :
         serving[w].at = "replying" /\ serving[w].key = k /\ serving[w].ref = i
    \/ idempotency[k].status = "completed" /\ idempotency[k].response = i

AnswerTypes ==
    /\ obligations \in Seq([key : IdemKeys \cup {None}, params : IdemParams \cup {None}])
    /\ \A r \in replies : r.key \in IdemKeys
    /\ \A w \in GatewayWorkers : serving[w].at = "replying" => serving[w].key # None

(* Every ref in the gateway's hands is the obligation that was asked for.  *)
RefsAreTrue ==
    /\ \A w \in GatewayWorkers :
         /\ serving[w].at \in {"answered", "replying"} =>
              MadeFor(serving[w].ref, serving[w].key, serving[w].params)
         /\ HoldsKey(w) => idempotency[serving[w].key].params = serving[w].params
    /\ \A k \in IdemKeys : idempotency[k].status = "completed" =>
         MadeFor(idempotency[k].response, k, idempotency[k].params)
    /\ \A r \in replies : MadeFor(r.ref, r.key, r.params)

(* Once a key has an answer, its row is taken and nobody works on it.      *)
AnsweredForGood ==
    \A k \in IdemKeys, i \in Nat : Told(k, i) =>
        /\ idempotency[k].status # "none"
        /\ \A w \in GatewayWorkers : HoldsKey(w) => serving[w].key # k
        /\ \A j \in Nat : Told(k, j) => i = j

AnswersInv == AnswerTypes /\ RefsAreTrue /\ AnsweredForGood

(* An obligation that was made stays made.                                 *)
LEMMA ObligationsGrow ==
    ASSUME AnswersInv, NEW w \in GatewayWorkers, GatewayInv, NEW ref, IssuerActs(w, ref)
    PROVE  /\ \A i, k, p : MadeFor(i, k, p) => MadeFor(i, k, p)'
           /\ \A k, p : k = serving[w].key /\ p = serving[w].params => MadeFor(ref, k, p)'
           /\ obligations' \in Seq([key : IdemKeys \cup {None}, params : IdemParams \cup {None}])
<1> DEFINE ask == [key |-> serving[w].key, params |-> serving[w].params]
<1>1. ask \in [key : IdemKeys \cup {None}, params : IdemParams \cup {None}]
    BY DEF GatewayInv, GatewayTypes, Call
<1>2. obligations \in Seq([key : IdemKeys \cup {None}, params : IdemParams \cup {None}])
    BY DEF AnswersInv, AnswerTypes
<1>3. CASE obligations' = Append(obligations, ask) /\ ref = Len(obligations) + 1
    <2>1. /\ obligations' \in Seq([key : IdemKeys \cup {None}, params : IdemParams \cup {None}])
          /\ DOMAIN obligations = 1 .. Len(obligations)
          /\ DOMAIN obligations' = 1 .. Len(obligations) + 1
          /\ Len(obligations) \in Nat
        BY <1>1, <1>2, <1>3
    <2>2. /\ obligations'[ref] = ask /\ ref \in DOMAIN obligations'
          /\ \A i \in DOMAIN obligations :
                i \in DOMAIN obligations' /\ obligations'[i] = obligations[i]
        BY <1>1, <1>2, <1>3, <2>1
    <2>3. QED
        BY <2>1, <2>2 DEF MadeFor, ask
<1>4. CASE ref \in DOMAIN obligations /\ obligations[ref] = ask /\ UNCHANGED obligations
    BY <1>2, <1>4 DEF MadeFor
<1>5. QED
    BY <1>3, <1>4 DEF IssuerActs

(* Nobody has asked for anything.                                          *)
LEMMA AnswersInvInit == GatewayInit => AnswersInv
    BY DEF GatewayInit, AnswersInv, AnswerTypes, RefsAreTrue, AnsweredForGood, Told, HoldsKey,
       NoCall, NoClaim

(* A step that tells nobody anything new, makes no new holder of a key     *)
(* that has an answer, and frees no such key.                              *)
LEMMA NothingNewTold ==
    ASSUME AnsweredForGood,
           \A k \in IdemKeys, i \in Nat : Told(k, i)' => Told(k, i),
           \A k \in IdemKeys, i \in Nat : Told(k, i) /\ idempotency[k].status # "none" =>
               idempotency'[k].status # "none",
           \A v \in GatewayWorkers, k \in IdemKeys :
               /\ HoldsKey(v)' /\ serving'[v].key = k
               => \/ HoldsKey(v) /\ serving[v].key = k
                  \/ idempotency[k].status = "none"
    PROVE  AnsweredForGood'
    BY DEF AnsweredForGood

(* A request that moves on without touching the table.                     *)
LEMMA TableKept ==
    ASSUME GatewayInv, AnswersInv, AnswerTypes', NEW w \in GatewayWorkers, UNCHANGED idempotency,
           \A v \in GatewayWorkers : v # w => serving'[v] = serving[v],
           \A i, k, p : MadeFor(i, k, p) => MadeFor(i, k, p)',
           serving'[w].at # "replying",
           serving'[w].at = "answered" =>
               MadeFor(serving[w].ref, serving[w].key, serving[w].params)',
           HoldsKey(w)' => /\ HoldsKey(w) /\ serving'[w].key = serving[w].key
                           /\ serving'[w].params = serving[w].params,
           \A r \in replies' : \/ r \in replies
                               \/ Told(r.key, r.ref) /\ MadeFor(r.ref, r.key, r.params)
    PROVE  AnswersInv'
<1>1. \A v \in GatewayWorkers : HoldsKey(v)' =>
        HoldsKey(v) /\ serving'[v].key = serving[v].key /\ serving'[v].params = serving[v].params
    BY DEF HoldsKey
<1>2. RefsAreTrue'
    <2>1. \A v \in GatewayWorkers : serving'[v].at \in {"answered", "replying"} =>
              MadeFor(serving[v].ref, serving[v].key, serving[v].params)'
        BY DEF AnswersInv, RefsAreTrue
    <2>2. \A v \in GatewayWorkers : HoldsKey(v)' =>
              idempotency'[serving'[v].key].params = serving'[v].params
        BY <1>1 DEF AnswersInv, RefsAreTrue
    <2>3. \A k \in IdemKeys : idempotency'[k].status = "completed" =>
              MadeFor(idempotency[k].response, k, idempotency[k].params)'
        BY DEF AnswersInv, RefsAreTrue
    <2>4. \A r \in replies' : MadeFor(r.ref, r.key, r.params)'
        BY DEF AnswersInv, RefsAreTrue
    <2>5. QED
        BY <2>1, <2>2, <2>3, <2>4 DEF RefsAreTrue
<1>3. \A k \in IdemKeys, i \in Nat : Told(k, i)' => Told(k, i)
    BY DEF Told
<1>4. AnsweredForGood'
    BY <1>1, <1>3, NothingNewTold DEF AnswersInv
<1>5. QED
    BY <1>2, <1>4 DEF AnswersInv

(* A request that takes a free key.                                        *)
LEMMA KeyTaken ==
    ASSUME GatewayInv, AnswersInv, NEW w \in GatewayWorkers, RunIdempotent(w),
           KeyFree(serving[w].key), serving' = [serving EXCEPT ![w].at = "calling"]
    PROVE  AnswersInv'
<1>1. /\ serving[w].key \in IdemKeys /\ idempotency[serving[w].key].status = "none"
      /\ UNCHANGED <<obligations, replies>> /\ serving[w].at = "claiming"
    BY DEF RunIdempotent, KeyFree, GatewayInv, GatewayTypes, Call
<1>2. idempotency' = [idempotency EXCEPT ![serving[w].key] =
         [status |-> "in_flight", params |-> serving[w].params, response |-> None]]
    BY DEF RunIdempotent
<1>3. /\ \A v \in GatewayWorkers : v # w => serving'[v] = serving[v]
      /\ serving'[w].at = "calling" /\ serving'[w].key = serving[w].key
      /\ serving'[w].params = serving[w].params
    BY DEF GatewayInv, GatewayTypes, Call
<1>4. /\ idempotency'[serving[w].key].status = "in_flight"
      /\ idempotency'[serving[w].key].params = serving[w].params
      /\ \A k \in IdemKeys : k # serving[w].key => idempotency'[k] = idempotency[k]
    BY <1>1, <1>2 DEF GatewayInv, GatewayTypes
<1>5. \A v \in GatewayWorkers : HoldsKey(v) => serving[v].key # serving[w].key
    BY <1>1 DEF GatewayInv
<1>6. \A v \in GatewayWorkers : v # w => (HoldsKey(v)' <=> HoldsKey(v))
    BY <1>3 DEF HoldsKey
<1>7. AnswerTypes'
    BY <1>1, <1>3 DEF AnswersInv, AnswerTypes
<1>8. RefsAreTrue'
    BY <1>1, <1>3, <1>4, <1>5, <1>6
       DEF AnswersInv, RefsAreTrue, MadeFor, GatewayInv, GatewayTypes, Call, HoldsKey
<1>9. \A i \in Nat : ~ Told(serving[w].key, i) /\ ~ Told(serving[w].key, i)'
    BY <1>1, <1>3, <1>4 DEF AnswersInv, AnsweredForGood, Told
<1>10. \A k \in IdemKeys, i \in Nat : Told(k, i)' => Told(k, i)
    BY <1>1, <1>3, <1>4, <1>9 DEF Told
<1>11. AnsweredForGood'
    BY <1>1, <1>3, <1>4, <1>6, <1>10, NothingNewTold DEF AnswersInv
<1>12. QED
    BY <1>7, <1>8, <1>11 DEF AnswersInv

(* A request whose call failed gives its key back: nobody had an answer.   *)
LEMMA KeyReleased ==
    ASSUME GatewayInv, AnswersInv, NEW w \in GatewayWorkers, Release(w)
    PROVE  AnswersInv'
<1>1. /\ HoldsKey(w) /\ serving[w].key \in IdemKeys
      /\ UNCHANGED <<obligations, replies>>
    BY DEF Release, HoldsKey, GatewayInv, GatewayTypes, Call
<1>2. /\ idempotency'[serving[w].key].status = "none"
      /\ \A k \in IdemKeys : k # serving[w].key => idempotency'[k] = idempotency[k]
    BY <1>1 DEF Release, NoClaim, GatewayInv, GatewayTypes
<1>3. /\ \A v \in GatewayWorkers : v # w => serving'[v] = serving[v]
      /\ serving'[w].at = "waiting"
    BY DEF Release, Finished, NoCall, GatewayInv, GatewayTypes
<1>4. \A v \in GatewayWorkers : HoldsKey(v)' =>
        v # w /\ HoldsKey(v) /\ serving[v].key # serving[w].key
    BY <1>1, <1>3 DEF HoldsKey, GatewayInv
<1>5. AnswerTypes'
    BY <1>1, <1>3 DEF AnswersInv, AnswerTypes
<1>6. RefsAreTrue'
    BY <1>1, <1>2, <1>3, <1>4
       DEF AnswersInv, RefsAreTrue, MadeFor, HoldsKey, GatewayInv, GatewayTypes, Call
<1>7. \A i \in Nat : ~ Told(serving[w].key, i)
    BY <1>1 DEF AnswersInv, AnsweredForGood
<1>8. \A k \in IdemKeys, i \in Nat : Told(k, i)' => Told(k, i)
    BY <1>1, <1>2, <1>3 DEF Told
<1>9. AnsweredForGood'
    BY <1>2, <1>3, <1>4, <1>7, <1>8, NothingNewTold DEF AnswersInv
<1>10. QED
    BY <1>5, <1>6, <1>9 DEF AnswersInv

(* A request stores its answer, or fails to; it is the first of its key.   *)
LEMMA AnswerStored ==
    ASSUME GatewayInv, AnswersInv, NEW w \in GatewayWorkers, Store(w)
    PROVE  AnswersInv'
<1> DEFINE k0 == serving[w].key
<1>1. /\ HoldsKey(w) /\ k0 \in IdemKeys /\ serving[w].at = "answered"
      /\ UNCHANGED <<obligations, replies>>
      /\ idempotency[k0].status = "in_flight" /\ idempotency[k0] \in ClaimRow
      /\ idempotency[k0].params = serving[w].params
      /\ MadeFor(serving[w].ref, k0, serving[w].params)
    BY DEF Store, HoldsKey, GatewayInv, GatewayTypes, Call, AnswersInv, RefsAreTrue
<1>2. serving[w].ref \in Nat
    BY <1>1 DEF MadeFor, AnswersInv, AnswerTypes
<1>3. /\ \A v \in GatewayWorkers : v # w => serving'[v] = serving[v]
      /\ serving'[w].at = "replying" /\ serving'[w].key = k0
      /\ serving'[w].params = serving[w].params /\ serving'[w].ref = serving[w].ref
    BY DEF Store, GatewayInv, GatewayTypes, Call
<1>4. /\ idempotency'[k0].status # "none"
      /\ idempotency'[k0].params = serving[w].params
      /\ idempotency'[k0].status = "completed" => idempotency'[k0].response = serving[w].ref
      /\ \A k \in IdemKeys : k # k0 => idempotency'[k] = idempotency[k]
    <2>1. /\ StoredRow(w).status = "completed" /\ StoredRow(w).params = serving[w].params
          /\ StoredRow(w).response = serving[w].ref
        BY <1>1 DEF StoredRow, ClaimRow
    <2>2. \/ idempotency' = [idempotency EXCEPT ![k0] = StoredRow(w)]
          \/ UNCHANGED idempotency
        BY DEF Store
    <2>3. QED
        BY <1>1, <2>1, <2>2 DEF GatewayInv, GatewayTypes
<1>5. \A v \in GatewayWorkers : HoldsKey(v)' =>
        v # w /\ HoldsKey(v) /\ serving[v].key # k0
    BY <1>1, <1>3 DEF HoldsKey, GatewayInv
<1>6. AnswerTypes'
    BY <1>1, <1>3 DEF AnswersInv, AnswerTypes, HoldsKey
<1>7. RefsAreTrue'
    BY <1>1, <1>3, <1>4, <1>5
       DEF AnswersInv, RefsAreTrue, MadeFor, HoldsKey, GatewayInv, GatewayTypes, Call
<1>8. \A i \in Nat : ~ Told(k0, i)
    BY <1>1 DEF AnswersInv, AnsweredForGood
<1>9. \A i \in Nat : \A k \in {k0} : Told(k, i)' => i = serving[w].ref
    <2>1. \A i \in Nat : /\ ~ \E r \in replies : r.key = k0 /\ r.ref = i
                         /\ ~ \E v \in GatewayWorkers :
                                /\ serving[v].at = "replying"
                                /\ serving[v].key = k0 /\ serving[v].ref = i
        BY <1>8 DEF Told
    <2>2. QED
        BY <1>1, <1>3, <1>4, <2>1 DEF Told
<1>10. \A k \in IdemKeys, i \in Nat : k # k0 /\ Told(k, i)' => Told(k, i)
    BY <1>1, <1>3, <1>4 DEF Told
<1>11. AnsweredForGood'
    <2>1. SUFFICES ASSUME NEW k \in IdemKeys, NEW i \in Nat, Told(k, i)'
          PROVE  /\ idempotency'[k].status # "none"
                 /\ \A v \in GatewayWorkers : HoldsKey(v)' => serving'[v].key # k
                 /\ \A j \in Nat : Told(k, j)' => i = j
        BY DEF AnsweredForGood
    <2>2. CASE k = k0
        BY <1>3, <1>4, <1>5, <1>9, <2>1, <2>2
    <2>3. CASE k # k0
        BY <1>3, <1>4, <1>5, <1>10, <2>1, <2>3 DEF AnswersInv, AnsweredForGood
    <2>4. QED
        BY <2>2, <2>3
<1>12. QED
    BY <1>6, <1>7, <1>11 DEF AnswersInv

(* Every step keeps the answers true and single.                           *)
LEMMA AnswersInvStep ==
    ASSUME GatewayInv, AnswersInv, [GatewayNext]_gatewayVars
    PROVE  AnswersInv'
<1>1. ASSUME NEW w \in GatewayWorkers, Obligation(w) PROVE AnswersInv'
    <2>1. /\ UNCHANGED <<idempotency, obligations, replies>>
          /\ \A v \in GatewayWorkers : v # w => serving'[v] = serving[v]
          /\ serving'[w].at \in {"calling", "claiming"}
          /\ serving'[w].at = "calling" => serving'[w].key = None
        BY <1>1 DEF Obligation, GatewayInv, GatewayTypes
    <2>2. AnswerTypes' /\ ~ HoldsKey(w)'
        BY <2>1 DEF AnswersInv, AnswerTypes, HoldsKey
    <2>3. \A i, k, p : MadeFor(i, k, p) => MadeFor(i, k, p)'
        BY <2>1 DEF MadeFor
    <2>4. QED
        BY <2>1, <2>2, <2>3, TableKept
<1>2. ASSUME NEW w \in GatewayWorkers, RunIdempotent(w) PROVE AnswersInv'
    <2>1. CASE serving' = [serving EXCEPT ![w].at = "reading"] /\ UNCHANGED idempotency
        <3>1. /\ UNCHANGED <<obligations, replies>>
              /\ \A v \in GatewayWorkers : v # w => serving'[v] = serving[v]
              /\ serving'[w].at = "reading"
            BY <1>2, <2>1 DEF RunIdempotent, GatewayInv, GatewayTypes, Call
        <3>2. AnswerTypes' /\ ~ HoldsKey(w)'
            BY <3>1 DEF AnswersInv, AnswerTypes, HoldsKey
        <3>3. \A i, k, p : MadeFor(i, k, p) => MadeFor(i, k, p)'
            BY <3>1 DEF MadeFor
        <3>4. QED
            BY <2>1, <3>1, <3>2, <3>3, TableKept
    <2>2. QED
        BY <1>2, <2>1, KeyTaken DEF RunIdempotent
<1>3. ASSUME NEW w \in GatewayWorkers, ReadExisting(w) PROVE AnswersInv'
    <2>1. /\ UNCHANGED <<idempotency, obligations>>
          /\ \A v \in GatewayWorkers : v # w => serving'[v] = serving[v]
          /\ serving'[w].at \in {"claiming", "waiting"}
          /\ serving[w].key \in IdemKeys
        BY <1>3 DEF ReadExisting, Finished, NoCall, GatewayInv, GatewayTypes, Call
    <2>2. ASSUME NEW r \in replies', r \notin replies
          PROVE  /\ r.key \in IdemKeys /\ Told(r.key, r.ref)
                 /\ MadeFor(r.ref, r.key, r.params)
        <3>1. /\ r = [key |-> serving[w].key, params |-> serving[w].params,
                      ref |-> idempotency[serving[w].key].response]
              /\ Replayable(idempotency[serving[w].key], serving[w].params)
            BY <1>3, <2>2 DEF ReadExisting
        <3>2. QED
            BY <2>1, <3>1 DEF Told, AnswersInv, RefsAreTrue, Replayable
    <2>3. AnswerTypes' /\ ~ HoldsKey(w)'
        BY <2>1, <2>2 DEF AnswersInv, AnswerTypes, HoldsKey
    <2>4. \A i, k, p : MadeFor(i, k, p) => MadeFor(i, k, p)'
        BY <2>1 DEF MadeFor
    <2>5. QED
        BY <2>1, <2>2, <2>3, <2>4, TableKept
<1>4. ASSUME NEW w \in GatewayWorkers, CallIssuer(w) PROVE AnswersInv'
    <2>1. PICK ref \in 1 .. MaxCalls :
            /\ IssuerActs(w, ref)
            /\ serving' = [serving EXCEPT ![w].at = "answered", ![w].ref = ref]
        BY <1>4 DEF CallIssuer
    <2>2. /\ UNCHANGED <<idempotency, replies>> /\ serving[w].at = "calling"
          /\ \A v \in GatewayWorkers : v # w => serving'[v] = serving[v]
          /\ serving'[w].at = "answered" /\ serving'[w].key = serving[w].key
          /\ serving'[w].params = serving[w].params /\ serving'[w].ref = ref
        BY <1>4, <2>1 DEF CallIssuer, GatewayInv, GatewayTypes, Call
    <2>3. /\ \A i, k, p : MadeFor(i, k, p) => MadeFor(i, k, p)'
          /\ \A k, p : k = serving[w].key /\ p = serving[w].params => MadeFor(ref, k, p)'
          /\ AnswerTypes'
        BY <2>1, <2>2, ObligationsGrow DEF AnswersInv, AnswerTypes
    <2>4. MadeFor(serving[w].ref, serving[w].key, serving[w].params)'
        BY <2>2, <2>3 DEF MadeFor
    <2>5. HoldsKey(w)' => HoldsKey(w)
        BY <2>2 DEF HoldsKey
    <2>6. QED
        BY <2>2, <2>3, <2>4, <2>5, TableKept
<1>5. ASSUME NEW w \in GatewayWorkers, CallThrows(w) PROVE AnswersInv'
    <2>1. /\ UNCHANGED <<idempotency, replies>> /\ serving[w].at = "calling"
          /\ \A v \in GatewayWorkers : v # w => serving'[v] = serving[v]
          /\ \/ serving'[w].at = "waiting"
             \/ /\ serving'[w].at = "releasing" /\ serving'[w].key = serving[w].key
                /\ serving'[w].params = serving[w].params
        BY <1>5 DEF CallThrows, Finished, NoCall, GatewayInv, GatewayTypes, Call
    <2>2. /\ \A i, k, p : MadeFor(i, k, p) => MadeFor(i, k, p)'
          /\ AnswerTypes'
        <3>1. CASE UNCHANGED obligations
            BY <2>1, <3>1 DEF MadeFor, AnswersInv, AnswerTypes
        <3>2. CASE \E ref \in 1 .. MaxCalls : IssuerActs(w, ref)
            BY <2>1, <3>2, ObligationsGrow DEF AnswersInv, AnswerTypes
        <3>3. QED
            BY <1>5, <3>1, <3>2 DEF CallThrows
    <2>3. HoldsKey(w)' => HoldsKey(w)
        BY <2>1 DEF HoldsKey
    <2>4. HoldsKey(w)' => /\ serving'[w].key = serving[w].key
                          /\ serving'[w].params = serving[w].params
        BY <2>1 DEF HoldsKey
    <2>5. QED
        BY <2>1, <2>2, <2>3, <2>4, TableKept
<1>6. ASSUME NEW w \in GatewayWorkers, Reply(w) PROVE AnswersInv'
    <2>1. /\ UNCHANGED <<idempotency, obligations>>
          /\ \A v \in GatewayWorkers : v # w => serving'[v] = serving[v]
          /\ serving'[w].at = "waiting"
        BY <1>6 DEF Reply, Finished, NoCall, GatewayInv, GatewayTypes
    <2>2. ASSUME NEW r \in replies', r \notin replies
          PROVE  /\ r.key \in IdemKeys /\ Told(r.key, r.ref)
                 /\ MadeFor(r.ref, r.key, r.params)
        <3>1. /\ r = [key |-> serving[w].key, params |-> serving[w].params,
                      ref |-> serving[w].ref]
              /\ serving[w].key # None /\ serving[w].at = "replying"
            BY <1>6, <2>2 DEF Reply
        <3>2. serving[w].key \in IdemKeys
            BY <3>1 DEF GatewayInv, GatewayTypes, Call
        <3>3. QED
            BY <3>1, <3>2 DEF Told, AnswersInv, RefsAreTrue
    <2>3. AnswerTypes' /\ ~ HoldsKey(w)'
        BY <2>1, <2>2 DEF AnswersInv, AnswerTypes, HoldsKey
    <2>4. \A i, k, p : MadeFor(i, k, p) => MadeFor(i, k, p)'
        BY <2>1 DEF MadeFor
    <2>5. QED
        BY <2>1, <2>2, <2>3, <2>4, TableKept
<1>7. ASSUME NEW w \in GatewayWorkers, GatewayDies(w) PROVE AnswersInv'
    <2>1. /\ UNCHANGED <<idempotency, obligations, replies>>
          /\ \A v \in GatewayWorkers : v # w => serving'[v] = serving[v]
          /\ serving'[w].at = "waiting"
        BY <1>7 DEF GatewayDies, Finished, NoCall, GatewayInv, GatewayTypes
    <2>2. AnswerTypes' /\ ~ HoldsKey(w)'
        BY <2>1 DEF AnswersInv, AnswerTypes, HoldsKey
    <2>3. \A i, k, p : MadeFor(i, k, p) => MadeFor(i, k, p)'
        BY <2>1 DEF MadeFor
    <2>4. QED
        BY <2>1, <2>2, <2>3, TableKept
<1>8. CASE UNCHANGED gatewayVars
    BY <1>8 DEF gatewayVars, AnswersInv, AnswerTypes, RefsAreTrue, AnsweredForGood, Told,
       MadeFor, HoldsKey
<1>9. QED
    BY <1>1, <1>2, <1>3, <1>4, <1>5, <1>6, <1>7, <1>8, KeyReleased, AnswerStored DEF GatewayNext

(* The answers given under a key name one obligation (idempotency.ts:55),  *)
(* the one that was asked for, for any number of keys, requests, workers   *)
(* and faults.                                                             *)
THEOREM OneAnswerHolds == GatewaySpec => []OneAnswerPerKey
<1>1. GatewaySpec => [](GatewayInv /\ AnswersInv)
    BY GatewayInvInit, AnswersInvInit, GatewayInvStep, AnswersInvStep, PTL DEF GatewaySpec
<1>2. AnswersInv => OneAnswerPerKey
    <2> SUFFICES ASSUME AnswersInv PROVE OneAnswerPerKey
        OBVIOUS
    <2>1. \A r \in replies : MadeFor(r.ref, r.key, r.params)
        BY DEF AnswersInv, RefsAreTrue
    <2>2. \A r \in replies : r.key \in IdemKeys /\ r.ref \in Nat /\ Told(r.key, r.ref)
        <3>1. \A i \in DOMAIN obligations : i \in Nat
            BY DEF AnswersInv, AnswerTypes
        <3>2. \A r \in replies : r.ref \in DOMAIN obligations
            BY <2>1 DEF MadeFor
        <3>3. \A r \in replies : Told(r.key, r.ref)
            BY Zenon DEF Told
        <3>4. QED
            BY <3>1, <3>2, <3>3 DEF AnswersInv, AnswerTypes
    <2>3. \A r, s \in replies : r.key = s.key => r.ref = s.ref
        BY <2>2 DEF AnswersInv, AnsweredForGood
    <2>4. QED
        BY <2>1, <2>3 DEF OneAnswerPerKey, MadeFor
<1>3. QED
    BY <1>1, <1>2, PTL

-----------------------------------------------------------------------------
(* How many obligations a key creates *)

(* The key may yet create an obligation that nobody has lost: it is free,  *)
(* or its holder has no answer.                                            *)
Unspent(k) ==
    \/ idempotency[k].status = "none"
    \/ \E w \in GatewayWorkers : /\ HoldsKey(w) /\ serving[w].key = k
                                 /\ serving[w].at # "answered"

(* What a key has created and its lost calls do not account for is the     *)
(* answer it has.                                                          *)
LossesInv ==
    /\ lostCalls \in [IdemKeys -> Nat]
    /\ \A k \in IdemKeys :
         Cardinality(ObligationsOf(k)) <= lostCalls[k] + (IF Unspent(k) THEN 0 ELSE 1)

(* Obligations are a sequence, so there are finitely many of a key.        *)
LEMMA CountIsNat ==
    ASSUME AnswersInv, NEW k
    PROVE  IsFiniteSet(ObligationsOf(k)) /\ Cardinality(ObligationsOf(k)) \in Nat
<1>1. DOMAIN obligations = 1 .. Len(obligations) /\ Len(obligations) \in Nat
    BY DEF AnswersInv, AnswerTypes
<1>2. IsFiniteSet(1 .. Len(obligations))
    BY <1>1, FS_Interval
<1>3. ObligationsOf(k) \subseteq 1 .. Len(obligations)
    BY <1>1 DEF ObligationsOf
<1>4. IsFiniteSet(ObligationsOf(k))
    BY <1>2, <1>3, FS_Subset
<1>5. QED
    BY <1>4, FS_CardinalityType

(* A call creates at most one obligation, under its own key.               *)
LEMMA CallCreates ==
    ASSUME GatewayInv, AnswersInv, NEW w \in GatewayWorkers, NEW ref, IssuerActs(w, ref),
           NEW k \in IdemKeys
    PROVE  /\ Cardinality(ObligationsOf(k)') \in Nat
           /\ Cardinality(ObligationsOf(k)') <=
                Cardinality(ObligationsOf(k)) + (IF serving[w].key = k THEN 1 ELSE 0)
<1> DEFINE ask == [key |-> serving[w].key, params |-> serving[w].params]
<1>1. /\ IsFiniteSet(ObligationsOf(k)) /\ Cardinality(ObligationsOf(k)) \in Nat
    BY CountIsNat
<1>2. CASE obligations' = Append(obligations, ask)
    <2>1. obligations \in Seq([key : IdemKeys \cup {None}, params : IdemParams \cup {None}])
        BY DEF AnswersInv, AnswerTypes
    <2>2. ask.key = serving[w].key
          /\ ask \in [key : IdemKeys \cup {None}, params : IdemParams \cup {None}]
        BY DEF GatewayInv, GatewayTypes, Call
    <2> HIDE DEF ask
    <2>3. /\ Len(obligations) \in Nat /\ DOMAIN obligations = 1 .. Len(obligations)
          /\ DOMAIN obligations' = 1 .. Len(obligations) + 1
          /\ obligations'[Len(obligations) + 1] = ask
          /\ \A i \in 1 .. Len(obligations) : obligations'[i] = obligations[i]
        BY <1>2, <2>1, <2>2
    <2>4. CASE serving[w].key = k
        <3>1. ObligationsOf(k)' = ObligationsOf(k) \cup {Len(obligations) + 1}
            BY <2>2, <2>3, <2>4 DEF ObligationsOf
        <3>2. Len(obligations) + 1 \notin ObligationsOf(k)
            BY <2>3 DEF ObligationsOf
        <3>3. Cardinality(ObligationsOf(k) \cup {Len(obligations) + 1})
                = Cardinality(ObligationsOf(k)) + 1
            BY <1>1, <3>2, FS_AddElement
        <3>4. QED
            BY <1>1, <2>4, <3>1, <3>3
    <2>5. CASE serving[w].key # k
        <3>1. ObligationsOf(k)' = ObligationsOf(k)
            BY <2>2, <2>3, <2>5 DEF ObligationsOf
        <3>2. QED
            BY <1>1, <2>5, <3>1
    <2>6. QED
        BY <2>4, <2>5
<1>3. CASE UNCHANGED obligations
    <2>1. ObligationsOf(k)' = ObligationsOf(k)
        BY <1>3 DEF ObligationsOf
    <2>2. QED
        BY <1>1, <2>1
<1>4. QED
    BY <1>2, <1>3 DEF IssuerActs

(* A step that creates nothing and makes no key unspent again.             *)
LEMMA NothingCreated ==
    ASSUME AnswersInv, LossesInv, UNCHANGED <<obligations, lostCalls>>,
           \A k \in IdemKeys : Unspent(k)' => Unspent(k)
    PROVE  LossesInv'
<1>1. ASSUME NEW k \in IdemKeys
      PROVE  Cardinality(ObligationsOf(k)') <= lostCalls'[k] + (IF Unspent(k)' THEN 0 ELSE 1)
    <2>1. ObligationsOf(k)' = ObligationsOf(k) /\ Cardinality(ObligationsOf(k)) \in Nat
        BY CountIsNat DEF ObligationsOf
    <2>2. lostCalls[k] \in Nat
        BY DEF LossesInv
    <2>3. QED
        BY <2>1, <2>2 DEF LossesInv
<1>2. QED
    BY <1>1 DEF LossesInv

(* No key has created an obligation.                                       *)
LEMMA LossesInvInit == GatewayInit => LossesInv
<1> SUFFICES ASSUME GatewayInit PROVE LossesInv
    OBVIOUS
<1>1. \A k \in IdemKeys : ObligationsOf(k) = {}
    BY DEF GatewayInit, ObligationsOf
<1>2. \A k \in IdemKeys : Unspent(k) /\ lostCalls[k] = 0
    BY DEF GatewayInit, Unspent, NoClaim
<1>3. Cardinality({}) = 0
    BY FS_EmptySet
<1>4. lostCalls \in [IdemKeys -> Nat]
    BY DEF GatewayInit
<1>5. ASSUME NEW k \in IdemKeys
      PROVE  Cardinality(ObligationsOf(k)) <= lostCalls[k] + (IF Unspent(k) THEN 0 ELSE 1)
    <2>1. Cardinality(ObligationsOf(k)) = 0 /\ lostCalls[k] = 0 /\ Unspent(k)
        BY <1>1, <1>2, <1>3
    <2>2. QED
        BY <2>1
<1>6. QED
    BY <1>4, <1>5 DEF LossesInv

(* A call that is answered spends its key; one that is lost is counted.    *)
LEMMA CallCounted ==
    ASSUME GatewayInv, AnswersInv, LossesInv, NEW w \in GatewayWorkers,
           CallIssuer(w) \/ CallThrows(w)
    PROVE  LossesInv'
<1>1. /\ UNCHANGED idempotency /\ serving[w].at = "calling"
      /\ \A v \in GatewayWorkers : v # w => serving'[v] = serving[v]
      /\ serving[w].key \in IdemKeys \cup {None} /\ None \notin IdemKeys
    BY GatewayAssumption DEF CallIssuer, CallThrows, Finished, GatewayInv, GatewayTypes, Call
<1>2. \A k \in IdemKeys : Unspent(k)' => Unspent(k)
    <2>1. \A v \in GatewayWorkers : v # w => (HoldsKey(v)' <=> HoldsKey(v))
        BY <1>1 DEF HoldsKey
    <2>2. CASE serving[w].key = None
        <3>1. ~ HoldsKey(w)'
            BY <2>2 DEF CallIssuer, CallThrows, Finished, NoCall, HoldsKey, GatewayInv,
               GatewayTypes, Call
        <3>2. QED
            BY <1>1, <2>1, <3>1 DEF Unspent
    <2>3. CASE serving[w].key # None
        <3>1. HoldsKey(w) /\ serving'[w].key = serving[w].key
            BY <1>1, <2>3 DEF CallIssuer, CallThrows, HoldsKey, GatewayInv, GatewayTypes, Call
        <3>2. QED
            BY <1>1, <2>1, <3>1 DEF Unspent
    <2>4. QED
        BY <2>2, <2>3
<1>3. CASE CallIssuer(w)
    <2>1. PICK ref \in 1 .. MaxCalls : IssuerActs(w, ref)
        BY <1>3 DEF CallIssuer
    <2>2. serving'[w].at = "answered" /\ serving'[w].key = serving[w].key /\ UNCHANGED lostCalls
        BY <1>3 DEF CallIssuer, GatewayInv, GatewayTypes, Call
    <2>3. ASSUME NEW k \in IdemKeys
          PROVE  Cardinality(ObligationsOf(k)') <= lostCalls'[k] + (IF Unspent(k)' THEN 0 ELSE 1)
        <3>1. serving[w].key = k => Unspent(k) /\ ~ Unspent(k)'
            <4>1. SUFFICES ASSUME serving[w].key = k PROVE Unspent(k) /\ ~ Unspent(k)'
                OBVIOUS
            <4>2. HoldsKey(w) /\ Unspent(k) /\ idempotency[k].status = "in_flight"
                BY <1>1, <4>1 DEF HoldsKey, Unspent, GatewayInv
            <4>3. \A v \in GatewayWorkers : HoldsKey(v)' /\ serving'[v].key = k => v = w
                BY <1>1, <4>1, <4>2 DEF HoldsKey, GatewayInv
            <4>4. QED
                BY <1>1, <2>2, <4>2, <4>3 DEF Unspent
        <3>2. /\ lostCalls[k] \in Nat /\ lostCalls'[k] = lostCalls[k]
              /\ Cardinality(ObligationsOf(k)) \in Nat
              /\ Cardinality(ObligationsOf(k)) <= lostCalls[k] + (IF Unspent(k) THEN 0 ELSE 1)
            BY <2>2, CountIsNat DEF LossesInv
        <3>3. Cardinality(ObligationsOf(k)') \in Nat
            BY <2>1, CallCreates
        <3>4. Cardinality(ObligationsOf(k)') <=
                Cardinality(ObligationsOf(k)) + (IF serving[w].key = k THEN 1 ELSE 0)
            BY <2>1, CallCreates
        <3>5. QED
            BY <1>2, <3>1, <3>2, <3>3, <3>4
    <2>4. QED
        BY <2>2, <2>3 DEF LossesInv
<1>4. CASE CallThrows(w)
    <2>1. CASE UNCHANGED <<obligations, lostCalls>>
        BY <1>2, <2>1, NothingCreated
    <2>2. CASE /\ \E ref \in 1 .. MaxCalls : IssuerActs(w, ref)
               /\ lostCalls' = IF serving[w].key = None THEN lostCalls
                               ELSE [lostCalls EXCEPT ![serving[w].key] = @ + 1]
        <3>1. PICK ref \in 1 .. MaxCalls : IssuerActs(w, ref)
            BY <2>2
        <3>2. /\ lostCalls' \in [IdemKeys -> Nat]
              /\ \A k \in IdemKeys :
                   lostCalls'[k] = lostCalls[k] + (IF serving[w].key = k THEN 1 ELSE 0)
            BY <1>1, <2>2 DEF LossesInv
        <3>3. ASSUME NEW k \in IdemKeys
              PROVE  Cardinality(ObligationsOf(k)') <=
                       lostCalls'[k] + (IF Unspent(k)' THEN 0 ELSE 1)
            <4>1. /\ lostCalls[k] \in Nat /\ Cardinality(ObligationsOf(k)) \in Nat
                  /\ Cardinality(ObligationsOf(k)) <= lostCalls[k] + (IF Unspent(k) THEN 0 ELSE 1)
                BY CountIsNat DEF LossesInv
            <4>2. Cardinality(ObligationsOf(k)') \in Nat
                BY <3>1, CallCreates
            <4>3. Cardinality(ObligationsOf(k)') <=
                    Cardinality(ObligationsOf(k)) + (IF serving[w].key = k THEN 1 ELSE 0)
                BY <3>1, CallCreates
            <4>4. QED
                BY <1>2, <3>2, <4>1, <4>2, <4>3
        <3>4. QED
            BY <3>2, <3>3 DEF LossesInv
    <2>3. QED
        BY <1>4, <2>1, <2>2 DEF CallThrows
<1>5. QED
    BY <1>3, <1>4

(* Every step keeps the count of what each key has created.                *)
LEMMA LossesInvStep ==
    ASSUME GatewayInv, AnswersInv, LossesInv, [GatewayNext]_gatewayVars
    PROVE  LossesInv'
<1>1. ASSUME NEW w \in GatewayWorkers,
             \/ Obligation(w) \/ RunIdempotent(w) \/ ReadExisting(w)
             \/ Release(w) \/ Store(w) \/ Reply(w) \/ GatewayDies(w)
      PROVE  LossesInv'
    <2>1. UNCHANGED <<obligations, lostCalls>>
        BY <1>1 DEF Obligation, RunIdempotent, ReadExisting, Release, Store, Reply, GatewayDies
    <2>2. \A v \in GatewayWorkers : v # w => serving'[v] = serving[v]
        BY <1>1 DEF Obligation, RunIdempotent, ReadExisting, Release, Store, Reply, GatewayDies,
           Finished, GatewayInv, GatewayTypes
    <2>3. \A v \in GatewayWorkers : v # w => (HoldsKey(v)' <=> HoldsKey(v))
        BY <2>2 DEF HoldsKey
    <2>4. CASE Obligation(w)
        <3>1. /\ UNCHANGED idempotency
              /\ serving'[w].at \in {"calling", "claiming"}
              /\ serving'[w].at = "calling" => serving'[w].key = None
            BY <2>4 DEF Obligation, GatewayInv, GatewayTypes
        <3>2. \A k \in IdemKeys : Unspent(k)' => Unspent(k)
            BY <2>2, <2>3, <3>1 DEF Unspent, HoldsKey
        <3>3. QED
            BY <2>1, <3>2, NothingCreated
    <2>5. CASE RunIdempotent(w)
        <3>1. /\ serving'[w].key = serving[w].key /\ serving[w].key \in IdemKeys
              /\ \A k \in IdemKeys : k # serving[w].key => idempotency'[k] = idempotency[k]
              /\ \/ idempotency[serving[w].key].status = "none"
                 \/ UNCHANGED idempotency /\ serving'[w].at = "reading"
            BY <2>5 DEF RunIdempotent, KeyFree, GatewayInv, GatewayTypes, Call
        <3>2. \A k \in IdemKeys : Unspent(k)' => Unspent(k)
            BY <2>2, <2>3, <3>1 DEF Unspent, HoldsKey
        <3>3. QED
            BY <2>1, <3>2, NothingCreated
    <2>6. CASE ReadExisting(w) \/ Reply(w) \/ GatewayDies(w)
        <3>1. UNCHANGED idempotency /\ serving'[w].at \in {"claiming", "waiting"}
            BY <2>6 DEF ReadExisting, Reply, GatewayDies, Finished, NoCall, GatewayInv,
               GatewayTypes, Call
        <3>2. \A k \in IdemKeys : Unspent(k)' => Unspent(k)
            BY <2>2, <2>3, <3>1 DEF Unspent, HoldsKey
        <3>3. QED
            BY <2>1, <3>2, NothingCreated
    <2>7. CASE Release(w)
        <3>1. /\ HoldsKey(w) /\ serving[w].at = "releasing" /\ serving[w].key \in IdemKeys
              /\ serving'[w].at = "waiting"
              /\ \A k \in IdemKeys : k # serving[w].key => idempotency'[k] = idempotency[k]
            BY <2>7 DEF Release, HoldsKey, Finished, NoCall, GatewayInv, GatewayTypes, Call
        <3>2. \A k \in IdemKeys : Unspent(k)' => Unspent(k)
            BY <2>2, <2>3, <3>1 DEF Unspent, HoldsKey
        <3>3. QED
            BY <2>1, <3>2, NothingCreated
    <2>8. CASE Store(w)
        <3>1. /\ serving[w].key \in IdemKeys /\ serving'[w].at = "replying"
              /\ \A k \in IdemKeys : k # serving[w].key => idempotency'[k] = idempotency[k]
              /\ \/ UNCHANGED idempotency
                 \/ idempotency'[serving[w].key] = StoredRow(w)
            BY <2>8 DEF Store, GatewayInv, GatewayTypes, Call
        <3>2. StoredRow(w).status = "completed"
            BY <3>1 DEF StoredRow, GatewayInv, GatewayTypes, ClaimRow
        <3>3. \A k \in IdemKeys : Unspent(k)' => Unspent(k)
            BY <2>2, <2>3, <3>1, <3>2 DEF Unspent, HoldsKey
        <3>4. QED
            BY <2>1, <3>3, NothingCreated
    <2>9. QED
        BY <1>1, <2>4, <2>5, <2>6, <2>7, <2>8
<1>2. CASE UNCHANGED gatewayVars
    <2>1. \A k \in IdemKeys : Unspent(k)' => Unspent(k)
        BY <1>2 DEF gatewayVars, Unspent, HoldsKey
    <2>2. QED
        BY <1>2, <2>1, NothingCreated DEF gatewayVars
<1>3. QED
    BY <1>1, <1>2, CallCounted DEF GatewayNext

(* A key creates a second obligation only after a call the issuer acted on *)
(* was lost: as many obligations as answers and losses, whatever requests  *)
(* race, retry or die (idempotency.ts).                                    *)
THEOREM ObligationsCounted == GatewaySpec => []OneObligationUnlessLost
<1>1. GatewaySpec => [](GatewayInv /\ AnswersInv /\ LossesInv)
    BY GatewayInvInit, AnswersInvInit, LossesInvInit, GatewayInvStep, AnswersInvStep,
       LossesInvStep, PTL DEF GatewaySpec
<1>2. AnswersInv /\ LossesInv => OneObligationUnlessLost
    <2> SUFFICES ASSUME AnswersInv, LossesInv, NEW k \in IdemKeys
                 PROVE  Cardinality(ObligationsOf(k)) <= 1 + lostCalls[k]
        BY DEF OneObligationUnlessLost
    <2>1. Cardinality(ObligationsOf(k)) \in Nat /\ lostCalls[k] \in Nat
        BY CountIsNat DEF LossesInv
    <2>2. QED
        BY <2>1 DEF LossesInv
<1>3. QED
    BY <1>1, <1>2, PTL

-----------------------------------------------------------------------------
(* The payout hop *)

HopSteps ==
    {"resting", "verified", "claimed", "loaded", "accepted", "refused", "unbooked"}

RefId == Quotes \cup (Legs \X Nat) \cup {None}

PayoutRow ==
    [status : {"none", "claimed", "failed", "sent", "bookkeeping_pending"},
     amount : {r.amount : r \in Requests} \cup {0}, refId : RefId,
     quoteId : {r.quoteId : r \in Requests} \cup {None}, txHash : BOOLEAN]

Served == [at : HopSteps, req : Requests \cup {None}, refId : RefId, seq : Nat]

PayoutTypes ==
    /\ payouts \in [Legs -> PayoutRow]
    /\ workers \in [Workers -> Served]
    /\ sequence \in Nat
    /\ requested \in Nat

(* The request has claimed its leg and not yet let go of it.               *)
Paying(w) == workers[w].at \in {"claimed", "loaded", "accepted", "refused", "unbooked"}

PayoutInv ==
    /\ PayoutTypes
    /\ \A w \in Workers : workers[w].at # "resting" => workers[w].req \in Requests
    /\ \A w \in Workers : Paying(w) =>
         \/ payouts[workers[w].req.leg].status = "claimed"
         \/ workers[w].at = "unbooked" /\ payouts[workers[w].req.leg].status = "sent"
    /\ \A w, v \in Workers :
         Paying(w) /\ Paying(v) /\ workers[w].req.leg = workers[v].req.leg => w = v

(* No leg is claimed and no request served.                                *)
LEMMA PayoutInvInit == PayoutInit => PayoutInv
  BY DEF PayoutInit, PayoutInv, PayoutTypes, PayoutRow, Served, NoPayout, Resting, HopSteps,
         RefId, Paying

(* A claim keeps the type of its row.                                      *)
LEMMA RowClaimed ==
    ASSUME NEW p \in PayoutRow, NEW req \in Requests, NEW ref \in RefId
    PROVE  LET q == [p EXCEPT !.status = "claimed", !.amount = req.amount,
                              !.refId = ref, !.quoteId = req.quoteId]
           IN  q \in PayoutRow /\ q.status = "claimed"
  BY DEF PayoutRow

(* The status, amount, quote and ref_id of every row after a step that     *)
(* writes status x and perhaps the transaction to the row of leg l.        *)
RowWritten(l, x) ==
    /\ payouts' \in [Legs -> PayoutRow]
    /\ payouts'[l].status = x
    /\ \A k \in Legs : /\ k # l => payouts'[k] = payouts[k]
                       /\ payouts'[k].amount = payouts[k].amount
                       /\ payouts'[k].refId = payouts[k].refId
                       /\ payouts'[k].quoteId = payouts[k].quoteId

(* A write of the status alone, or with the transaction, is such a step.   *)
LEMMA WriteRow ==
    ASSUME PayoutTypes, NEW l \in Legs, NEW x \in {"failed", "sent", "bookkeeping_pending"},
           \/ payouts' = [payouts EXCEPT ![l].status = x]
           \/ payouts' = [payouts EXCEPT ![l].status = x, ![l].txHash = TRUE]
    PROVE  RowWritten(l, x)
<1>1. payouts[l] \in PayoutRow /\ payouts[l].txHash \in BOOLEAN
  BY DEF PayoutTypes, PayoutRow
<1>2. PICK h \in BOOLEAN :
         payouts' = [payouts EXCEPT ![l] = [payouts[l] EXCEPT !.status = x, !.txHash = h]]
  <2>1. CASE payouts' = [payouts EXCEPT ![l].status = x]
    <3>1. [payouts[l] EXCEPT !.status = x] =
             [payouts[l] EXCEPT !.status = x, !.txHash = payouts[l].txHash]
      BY <1>1 DEF PayoutRow
    <3>2. payouts' = [payouts EXCEPT ![l] = [payouts[l] EXCEPT !.status = x]]
      BY <2>1
    <3>3. QED
      BY <1>1, <3>1, <3>2
  <2>2. CASE payouts' = [payouts EXCEPT ![l].status = x, ![l].txHash = TRUE]
    BY <2>2 DEF PayoutTypes
  <2>3. QED
    BY <2>1, <2>2
<1> DEFINE row == [payouts[l] EXCEPT !.status = x, !.txHash = h]
<1>3. /\ row \in PayoutRow /\ row.status = x
      /\ row.amount = payouts[l].amount /\ row.refId = payouts[l].refId
      /\ row.quoteId = payouts[l].quoteId
  BY <1>1 DEF PayoutRow
<1>4. payouts' = [payouts EXCEPT ![l] = row]
  BY <1>2
<1> HIDE DEF row
<1>5. QED
  BY <1>3, <1>4 DEF PayoutTypes, RowWritten

(* One request moves on to step `at`, with the request it has.             *)
MovedOn(w, at) ==
    /\ workers' \in [Workers -> Served]
    /\ workers'[w].at = at /\ workers'[w].req = workers[w].req
    /\ \A v \in Workers : v # w => workers'[v] = workers[v]

(* GoTo moves one request on.                                              *)
LEMMA GoToMoves ==
    ASSUME PayoutTypes, NEW w \in Workers, NEW at \in HopSteps, GoTo(w, at)
    PROVE  MovedOn(w, at)
<1>1. [workers[w] EXCEPT !.at = at] \in Served
  BY DEF PayoutTypes, Served
<1>2. QED
  BY <1>1 DEF GoTo, PayoutTypes, MovedOn, Served

(* One request is done.                                                    *)
Left(w) ==
    /\ workers' \in [Workers -> Served]
    /\ workers'[w].at = "resting"
    /\ \A v \in Workers : v # w => workers'[v] = workers[v]

(* Leave ends one request.                                                 *)
LEMMA LeaveRests ==
    ASSUME PayoutTypes, NEW w \in Workers, Leave(w)
    PROVE  Left(w)
<1>1. Resting \in Served /\ Resting.at = "resting"
  BY DEF Resting, Served, HopSteps, RefId
<1>2. QED
  BY <1>1 DEF Leave, PayoutTypes, Left

(* A request that does not write its row leaves its claim, or moves on     *)
(* with it.                                                                *)
LEMMA ClaimCarried ==
    ASSUME PayoutInv, NEW w \in Workers, UNCHANGED payouts, sequence' \in Nat, requested' \in Nat,
           \/ Left(w)
           \/ \E at \in {"loaded", "accepted", "refused", "unbooked"} :
                 MovedOn(w, at) /\ Paying(w) /\ workers[w].at # "unbooked"
    PROVE  PayoutInv'
<1>1. PayoutTypes'
  BY DEF PayoutInv, PayoutTypes, Left, MovedOn
<1>2. CASE Left(w)
  <2>1. \A v \in Workers : workers'[v].at # "resting" => v # w /\ workers'[v] = workers[v]
    BY <1>2 DEF Left
  <2>2. QED
    BY <1>1, <2>1 DEF PayoutInv, Paying
<1>3. ASSUME NEW at \in {"loaded", "accepted", "refused", "unbooked"},
             MovedOn(w, at), Paying(w), workers[w].at # "unbooked"
      PROVE  PayoutInv'
  <2>1. /\ payouts[workers[w].req.leg].status = "claimed" /\ workers[w].req \in Requests
        /\ Paying(w)'
    BY <1>3 DEF PayoutInv, Paying, MovedOn
  <2>2. \A v \in Workers : /\ workers'[v].req = workers[v].req
                           /\ Paying(v)' <=> Paying(v)
                           /\ v # w => workers'[v] = workers[v]
    BY <1>3, <2>1 DEF MovedOn, Paying
  <2>3. \A v \in Workers : workers'[v].at # "resting" => workers'[v].req \in Requests
    BY <2>1, <2>2 DEF PayoutInv
  <2>4. \A v \in Workers : Paying(v)' =>
           \/ payouts'[workers'[v].req.leg].status = "claimed"
           \/ workers'[v].at = "unbooked" /\ payouts'[workers'[v].req.leg].status = "sent"
    BY <2>1, <2>2 DEF PayoutInv
  <2>5. \A v, u \in Workers :
           Paying(v)' /\ Paying(u)' /\ workers'[v].req.leg = workers'[u].req.leg => v = u
    BY <2>2 DEF PayoutInv
  <2>6. QED
    BY <1>1, <2>3, <2>4, <2>5 DEF PayoutInv
<1>4. QED
  BY <1>2, <1>3

(* A request that writes the row it has claimed, and lets go of it.        *)
LEMMA ClaimEnds ==
    ASSUME PayoutInv, NEW w \in Workers, Paying(w), UNCHANGED <<sequence, requested>>,
           NEW x \in {"failed", "sent", "bookkeeping_pending"},
           RowWritten(workers[w].req.leg, x), Left(w)
    PROVE  PayoutInv'
<1>1. workers[w].req.leg \in Legs
  BY RequestAssumption DEF PayoutInv, Paying
<1>2. \A v \in Workers : v # w /\ Paying(v)
         => workers[v].req.leg # workers[w].req.leg /\ workers[v].req.leg \in Legs
  BY RequestAssumption DEF PayoutInv, Paying
<1>3. \A v \in Workers : Paying(v)' => v # w /\ Paying(v) /\ workers'[v] = workers[v]
  BY DEF Left, Paying
<1>4. \A v \in Workers : Paying(v)' => payouts'[workers[v].req.leg] = payouts[workers[v].req.leg]
  BY <1>2, <1>3 DEF RowWritten
<1>5. PayoutTypes'
  BY DEF PayoutInv, PayoutTypes, RowWritten, Left
<1>6. \A v \in Workers : workers'[v].at # "resting" => workers'[v].req \in Requests
  BY DEF PayoutInv, Left
<1>7. QED
  BY <1>3, <1>4, <1>5, <1>6 DEF PayoutInv

(* Every step keeps a claimed row with the one request that claimed it.    *)
LEMMA PayoutInvStep ==
    ASSUME PayoutInv, [PayoutNext]_payoutVars
    PROVE  PayoutInv'
<1>0. /\ PayoutTypes /\ sequence \in Nat /\ requested \in Nat
      /\ \A w \in Workers : Paying(w) => workers[w].req \in Requests /\ workers[w].req.leg \in Legs
  BY RequestAssumption DEF PayoutInv, PayoutTypes, Paying
<1>1. ASSUME NEW w \in Workers, Verify(w) PROVE PayoutInv'
  <2>1. PICK req \in Requests : workers' = [workers EXCEPT ![w] =
             [at |-> "verified", req |-> req, seq |-> 0,
              refId |-> IF req.quoteId # None THEN req.quoteId ELSE <<req.leg, requested + 1>>]]
    BY <1>1 DEF Verify
  <2> DEFINE ref == IF req.quoteId # None THEN req.quoteId ELSE <<req.leg, requested + 1>>
  <2>2. ref \in RefId
    BY <1>0, RequestAssumption DEF RefId, Quotes
  <2> HIDE DEF ref
  <2>3. [at |-> "verified", req |-> req, seq |-> 0, refId |-> ref] \in Served
    BY <2>2 DEF Served, HopSteps
  <2>4. /\ workers' \in [Workers -> Served] /\ UNCHANGED <<payouts, sequence>> /\ requested' \in Nat
        /\ workers'[w].at = "verified" /\ workers'[w].req = req
        /\ \A v \in Workers : v # w => workers'[v] = workers[v]
    BY <1>0, <1>1, <2>1, <2>3 DEF Verify, PayoutTypes, ref
  <2>5. \A v \in Workers : Paying(v)' => Paying(v) /\ v # w
    BY <2>4 DEF Paying
  <2>6. QED
    BY <1>0, <2>4, <2>5 DEF PayoutInv, PayoutTypes
<1>2. ASSUME NEW w \in Workers, Claim(w) PROVE PayoutInv'
  <2>1. /\ workers[w].at = "verified" /\ workers[w].req \in Requests
        /\ workers[w].req.leg \in Legs /\ workers[w].refId \in RefId
        /\ UNCHANGED <<sequence, requested>>
    BY <1>2, RequestAssumption DEF Claim, PayoutInv, PayoutTypes, Served
  <2>2. CASE ~Claimable(workers[w].req.leg)
    <3>1. Leave(w) /\ UNCHANGED payouts
      BY <1>2, <2>2 DEF Claim
    <3>2. QED
      BY <1>0, <2>1, <3>1, LeaveRests, ClaimCarried
  <2>3. CASE Claimable(workers[w].req.leg)
    <3> DEFINE l == workers[w].req.leg
               row == [payouts[l] EXCEPT !.status = "claimed", !.amount = workers[w].req.amount,
                         !.refId = workers[w].refId, !.quoteId = workers[w].req.quoteId]
    <3>1. GoTo(w, "claimed") /\ payouts' = [payouts EXCEPT ![l] = row]
      BY <1>2, <2>3 DEF Claim
    <3>2. payouts[l] \in PayoutRow
      BY <1>0, <2>1 DEF PayoutTypes
    <3>3. row \in PayoutRow /\ row.status = "claimed"
      BY <2>1, <3>2, RowClaimed
    <3> HIDE DEF row
    <3>4. MovedOn(w, "claimed")
      BY <1>0, <3>1, GoToMoves DEF HopSteps
    <3>5. PayoutTypes'
      BY <1>0, <2>1, <3>1, <3>3, <3>4 DEF PayoutTypes, MovedOn
    <3>6. payouts[l].status \in {"none", "failed"}
      BY <2>3 DEF Claimable
    <3>7. \A v \in Workers : Paying(v) => v # w /\ workers[v].req.leg # l
      BY <2>1, <3>6 DEF PayoutInv, Paying
    <3>8. \A v \in Workers : /\ workers'[v].req = workers[v].req
                             /\ v # w => workers'[v] = workers[v] /\ (Paying(v)' <=> Paying(v))
      BY <3>4 DEF MovedOn, Paying
    <3>9. \A v \in Workers : v # w /\ Paying(v)
             => payouts'[workers[v].req.leg] = payouts[workers[v].req.leg]
      BY <1>0, <3>1, <3>7 DEF PayoutTypes
    <3>10. payouts'[l].status = "claimed"
      BY <2>1, <3>1, <3>3, <1>0 DEF PayoutTypes
    <3>11. \A v \in Workers : Paying(v)' =>
             \/ payouts'[workers'[v].req.leg].status = "claimed"
             \/ workers'[v].at = "unbooked" /\ payouts'[workers'[v].req.leg].status = "sent"
      BY <3>8, <3>9, <3>10 DEF PayoutInv
    <3>12. \A v, u \in Workers :
             Paying(v)' /\ Paying(u)' /\ workers'[v].req.leg = workers'[u].req.leg => v = u
      BY <3>7, <3>8 DEF PayoutInv
    <3>13. \A v \in Workers : workers'[v].at # "resting" => workers'[v].req \in Requests
      BY <2>1, <3>8 DEF PayoutInv
    <3>14. QED
      BY <3>5, <3>11, <3>12, <3>13 DEF PayoutInv
  <2>4. QED
    BY <2>2, <2>3
<1>3. ASSUME NEW w \in Workers, LoadSequenceAccount(w) PROVE PayoutInv'
  <2>1. /\ workers' = [workers EXCEPT ![w] = [workers[w] EXCEPT !.at = "loaded", !.seq = sequence]]
        /\ workers[w].at = "claimed" /\ UNCHANGED <<payouts, sequence, requested>>
    BY <1>3 DEF LoadSequenceAccount
  <2>2. [workers[w] EXCEPT !.at = "loaded", !.seq = sequence] \in Served
    BY <1>0 DEF PayoutTypes, Served, HopSteps
  <2>3. MovedOn(w, "loaded")
    BY <1>0, <2>1, <2>2 DEF PayoutTypes, MovedOn, Served
  <2>4. QED
    BY <1>0, <2>1, <2>3, ClaimCarried DEF Paying
<1>4. ASSUME NEW w \in Workers, SignAndSubmit(w) PROVE PayoutInv'
  <2>1. /\ workers[w].at = "loaded" /\ UNCHANGED <<payouts, sequence, requested>>
        /\ GoTo(w, "accepted") \/ GoTo(w, "refused")
    BY <1>4 DEF SignAndSubmit
  <2>2. MovedOn(w, "accepted") \/ MovedOn(w, "refused")
    BY <1>0, <2>1, GoToMoves DEF HopSteps
  <2>3. QED
    BY <1>0, <2>1, <2>2, ClaimCarried DEF Paying
<1>5. ASSUME NEW w \in Workers, SubmissionThrows(w) PROVE PayoutInv'
  <2>1. /\ workers[w].at \in {"claimed", "loaded"} /\ UNCHANGED <<payouts, sequence, requested>>
        /\ GoTo(w, "refused")
    BY <1>5 DEF SubmissionThrows
  <2>2. MovedOn(w, "refused")
    BY <1>0, <2>1, GoToMoves DEF HopSteps
  <2>3. QED
    BY <1>0, <2>1, <2>2, ClaimCarried DEF Paying
<1>6. ASSUME NEW w \in Workers, MarkFailed(w) PROVE PayoutInv'
  <2>1. /\ Paying(w) /\ Leave(w) /\ UNCHANGED <<sequence, requested>>
        /\ payouts' = [payouts EXCEPT ![workers[w].req.leg].status = "failed"]
    BY <1>6 DEF MarkFailed, Paying
  <2>2. RowWritten(workers[w].req.leg, "failed") /\ Left(w)
    BY <1>0, <2>1, WriteRow, LeaveRests
  <2>3. QED
    BY <2>1, <2>2, ClaimEnds
<1>7. ASSUME NEW w \in Workers, Book(w) PROVE PayoutInv'
  <2>1. workers[w].at = "accepted" /\ UNCHANGED <<sequence, requested>>
    BY <1>7 DEF Book
  <2>2. CASE UNCHANGED payouts /\ GoTo(w, "unbooked")
    <3>1. MovedOn(w, "unbooked")
      BY <1>0, <2>2, GoToMoves DEF HopSteps
    <3>2. QED
      BY <1>0, <2>1, <2>2, <3>1, ClaimCarried DEF Paying
  <2>3. CASE Commit(w) /\ Leave(w)
    <3>1. RowWritten(workers[w].req.leg, "sent") /\ Left(w)
      BY <1>0, <2>1, <2>3, WriteRow, LeaveRests DEF Commit, Paying
    <3>2. QED
      BY <2>1, <3>1, ClaimEnds DEF Paying
  <2>4. CASE Commit(w) /\ GoTo(w, "unbooked")
    <3>1. RowWritten(workers[w].req.leg, "sent") /\ MovedOn(w, "unbooked")
      BY <1>0, <2>1, <2>4, WriteRow, GoToMoves DEF Commit, Paying, HopSteps
    <3>2. \A v \in Workers : /\ workers'[v].req = workers[v].req
                             /\ Paying(v)' <=> Paying(v)
                             /\ v # w => workers'[v] = workers[v]
      BY <2>1, <3>1 DEF MovedOn, Paying
    <3>3. \A v \in Workers : v # w /\ Paying(v)
             => payouts'[workers[v].req.leg] = payouts[workers[v].req.leg]
      BY <1>0, <2>1, <3>1 DEF PayoutInv, RowWritten, Paying
    <3>4. \A v \in Workers : Paying(v)' =>
             \/ payouts'[workers'[v].req.leg].status = "claimed"
             \/ workers'[v].at = "unbooked" /\ payouts'[workers'[v].req.leg].status = "sent"
      <4>1. workers'[w].at = "unbooked" /\ payouts'[workers'[w].req.leg].status = "sent"
        BY <3>1 DEF MovedOn, RowWritten
      <4>2. QED
        BY <3>2, <3>3, <4>1 DEF PayoutInv
    <3>5. \A v, u \in Workers :
             Paying(v)' /\ Paying(u)' /\ workers'[v].req.leg = workers'[u].req.leg => v = u
      BY <3>2 DEF PayoutInv
    <3>6. \A v \in Workers : workers'[v].at # "resting" => workers'[v].req \in Requests
      BY <2>1, <3>2 DEF PayoutInv
    <3>7. PayoutTypes'
      BY <1>0, <2>1, <3>1 DEF PayoutTypes, RowWritten, MovedOn
    <3>8. QED
      BY <3>4, <3>5, <3>6, <3>7 DEF PayoutInv
  <2>5. QED
    BY <1>7, <2>2, <2>3, <2>4 DEF Book
<1>8. ASSUME NEW w \in Workers, MarkUnbooked(w) PROVE PayoutInv'
  <2>1. /\ Paying(w) /\ Leave(w) /\ UNCHANGED <<sequence, requested>>
        /\ payouts' = [payouts EXCEPT ![workers[w].req.leg].status = "bookkeeping_pending",
                                      ![workers[w].req.leg].txHash = TRUE]
    BY <1>8 DEF MarkUnbooked, Paying
  <2>2. RowWritten(workers[w].req.leg, "bookkeeping_pending") /\ Left(w)
    BY <1>0, <2>1, WriteRow, LeaveRests
  <2>3. QED
    BY <2>1, <2>2, ClaimEnds
<1>9. ASSUME NEW w \in Workers, Die(w) PROVE PayoutInv'
  <2>1. Leave(w) /\ UNCHANGED <<payouts, sequence, requested>>
    BY <1>9 DEF Die
  <2>2. QED
    BY <1>0, <2>1, LeaveRests, ClaimCarried
<1>10. ASSUME NEW l \in Legs, Repair(l) PROVE PayoutInv'
  <2>1. /\ payouts[l].status = "bookkeeping_pending" /\ UNCHANGED <<workers, sequence, requested>>
        /\ payouts' = [payouts EXCEPT ![l].status = "sent"]
    BY <1>10 DEF Repair
  <2>2. RowWritten(l, "sent")
    BY <1>0, <2>1, WriteRow
  <2>3. \A v \in Workers : Paying(v)
           => payouts'[workers[v].req.leg] = payouts[workers[v].req.leg]
    BY <1>0, <2>1, <2>2 DEF PayoutInv, RowWritten
  <2>4. QED
    BY <1>0, <2>1, <2>2, <2>3 DEF PayoutInv, PayoutTypes, RowWritten, Paying
<1>11. ASSUME UNCHANGED <<payouts, workers, requested>>, sequence' \in Nat PROVE PayoutInv'
  BY <1>11 DEF PayoutInv, PayoutTypes, Paying
<1>12. ASSUME NetworkCloses PROVE PayoutInv'
  BY <1>0, <1>11, <1>12 DEF NetworkCloses
<1>13. CASE UNCHANGED payoutVars
  BY <1>0, <1>11, <1>13 DEF payoutVars
<1>14. QED
  BY <1>1, <1>2, <1>3, <1>4, <1>5, <1>6, <1>7, <1>8, <1>9, <1>10, <1>12, <1>13 DEF PayoutNext

PayoutTable ==
    <<[l \in Legs |-> PayoutSlot(payouts[l])],
      [l \in Legs |-> IF PayoutSlot(payouts[l]) = "done"
                      THEN <<payouts[l].amount, payouts[l].refId>>
                      ELSE None]>>

(* Every step of the hop is a step of the claim table or leaves it.        *)
LEMMA PayoutStepRefines ==
    ASSUME PayoutInv, [PayoutNext]_payoutVars
    PROVE  [PayoutClaims!OnceNext]_PayoutTable
<1>0. /\ PayoutTypes
      /\ \A w \in Workers : workers[w].at # "resting" => workers[w].req.leg \in Legs
  BY RequestAssumption DEF PayoutInv
<1>1. ASSUME NEW w \in Workers, Claim(w), ~UNCHANGED payouts
      PROVE  \E l \in Legs : PayoutClaims!Take(l)
  <2>1. PICK l \in Legs : l = workers[w].req.leg
    BY <1>0, <1>1 DEF Claim
  <2>2. /\ payouts[l].status \in {"none", "failed"}
        /\ payouts' = [payouts EXCEPT ![l] = [payouts[l] EXCEPT !.status = "claimed",
              !.amount = workers[w].req.amount, !.refId = workers[w].refId,
              !.quoteId = workers[w].req.quoteId]]
    BY <1>1, <2>1 DEF Claim, Claimable
  <2>3. /\ payouts'[l].status = "claimed"
        /\ \A k \in Legs : k # l => payouts'[k] = payouts[k]
    BY <1>0, <2>2 DEF PayoutTypes, PayoutRow
  <2>4. PayoutSlot(payouts[l]) = "free" /\ PayoutSlot(payouts'[l]) = "held"
    BY <2>2, <2>3 DEF PayoutSlot
  <2>5. PayoutClaims!Take(l)
    BY <2>3, <2>4 DEF PayoutClaims!Take
  <2>6. QED
    BY <2>5
<1>2. ASSUME NEW w \in Workers, MarkFailed(w)
      PROVE  \E l \in Legs : PayoutClaims!GiveBack(l)
  <2>1. PICK l \in Legs : l = workers[w].req.leg
    BY <1>0, <1>2 DEF MarkFailed
  <2>2. payouts[l].status = "claimed" /\ payouts' = [payouts EXCEPT ![l].status = "failed"]
    BY <1>2, <2>1 DEF MarkFailed, PayoutInv, Paying
  <2>3. RowWritten(l, "failed")
    BY <1>0, <2>2, WriteRow
  <2>4. PayoutSlot(payouts[l]) = "held" /\ PayoutSlot(payouts'[l]) = "free"
    BY <2>2, <2>3 DEF PayoutSlot, RowWritten
  <2>5. PayoutClaims!GiveBack(l)
    BY <2>3, <2>4 DEF PayoutClaims!GiveBack, RowWritten
  <2>6. QED
    BY <2>5
<1>3. ASSUME NEW l \in Legs, NEW x \in {"sent", "bookkeeping_pending"}, RowWritten(l, x),
             payouts[l].status = "claimed"
      PROVE  PayoutClaims!Finish(l)
  <2>1. PayoutSlot(payouts[l]) = "held" /\ PayoutSlot(payouts'[l]) = "done"
    BY <1>3 DEF PayoutSlot, RowWritten
  <2>2. QED
    BY <1>3, <2>1 DEF PayoutClaims!Finish, RowWritten
<1>4. ASSUME NEW l \in Legs, NEW x \in {"sent", "bookkeeping_pending"}, RowWritten(l, x),
             payouts[l].status \in {"sent", "bookkeeping_pending"}
      PROVE  UNCHANGED PayoutTable
  <2>1. PayoutSlot(payouts[l]) = "done" /\ PayoutSlot(payouts'[l]) = "done"
    BY <1>4 DEF PayoutSlot, RowWritten
  <2>2. \A k \in Legs : /\ PayoutSlot(payouts'[k]) = PayoutSlot(payouts[k])
                        /\ payouts'[k].amount = payouts[k].amount
                        /\ payouts'[k].refId = payouts[k].refId
    BY <1>4, <2>1 DEF RowWritten
  <2>3. QED
    BY <2>2 DEF PayoutTable
<1>5. ASSUME NEW w \in Workers, Book(w) \/ MarkUnbooked(w), ~UNCHANGED payouts
      PROVE  (\E l \in Legs : PayoutClaims!Finish(l)) \/ UNCHANGED PayoutTable
  <2>1. PICK l \in Legs : l = workers[w].req.leg
    BY <1>0, <1>5 DEF Book, MarkUnbooked
  <2>2. payouts[l].status \in {"claimed", "sent"}
    BY <1>5, <2>1 DEF Book, MarkUnbooked, PayoutInv, Paying
  <2>3. PICK x \in {"sent", "bookkeeping_pending"} :
           payouts' = [payouts EXCEPT ![l].status = x, ![l].txHash = TRUE]
    BY <1>5, <2>1 DEF Book, MarkUnbooked, Commit
  <2>4. RowWritten(l, x)
    BY <1>0, <2>3, WriteRow
  <2>5. QED
    BY <1>3, <1>4, <2>2, <2>4
<1>6. ASSUME NEW l \in Legs, Repair(l) PROVE UNCHANGED PayoutTable
  <2>1. /\ payouts[l].status = "bookkeeping_pending"
        /\ payouts' = [payouts EXCEPT ![l].status = "sent"]
    BY <1>6 DEF Repair
  <2>2. RowWritten(l, "sent")
    BY <1>0, <2>1, WriteRow
  <2>3. QED
    BY <1>4, <2>1, <2>2
<1>7. CASE UNCHANGED payouts
  BY <1>7 DEF PayoutTable
<1>8. CASE ~UNCHANGED payouts
  <2>1. ASSUME NEW w \in Workers,
               \/ Verify(w) \/ LoadSequenceAccount(w) \/ SignAndSubmit(w)
               \/ SubmissionThrows(w) \/ Die(w) \/ NetworkCloses \/ UNCHANGED payoutVars
        PROVE  UNCHANGED payouts
    BY <2>1 DEF Verify, LoadSequenceAccount, SignAndSubmit, SubmissionThrows, Die,
                NetworkCloses, payoutVars
  <2>2. NetworkCloses \/ UNCHANGED payoutVars => UNCHANGED payouts
    BY DEF NetworkCloses, payoutVars
  <2>3. \/ \E w \in Workers : Claim(w) \/ MarkFailed(w) \/ Book(w) \/ MarkUnbooked(w)
        \/ \E l \in Legs : Repair(l)
    BY <1>8, <2>1, <2>2 DEF PayoutNext
  <2>4. \/ \E l \in Legs :
              PayoutClaims!Take(l) \/ PayoutClaims!GiveBack(l) \/ PayoutClaims!Finish(l)
        \/ UNCHANGED PayoutTable
    BY <1>1, <1>2, <1>5, <1>6, <1>8, <2>3
  <2>5. QED
    BY <2>4 DEF PayoutClaims!OnceNext
<1>9. QED
  BY <1>7, <1>8

(* payout_forward keeps the promise of OnceOnly for any legs, requests and *)
(* faults: a leg has one holder, a failed payout gives it back, and an     *)
(* accepted one stands for good with its amount and ref_id, through lost   *)
(* acknowledgements, deaths and repairs.                                   *)
THEOREM PayoutClaimsHold == PayoutSpec => PayoutClaimsOnce
<1>1. PayoutInit => PayoutClaims!OnceInit
  BY DEF PayoutInit, NoPayout, PayoutClaims!OnceInit, PayoutSlot
<1>2. PayoutSpec => []PayoutInv
  BY PayoutInvInit, PayoutInvStep, PTL DEF PayoutSpec
<1>3. QED
  BY <1>1, <1>2, PayoutStepRefines, PTL
     DEF PayoutSpec, PayoutClaimsOnce, PayoutClaims!OnceSpec, PayoutTable

-----------------------------------------------------------------------------
(* How often a leg is paid *)

InQueue(l) == IF queued = [leg |-> l] THEN 1 ELSE 0

(* No payment of the leg has been accepted and acknowledged: it is free,   *)
(* or the request that claimed it has not got that far.                    *)
Unpaid(l) ==
    \/ payouts[l].status \in {"none", "failed"}
    \/ \E w \in Workers : /\ workers[w].at \in {"claimed", "loaded", "refused"}
                          /\ workers[w].req.leg = l

LandingTypes ==
    /\ queued \in [leg : Legs] \cup {None}
    /\ landings \in [Legs -> Nat]
    /\ doubts \in [Legs -> Nat]

(* What a leg has been paid and its doubts do not account for is the one   *)
(* payment that was acknowledged.                                          *)
LandingsInv ==
    /\ LandingTypes
    /\ \A l \in Legs : landings[l] + InQueue(l) <= doubts[l] + (IF Unpaid(l) THEN 0 ELSE 1)

(* Nothing has been submitted.                                             *)
LEMMA LandingsInvInit == PayoutInit => LandingsInv
<1> SUFFICES ASSUME PayoutInit PROVE LandingsInv
    OBVIOUS
<1>1. LandingTypes
    BY DEF PayoutInit, LandingTypes
<1>2. \A l \in Legs : landings[l] = 0 /\ doubts[l] = 0 /\ InQueue(l) = 0
    BY RequestAssumption DEF PayoutInit, InQueue
<1>3. \A l \in Legs : Unpaid(l)
    BY DEF PayoutInit, Unpaid, NoPayout
<1>4. QED
    BY <1>1, <1>2, <1>3 DEF LandingsInv

(* A step that submits nothing and makes no leg unpaid again.              *)
LEMMA NothingSubmitted ==
    ASSUME LandingsInv, UNCHANGED <<queued, landings, doubts>>,
           \A l \in Legs : Unpaid(l)' => Unpaid(l)
    PROVE  LandingsInv'
<1>1. LandingTypes'
    BY DEF LandingsInv, LandingTypes
<1>2. \A l \in Legs : landings[l] \in Nat /\ doubts[l] \in Nat /\ InQueue(l) \in Nat
    BY DEF LandingsInv, LandingTypes, InQueue
<1>3. \A l \in Legs : InQueue(l)' = InQueue(l)
    BY DEF InQueue
<1>4. QED
    BY <1>1, <1>2, <1>3 DEF LandingsInv

(* The same when one request, w, ends or moves on.                         *)
LEMMA OneRequestMoves ==
    ASSUME PayoutInv, NEW w \in Workers, NEW at \in HopSteps, Left(w) \/ MovedOn(w, at),
           \A k \in Legs : payouts'[k].status \in {"none", "failed"} => Unpaid(k),
           at \in {"claimed", "loaded", "refused"} => Unpaid(workers[w].req.leg)
    PROVE  \A l \in Legs : Unpaid(l)' => Unpaid(l)
    BY DEF Left, MovedOn, Unpaid

(* A request with a claim and no acknowledgement has an unpaid leg.        *)
LEMMA UnpaidLeg ==
    ASSUME NEW w \in Workers, workers[w].at \in {"claimed", "loaded", "refused"}
    PROVE  Unpaid(workers[w].req.leg)
    BY DEF Unpaid

(* The step that submits w's payment: acknowledged, or in doubt.           *)
LEMMA SubmissionCounted ==
    ASSUME PayoutInv, LandingsInv, NEW w \in Workers, workers[w].at = "loaded",
           queued = None, queued' = [leg |-> workers[w].req.leg], UNCHANGED <<payouts, landings>>,
           \/ /\ MovedOn(w, "accepted")
              /\ UNCHANGED doubts
           \/ /\ MovedOn(w, "refused")
              /\ doubts' = [doubts EXCEPT ![workers[w].req.leg] = @ + 1]
    PROVE  LandingsInv'
<1> DEFINE m == workers[w].req.leg
<1>1. m \in Legs /\ Paying(w) /\ payouts[m].status = "claimed"
    BY RequestAssumption DEF PayoutInv, Paying
<1>2. \A l \in Legs : landings[l] \in Nat /\ doubts[l] \in Nat /\ InQueue(l) = 0
    BY RequestAssumption DEF LandingsInv, LandingTypes, InQueue
<1>3. \A l \in Legs : InQueue(l)' = IF l = m THEN 1 ELSE 0
    BY DEF InQueue
<1>4. \A l \in Legs : Unpaid(l)' => Unpaid(l)
    <2>1. Unpaid(m)
        BY UnpaidLeg
    <2>2. \A k \in Legs : payouts'[k].status \in {"none", "failed"} => Unpaid(k)
        BY DEF Unpaid
    <2>3. QED
        BY <2>1, <2>2, OneRequestMoves DEF HopSteps
<1>5. Unpaid(m)
    BY UnpaidLeg
<1>6. LandingTypes'
    BY <1>1, <1>2 DEF LandingsInv, LandingTypes
<1>7. CASE MovedOn(w, "accepted") /\ UNCHANGED doubts
    <2>1. \A l \in {m} : ~ Unpaid(l)'
        <3>1. \A v \in Workers : Paying(v) /\ workers[v].req.leg = m => v = w
            BY <1>1 DEF PayoutInv
        <3>2. \A v \in Workers : workers'[v].at \in {"claimed", "loaded", "refused"} =>
                v # w /\ workers'[v] = workers[v] /\ Paying(v)
            BY <1>7 DEF MovedOn, Paying
        <3>3. QED
            BY <1>1, <3>1, <3>2 DEF Unpaid
    <2>2. \A l \in Legs : landings'[l] + InQueue(l)' <= doubts'[l] + (IF Unpaid(l)' THEN 0 ELSE 1)
        BY <1>2, <1>3, <1>4, <1>5, <1>7, <2>1 DEF LandingsInv
    <2>3. QED
        BY <1>6, <2>2 DEF LandingsInv
<1>8. CASE doubts' = [doubts EXCEPT ![m] = @ + 1]
    <2>1. \A l \in Legs : doubts'[l] = IF l = m THEN doubts[l] + 1 ELSE doubts[l]
        BY <1>1, <1>8 DEF LandingsInv, LandingTypes
    <2>2. \A l \in Legs : landings'[l] + InQueue(l)' <= doubts'[l] + (IF Unpaid(l)' THEN 0 ELSE 1)
        BY <1>2, <1>3, <1>4, <2>1 DEF LandingsInv
    <2>3. QED
        BY <1>6, <2>2 DEF LandingsInv
<1>9. QED
    BY <1>7, <1>8

(* The network closes the queued payment: it moves from the queue to the   *)
(* ledger, or is gone.                                                     *)
LEMMA ClosingCounted ==
    ASSUME LandingsInv, NetworkCloses
    PROVE  LandingsInv'
<1>1. PICK m \in Legs : queued = [leg |-> m] /\ queued.leg = m
    BY DEF NetworkCloses, LandingsInv, LandingTypes
<1>2. /\ queued' = None /\ UNCHANGED <<payouts, workers, doubts>>
      /\ landings' = [landings EXCEPT ![m] = @ + 1] \/ UNCHANGED landings
    BY <1>1 DEF NetworkCloses
<1>3. \A l \in Legs : /\ landings[l] \in Nat /\ doubts[l] \in Nat
                      /\ InQueue(l) = IF l = m THEN 1 ELSE 0
                      /\ InQueue(l)' = 0
    <2>1. \A l \in Legs : landings[l] \in Nat /\ doubts[l] \in Nat
        BY DEF LandingsInv, LandingTypes
    <2>2. \A l \in Legs : InQueue(l) = IF l = m THEN 1 ELSE 0
        BY <1>1 DEF InQueue
    <2>3. \A l \in Legs : [leg |-> l] # None
        BY RequestAssumption
    <2>4. \A l \in Legs : InQueue(l)' = 0
        BY <1>2, <2>3 DEF InQueue
    <2>5. QED
        BY <2>1, <2>2, <2>4
<1>4. /\ LandingTypes'
      /\ \A l \in Legs : landings'[l] <= landings[l] + InQueue(l) /\ landings'[l] \in Nat
    BY <1>1, <1>2, <1>3 DEF LandingsInv, LandingTypes
<1>5. \A l \in Legs : Unpaid(l)' <=> Unpaid(l)
    BY <1>2 DEF Unpaid
<1>6. ASSUME NEW l \in Legs
      PROVE  landings'[l] + InQueue(l)' <= doubts'[l] + (IF Unpaid(l)' THEN 0 ELSE 1)
    <2>1. landings[l] + InQueue(l) <= doubts[l] + (IF Unpaid(l) THEN 0 ELSE 1)
        BY DEF LandingsInv
    <2>2. InQueue(l) \in Nat /\ InQueue(l)' = 0 /\ doubts'[l] = doubts[l]
        BY <1>2, <1>3
    <2>3. QED
        BY <1>3, <1>4, <1>5, <2>1, <2>2
<1>7. QED
    BY <1>4, <1>6 DEF LandingsInv

(* Every step keeps payments and doubts in balance.                        *)
LEMMA LandingsInvStep ==
    ASSUME PayoutInv, LandingsInv, [PayoutNext]_payoutVars
    PROVE  LandingsInv'
<1>0. /\ PayoutTypes
      /\ \A w \in Workers : Paying(w) => workers[w].req \in Requests /\ workers[w].req.leg \in Legs
    BY RequestAssumption DEF PayoutInv, PayoutTypes, Paying
<1>1. ASSUME NEW w \in Workers, Verify(w) PROVE LandingsInv'
    <2>1. /\ UNCHANGED <<payouts, queued, landings, doubts>>
          /\ \A v \in Workers : v # w => workers'[v] = workers[v]
          /\ workers'[w].at = "verified"
        BY <1>0, <1>1 DEF Verify, PayoutTypes
    <2>2. \A l \in Legs : Unpaid(l)' => Unpaid(l)
        BY <2>1 DEF Unpaid
    <2>3. QED
        BY <2>1, <2>2, NothingSubmitted
<1>2. ASSUME NEW w \in Workers, Claim(w) PROVE LandingsInv'
    <2>1. /\ workers[w].req.leg \in Legs /\ UNCHANGED <<queued, landings, doubts>>
        BY <1>2, RequestAssumption DEF Claim, PayoutInv
    <2>2. CASE Leave(w) /\ UNCHANGED payouts
        BY <1>0, <2>1, <2>2, LeaveRests, OneRequestMoves, NothingSubmitted DEF HopSteps, Unpaid
    <2>3. CASE Claimable(workers[w].req.leg) /\ GoTo(w, "claimed")
        <3>1. \A k \in Legs : payouts'[k].status \in {"none", "failed"} => Unpaid(k)
            BY <1>0, <1>2, <2>1, <2>3 DEF Claim, Claimable, Unpaid, PayoutTypes
        <3>2. MovedOn(w, "claimed") /\ Unpaid(workers[w].req.leg)
            BY <1>0, <2>3, GoToMoves DEF HopSteps, Claimable, Unpaid
        <3>3. QED
            BY <2>1, <3>1, <3>2, OneRequestMoves, NothingSubmitted DEF HopSteps
    <2>4. QED
        BY <1>2, <2>2, <2>3 DEF Claim
<1>3. ASSUME NEW w \in Workers, LoadSequenceAccount(w) PROVE LandingsInv'
    <2>1. /\ workers[w].at = "claimed" /\ UNCHANGED <<payouts, queued, landings, doubts>>
          /\ workers' = [workers EXCEPT ![w] =
               [workers[w] EXCEPT !.at = "loaded", !.seq = sequence]]
        BY <1>3 DEF LoadSequenceAccount
    <2>2. [workers[w] EXCEPT !.at = "loaded", !.seq = sequence] \in Served
        BY <1>0 DEF PayoutTypes, Served, HopSteps
    <2>3. MovedOn(w, "loaded")
        BY <1>0, <2>1, <2>2 DEF PayoutTypes, MovedOn, Served
    <2>4. \A k \in Legs : payouts'[k].status \in {"none", "failed"} => Unpaid(k)
        BY <2>1 DEF Unpaid
    <2>5. QED
        BY <2>1, <2>3, <2>4, UnpaidLeg, OneRequestMoves, NothingSubmitted DEF HopSteps
<1>4. ASSUME NEW w \in Workers, SignAndSubmit(w) \/ SubmissionThrows(w) PROVE LandingsInv'
    <2>1. workers[w].at \in {"claimed", "loaded"} /\ UNCHANGED <<payouts, landings>>
        BY <1>4 DEF SignAndSubmit, SubmissionThrows
    <2>2. CASE /\ GoTo(w, "accepted") \/ GoTo(w, "refused")
               /\ UNCHANGED <<queued, doubts>>
        <3>1. MovedOn(w, "accepted") \/ MovedOn(w, "refused")
            BY <1>0, <2>2, GoToMoves DEF HopSteps
        <3>2. \A k \in Legs : payouts'[k].status \in {"none", "failed"} => Unpaid(k)
            BY <2>1 DEF Unpaid
        <3>3. \A l \in Legs : Unpaid(l)' => Unpaid(l)
            BY <2>1, <3>1, <3>2, UnpaidLeg, OneRequestMoves DEF HopSteps
        <3>4. QED
            BY <2>1, <2>2, <3>3, NothingSubmitted
    <2>3. CASE /\ workers[w].at = "loaded" /\ Accepts(w)
               /\ queued' = [leg |-> workers[w].req.leg]
               /\ \/ GoTo(w, "accepted") /\ UNCHANGED doubts
                  \/ /\ GoTo(w, "refused")
                     /\ doubts' = [doubts EXCEPT ![workers[w].req.leg] = @ + 1]
        <3>1. \/ MovedOn(w, "accepted") /\ UNCHANGED doubts
              \/ /\ MovedOn(w, "refused")
                 /\ doubts' = [doubts EXCEPT ![workers[w].req.leg] = @ + 1]
            BY <1>0, <2>3, GoToMoves DEF HopSteps
        <3>2. QED
            BY <2>1, <2>3, <3>1, SubmissionCounted DEF Accepts
    <2>4. QED
        BY <1>4, <2>2, <2>3 DEF SignAndSubmit, SubmissionThrows
<1>5. ASSUME NEW w \in Workers, MarkFailed(w) \/ Book(w) \/ MarkUnbooked(w) PROVE LandingsInv'
    <2>1. /\ Paying(w) /\ workers[w].req.leg \in Legs /\ UNCHANGED <<queued, landings, doubts>>
          /\ Left(w) \/ MovedOn(w, "unbooked")
        BY <1>0, <1>5, LeaveRests, GoToMoves DEF MarkFailed, Book, MarkUnbooked, Paying, HopSteps
    <2>2. \/ UNCHANGED payouts
          \/ RowWritten(workers[w].req.leg, "sent")
          \/ RowWritten(workers[w].req.leg, "bookkeeping_pending")
          \/ RowWritten(workers[w].req.leg, "failed") /\ Unpaid(workers[w].req.leg)
        BY <1>0, <1>5, <2>1, WriteRow, UnpaidLeg DEF MarkFailed, Book, MarkUnbooked, Commit
    <2>3. \A k \in Legs : payouts'[k].status \in {"none", "failed"} => Unpaid(k)
        BY <2>1, <2>2 DEF RowWritten, Unpaid
    <2>4. \A l \in Legs : Unpaid(l)' => Unpaid(l)
        BY <2>1, <2>3, OneRequestMoves DEF HopSteps
    <2>5. QED
        BY <2>1, <2>4, NothingSubmitted
<1>6. ASSUME NEW w \in Workers, Die(w) PROVE LandingsInv'
    <2>1. Left(w) /\ UNCHANGED <<payouts, queued, landings, doubts>>
        BY <1>0, <1>6, LeaveRests DEF Die
    <2>2. \A l \in Legs : Unpaid(l)' => Unpaid(l)
        BY <2>1 DEF Left, Unpaid
    <2>3. QED
        BY <2>1, <2>2, NothingSubmitted
<1>7. ASSUME NEW l \in Legs, Repair(l) PROVE LandingsInv'
    <2>1. RowWritten(l, "sent") /\ UNCHANGED <<workers, queued, landings, doubts>>
        BY <1>0, <1>7, WriteRow DEF Repair
    <2>2. \A k \in Legs : Unpaid(k)' => Unpaid(k)
        BY <2>1 DEF RowWritten, Unpaid
    <2>3. QED
        BY <2>1, <2>2, NothingSubmitted
<1>8. CASE UNCHANGED payoutVars
    <2>1. \A k \in Legs : Unpaid(k)' => Unpaid(k)
        BY <1>8 DEF payoutVars, Unpaid
    <2>2. QED
        BY <1>8, <2>1, NothingSubmitted DEF payoutVars
<1>9. QED
    BY <1>1, <1>2, <1>3, <1>4, <1>5, <1>6, <1>7, <1>8, ClosingCounted DEF PayoutNext

(* A leg is paid again only when the answer to an accepted payment was     *)
(* lost (hop.ts:158): whatever requests race, retry or die, the payments   *)
(* of a leg that have landed or are queued are at most one more than the   *)
(* answers that were lost.                                                 *)
THEOREM PaymentsCounted == PayoutSpec => []PaidOnceUnlessInDoubt
<1>1. PayoutSpec => [](PayoutInv /\ LandingsInv)
    BY PayoutInvInit, LandingsInvInit, PayoutInvStep, LandingsInvStep, PTL DEF PayoutSpec
<1>2. LandingsInv => PaidOnceUnlessInDoubt
    <2> SUFFICES ASSUME LandingsInv, NEW l \in Legs
                 PROVE  landings[l] + InQueue(l) <= 1 + doubts[l]
        BY DEF PaidOnceUnlessInDoubt, InQueue
    <2>1. landings[l] \in Nat /\ doubts[l] \in Nat /\ InQueue(l) \in Nat
        BY DEF LandingsInv, LandingTypes, InQueue
    <2>2. QED
        BY <2>1 DEF LandingsInv
<1>3. QED
    BY <1>1, <1>2, PTL

-----------------------------------------------------------------------------
(* What is booked *)

Nothing == [usdc_cash |-> 0, payout_hop |-> 0]

Pair(amount) == [usdc_cash |-> amount, payout_hop |-> amount]

(* A ref_id a payout of leg l can have: its quote, or an id drawn for it.  *)
RefOf(l, ref, quote) ==
    /\ ref \in RefIds
    /\ quote # None =>
         /\ ref = quote /\ quote \in Quotes
         /\ \E q \in Requests : q.quoteId = quote /\ q.leg = l
    /\ quote = None => \E n \in 1 .. MaxRequests : ref = <<l, n>>

BookTypes ==
    /\ journal \in [RefIds -> [usdc_cash : Int, payout_hop : Int]]
    /\ exitFills \in [Quotes -> Nat]

(* Every row and every request has a ref_id of its leg and a real amount,  *)
(* and a request that pays has those of the row it claimed.                *)
RefsKnown ==
    /\ \A l \in Legs : payouts[l].status # "none" =>
         /\ RefOf(l, payouts[l].refId, payouts[l].quoteId)
         /\ payouts[l].amount \in Int /\ payouts[l].amount > 0
    /\ \A w \in Workers : workers[w].at # "resting" =>
         /\ RefOf(workers[w].req.leg, workers[w].refId, workers[w].req.quoteId)
         /\ workers[w].req.amount \in Int /\ workers[w].req.amount > 0
    /\ \A w \in Workers : Paying(w) =>
         /\ payouts[workers[w].req.leg].refId = workers[w].refId
         /\ payouts[workers[w].req.leg].quoteId = workers[w].req.quoteId
         /\ payouts[workers[w].req.leg].amount = workers[w].req.amount

(* A ref_id is not booked, or booked once for the row that has it.         *)
BookedOnce ==
    /\ \A r \in RefIds : journal[r] # Nothing =>
         \E l \in Legs : /\ payouts[l].refId = r
                         /\ payouts[l].status \in {"sent", "bookkeeping_pending"}
                         /\ journal[r] = Pair(payouts[l].amount)
    /\ \A l \in Legs : payouts[l].status = "sent" =>
         journal[payouts[l].refId] = Pair(payouts[l].amount)
    /\ \A q \in Quotes : exitFills[q] = IF journal[q] = Nothing THEN 0 ELSE 1

BooksInv == BookTypes /\ RefsKnown /\ BookedOnce

(* A ref_id belongs to one leg: a quote is filled by one exit, and the id  *)
(* of a quote is not drawn.                                                *)
LEMMA RefHasOneLeg ==
    ASSUME NEW l \in Legs, NEW k \in Legs, NEW r, NEW q, NEW p, RefOf(l, r, q), RefOf(k, r, p)
    PROVE  l = k
<1>1. CASE q # None /\ p # None
    BY <1>1, QuoteAssumption DEF RefOf
<1>2. CASE q = None /\ p = None
    BY <1>2 DEF RefOf
<1>3. ASSUME NEW i \in Legs, NEW n \in 1 .. MaxRequests, r = <<i, n>>, r \in Quotes PROVE FALSE
    <2>1. n \in Nat
        BY RequestAssumption
    <2>2. <<i, n>> \in Legs \X Nat
        BY <2>1
    <2>3. QED
        BY <1>3, <2>2, RefIdAssumption
<1>4. QED
    BY <1>1, <1>2, <1>3 DEF RefOf

(* A leg that is not paid has nothing booked under any ref_id of its own.  *)
LEMMA UnpaidUnbooked ==
    ASSUME BooksInv, NEW l \in Legs, payouts[l].status \notin {"sent", "bookkeeping_pending"},
           NEW r, NEW q, RefOf(l, r, q)
    PROVE  journal[r] = Nothing
<1>1. r \in RefIds
    BY DEF RefOf
<1>2. ASSUME NEW k \in Legs, payouts[k].refId = r,
             payouts[k].status \in {"sent", "bookkeeping_pending"}
      PROVE  k = l
    BY <1>2, RefHasOneLeg DEF BooksInv, RefsKnown
<1>3. QED
    BY <1>1, <1>2 DEF BooksInv, BookedOnce

(* No row has been written and nothing is booked.                          *)
LEMMA BooksInvInit == PayoutInit => BooksInv
<1> SUFFICES ASSUME PayoutInit PROVE BooksInv
    OBVIOUS
<1>1. BookTypes
    BY DEF PayoutInit, BookTypes
<1>2. RefsKnown
    BY DEF PayoutInit, RefsKnown, NoPayout, Resting, Paying
<1>3. \A r \in RefIds : journal[r] = Nothing
    BY DEF PayoutInit, Nothing
<1>4. Quotes \subseteq RefIds
    BY DEF RefIds
<1>5. BookedOnce
    BY <1>3, <1>4 DEF PayoutInit, BookedOnce, NoPayout
<1>6. QED
    BY <1>1, <1>2, <1>5 DEF BooksInv

(* Requests that only end or move on keep the books.                       *)
RequestsCarried ==
    \A v \in Workers : workers'[v].at # "resting" =>
        /\ workers[v].at # "resting"
        /\ workers'[v].req = workers[v].req /\ workers'[v].refId = workers[v].refId
        /\ Paying(v)' => Paying(v)

(* A step that leaves rows and journal alone and lets every request carry  *)
(* what it had.                                                            *)
LEMMA BooksKept ==
    ASSUME BooksInv, UNCHANGED <<payouts, journal, exitFills>>, RequestsCarried
    PROVE  BooksInv'
<1>1. BookTypes' /\ BookedOnce'
    BY DEF BooksInv, BookTypes, BookedOnce
<1>2. \A v \in Workers : Paying(v)' => workers'[v].at # "resting"
    BY DEF Paying
<1>3. RefsKnown'
    BY <1>2 DEF BooksInv, RefsKnown, RequestsCarried
<1>4. QED
    BY <1>1, <1>3 DEF BooksInv

(* How one request that ends or moves on is such a step.                   *)
LEMMA MoveCarries ==
    ASSUME PayoutInv, NEW w \in Workers, NEW at \in HopSteps, workers[w].at # "resting",
           at \in {"claimed", "loaded", "accepted", "refused", "unbooked"} => Paying(w),
           Leave(w) \/ GoTo(w, at)
    PROVE  RequestsCarried
<1>1. workers \in [Workers -> Served]
    BY DEF PayoutInv, PayoutTypes
<1>2. /\ \A v \in Workers : v # w => workers'[v] = workers[v]
      /\ \/ workers'[w].at = "resting"
         \/ /\ workers'[w].at = at /\ workers'[w].req = workers[w].req
            /\ workers'[w].refId = workers[w].refId
    BY <1>1 DEF Leave, GoTo, Resting, Served
<1>3. QED
    BY <1>2 DEF RequestsCarried, Paying

(* A write of a status that books nothing.                                 *)
LEMMA StatusWritten ==
    ASSUME PayoutInv, BooksInv, RequestsCarried, UNCHANGED <<journal, exitFills>>,
           NEW l \in Legs, NEW x \in {"failed", "bookkeeping_pending"}, RowWritten(l, x),
           payouts[l].status # "none",
           x = "failed" => payouts[l].status = "claimed"
    PROVE  BooksInv'
<1>1. BookTypes'
    BY DEF BooksInv, BookTypes
<1>2. RefsKnown'
    <2>1. \A k \in Legs : payouts'[k].status # "none" => payouts[k].status # "none"
        BY DEF RowWritten
    <2>2. \A v \in Workers : Paying(v)' => workers'[v].at # "resting" /\ workers[v].req.leg \in Legs
        BY RequestAssumption DEF Paying, RequestsCarried, PayoutInv
    <2>3. \A k \in Legs : payouts'[k].status # "none" =>
             /\ RefOf(k, payouts'[k].refId, payouts'[k].quoteId)
             /\ payouts'[k].amount \in Int /\ payouts'[k].amount > 0
        BY <2>1 DEF RowWritten, BooksInv, RefsKnown
    <2>4. \A v \in Workers : workers'[v].at # "resting" =>
             /\ RefOf(workers'[v].req.leg, workers'[v].refId, workers'[v].req.quoteId)
             /\ workers'[v].req.amount \in Int /\ workers'[v].req.amount > 0
        BY DEF RequestsCarried, BooksInv, RefsKnown
    <2>5. \A v \in Workers : Paying(v)' =>
             /\ payouts'[workers'[v].req.leg].refId = workers'[v].refId
             /\ payouts'[workers'[v].req.leg].quoteId = workers'[v].req.quoteId
             /\ payouts'[workers'[v].req.leg].amount = workers'[v].req.amount
        BY <2>2 DEF RequestsCarried, RowWritten, BooksInv, RefsKnown
    <2>6. QED
        BY <2>3, <2>4, <2>5 DEF RefsKnown
<1>3. BookedOnce'
    <2>1. \A k \in Legs : payouts[k].status \in {"sent", "bookkeeping_pending"} =>
            payouts'[k].status \in {"sent", "bookkeeping_pending"}
        BY DEF RowWritten
    <2>2. \A k \in Legs : payouts'[k].status = "sent" => payouts[k].status = "sent"
        BY DEF RowWritten
    <2>3. QED
        BY <2>1, <2>2 DEF BooksInv, BookedOnce, RowWritten
<1>4. QED
    BY <1>1, <1>2, <1>3 DEF BooksInv

(* A row becomes sent in the transaction that books it, or when it is      *)
(* booked already.                                                         *)
LEMMA RowSent ==
    ASSUME PayoutInv, BooksInv, RequestsCarried, NEW l \in Legs, RowWritten(l, "sent"),
           payouts[l].status # "none",
           \/ /\ payouts[l].status = "claimed" \/ ~ AlreadyBooked(payouts[l].refId)
              /\ BookPayout([refId |-> payouts[l].refId, quoteId |-> payouts[l].quoteId,
                             amount |-> payouts[l].amount])
           \/ AlreadyBooked(payouts[l].refId) /\ UNCHANGED <<journal, exitFills>>
    PROVE  BooksInv'
<1> DEFINE r == payouts[l].refId
           q == payouts[l].quoteId
           a == payouts[l].amount
<1>1. /\ RefOf(l, r, q) /\ a \in Int /\ a > 0 /\ r \in RefIds
      /\ journal[r] \in [usdc_cash : Int, payout_hop : Int]
    BY DEF BooksInv, RefsKnown, RefOf, BookTypes
<1>2. RefsKnown'
    <2>1. \A k \in Legs : payouts'[k].status # "none" => payouts[k].status # "none"
        BY DEF RowWritten
    <2>2. \A v \in Workers : Paying(v)' => workers'[v].at # "resting" /\ workers[v].req.leg \in Legs
        BY RequestAssumption DEF Paying, RequestsCarried, PayoutInv
    <2>3. \A k \in Legs : payouts'[k].status # "none" =>
             /\ RefOf(k, payouts'[k].refId, payouts'[k].quoteId)
             /\ payouts'[k].amount \in Int /\ payouts'[k].amount > 0
        BY <2>1 DEF RowWritten, BooksInv, RefsKnown
    <2>4. \A v \in Workers : workers'[v].at # "resting" =>
             /\ RefOf(workers'[v].req.leg, workers'[v].refId, workers'[v].req.quoteId)
             /\ workers'[v].req.amount \in Int /\ workers'[v].req.amount > 0
        BY DEF RequestsCarried, BooksInv, RefsKnown
    <2>5. \A v \in Workers : Paying(v)' =>
             /\ payouts'[workers'[v].req.leg].refId = workers'[v].refId
             /\ payouts'[workers'[v].req.leg].quoteId = workers'[v].req.quoteId
             /\ payouts'[workers'[v].req.leg].amount = workers'[v].req.amount
        BY <2>2 DEF RequestsCarried, RowWritten, BooksInv, RefsKnown
    <2>6. QED
        BY <2>3, <2>4, <2>5 DEF RefsKnown
<1>3. Pair(a) # Nothing /\ Pair(a) \in [usdc_cash : Int, payout_hop : Int]
    BY <1>1 DEF Pair, Nothing
<1>4. /\ payouts'[l].refId = r /\ payouts'[l].amount = a /\ payouts'[l].status = "sent"
      /\ \A k \in Legs : k # l => payouts'[k] = payouts[k]
    BY DEF RowWritten
<1>5. \A k \in Legs : k # l /\ payouts[k].status # "none" => payouts[k].refId # r
    BY <1>1, RefHasOneLeg DEF BooksInv, RefsKnown
<1>6. CASE AlreadyBooked(r) /\ UNCHANGED <<journal, exitFills>>
    <2>1. journal[r] # Nothing
        BY <1>1, <1>6 DEF AlreadyBooked, Nothing
    <2>2. PICK k \in Legs : /\ payouts[k].refId = r
                            /\ payouts[k].status \in {"sent", "bookkeeping_pending"}
                            /\ journal[r] = Pair(payouts[k].amount)
        BY <1>1, <2>1 DEF BooksInv, BookedOnce
    <2>3. k = l
        BY <1>5, <2>2
    <2>4. journal[r] = Pair(a)
        BY <2>2, <2>3
    <2>5. BookedOnce'
        BY <1>4, <1>6, <2>4 DEF BooksInv, BookedOnce
    <2>6. QED
        BY <1>2, <1>6, <2>5 DEF BooksInv, BookTypes
<1>7. CASE /\ payouts[l].status = "claimed" \/ ~ AlreadyBooked(r)
           /\ BookPayout([refId |-> r, quoteId |-> q, amount |-> a])
    <2>1. journal[r] = Nothing
        <3>1. CASE payouts[l].status = "claimed"
            BY <1>1, <3>1, UnpaidUnbooked
        <3>2. CASE ~ AlreadyBooked(r)
            <4>1. SUFFICES ASSUME journal[r] # Nothing PROVE FALSE
                OBVIOUS
            <4>2. PICK k \in Legs : /\ payouts[k].refId = r
                                    /\ payouts[k].status \in {"sent", "bookkeeping_pending"}
                                    /\ journal[r] = Pair(payouts[k].amount)
                BY <1>1, <4>1 DEF BooksInv, BookedOnce
            <4>3. k = l
                BY <1>5, <4>2
            <4>4. QED
                BY <1>1, <3>2, <4>2, <4>3 DEF AlreadyBooked, Pair
        <3>3. QED
            BY <1>7, <3>1, <3>2
    <2>2. journal' = [journal EXCEPT ![r] = Pair(a)]
        <3>1. journal' = [journal EXCEPT ![r] =
                [usdc_cash |-> journal[r].usdc_cash + a, payout_hop |-> journal[r].payout_hop + a]]
            BY <1>7 DEF BookPayout, BookPair
        <3>2. journal[r].usdc_cash + a = a /\ journal[r].payout_hop + a = a
            BY <1>1, <2>1 DEF Nothing
        <3>3. QED
            BY <3>1, <3>2 DEF Pair
    <2>3. exitFills' = IF q = None THEN exitFills ELSE [exitFills EXCEPT ![q] = @ + 1]
        BY <1>7 DEF BookPayout
    <2>4. q # None => q = r /\ q \in Quotes /\ exitFills[q] = 0
        BY <1>1, <2>1 DEF RefOf, BooksInv, BookedOnce
    <2>5. q = None => r \notin Quotes
        <3>1. ASSUME q = None, r \in Quotes PROVE FALSE
            <4>1. PICK n \in 1 .. MaxRequests : r = <<l, n>>
                BY <1>1, <3>1 DEF RefOf
            <4>2. n \in Nat
                BY RequestAssumption
            <4>3. r \in Legs \X Nat
                BY <4>1, <4>2
            <4>4. QED
                BY <3>1, <4>3, RefIdAssumption
        <3>2. QED
            BY <3>1
    <2>6. BookTypes'
        <3>1. journal' \in [RefIds -> [usdc_cash : Int, payout_hop : Int]]
            BY <1>3, <2>2 DEF BooksInv, BookTypes
        <3>2. exitFills' \in [Quotes -> Nat]
            <4> HIDE DEF q
            <4>1. QED
                BY <2>3, <2>4 DEF BooksInv, BookTypes
        <3>3. QED
            BY <3>1, <3>2 DEF BookTypes
    <2>7. /\ journal'[r] = Pair(a)
          /\ \A i \in RefIds : i # r => journal'[i] = journal[i]
        BY <1>1, <2>2 DEF BooksInv, BookTypes
    <2> HIDE DEF r, a
    <2>8. \A i \in RefIds : journal'[i] # Nothing =>
             \E k \in Legs : /\ payouts'[k].refId = i
                             /\ payouts'[k].status \in {"sent", "bookkeeping_pending"}
                             /\ journal'[i] = Pair(payouts'[k].amount)
        <3>1. SUFFICES ASSUME NEW i \in RefIds, journal'[i] # Nothing
              PROVE  \E k \in Legs : /\ payouts'[k].refId = i
                             /\ payouts'[k].status \in {"sent", "bookkeeping_pending"}
                             /\ journal'[i] = Pair(payouts'[k].amount)
            OBVIOUS
        <3>2. CASE i = r
            BY <1>4, <2>7, <3>2
        <3>3. CASE i # r
            <4>1. PICK k \in Legs : /\ payouts[k].refId = i
                             /\ payouts[k].status \in {"sent", "bookkeeping_pending"}
                             /\ journal[i] = Pair(payouts[k].amount)
                BY <2>7, <3>1, <3>3 DEF BooksInv, BookedOnce
            <4>2. k # l
                BY <3>3, <4>1 DEF r
            <4>3. QED
                BY <1>4, <2>7, <3>3, <4>1, <4>2
        <3>4. QED
            BY <3>2, <3>3
    <2>9. \A k \in Legs : payouts'[k].status = "sent" =>
             journal'[payouts'[k].refId] = Pair(payouts'[k].amount)
        <3>1. SUFFICES ASSUME NEW k \in Legs, payouts'[k].status = "sent"
              PROVE  journal'[payouts'[k].refId] = Pair(payouts'[k].amount)
            OBVIOUS
        <3>2. CASE k = l
            BY <1>4, <2>7, <3>2
        <3>3. CASE k # l
            <4>1. payouts[k].status = "sent" /\ payouts[k].refId \in RefIds
                BY <1>4, <3>1, <3>3 DEF BooksInv, RefsKnown, RefOf
            <4>2. QED
                BY <1>4, <1>5, <2>7, <3>3, <4>1 DEF BooksInv, BookedOnce
        <3>4. QED
            BY <3>2, <3>3
    <2>10. \A i \in Quotes : exitFills'[i] = IF journal'[i] = Nothing THEN 0 ELSE 1
        <3>1. \A i \in Quotes : i \in RefIds /\ exitFills[i] = IF journal[i] = Nothing THEN 0 ELSE 1
            BY DEF BooksInv, BookedOnce, RefIds
        <3>2. \A i \in Quotes : exitFills'[i] = IF i = r THEN 1 ELSE exitFills[i]
            BY <2>3, <2>4, <2>5 DEF BooksInv, BookTypes
        <3>3. QED
            BY <1>3, <2>7, <3>1, <3>2 DEF a
    <2>11. QED
        BY <1>2, <2>6, <2>8, <2>9, <2>10 DEF BooksInv, BookedOnce
<1>8. QED
    BY <1>6, <1>7

(* A request arrives, with an amount the policy allows.                    *)
LEMMA VerifyKeepsBooks ==
    ASSUME PayoutInv, BooksInv, NEW w \in Workers, Verify(w)
    PROVE  BooksInv'
<1>1. PICK req \in Requests :
        /\ CheckPolicy(req)
        /\ workers' = [workers EXCEPT ![w] =
             [at |-> "verified", req |-> req, seq |-> 0,
              refId |-> IF req.quoteId # None THEN req.quoteId ELSE <<req.leg, requested + 1>>]]
    BY DEF Verify
<1>2. requested + 1 \in 1 .. MaxRequests
    BY RequestAssumption DEF Verify, PayoutInv, PayoutTypes
<1> DEFINE ref == IF req.quoteId # None THEN req.quoteId ELSE <<req.leg, requested + 1>>
<1>3. RefOf(req.leg, ref, req.quoteId)
    BY <1>2, RequestAssumption DEF RefOf, RefIds, Quotes
<1> HIDE DEF ref
<1>4. req.amount \in Int /\ req.amount > 0
    BY <1>1, RequestAssumption DEF CheckPolicy
<1>5. /\ workers'[w].at = "verified" /\ workers'[w].req = req /\ workers'[w].refId = ref
      /\ \A v \in Workers : v # w => workers'[v] = workers[v]
      /\ UNCHANGED <<payouts, journal, exitFills>>
    BY <1>1 DEF Verify, PayoutInv, PayoutTypes, ref
<1>6. \A v \in Workers : Paying(v)' => v # w /\ Paying(v)
    BY <1>5 DEF Paying
<1>7. RefsKnown'
    BY <1>3, <1>4, <1>5, <1>6 DEF BooksInv, RefsKnown
<1>8. QED
    BY <1>5, <1>7 DEF BooksInv, BookTypes, BookedOnce

(* A claim writes the request's ref_id into a row that has nothing booked. *)
LEMMA ClaimKeepsBooks ==
    ASSUME PayoutInv, BooksInv, NEW w \in Workers, Claim(w)
    PROVE  BooksInv'
<1> DEFINE l == workers[w].req.leg
<1>1. /\ l \in Legs /\ workers[w].at = "verified" /\ UNCHANGED <<journal, exitFills>>
      /\ payouts[l] \in PayoutRow /\ workers \in [Workers -> Served]
    BY RequestAssumption DEF Claim, PayoutInv, PayoutTypes
<1>2. CASE Leave(w) /\ UNCHANGED payouts
    BY <1>1, <1>2, MoveCarries, BooksKept DEF HopSteps
<1>3. CASE Claimable(l) /\ GoTo(w, "claimed")
    <2> DEFINE row == [payouts[l] EXCEPT !.status = "claimed", !.amount = workers[w].req.amount,
                           !.refId = workers[w].refId, !.quoteId = workers[w].req.quoteId]
    <2>1. payouts' = [payouts EXCEPT ![l] = row]
        BY <1>3 DEF Claim
    <2>2. /\ row.status = "claimed" /\ row.amount = workers[w].req.amount
          /\ row.refId = workers[w].refId /\ row.quoteId = workers[w].req.quoteId
        BY <1>1 DEF PayoutRow
    <2> HIDE DEF row
    <2>3. payouts'[l] = row /\ \A k \in Legs : k # l => payouts'[k] = payouts[k]
        BY <1>1, <2>1 DEF PayoutInv, PayoutTypes
    <2>4. payouts[l].status \in {"none", "failed"}
        BY <1>3 DEF Claimable
    <2>5. /\ \A v \in Workers : v # w => workers'[v] = workers[v] /\ (Paying(v)' <=> Paying(v))
          /\ workers'[w].req = workers[w].req /\ workers'[w].refId = workers[w].refId
        BY <1>1, <1>3 DEF GoTo, Paying, Served
    <2>6. \A v \in Workers : Paying(v) => workers[v].req.leg # l /\ workers[v].req.leg \in Legs
        BY <2>4, RequestAssumption DEF PayoutInv, Paying
    <2>7. /\ RefOf(l, workers[w].refId, workers[w].req.quoteId)
          /\ workers[w].req.amount \in Int /\ workers[w].req.amount > 0
        BY <1>1 DEF BooksInv, RefsKnown
    <2>8. RefsKnown'
        <3>1. \A k \in Legs : payouts'[k].status # "none" =>
                 /\ RefOf(k, payouts'[k].refId, payouts'[k].quoteId)
                 /\ payouts'[k].amount \in Int /\ payouts'[k].amount > 0
            BY <2>2, <2>3, <2>7 DEF BooksInv, RefsKnown
        <3>2. \A v \in Workers : workers'[v].at # "resting" =>
                 /\ RefOf(workers'[v].req.leg, workers'[v].refId, workers'[v].req.quoteId)
                 /\ workers'[v].req.amount \in Int /\ workers'[v].req.amount > 0
            BY <2>5, <2>7 DEF BooksInv, RefsKnown
        <3>3. \A v \in Workers : Paying(v)' =>
                 /\ payouts'[workers'[v].req.leg].refId = workers'[v].refId
                 /\ payouts'[workers'[v].req.leg].quoteId = workers'[v].req.quoteId
                 /\ payouts'[workers'[v].req.leg].amount = workers'[v].req.amount
            BY <2>2, <2>3, <2>5, <2>6 DEF BooksInv, RefsKnown
        <3>4. QED
            BY <3>1, <3>2, <3>3 DEF RefsKnown
    <2>9. BookedOnce'
        BY <1>1, <2>2, <2>3, <2>4 DEF BooksInv, BookedOnce
    <2>10. QED
        BY <1>1, <2>8, <2>9 DEF BooksInv, BookTypes
<1>4. QED
    BY <1>2, <1>3 DEF Claim

(* The transaction that marks the row sent and books it.                   *)
LEMMA CommitKeepsBooks ==
    ASSUME PayoutInv, BooksInv, NEW w \in Workers, workers[w].at = "accepted", Commit(w),
           Leave(w) \/ GoTo(w, "unbooked")
    PROVE  BooksInv'
<1> DEFINE l == workers[w].req.leg
<1>1. Paying(w) /\ l \in Legs /\ payouts[l].status = "claimed"
    BY RequestAssumption DEF PayoutInv, Paying
<1>2. RequestsCarried
    BY <1>1, MoveCarries DEF HopSteps
<1>3. RowWritten(l, "sent")
    BY <1>1, WriteRow DEF Commit, PayoutInv
<1>4. /\ payouts[l].refId = workers[w].refId /\ payouts[l].quoteId = workers[w].req.quoteId
      /\ payouts[l].amount = workers[w].req.amount
    BY <1>1 DEF BooksInv, RefsKnown
<1>5. BookPayout([refId |-> payouts[l].refId, quoteId |-> payouts[l].quoteId,
                  amount |-> payouts[l].amount])
    BY <1>4 DEF Commit
<1>6. QED
    BY <1>1, <1>2, <1>3, <1>5, RowSent

(* The repair books what the journal does not have.                        *)
LEMMA RepairKeepsBooks ==
    ASSUME PayoutInv, BooksInv, NEW l \in Legs, Repair(l)
    PROVE  BooksInv'
<1>1. /\ payouts[l].status = "bookkeeping_pending" /\ UNCHANGED workers
      /\ payouts' = [payouts EXCEPT ![l].status = "sent"]
    BY DEF Repair
<1>2. RequestsCarried
    BY <1>1 DEF RequestsCarried, Paying
<1>3. RowWritten(l, "sent")
    BY <1>1, WriteRow DEF PayoutInv
<1>4. CASE AlreadyBooked(payouts[l].refId)
    <2>1. UNCHANGED <<journal, exitFills>>
        BY <1>4 DEF Repair
    <2>2. QED
        BY <1>1, <1>2, <1>3, <1>4, <2>1, RowSent
<1>5. CASE ~ AlreadyBooked(payouts[l].refId)
    <2>1. BookPayout(payouts[l])
        BY <1>5 DEF Repair
    <2>2. BookPayout([refId |-> payouts[l].refId, quoteId |-> payouts[l].quoteId,
                      amount |-> payouts[l].amount])
        BY <2>1 DEF BookPayout
    <2>3. QED
        BY <1>1, <1>2, <1>3, <1>5, <2>2, RowSent
<1>6. QED
    BY <1>4, <1>5

(* Every step keeps the journal with the payouts.                          *)
LEMMA BooksInvStep ==
    ASSUME PayoutInv, BooksInv, [PayoutNext]_payoutVars
    PROVE  BooksInv'
<1>1. ASSUME NEW w \in Workers, LoadSequenceAccount(w) PROVE BooksInv'
    <2>1. /\ workers[w].at = "claimed" /\ UNCHANGED <<payouts, journal, exitFills>>
          /\ workers' = [workers EXCEPT ![w] =
               [workers[w] EXCEPT !.at = "loaded", !.seq = sequence]]
          /\ workers \in [Workers -> Served]
        BY <1>1 DEF LoadSequenceAccount, PayoutInv, PayoutTypes
    <2>2. /\ workers'[w].req = workers[w].req /\ workers'[w].refId = workers[w].refId
          /\ \A v \in Workers : v # w => workers'[v] = workers[v]
        BY <2>1 DEF Served
    <2>3. RequestsCarried
        BY <2>1, <2>2 DEF RequestsCarried, Paying
    <2>4. QED
        BY <2>1, <2>3, BooksKept
<1>2. ASSUME NEW w \in Workers, SignAndSubmit(w) \/ SubmissionThrows(w) \/ Die(w) PROVE BooksInv'
    <2>1. /\ UNCHANGED <<payouts, journal, exitFills>> /\ workers[w].at # "resting"
          /\ Leave(w) \/ (Paying(w) /\ (GoTo(w, "accepted") \/ GoTo(w, "refused")))
        BY <1>2 DEF SignAndSubmit, SubmissionThrows, Die, Paying
    <2>2. RequestsCarried
        BY <2>1, MoveCarries DEF HopSteps
    <2>3. QED
        BY <2>1, <2>2, BooksKept
<1>3. ASSUME NEW w \in Workers, MarkFailed(w) \/ MarkUnbooked(w) PROVE BooksInv'
    <2> DEFINE l == workers[w].req.leg
    <2>1. /\ UNCHANGED <<journal, exitFills>> /\ Paying(w) /\ Leave(w) /\ l \in Legs
          /\ payouts[l].status \in {"claimed", "sent"}
          /\ workers[w].at = "refused" => payouts[l].status = "claimed"
        BY <1>3, RequestAssumption DEF MarkFailed, MarkUnbooked, Paying, PayoutInv
    <2>2. \/ RowWritten(l, "failed") /\ workers[w].at = "refused"
          \/ RowWritten(l, "bookkeeping_pending")
        BY <1>3, <2>1, WriteRow DEF MarkFailed, MarkUnbooked, PayoutInv
    <2>3. RequestsCarried
        BY <2>1, MoveCarries DEF HopSteps, Paying
    <2>4. QED
        BY <2>1, <2>2, <2>3, StatusWritten
<1>4. ASSUME NEW w \in Workers, Book(w) PROVE BooksInv'
    <2>1. workers[w].at = "accepted" /\ Paying(w)
        BY <1>4 DEF Book, Paying
    <2>2. CASE UNCHANGED <<payouts, journal, exitFills>> /\ GoTo(w, "unbooked")
        BY <2>1, <2>2, MoveCarries, BooksKept DEF HopSteps
    <2>3. QED
        BY <1>4, <2>1, <2>2, CommitKeepsBooks DEF Book
<1>5. CASE NetworkCloses \/ UNCHANGED payoutVars
    <2>1. UNCHANGED <<workers, payouts, journal, exitFills>>
        BY <1>5 DEF NetworkCloses, payoutVars
    <2>2. RequestsCarried
        BY <2>1 DEF RequestsCarried, Paying
    <2>3. QED
        BY <2>1, <2>2, BooksKept
<1>6. QED
    BY <1>1, <1>2, <1>3, <1>4, <1>5, VerifyKeepsBooks, ClaimKeepsBooks, RepairKeepsBooks
       DEF PayoutNext

(* `sent` always means booked, once, under the row's ref_id and with one   *)
(* exit_fill for its quote (hop.ts:222), and nothing else is booked: for   *)
(* any requests, legs, workers and faults.                                 *)
THEOREM SentIsBooked == PayoutSpec => []SentMeansBooked
<1>1. PayoutSpec => [](PayoutInv /\ BooksInv)
    BY PayoutInvInit, BooksInvInit, PayoutInvStep, BooksInvStep, PTL DEF PayoutSpec
<1>2. BooksInv => SentMeansBooked
    <2> SUFFICES ASSUME BooksInv PROVE SentMeansBooked
        OBVIOUS
    <2>1. ASSUME NEW l \in Legs, payouts[l].status # "none",
                 journal[payouts[l].refId] = Pair(payouts[l].amount)
          PROVE  Booked(payouts[l])
        <3>1. /\ RefOf(l, payouts[l].refId, payouts[l].quoteId)
              /\ payouts[l].amount \in Int /\ payouts[l].amount > 0
            BY <2>1 DEF BooksInv, RefsKnown
        <3>2. Pair(payouts[l].amount) # Nothing
            BY <3>1 DEF Pair, Nothing
        <3>3. payouts[l].quoteId # None => exitFills[payouts[l].quoteId] = 1
            BY <2>1, <3>1, <3>2 DEF RefOf, BooksInv, BookedOnce
        <3>4. QED
            BY <2>1, <3>3 DEF Booked, Pair
    <2>2. \A l \in Legs : payouts[l].status = "sent" => Booked(payouts[l])
        BY <2>1 DEF BooksInv, BookedOnce
    <2>3. ASSUME NEW r \in RefIds, journal[r].usdc_cash > 0
          PROVE  \E l \in Legs : /\ payouts[l].refId = r
                                 /\ payouts[l].status \in {"sent", "bookkeeping_pending"}
                                 /\ Booked(payouts[l])
        <3>1. journal[r] # Nothing
            BY <2>3 DEF Nothing
        <3>2. PICK l \in Legs : /\ payouts[l].refId = r
                                /\ payouts[l].status \in {"sent", "bookkeeping_pending"}
                                /\ journal[r] = Pair(payouts[l].amount)
            BY <3>1 DEF BooksInv, BookedOnce
        <3>3. QED
            BY <2>1, <3>2
    <2>4. QED
        BY <2>2, <2>3 DEF SentMeansBooked
<1>3. QED
    BY <1>1, <1>2, PTL

-----------------------------------------------------------------------------
(* Signed requests *)

Stages == {"waiting", "verify", "insert", "create"}

Nonce(m) == <<m.key, m.nonce>>

AccessTypes ==
    /\ clock \in Nat
    /\ nonces \in [NonceKeys -> Nat \cup {None}]
    /\ apiRequests \in [Servers -> [at : Stages, msg : Messages \cup {None}, readAt : Nat]]
    /\ admitted \in [Messages -> SUBSET Nat]

(* A request past the checks was fresh when it read the clock.             *)
Checked(s) ==
    LET req == apiRequests[s]
    IN  /\ req.at \in {"verify", "insert"} => req.msg \in Messages /\ req.readAt <= clock
        /\ req.at = "insert" => req.msg.timestamp - TOLERANCE <= req.readAt

(* While a message is valid, the nonce of its first use is kept.           *)
NonceKept(m) ==
    admitted[m] # {} /\ clock <= m.timestamp + TOLERANCE =>
        nonces[Nonce(m)] # None /\ nonces[Nonce(m)] >= m.timestamp - TOLERANCE

AccessInv ==
    /\ AccessTypes
    /\ \A s \in Servers : Checked(s)
    /\ \A m \in Messages : NonceKept(m)
    /\ \A m \in Messages : \A t \in admitted[m] : t <= clock
    /\ NoReplayWhileValid

(* No message has been sent.                                               *)
LEMMA AccessInvInit == AccessInit => AccessInv
  BY ApiAccessAssumption
     DEF AccessInit, AccessInv, AccessTypes, Stages, Waiting, Checked, NonceKept,
         NoReplayWhileValid

(* A step that leaves the clock, the nonces and the admissions alone only  *)
(* has to keep the requests.                                               *)
LEMMA AccessFrame ==
    ASSUME AccessInv, UNCHANGED <<clock, nonces, admitted>>,
           apiRequests' \in [Servers -> [at : Stages, msg : Messages \cup {None}, readAt : Nat]],
           \A s \in Servers : Checked(s)'
    PROVE  AccessInv'
  BY DEF AccessInv, AccessTypes, NonceKept, NoReplayWhileValid

(* Every step keeps what the next replay depends on.                       *)
LEMMA AccessInvStep ==
    ASSUME AccessInv, [AccessNext]_accessVars
    PROVE  AccessInv'
<1> USE ApiAccessAssumption
<1> DEFINE Req == [at : Stages, msg : Messages \cup {None}, readAt : Nat]
<1>0. Waiting \in Req
  BY DEF Waiting, Stages
<1>1. ASSUME NEW s \in Servers, NEW step \in Req, Serve(s, step),
             UNCHANGED <<clock, nonces, admitted>>,
             step.at \in {"verify", "insert"} => step.msg \in Messages /\ step.readAt <= clock,
             step.at = "insert" => step.msg.timestamp - TOLERANCE <= step.readAt
      PROVE  AccessInv'
  <2>1. apiRequests' \in [Servers -> Req]
    BY <1>1 DEF Serve, AccessInv, AccessTypes
  <2>2. \A q \in Servers : Checked(q)'
    BY <1>1 DEF Serve, AccessInv, AccessTypes, Checked
  <2>3. QED
    BY <1>1, <2>1, <2>2, AccessFrame
<1>2. ASSUME NEW s \in Servers, NEW m \in Messages, SignedArrives(s, m) PROVE AccessInv'
  <2>1. [at |-> "verify", msg |-> m, readAt |-> clock] \in Req
    BY DEF AccessInv, AccessTypes, Stages
  <2>2. QED
    BY <1>1, <1>2, <2>1 DEF SignedArrives, AccessInv, AccessTypes
<1>3. ASSUME NEW s \in Servers, VerifySigned(s) PROVE AccessInv'
  <2>1. apiRequests[s] \in Req /\ Checked(s)
    BY DEF AccessInv, AccessTypes
  <2>2. CASE apiKeys[apiRequests[s].msg.key] = "active" /\ Fresh(apiRequests[s])
               /\ apiRequests[s].msg.signed
    <3>1. [apiRequests[s] EXCEPT !.at = "insert"] \in Req
      BY <2>1 DEF Stages
    <3>2. Serve(s, [apiRequests[s] EXCEPT !.at = "insert"])
      BY <1>3, <2>2 DEF VerifySigned
    <3>3. apiRequests[s].msg \in Messages /\ apiRequests[s].readAt <= clock
      BY <1>3, <2>1 DEF VerifySigned, Checked
    <3>4. apiRequests[s].msg.timestamp - TOLERANCE <= apiRequests[s].readAt
      BY <2>1, <2>2, <3>3 DEF Fresh
    <3>5. QED
      BY <1>1, <1>3, <2>1, <3>1, <3>2, <3>3, <3>4 DEF VerifySigned
  <2>3. CASE ~(apiKeys[apiRequests[s].msg.key] = "active" /\ Fresh(apiRequests[s])
               /\ apiRequests[s].msg.signed)
    BY <1>0, <1>1, <1>3, <2>3 DEF VerifySigned, Waiting
  <2>4. QED
    BY <2>2, <2>3
<1>4. ASSUME NEW s \in Servers, UseNonce(s) PROVE AccessInv'
  <2> DEFINE m == apiRequests[s].msg
  <2>1. /\ m \in Messages /\ m.timestamp - TOLERANCE <= clock /\ Nonce(m) \in NonceKeys
        /\ m.timestamp \in Nat
    BY <1>4 DEF UseNonce, AccessInv, AccessTypes, Checked, NonceKeys, Nonce
  <2>2. CASE UNCHANGED <<nonces, admitted>>
    BY <1>0, <1>1, <1>4, <2>2 DEF UseNonce, Waiting
  <2>3. CASE /\ nonces[Nonce(m)] = None
             /\ nonces' = [nonces EXCEPT ![Nonce(m)] = clock]
             /\ admitted' = admitted \/ admitted' = [admitted EXCEPT ![m] = @ \cup {clock}]
    <3>1. AccessTypes' /\ clock' = clock
      BY <1>0, <1>4, <2>1, <2>3 DEF UseNonce, Serve, AccessInv, AccessTypes
    <3>2. \A q \in Servers : Checked(q)'
      BY <1>4 DEF UseNonce, Serve, Waiting, AccessInv, AccessTypes, Checked
    <3>3. ASSUME NEW x \in Messages, Nonce(x) = Nonce(m), admitted[x] # {}
          PROVE  x.timestamp + TOLERANCE < clock
      BY <2>3, <3>3 DEF AccessInv, AccessTypes, NonceKept
    <3>4. ASSUME NEW x \in Messages PROVE NonceKept(x)'
      <4>1. CASE x = m
        BY <2>1, <2>3, <3>1, <4>1 DEF NonceKept, AccessInv, AccessTypes, Nonce
      <4>2. CASE x # m
        <5>1. admitted'[x] = admitted[x]
          BY <2>3, <4>2 DEF AccessInv, AccessTypes
        <5>2. Nonce(x)' = Nonce(x) /\ Nonce(x) \in NonceKeys
          BY DEF Nonce, NonceKeys
        <5>3. CASE Nonce(x) = Nonce(m)
          BY <3>1, <3>3, <5>1, <5>3 DEF NonceKept, AccessInv, AccessTypes
        <5>4. CASE Nonce(x) # Nonce(m)
          BY <2>3, <3>1, <5>1, <5>2, <5>4 DEF NonceKept, AccessInv, AccessTypes
        <5>5. QED
          BY <5>3, <5>4
      <4>3. QED
        BY <4>1, <4>2
    <3>5. \A x \in Messages : \A t \in admitted'[x] : t <= clock'
      BY <2>1, <2>3, <3>1 DEF AccessInv, AccessTypes
    <3>6. NoReplayWhileValid'
      <4> SUFFICES ASSUME NEW x \in Messages, NEW t \in admitted'[x], NEW u \in admitted'[x],
                          t <= x.timestamp + TOLERANCE, u <= x.timestamp + TOLERANCE
                   PROVE  t = u
        BY DEF NoReplayWhileValid
      <4>1. CASE t \in admitted[x] /\ u \in admitted[x]
        BY <4>1 DEF AccessInv, NoReplayWhileValid
      <4>2. ASSUME NEW v \in admitted'[x], v \notin admitted[x]
            PROVE  x = m /\ v = clock
        BY <2>1, <2>3, <4>2 DEF AccessInv, AccessTypes
      <4>3. ASSUME NEW v \in admitted'[x], v \notin admitted[x],
                   v <= x.timestamp + TOLERANCE
            PROVE  admitted[x] = {}
        BY <3>3, <4>2, <4>3 DEF AccessInv, AccessTypes
      <4>4. QED
        BY <4>1, <4>2, <4>3
    <3>7. QED
      BY <3>1, <3>2, <3>4, <3>5, <3>6 DEF AccessInv
  <2>4. QED
    BY <1>4, <2>2, <2>3 DEF UseNonce, Nonce
<1>5. ASSUME NEW s \in Servers, CountKeys(s) PROVE AccessInv'
  <2>1. [Waiting EXCEPT !.at = "create"] \in Req /\ [Waiting EXCEPT !.at = "create"].at = "create"
    BY DEF Waiting, Stages
  <2>2. QED
    BY <1>1, <1>5, <2>1 DEF CountKeys
<1>6. ASSUME NEW s \in Servers, NEW k \in KeyIds, CreateKey(s, k) PROVE AccessInv'
  BY <1>0, <1>1, <1>6 DEF CreateKey, Waiting
<1>7. ASSUME NEW s \in Servers, RequestThrows(s) PROVE AccessInv'
  BY <1>0, <1>1, <1>7 DEF RequestThrows, Waiting
<1>8. ASSUME UNCHANGED <<clock, nonces, apiRequests, admitted>> PROVE AccessInv'
  BY <1>8 DEF AccessInv, AccessTypes, Checked, NonceKept, NoReplayWhileValid
<1>9. ASSUME PurgeExpiredNonces PROVE AccessInv'
  <2>1. UNCHANGED <<clock, apiRequests, admitted>>
    BY <1>9 DEF PurgeExpiredNonces
  <2>2. nonces' = [n \in NonceKeys |->
           IF nonces[n] # None /\ nonces[n] < clock - RETENTION_S THEN None ELSE nonces[n]]
    BY <1>9 DEF PurgeExpiredNonces
  <2>3. AccessTypes'
    BY <2>1, <2>2 DEF AccessInv, AccessTypes
  <2>4. ASSUME NEW x \in Messages PROVE NonceKept(x)'
    <3>1. Nonce(x) \in NonceKeys /\ x.timestamp \in Nat
      BY DEF Nonce, NonceKeys
    <3>2. NonceKept(x)
      BY DEF AccessInv
    <3>3. SUFFICES ASSUME admitted[x] # {}, clock <= x.timestamp + TOLERANCE
                   PROVE  nonces'[Nonce(x)] = nonces[Nonce(x)]
      BY <2>1, <3>2 DEF NonceKept, Nonce
    <3>4. nonces[Nonce(x)] \in Nat /\ nonces[Nonce(x)] >= x.timestamp - TOLERANCE
      BY <3>1, <3>2, <3>3 DEF NonceKept, AccessInv, AccessTypes
    <3>5. QED
      BY <2>2, <3>1, <3>3, <3>4 DEF AccessInv, AccessTypes
  <2>5. QED
    BY <2>1, <2>3, <2>4 DEF AccessInv, Checked, NoReplayWhileValid
<1>10. ASSUME ClockTicks PROVE AccessInv'
  <2>1. clock \in Nat /\ clock' = clock + 1 /\ UNCHANGED <<nonces, apiRequests, admitted>>
    BY <1>10 DEF ClockTicks, AccessInv, AccessTypes
  <2>2. AccessTypes'
    BY <2>1 DEF AccessInv, AccessTypes
  <2>3. \A s \in Servers : Checked(s)'
    BY <2>1 DEF AccessInv, AccessTypes, Checked
  <2>4. \A x \in Messages : NonceKept(x)'
    BY <2>1 DEF AccessInv, AccessTypes, NonceKept, Nonce
  <2>5. \A x \in Messages : \A t \in admitted'[x] : t <= clock'
    BY <2>1 DEF AccessInv, AccessTypes
  <2>6. QED
    BY <2>1, <2>2, <2>3, <2>4, <2>5 DEF AccessInv, NoReplayWhileValid
<1>11. QED
  BY <1>2, <1>3, <1>4, <1>5, <1>6, <1>7, <1>8, <1>9, <1>10
     DEF AccessNext, accessVars, RevokeKey, Login

(* A signed request is let in at most once while it is valid, for any      *)
(* tolerance, any messages and any delay between its checks: a nonce kept  *)
(* for twice the tolerance outlives every replay.                          *)
THEOREM NoReplays == AccessSpec => []NoReplayWhileValid
<1>1. AccessInv => NoReplayWhileValid
  BY DEF AccessInv
<1>2. QED
  BY <1>1, AccessInvInit, AccessInvStep, PTL DEF AccessSpec

-----------------------------------------------------------------------------
(* The keeper's queue *)

Run == [keeper : Keepers, job : Jobs, stage : {"acquire", "working"}, lane : BOOLEAN]

QueueTypes ==
    /\ lane \in [Keepers -> Seq(Jobs)]
    /\ runs \subseteq Run
    /\ locks \in [LockKeys -> (Keepers \X Jobs) \cup {None}]

(* The lane's run is the one at its head.                                  *)
LaneHasItsRun ==
    /\ \A r \in runs : r.lane => lane[r.keeper] # <<>>
    /\ \A r, q \in runs : r.lane /\ q.lane /\ r.keeper = q.keeper => r = q

(* A run that works holds its lock, and holds it alone.                    *)
WorkersHoldLocks ==
    /\ \A r \in Working : locks[LockKey(r.job)] = <<r.keeper, r.job>>
    /\ \A r, q \in Working : LockKey(r.job) = LockKey(q.job) => r = q

QueueInv == QueueTypes /\ LaneHasItsRun /\ WorkersHoldLocks

(* Every job has a lock key.                                               *)
LEMMA LockKeyOfJob == \A j \in Jobs : LockKey(j) \in LockKeys
  BY DEF LockKeys

(* No job is queued, running or locked.                                    *)
LEMMA QueueInvInit == QueueInit => QueueInv
  BY DEF QueueInit, QueueInv, QueueTypes, LaneHasItsRun, WorkersHoldLocks, Working

(* A run that leaves the lane takes one entry off it.                      *)
LEMMA LaneMovesOn ==
    ASSUME QueueInv, NEW r \in runs, r.lane,
           lane' = [lane EXCEPT ![r.keeper] = Tail(@)],
           \A q \in runs' : q.lane => q \in runs /\ q # r
    PROVE  lane' \in [Keepers -> Seq(Jobs)] /\ LaneHasItsRun'
<1>1. r.keeper \in Keepers /\ lane[r.keeper] \in Seq(Jobs) /\ lane[r.keeper] # <<>>
  BY DEF QueueInv, QueueTypes, LaneHasItsRun, Run
<1>2. Tail(lane[r.keeper]) \in Seq(Jobs)
  BY <1>1
<1>3. lane' \in [Keepers -> Seq(Jobs)]
  BY <1>1, <1>2 DEF QueueInv, QueueTypes
<1>4. \A q \in runs' : q.lane => q.keeper # r.keeper
  BY DEF QueueInv, LaneHasItsRun
<1>5. \A q \in runs' : q.lane => lane'[q.keeper] = lane[q.keeper]
  BY <1>4 DEF QueueInv, QueueTypes, Run
<1>6. QED
  BY <1>3, <1>5 DEF QueueInv, LaneHasItsRun

(* A settled run leaves the other runs, their lane and their locks alone.  *)
LEMMA SettleKeeps ==
    ASSUME QueueInv, NEW r \in runs, Settle(r)
    PROVE  /\ lane' \in [Keepers -> Seq(Jobs)] /\ runs' \subseteq Run
           /\ LaneHasItsRun' /\ Working' = Working \ {r}
<1>1. runs' = runs \ {r}
  BY DEF Settle
<1>2. runs' \subseteq Run /\ Working' = Working \ {r}
  BY <1>1 DEF QueueInv, QueueTypes, Working
<1>3. CASE r.lane
  BY <1>1, <1>2, <1>3, LaneMovesOn DEF Settle
<1>4. CASE ~r.lane
  BY <1>1, <1>2, <1>4 DEF Settle, QueueInv, QueueTypes, LaneHasItsRun
<1>5. QED
  BY <1>3, <1>4

(* Every step keeps the locks with the runs that hold them.                *)
LEMMA QueueInvStep ==
    ASSUME QueueInv, [QueueNext]_queueVars
    PROVE  QueueInv'
<1>1. ASSUME NEW k \in Keepers, NEW j \in Jobs, Tick(k, j) PROVE QueueInv'
  <2>1. UNCHANGED <<runs, locks>> /\ lane' = [lane EXCEPT ![k] = Append(@, j)]
    BY <1>1 DEF Tick
  <2>2. Append(lane[k], j) \in Seq(Jobs) /\ Append(lane[k], j) # <<>>
    BY DEF QueueInv, QueueTypes
  <2>3. QueueTypes'
    BY <2>1, <2>2 DEF QueueInv, QueueTypes
  <2>4. LaneHasItsRun'
    BY <2>1, <2>2 DEF QueueInv, QueueTypes, LaneHasItsRun, Run
  <2>5. QED
    BY <2>1, <2>3, <2>4 DEF QueueInv, WorkersHoldLocks, Working
<1>2. ASSUME NEW k \in Keepers, StartRun(k) PROVE QueueInv'
  <2> DEFINE r == [keeper |-> k, job |-> Head(lane[k]), stage |-> "acquire", lane |-> TRUE]
  <2>1. UNCHANGED <<lane, locks>> /\ runs' = runs \cup {r} /\ lane[k] # <<>>
    BY <1>2 DEF StartRun
  <2>2. r \in Run /\ r.keeper = k /\ r.lane = TRUE /\ r.stage = "acquire"
    BY <2>1 DEF Run, QueueInv, QueueTypes
  <2> HIDE DEF r
  <2>3. QueueTypes' /\ Working' = Working
    BY <2>1, <2>2 DEF QueueInv, QueueTypes, Working
  <2>4. \A q \in runs : q.lane => q.keeper # k
    BY <1>2 DEF StartRun, Heads
  <2>5. LaneHasItsRun'
    BY <2>1, <2>2, <2>4 DEF QueueInv, LaneHasItsRun
  <2>6. QED
    BY <2>1, <2>3, <2>5 DEF QueueInv, WorkersHoldLocks
<1>3. ASSUME NEW r \in runs, AcquireLock(r) PROVE QueueInv'
  <2>1. r \in Run /\ LockKey(r.job) \in LockKeys
    BY LockKeyOfJob DEF QueueInv, QueueTypes, Run
  <2>2. CASE /\ locks[LockKey(r.job)] = None /\ UNCHANGED lane
             /\ locks' = [locks EXCEPT ![LockKey(r.job)] = <<r.keeper, r.job>>]
             /\ runs' = (runs \ {r}) \cup {[r EXCEPT !.stage = "working"]}
    <3> DEFINE w == [r EXCEPT !.stage = "working"]
    <3>1. /\ w \in Run /\ w.keeper = r.keeper /\ w.job = r.job /\ w.lane = r.lane
          /\ w.stage = "working" /\ <<r.keeper, r.job>> \in Keepers \X Jobs
          /\ runs' = (runs \ {r}) \cup {w}
      BY <2>1, <2>2 DEF Run
    <3> HIDE DEF w
    <3>2. QueueTypes'
      BY <2>1, <2>2, <3>1 DEF QueueInv, QueueTypes
    <3>3. LaneHasItsRun'
      BY <2>2, <3>1 DEF QueueInv, LaneHasItsRun
    <3>4. Working' \subseteq Working \cup {w}
      BY <3>1 DEF Working
    <3>5. \A q \in Working : LockKey(q.job) # LockKey(r.job) /\ LockKey(q.job) \in LockKeys
      <4>1. \A q \in Working : q \in Run /\ q.job \in Jobs /\ <<q.keeper, q.job>> \in Keepers \X Jobs
        BY DEF QueueInv, QueueTypes, Working, Run
      <4>2. \A q \in Working : locks[LockKey(q.job)] # None
        BY <4>1, KeeperQueueAssumption DEF QueueInv, WorkersHoldLocks
      <4>3. QED
        BY <2>2, <4>1, <4>2, LockKeyOfJob
    <3>6. \A q \in Working : locks'[LockKey(q.job)] = locks[LockKey(q.job)]
      BY <2>1, <2>2, <3>5 DEF QueueInv, QueueTypes
    <3>7. locks'[LockKey(w.job)] = <<w.keeper, w.job>>
      BY <2>1, <2>2, <3>1 DEF QueueInv, QueueTypes
    <3>8. \A q \in Working' : locks'[LockKey(q.job)] = <<q.keeper, q.job>>
      BY <3>4, <3>6, <3>7 DEF QueueInv, WorkersHoldLocks
    <3>9. \A q, v \in Working' : LockKey(q.job) = LockKey(v.job) => q = v
      BY <3>1, <3>4, <3>5 DEF QueueInv, WorkersHoldLocks
    <3>10. WorkersHoldLocks'
      BY <3>8, <3>9 DEF WorkersHoldLocks, LockKey
    <3>11. QED
      BY <3>2, <3>3, <3>10 DEF QueueInv
  <2>3. CASE Settle(r) /\ UNCHANGED locks
    BY <2>3, SettleKeeps DEF QueueInv, QueueTypes, WorkersHoldLocks
  <2>4. QED
    BY <1>3, <2>2, <2>3 DEF AcquireLock
<1>4. ASSUME NEW r \in runs, AcquireFails(r) PROVE QueueInv'
  BY <1>4, SettleKeeps DEF AcquireFails, QueueInv, QueueTypes, WorkersHoldLocks
<1>5. ASSUME NEW r \in runs, FinishRun(r) PROVE QueueInv'
  <2>1. Settle(r) /\ r \in Working /\ locks' = [locks EXCEPT ![LockKey(r.job)] = None]
    BY <1>5 DEF FinishRun, Working
  <2>2. LockKey(r.job) \in LockKeys /\ \A q \in Working : LockKey(q.job) \in LockKeys
    BY LockKeyOfJob DEF QueueInv, QueueTypes, Run, Working
  <2>3. Working' = Working \ {r}
    BY <2>1, SettleKeeps
  <2>4. \A q \in Working \ {r} : locks'[LockKey(q.job)] = locks[LockKey(q.job)]
    BY <2>1, <2>2 DEF QueueInv, QueueTypes, WorkersHoldLocks
  <2>5. \A q \in Working' : locks'[LockKey(q.job)] = <<q.keeper, q.job>>
    BY <2>3, <2>4 DEF QueueInv, WorkersHoldLocks
  <2>6. WorkersHoldLocks'
    BY <2>3, <2>5 DEF QueueInv, WorkersHoldLocks, LockKey
  <2>7. locks' \in [LockKeys -> (Keepers \X Jobs) \cup {None}]
    BY <2>1 DEF QueueInv, QueueTypes
  <2>8. QED
    BY <2>1, <2>6, <2>7, SettleKeeps DEF QueueInv, QueueTypes
<1>6. ASSUME NEW r \in runs, Abandon(r) PROVE QueueInv'
  <2> DEFINE w == [r EXCEPT !.lane = FALSE]
  <2>1. /\ r \in Run /\ w \in Run /\ w.keeper = r.keeper /\ w.job = r.job
        /\ w.stage = r.stage /\ w.lane = FALSE
    BY DEF QueueInv, QueueTypes, Run
  <2>2. /\ r.lane /\ runs' = (runs \ {r}) \cup {w}
        /\ lane' = [lane EXCEPT ![r.keeper] = Tail(@)] /\ UNCHANGED locks
    BY <1>6 DEF Abandon
  <2>3. lane' \in [Keepers -> Seq(Jobs)] /\ LaneHasItsRun'
    BY <2>1, <2>2, LaneMovesOn
  <2>4. QueueTypes'
    BY <2>1, <2>2, <2>3 DEF QueueInv, QueueTypes
  <2>5. /\ Working' \subseteq (Working \ {r}) \cup {w}
        /\ w \in Working' => r \in Working
    BY <2>1, <2>2 DEF Working
  <2>6. WorkersHoldLocks'
    <3>1. \A q \in Working' : locks'[LockKey(q.job)] = <<q.keeper, q.job>>
      BY <2>1, <2>2, <2>5 DEF QueueInv, WorkersHoldLocks
    <3>2. \A q, v \in Working' : LockKey(q.job) = LockKey(v.job) => q = v
      BY <2>1, <2>5 DEF QueueInv, WorkersHoldLocks
    <3>3. QED
      BY <3>1, <3>2 DEF WorkersHoldLocks, LockKey
  <2>7. QED
    BY <2>3, <2>4, <2>6 DEF QueueInv
<1>7. ASSUME NEW k \in Keepers, ProcessEnds(k) PROVE QueueInv'
  <2>1. /\ lane' = [lane EXCEPT ![k] = <<>>] /\ runs' = {r \in runs : r.keeper # k}
        /\ locks' = [x \in DOMAIN locks |->
               IF locks[x] # None /\ locks[x][1] = k THEN None ELSE locks[x]]
    BY <1>7 DEF ProcessEnds
  <2>2. QueueTypes'
    BY <2>1 DEF QueueInv, QueueTypes
  <2>3. \A r \in runs' : lane'[r.keeper] = lane[r.keeper] /\ r \in runs
    BY <2>1 DEF QueueInv, QueueTypes, Run
  <2>4. LaneHasItsRun'
    BY <2>3 DEF QueueInv, LaneHasItsRun
  <2>5. \A r \in Working' : r \in Working /\ r.keeper # k /\ LockKey(r.job) \in LockKeys
    BY <2>1, LockKeyOfJob DEF Working, QueueInv, QueueTypes, Run
  <2>6. ASSUME NEW r \in Working' PROVE locks'[LockKey(r.job)] = <<r.keeper, r.job>>
    <3>1. locks[LockKey(r.job)] = <<r.keeper, r.job>> /\ LockKey(r.job) \in DOMAIN locks
      BY <2>5, <2>6 DEF QueueInv, QueueTypes, WorkersHoldLocks
    <3>2. locks[LockKey(r.job)][1] # k
      BY <2>5, <2>6, <3>1
    <3>3. QED
      BY <2>1, <3>1, <3>2
  <2>7. WorkersHoldLocks'
    BY <2>5, <2>6 DEF QueueInv, WorkersHoldLocks, LockKey
  <2>8. QED
    BY <2>2, <2>4, <2>7 DEF QueueInv
<1>8. ASSUME UNCHANGED <<lane, runs, locks>> PROVE QueueInv'
  BY <1>8 DEF QueueInv, QueueTypes, LaneHasItsRun, WorkersHoldLocks, Working
<1>9. QED
  BY <1>1, <1>2, <1>3, <1>4, <1>5, <1>6, <1>7, <1>8
     DEF QueueNext, queueVars, RunStep, Stop, Exit, Killed, Restart

(* No job runs twice at the same time, for any keepers and jobs, with a    *)
(* lock per job or one for all: an abandoned run keeps its lock, and only  *)
(* its own end or the end of its process gives it back.                    *)
THEOREM JobsRunAlone == QueueSpec => []OneRunPerJob
<1>1. QueueInv => OneRunPerJob
  BY DEF QueueInv, WorkersHoldLocks, OneRunPerJob
<1>2. QED
  BY <1>1, QueueInvInit, QueueInvStep, PTL DEF QueueSpec

=============================================================================
