------------------------------ MODULE Compliance ------------------------------
(***************************************************************************)
(* services/api/src/compliance: the gate in front of every route that      *)
(* takes on risk (gate.ts, hook.ts), the screener and its copy of the      *)
(* sanctions list (screener.ts, sanctionsList.ts), and the operator's two  *)
(* manual decisions (packages/db/src/complianceCli.ts), for one party.     *)
(*                                                                         *)
(* Several requests are in the gate at once and each await ends a step.    *)
(* A check is dated with the clock the request read when it entered, a     *)
(* person's clear with the clock of the database.  The published register, *)
(* as far as it names the party, is a set of entries; an entry of Aliases  *)
(* names it only through the list of alternative names.                    *)
(***************************************************************************)
EXTENDS Services, Sequences, Functions

CONSTANTS
    GateRequests,   \* requests in the gate at the same time
    Entries,        \* entries that may name the party
    Aliases,        \* those of the alternative names file
    SCREENING_TTL,  \* SCREENING_TTL_MS
    REFRESH,        \* refreshMs
    MAX_AGE,        \* maxAgeMs
    MaxTime,        \* bound
    MaxChecks       \* bound on compliance_check rows

ASSUME ComplianceAssumption ==
    /\ Aliases \subseteq Entries
    /\ {SCREENING_TTL, REFRESH, MAX_AGE} \subseteq Nat \ {0}
    /\ REFRESH <= MAX_AGE
    /\ MaxTime \in Nat /\ MaxChecks \in Nat

VARIABLES
    time,
    kyb,         \* party.kybStatus is "approved"
    register,    \* the published entries that name the party
    list,        \* OfacScreener.list, or None
    loadedAt,    \* OfacScreener.loadedAt
    checks,      \* compliance_check of the party, in insertion order
    gate,        \* per request: where checkParty is
    gateFaults

gateVars == <<time, kyb, register, list, loadedAt, checks, gate, gateFaults>>

Outside == [at |-> "outside", now |-> 0, began |-> 0, reviewed |-> {}, age |-> 0, found |-> {}]

ComplianceInit ==
    /\ time = 1
    /\ kyb = FALSE
    /\ register \in SUBSET Entries
    /\ list = None
    /\ loadedAt = 0
    /\ checks = << >>
    /\ gate = [r \in GateRequests |-> Outside]
    /\ gateFaults = 0

-----------------------------------------------------------------------------
Gate(r, step) == gate' = [gate EXCEPT ![r] = step]

Passed(req) == [Outside EXCEPT !.at = "passed", !.began = req.began]

(* The rows that `ORDER BY checked_at DESC` may put first. *)
Latest ==
    {i \in DOMAIN checks : \A j \in DOMAIN checks : checks[j].checkedAt <= checks[i].checkedAt}

(* checkParty: the clock is read, then the party row. *)
EnterGate(r) ==
    /\ gate[r].at \in {"outside", "passed"}
    /\ Gate(r, IF kyb THEN [Outside EXCEPT !.at = "latest", !.now = time, !.began = Len(checks)]
                      ELSE Outside)
    /\ UNCHANGED <<time, kyb, register, list, loadedAt, checks, gateFaults>>

(* Mutant: a match is reused for the time a clear one is, then screened    *)
(* again.                                                                  *)
MatchAgesOut(r, i) ==
    LET req == gate[r]
    IN  Gate(r, IF req.now - checks[i].checkedAt < SCREENING_TTL
                THEN IF checks[i].result = "match" THEN Outside ELSE Passed(req)
                ELSE [req EXCEPT !.at = "collect"])

(* What the latest check decides: a match holds the party, a recent clear  *)
(* one lets it pass, and an old one is done again.                         *)
ByLatest(r, i) ==
    LET req == gate[r]
    IN  Gate(r, IF checks[i].result = "match" THEN Outside
                ELSE IF req.now - checks[i].checkedAt < SCREENING_TTL
                     THEN Passed(req)
                ELSE [req EXCEPT !.at = "collect"])

ReadLatest(r) ==
    /\ gate[r].at = "latest"
    /\ \/ checks = << >> /\ Gate(r, [gate[r] EXCEPT !.at = "collect"])
       \/ \E i \in Latest : ByLatest(r, i)
    /\ UNCHANGED <<time, kyb, register, list, loadedAt, checks, gateFaults>>

(* The match that most closely precedes a manual clear, by checked_at, is  *)
(* what the person reviewed.  (Of equal dates the clear counts as later.)  *)
ReviewedBy(c) ==
    LET prior == {m \in Range(checks) : m.result = "match" /\ m.checkedAt <= c.checkedAt}
        last  == {m \in prior : \A n \in prior : n.checkedAt <= m.checkedAt}
    IN  UNION {m.matches : m \in last}

Reviewed == UNION {ReviewedBy(c) : c \in {d \in Range(checks) : d.manual}}

(* The request is screened against the copy at hand; `age` is from here on *)
(* the age of that copy when the request read its clock.                   *)
Screened(r) ==
    [gate[r] EXCEPT !.at = "record", !.found = list, !.age = gate[r].now - loadedAt]

(* ensureFresh: a recent copy of the list is used as it is, an older one   *)
(* waits for the load that all requests share.                             *)
CollectReviewed(r) ==
    LET age == time - loadedAt
    IN  /\ gate[r].at = "collect"
        /\ Gate(r, IF list # None /\ age < REFRESH
                   THEN [Screened(r) EXCEPT !.reviewed = Reviewed]
                   ELSE [gate[r] EXCEPT !.at = "load", !.reviewed = Reviewed, !.age = age])
        /\ UNCHANGED <<time, kyb, register, list, loadedAt, checks, gateFaults>>

LoadWaiters == {r \in GateRequests : gate[r].at = "load"}

(* SanctionsList: the names and addresses of the register, and the         *)
(* alternative names when their file could be had too.                     *)
Parsed(altCsv) == IF altCsv THEN register ELSE register \ Aliases

(* The list is downloaded and all who wait screen against it.              *)
ListLoads ==
    /\ LoadWaiters # {}
    /\ \E altCsv \in BOOLEAN : list' = Parsed(altCsv)
    /\ loadedAt' = time
    /\ gate' = [r \in GateRequests |->
           IF r \in LoadWaiters
           THEN [gate[r] EXCEPT !.at = "record", !.found = list', !.age = gate[r].now - time]
           ELSE gate[r]]
    /\ UNCHANGED <<time, kyb, register, checks, gateFaults>>

(* Mutant: the last good copy is used however old it is. *)
AnyCopyUsable(r) == list # None

CopyUsable(r) == list # None /\ gate[r].age < MAX_AGE

(* The download fails or is truncated: those whose copy is young enough    *)
(* screen against it, the others are refused (503).                        *)
ListLoadFails ==
    /\ LoadWaiters # {}
    /\ gateFaults < MaxFaults
    /\ gateFaults' = gateFaults + 1
    /\ gate' = [r \in GateRequests |->
           IF r \notin LoadWaiters THEN gate[r]
           ELSE IF CopyUsable(r) THEN Screened(r)
           ELSE Outside]
    /\ UNCHANGED <<time, kyb, register, list, loadedAt, checks>>

(* The check is inserted, dated with the clock of the request; a match     *)
(* that nobody reviewed holds the party.  The insert may fail.             *)
RecordCheck(r) ==
    LET req == gate[r]
        hit == ~ (req.found \subseteq req.reviewed)
        row == [result |-> IF hit THEN "match" ELSE "clear", matches |-> req.found,
                manual |-> FALSE, checkedAt |-> req.now, listAge |-> req.age,
                alone |-> /\ \A q \in GateRequests \ {r} : gate[q].at \in {"outside", "passed"}
                          /\ \A i \in DOMAIN checks : checks[i].checkedAt < req.now]
    IN  /\ req.at = "record"
        /\ \/ /\ Len(checks) < MaxChecks
              /\ checks' = Append(checks, row)
              /\ Gate(r, IF hit THEN Outside ELSE Passed(req))
              /\ UNCHANGED gateFaults
           \/ /\ gateFaults < MaxFaults
              /\ gateFaults' = gateFaults + 1
              /\ Gate(r, Outside)
              /\ UNCHANGED checks
        /\ UNCHANGED <<time, kyb, register, list, loadedAt>>

-----------------------------------------------------------------------------
(* compliance clear: a person's clear, whether there is a hold or not. *)
ManualClear ==
    /\ Len(checks) < MaxChecks
    /\ checks' = Append(checks, [result |-> "clear", matches |-> {}, manual |-> TRUE,
                                 checkedAt |-> time, listAge |-> None, alone |-> FALSE])
    /\ UNCHANGED <<time, kyb, register, list, loadedAt, gate, gateFaults>>

(* compliance kyb *)
SetKyb ==
    /\ kyb' = ~ kyb
    /\ UNCHANGED <<time, register, list, loadedAt, checks, gate, gateFaults>>

(* The register is published anew. *)
Publish ==
    /\ register' \in SUBSET Entries
    /\ register' # register
    /\ UNCHANGED <<time, kyb, list, loadedAt, checks, gate, gateFaults>>

GateTick ==
    /\ time < MaxTime
    /\ time' = time + 1
    /\ UNCHANGED <<kyb, register, list, loadedAt, checks, gate, gateFaults>>

(* The API restarts: its copy of the list and its requests are gone. *)
ApiRestarts ==
    /\ gateFaults < MaxFaults
    /\ gateFaults' = gateFaults + 1
    /\ list' = None
    /\ loadedAt' = 0
    /\ gate' = [r \in GateRequests |-> Outside]
    /\ UNCHANGED <<time, kyb, register, checks>>

ComplianceNext ==
    \/ \E r \in GateRequests :
           EnterGate(r) \/ ReadLatest(r) \/ CollectReviewed(r) \/ RecordCheck(r)
    \/ ListLoads \/ ListLoadFails
    \/ ManualClear \/ SetKyb \/ Publish \/ GateTick \/ ApiRestarts

ComplianceSpec == ComplianceInit /\ [][ComplianceNext]_gateVars

-----------------------------------------------------------------------------
(* The person cleared the party after the i-th check was recorded. *)
ClearedAfter(i) == \E j \in DOMAIN checks : j > i /\ checks[j].manual

(***************************************************************************)
(* A match holds the party until a person clears it (gate.ts:37), provided *)
(* it was recorded while no other request was in the gate and is dated     *)
(* after all the checks before it: no request that entered afterwards      *)
(* passes before a manual clear is recorded, however old the match gets,   *)
(* whatever the list says by then and whoever restarts.                    *)
(***************************************************************************)
MatchHoldsUntilCleared ==
    \A r \in GateRequests :
        gate[r].at = "passed" =>
            \A i \in 1..gate[r].began :
                checks[i].result = "match" /\ checks[i].alone => ClearedAfter(i)

(***************************************************************************)
(* The screener fails closed (screener.ts:2-4): no request is screened     *)
(* against a copy of the list that was older than maxAgeMs when it         *)
(* entered, although it may have waited for a load it shares with others.  *)
(***************************************************************************)
StaleListFailsClosed ==
    \A i \in DOMAIN checks :
        ~ checks[i].manual => checks[i].listAge < MAX_AGE

===============================================================================
