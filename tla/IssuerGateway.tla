---------------------------- MODULE IssuerGateway ----------------------------
(***************************************************************************)
(* services/issuer-gateway: liens and redemptions asked of an issuer, once *)
(* per Idempotency-Key.                                                    *)
(*                                                                         *)
(* A key stands for the triple (issuer, route, key) that issuer_idempotency *)
(* is keyed by.  A request claims its key, calls the issuer and stores the *)
(* answer; each await ends a step.  The issuer is external: it may act     *)
(* although the gateway sees a timeout, and it may drop a repetition.      *)
(***************************************************************************)
EXTENDS Services, Sequences

CONSTANTS
    IdemKeys,
    IdemParams,     \* what a request asks for: asset, holder, units
    GatewayWorkers, \* requests served at the same time
    MaxCalls        \* bound on requests

ASSUME GatewayAssumption == None \notin IdemKeys /\ MaxCalls \in Nat

VARIABLES
    idempotency,  \* table issuer_idempotency
    serving,      \* per request being served: where obligation() stands
    obligations,  \* at the issuer: liens and redemptions, a ref is an index
    lostCalls,    \* per key: calls the issuer acted on that threw
    replies,      \* what callers were answered under a key
    auditLog,     \* refs of the calls in audit_log
    calls,        \* requests so far
    gatewayFaults

gatewayVars == <<idempotency, serving, obligations, lostCalls, replies, auditLog,
                 calls, gatewayFaults>>

NoClaim == [status |-> "none", params |-> None, response |-> None]
NoCall == [at |-> "waiting", key |-> None, params |-> None, ref |-> None]

GatewayInit ==
    /\ idempotency = [k \in IdemKeys |-> NoClaim]
    /\ serving = [w \in GatewayWorkers |-> NoCall]
    /\ obligations = <<>>
    /\ lostCalls = [k \in IdemKeys |-> 0]
    /\ replies = {}
    /\ auditLog = {}
    /\ calls = 0
    /\ gatewayFaults = 0

GatewayFault == gatewayFaults < MaxFaults /\ gatewayFaults' = gatewayFaults + 1
Finished(w) == serving' = [serving EXCEPT ![w] = NoCall]

(* A lien-freeze or redeem request arrives, with a key or without.         *)
Obligation(w) ==
    /\ serving[w].at = "waiting"
    /\ calls < MaxCalls
    /\ calls' = calls + 1
    /\ \E k \in IdemKeys \union {None}, p \in IdemParams :
         serving' = [serving EXCEPT ![w] =
           [at |-> IF k = None THEN "calling" ELSE "claiming", key |-> k,
            params |-> p, ref |-> None]]
    /\ UNCHANGED <<idempotency, obligations, lostCalls, replies, auditLog,
                   gatewayFaults>>

(* Mutant: a row in flight is taken for the leftover of a dead request.    *)
KeyUnanswered(k) == idempotency[k].status # "completed"

KeyFree(k) == idempotency[k].status = "none"

(* The insert takes a free key; on a conflict the row is read next.        *)
RunIdempotent(w) ==
    LET k == serving[w].key IN
    /\ serving[w].at = "claiming"
    /\ \/ /\ KeyFree(k)
          /\ idempotency' = [idempotency EXCEPT ![k] =
               [status |-> "in_flight", params |-> serving[w].params, response |-> None]]
          /\ serving' = [serving EXCEPT ![w].at = "calling"]
       \/ /\ ~KeyFree(k)
          /\ serving' = [serving EXCEPT ![w].at = "reading"]
          /\ UNCHANGED idempotency
    /\ UNCHANGED <<obligations, lostCalls, replies, auditLog, calls, gatewayFaults>>

(* Mutant: the stored parameters are not compared.                         *)
ReplayableAny(row, params) == row.status = "completed"

(* The row that was there: gone means try again, other parameters are 422, *)
(* a running request is 409, a completed one is replayed.                  *)
Replayable(row, params) == row.status = "completed" /\ row.params = params

ReadExisting(w) ==
    LET k == serving[w].key
        row == idempotency[k] IN
    /\ serving[w].at = "reading"
    /\ \/ /\ row.status = "none"
          /\ serving' = [serving EXCEPT ![w].at = "claiming"]
          /\ UNCHANGED replies
       \/ /\ Replayable(row, serving[w].params)
          /\ replies' = replies \union
               {[key |-> k, params |-> serving[w].params, ref |-> row.response]}
          /\ Finished(w)
       \/ /\ row.status # "none" /\ ~Replayable(row, serving[w].params)
          /\ UNCHANGED replies
          /\ Finished(w)
    /\ UNCHANGED <<idempotency, obligations, lostCalls, auditLog, calls, gatewayFaults>>

(* The issuer's side of a call: a new obligation, or the one it already    *)
(* has for this key and these parameters, when it honours the header.      *)
IssuerActs(w, ref) ==
    LET ask == [key |-> serving[w].key, params |-> serving[w].params] IN
    \/ /\ obligations' = Append(obligations, ask)
       /\ ref = Len(obligations) + 1
    \/ /\ serving[w].key # None
       /\ ref \in DOMAIN obligations /\ obligations[ref] = ask
       /\ UNCHANGED obligations

(* issuerApiRequest: one request, no retries.                              *)
CallIssuer(w) ==
    /\ serving[w].at = "calling"
    /\ \E ref \in 1 .. MaxCalls :
         /\ IssuerActs(w, ref)
         /\ serving' = [serving EXCEPT ![w].at = "answered", ![w].ref = ref]
    /\ UNCHANGED <<idempotency, lostCalls, replies, auditLog, calls, gatewayFaults>>

(* An error status, or the timeout: the issuer has done nothing, or it has *)
(* acted and its answer was lost.  Without a key the error is the reply.   *)
CallThrows(w) ==
    /\ serving[w].at = "calling"
    /\ GatewayFault
    /\ \/ UNCHANGED <<obligations, lostCalls>>
       \/ /\ \E ref \in 1 .. MaxCalls : IssuerActs(w, ref)
          /\ lostCalls' = IF serving[w].key = None THEN lostCalls
                          ELSE [lostCalls EXCEPT ![serving[w].key] = @ + 1]
    /\ IF serving[w].key = None THEN Finished(w)
       ELSE serving' = [serving EXCEPT ![w].at = "releasing"]
    /\ UNCHANGED <<idempotency, replies, auditLog, calls>>

(* The claim is given back so that the key can be retried.                 *)
Release(w) ==
    /\ serving[w].at = "releasing"
    /\ idempotency' = [idempotency EXCEPT ![serving[w].key] = NoClaim]
    /\ Finished(w)
    /\ UNCHANGED <<obligations, lostCalls, replies, auditLog, calls, gatewayFaults>>

(* The answer is stored, or the write throws and the row stays in flight;  *)
(* the caller is answered either way.                                      *)
StoredRow(w) ==
    [idempotency[serving[w].key] EXCEPT !.status = "completed", !.response = serving[w].ref]

Store(w) ==
    /\ serving[w].at = "answered"
    /\ serving[w].key # None
    /\ \/ /\ idempotency' = [idempotency EXCEPT ![serving[w].key] = StoredRow(w)]
          /\ UNCHANGED gatewayFaults
       \/ GatewayFault /\ UNCHANGED idempotency
    /\ serving' = [serving EXCEPT ![w].at = "replying"]
    /\ UNCHANGED <<obligations, lostCalls, replies, auditLog, calls>>

(* recordAudit, whose failure is swallowed, and the reply.                 *)
Reply(w) ==
    /\ \/ serving[w].at = "replying"
       \/ serving[w].at = "answered" /\ serving[w].key = None
    /\ \/ auditLog' = auditLog \union {serving[w].ref} /\ UNCHANGED gatewayFaults
       \/ GatewayFault /\ UNCHANGED auditLog
    /\ replies' = IF serving[w].key = None THEN replies
                  ELSE replies \union {[key |-> serving[w].key,
                         params |-> serving[w].params, ref |-> serving[w].ref]}
    /\ Finished(w)
    /\ UNCHANGED <<idempotency, obligations, lostCalls, calls>>

(* The process dies, or the delete of Release throws: the row stays.       *)
GatewayDies(w) ==
    /\ serving[w].at # "waiting"
    /\ GatewayFault
    /\ Finished(w)
    /\ UNCHANGED <<idempotency, obligations, lostCalls, replies, auditLog, calls>>

GatewayNext ==
    \E w \in GatewayWorkers :
        \/ Obligation(w) \/ RunIdempotent(w) \/ ReadExisting(w) \/ CallIssuer(w)
        \/ CallThrows(w) \/ Release(w) \/ Store(w) \/ Reply(w) \/ GatewayDies(w)

GatewaySpec == GatewayInit /\ [][GatewayNext]_gatewayVars

-----------------------------------------------------------------------------
(* Properties.                                                             *)

(* All answers ever given under one key name one obligation, and it is the *)
(* one that was asked for, whatever retries, timeouts, releases and lost   *)
(* writes come between them (idempotency.ts:55).                           *)
OneAnswerPerKey ==
    /\ \A r \in replies : /\ r.ref \in DOMAIN obligations
                          /\ obligations[r.ref] = [key |-> r.key, params |-> r.params]
    /\ \A r, s \in replies : r.key = s.key => r.ref = s.ref

(* A key creates a second obligation only when a call was lost after the   *)
(* issuer acted on it; a request in flight, a stuck row or a stored answer *)
(* never does.                                                             *)
ObligationsOf(k) == {i \in DOMAIN obligations : obligations[i].key = k}

OneObligationUnlessLost ==
    \A k \in IdemKeys : Cardinality(ObligationsOf(k)) <= 1 + lostCalls[k]

(* The table keeps the promise of OnceOnly.                                *)
GatewaySlot(row) ==
    CASE row.status = "none" -> "free"
      [] row.status = "in_flight" -> "held"
      [] OTHER -> "done"

GatewayClaims == INSTANCE OnceOnly WITH
    Key <- IdemKeys,
    NoAnswer <- None,
    slot <- [k \in IdemKeys |-> GatewaySlot(idempotency[k])],
    answer <- [k \in IdemKeys |-> idempotency[k].response]

GatewayClaimsOnce == GatewayClaims!OnceSpec

=============================================================================
