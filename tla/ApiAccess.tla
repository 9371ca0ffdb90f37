------------------------------ MODULE ApiAccess ------------------------------
(***************************************************************************)
(* services/api: who may call.  Signed requests (apiKeys.ts, auth.ts) are  *)
(* checked against a key, a timestamp and a single-use nonce; sessions     *)
(* (session-token.ts, routes/auth.ts) manage the keys (routes/api-keys.ts).*)
(*                                                                         *)
(* Several requests are served at once.  Each await ends a step: a request *)
(* reads the clock, then the key row, then inserts the nonce, and the      *)
(* clock, the purge, a revocation or the same request sent again may come  *)
(* between.  A message is what a client signed; anybody may send it again. *)
(* Signatures and tokens are not forged: a message is signed or it is not. *)
(* The database and the API process read one clock.                        *)
(***************************************************************************)
EXTENDS Services

CONSTANTS
    Servers,       \* requests being served at the same time
    KeyIds,        \* ids that newKeyId may give
    Messages,      \* records [key, nonce, timestamp, signed]
    TOLERANCE,     \* TIMESTAMP_TOLERANCE_S
    RETENTION_S,   \* NONCE_RETENTION_S
    SESSION_TTL,
    MAX_ACTIVE_KEYS,
    FAILURES,      \* FAILURES_PER_MINUTE
    KEY_REQUESTS,  \* REQUESTS_PER_KEY_PER_MINUTE
    RATE_WINDOW,   \* the minute
    MaxClock       \* bound

ASSUME ApiAccessAssumption ==
    /\ TOLERANCE \in Nat
    /\ RETENTION_S = 2 * TOLERANCE
    /\ SESSION_TTL \in Nat /\ MAX_ACTIVE_KEYS \in Nat
    /\ FAILURES \in Nat /\ KEY_REQUESTS \in Nat /\ RATE_WINDOW \in Nat /\ MaxClock \in Nat
    /\ Messages \subseteq [key : KeyIds, nonce : STRING, timestamp : Nat, signed : BOOLEAN]
    /\ None \notin Nat

VARIABLES
    clock,
    apiKeys,     \* party_api_key.status, "none" for an id not given yet
    nonces,      \* api_key_nonce: per <<key, nonce>> its created_at, or None
    apiRequests, \* per server: the request it is in, and the clock it read
    session,     \* when the party's session token was minted, or None
    failed,      \* failures: [count, resetAt] of the one address
    used,        \* perKey: [count, resetAt] per key
    admitted,    \* ghost: per message, the times it was let in
    accessFaults

accessVars == <<clock, apiKeys, nonces, apiRequests, session, failed, used, admitted, accessFaults>>

NonceKeys == {<<m.key, m.nonce>> : m \in Messages}

Waiting == [at |-> "waiting", msg |-> None, readAt |-> 0]

Closed == [count |-> 0, resetAt |-> 0]

AccessInit ==
    /\ clock = 0
    /\ apiKeys = [k \in KeyIds |-> "none"]
    /\ nonces = [n \in NonceKeys |-> None]
    /\ apiRequests = [s \in Servers |-> Waiting]
    /\ session = None
    /\ failed = Closed
    /\ used = [k \in KeyIds |-> Closed]
    /\ admitted = [m \in Messages |-> {}]
    /\ accessFaults = 0

-----------------------------------------------------------------------------
(* RateWindow *)
Count(window) == IF window.resetAt > clock THEN window.count ELSE 0

Hit(window) ==
    IF window.resetAt <= clock THEN [count |-> 1, resetAt |-> clock + RATE_WINDOW]
    ELSE [window EXCEPT !.count = @ + 1]

Serve(s, step) == apiRequests' = [apiRequests EXCEPT ![s] = step]

UnderFailureLimit == Count(failed) <= FAILURES

(* verifyApiKeyRequest reads the clock, unless the address has failed too  *)
(* often.                                                                  *)
SignedArrives(s, m) ==
    /\ apiRequests[s].at = "waiting"
    /\ UnderFailureLimit
    /\ Serve(s, [at |-> "verify", msg |-> m, readAt |-> clock])
    /\ UNCHANGED <<clock, apiKeys, nonces, session, failed, used, admitted, accessFaults>>

Fresh(req) ==
    /\ req.readAt - req.msg.timestamp <= TOLERANCE
    /\ req.msg.timestamp - req.readAt <= TOLERANCE

(* The key row is there and active, the timestamp fresh against the clock  *)
(* read before, the signature right; else a failure is counted.            *)
VerifySigned(s) ==
    LET req == apiRequests[s]
        ok  == apiKeys[req.msg.key] = "active" /\ Fresh(req) /\ req.msg.signed
    IN  /\ req.at = "verify"
        /\ Serve(s, IF ok THEN [req EXCEPT !.at = "insert"] ELSE Waiting)
        /\ failed' = IF ok THEN failed ELSE Hit(failed)
        /\ UNCHANGED <<clock, apiKeys, nonces, session, used, admitted, accessFaults>>

(* The nonce is inserted, or the request is a replay; a first use is let   *)
(* in unless the key has used up its minute.                               *)
UseNonce(s) ==
    LET req == apiRequests[s]
        n   == <<req.msg.key, req.msg.nonce>>
        u   == Hit(used[req.msg.key])
    IN  /\ req.at = "insert"
        /\ Serve(s, Waiting)
        /\ \/ /\ nonces[n] # None
              /\ failed' = Hit(failed)
              /\ UNCHANGED <<nonces, used, admitted>>
           \/ /\ nonces[n] = None
              /\ nonces' = [nonces EXCEPT ![n] = clock]
              /\ used' = [used EXCEPT ![req.msg.key] = u]
              /\ admitted' = IF u.count > 1 /\ u.count > KEY_REQUESTS THEN admitted
                             ELSE [admitted EXCEPT ![req.msg] = @ \cup {clock}]
              /\ UNCHANGED failed
        /\ UNCHANGED <<clock, apiKeys, session, accessFaults>>

(* Mutant: nonces are kept only as long as the tolerance. *)
PurgeAfterTolerance ==
    /\ nonces' = [n \in NonceKeys |->
           IF nonces[n] # None /\ nonces[n] < clock - TOLERANCE THEN None ELSE nonces[n]]
    /\ UNCHANGED <<clock, apiKeys, apiRequests, session, failed, used, admitted, accessFaults>>

(* purgeExpiredNonces, on a timer of its own. *)
PurgeExpiredNonces ==
    /\ nonces' = [n \in NonceKeys |->
           IF nonces[n] # None /\ nonces[n] < clock - RETENTION_S THEN None ELSE nonces[n]]
    /\ UNCHANGED <<clock, apiKeys, apiRequests, session, failed, used, admitted, accessFaults>>

-----------------------------------------------------------------------------
(* verifySessionToken: a token is good for twelve hours. *)
Unexpired(minted) == clock < minted + SESSION_TTL

(* The bearer token of the request is one of the party's. *)
HasSession == IF session = None THEN FALSE ELSE Unexpired(session)

(* A SEP-10 challenge signed in time (or dev-login) mints a token. *)
Login ==
    /\ ~HasSession
    /\ session' = clock
    /\ UNCHANGED <<clock, apiKeys, nonces, apiRequests, failed, used, admitted, accessFaults>>

Active == {k \in KeyIds : apiKeys[k] = "active"}

(* POST /v1/api-keys counts, then inserts. *)
CountKeys(s) ==
    /\ apiRequests[s].at = "waiting"
    /\ HasSession
    /\ Cardinality(Active) < MAX_ACTIVE_KEYS
    /\ Serve(s, [Waiting EXCEPT !.at = "create"])
    /\ UNCHANGED <<clock, apiKeys, nonces, session, failed, used, admitted, accessFaults>>

CreateKey(s, k) ==
    /\ apiRequests[s].at = "create"
    /\ apiKeys[k] = "none"
    /\ apiKeys' = [apiKeys EXCEPT ![k] = "active"]
    /\ Serve(s, Waiting)
    /\ UNCHANGED <<clock, nonces, session, failed, used, admitted, accessFaults>>

RevokeKey(k) ==
    /\ HasSession
    /\ apiKeys[k] # "none"
    /\ apiKeys' = [apiKeys EXCEPT ![k] = "revoked"]
    /\ UNCHANGED <<clock, nonces, apiRequests, session, failed, used, admitted, accessFaults>>

(* A query throws and the request with it. *)
RequestThrows(s) ==
    /\ apiRequests[s].at # "waiting"
    /\ accessFaults < MaxFaults
    /\ accessFaults' = accessFaults + 1
    /\ Serve(s, Waiting)
    /\ UNCHANGED <<clock, apiKeys, nonces, session, failed, used, admitted>>

ClockTicks ==
    /\ clock < MaxClock
    /\ clock' = clock + 1
    /\ UNCHANGED <<apiKeys, nonces, apiRequests, session, failed, used, admitted, accessFaults>>

AccessNext ==
    \/ \E s \in Servers :
           \/ \E m \in Messages : SignedArrives(s, m)
           \/ VerifySigned(s) \/ UseNonce(s)
           \/ CountKeys(s) \/ RequestThrows(s)
           \/ \E k \in KeyIds : CreateKey(s, k)
    \/ \E k \in KeyIds : RevokeKey(k)
    \/ PurgeExpiredNonces \/ Login \/ ClockTicks

AccessSpec == AccessInit /\ [][AccessNext]_accessVars

-----------------------------------------------------------------------------
(* Properties *)

(* A signed request is let in at most once while its timestamp is valid:   *)
(* the purge never forgets a nonce that a replay could still use, however  *)
(* early the first use and however slow each check.                        *)
NoReplayWhileValid ==
    \A m \in Messages :
        LET inTime == {t \in admitted[m] : t <= m.timestamp + TOLERANCE}
        IN  \A t, u \in inTime : t = u

=============================================================================
