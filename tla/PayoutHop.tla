------------------------------ MODULE PayoutHop ------------------------------
(***************************************************************************)
(* services/payout-hop: the operator's account forwards USDC that a first  *)
(* transaction (the "first leg") brought in to an anchor.                  *)
(*                                                                         *)
(* A request is checked against the operator's policy and the first leg,   *)
(* claims the first leg's hash in payout_forward, submits one payment and  *)
(* books it.  Each await ends a step, so requests interleave with one      *)
(* another, with the repair and with the network, and a process may die    *)
(* between any two steps.  The network is external: it queues one          *)
(* transaction per account and closes it, drops it or fails it later.      *)
(***************************************************************************)
EXTENDS Services

CONSTANTS
    Legs,         \* first-leg hashes
    FirstLegs,    \* per leg: what the network says of it
    Requests,     \* the bodies of POST /internal/payout-hop/forward
    Policy,       \* PayoutPolicy
    InternalToken,
    Workers,      \* requests served at the same time
    MaxRequests   \* bound on requests

ASSUME RequestAssumption ==
    /\ \A r \in Requests : r.leg \in Legs /\ r.amount \in Int
    /\ None \notin [leg : Legs]
    /\ MaxRequests \in Nat

(* A quote is filled by one exit, so requests that name it name its leg.   *)
ASSUME QuoteAssumption ==
    \A q, r \in Requests : q.quoteId = r.quoteId /\ q.quoteId # None => q.leg = r.leg

VARIABLES
    payouts,   \* table payout_forward
    workers,   \* per request being served: where forwardPayout stands
    journal,   \* per ref_id: what is booked to the two accounts
    exitFills, \* per quote: rows of exit_fill
    sequence,  \* the operator account's sequence number
    queued,    \* the operator's payment in the network's queue
    landings,  \* per leg: payments that closed on the ledger
    doubts,    \* per leg: accepted payments whose answer was lost
    requested, \* requests so far
    hopFaults

payoutVars == <<payouts, workers, journal, exitFills, sequence, queued,
                landings, doubts, requested, hopFaults>>

(* `quoteId` where the request has one, else a random id: here the leg and *)
(* the number of the request, which is as unique.                          *)
Quotes == {r.quoteId : r \in Requests} \ {None}
RefIds == Quotes \union (Legs \X (1 .. MaxRequests))

(* The id of a quote is no such random id. *)
ASSUME RefIdAssumption == Quotes \cap (Legs \X Nat) = {}

NoPayout == [status |-> "none", amount |-> 0, refId |-> None, quoteId |-> None,
             txHash |-> FALSE]

Resting == [at |-> "resting", req |-> None, refId |-> None, seq |-> 0]

(* The larger of the two ways of counting what the operator received: the  *)
(* classic payments in the envelope and the transfer events of the USDC    *)
(* contract, which may include the same payments.                          *)
UsdcReceived(leg) ==
    IF leg.payments > leg.transfers THEN leg.payments ELSE leg.transfers

(* RpcFirstLegVerifier.verify.  A refusal and an unreachable node leave no *)
(* row behind, so they are no step.                                        *)
FirstLegBacks(req) ==
    LET leg == FirstLegs[req.leg] IN
    /\ leg.status = "SUCCESS"
    /\ UsdcReceived(leg) > 0
    /\ UsdcReceived(leg) >= req.amount

CheckPolicy(req) ==
    /\ req.to \in Policy.allowedDestinations
    /\ req.issuer = Policy.usdcIssuer
    /\ req.amount > 0
    /\ req.amount <= Policy.maxAmount
    /\ req.memoFits

(* requireInternalToken answers 401 before any route is reached.           *)
Authorized(req) == req.token = InternalToken

PayoutInit ==
    /\ payouts = [l \in Legs |-> NoPayout]
    /\ workers = [w \in Workers |-> Resting]
    /\ journal = [r \in RefIds |-> [usdc_cash |-> 0, payout_hop |-> 0]]
    /\ exitFills = [q \in Quotes |-> 0]
    /\ sequence = 0
    /\ queued = None
    /\ landings = [l \in Legs |-> 0]
    /\ doubts = [l \in Legs |-> 0]
    /\ requested = 0
    /\ hopFaults = 0

HopFault == hopFaults < MaxFaults /\ hopFaults' = hopFaults + 1

GoTo(w, at) == workers' = [workers EXCEPT ![w].at = at]
Leave(w) == workers' = [workers EXCEPT ![w] = Resting]

(* POST /internal/payout-hop/forward up to the claim: token, policy, first *)
(* leg, and the id the payout will be booked under.                        *)
Verify(w) ==
    /\ workers[w].at = "resting"
    /\ requested < MaxRequests
    /\ requested' = requested + 1
    /\ \E req \in Requests :
        /\ Authorized(req) /\ CheckPolicy(req) /\ FirstLegBacks(req)
        /\ workers' = [workers EXCEPT ![w] =
             [at |-> "verified", req |-> req, seq |-> 0,
              refId |-> IF req.quoteId # None THEN req.quoteId
                        ELSE <<req.leg, requested + 1>>]]
    /\ UNCHANGED <<payouts, journal, exitFills, sequence, queued, landings,
                   doubts, hopFaults>>

(* Mutant: a leg somebody is paying right now can be claimed too.          *)
ClaimableUnsent(l) == payouts[l].status # "sent"

(* The claim: an insert that the primary key refuses for a known leg, then *)
(* an update that takes over a failed row; else DuplicatePayoutError.      *)
Claimable(l) == payouts[l].status \in {"none", "failed"}

Claim(w) ==
    /\ workers[w].at = "verified"
    /\ LET req == workers[w].req
           l == req.leg IN
       \/ /\ Claimable(l)
          /\ payouts' = [payouts EXCEPT ![l] =
               [@ EXCEPT !.status = "claimed", !.amount = req.amount,
                         !.refId = workers[w].refId, !.quoteId = req.quoteId]]
          /\ GoTo(w, "claimed")
       \/ /\ ~Claimable(l)
          /\ Leave(w)
          /\ UNCHANGED payouts
    /\ UNCHANGED <<journal, exitFills, sequence, queued, landings, doubts,
                   requested, hopFaults>>

LoadSequenceAccount(w) ==
    /\ workers[w].at = "claimed"
    /\ workers' = [workers EXCEPT ![w].at = "loaded", ![w].seq = sequence]
    /\ UNCHANGED <<payouts, journal, exitFills, sequence, queued, landings,
                   doubts, requested, hopFaults>>

(* sendTransaction's answer: PENDING, TRY_AGAIN_LATER (the account has a   *)
(* transaction in the queue already) and ERROR (the sequence number is     *)
(* gone).  Only ERROR counts as a failure.                                 *)
Accepts(w) == queued = None /\ workers[w].seq = sequence

SignAndSubmit(w) ==
    /\ workers[w].at = "loaded"
    /\ \/ /\ Accepts(w)
          /\ queued' = [leg |-> workers[w].req.leg]
          /\ GoTo(w, "accepted")
       \/ /\ queued # None
          /\ UNCHANGED queued
          /\ GoTo(w, "accepted")
       \/ /\ queued = None /\ workers[w].seq # sequence
          /\ UNCHANGED queued
          /\ GoTo(w, "refused")
    /\ UNCHANGED <<payouts, journal, exitFills, sequence, landings, doubts,
                   requested, hopFaults>>

(* The sequence lookup, the signer or the submission throws; a submission  *)
(* may have reached the network before its answer was lost.                *)
SubmissionThrows(w) ==
    /\ HopFault
    /\ \/ /\ workers[w].at \in {"claimed", "loaded"}
          /\ UNCHANGED <<queued, doubts>>
       \/ /\ workers[w].at = "loaded"
          /\ Accepts(w)
          /\ queued' = [leg |-> workers[w].req.leg]
          /\ doubts' = [doubts EXCEPT ![workers[w].req.leg] = @ + 1]
    /\ GoTo(w, "refused")
    /\ UNCHANGED <<payouts, journal, exitFills, sequence, landings, requested>>

(* The catch block: the row becomes `failed` and may be claimed again.     *)
MarkFailed(w) ==
    /\ workers[w].at = "refused"
    /\ payouts' = [payouts EXCEPT ![workers[w].req.leg].status = "failed"]
    /\ Leave(w)
    /\ UNCHANGED <<journal, exitFills, sequence, queued, landings, doubts,
                   requested, hopFaults>>

(* recordJournalEntry, twice: the pair of entries under one ref_id.        *)
BookPair(refId, amount) ==
    journal' = [journal EXCEPT ![refId] =
        [usdc_cash |-> @.usdc_cash + amount, payout_hop |-> @.payout_hop + amount]]

BookPayout(p) ==
    /\ BookPair(p.refId, p.amount)
    /\ exitFills' = IF p.quoteId = None THEN exitFills
                    ELSE [exitFills EXCEPT ![p.quoteId] = @ + 1]

(* One transaction marks the row sent and books it.  It may abort, or      *)
(* commit and lose its acknowledgement: both look the same from here.      *)
Commit(w) ==
    LET req == workers[w].req IN
    /\ payouts' = [payouts EXCEPT ![req.leg].status = "sent", ![req.leg].txHash = TRUE]
    /\ BookPayout([refId |-> workers[w].refId, quoteId |-> req.quoteId, amount |-> req.amount])

Book(w) ==
    /\ workers[w].at = "accepted"
    /\ \/ Commit(w) /\ Leave(w) /\ UNCHANGED hopFaults
       \/ Commit(w) /\ GoTo(w, "unbooked") /\ HopFault
       \/ /\ UNCHANGED <<payouts, journal, exitFills>>
          /\ GoTo(w, "unbooked") /\ HopFault
    /\ UNCHANGED <<sequence, queued, landings, doubts, requested>>

MarkUnbooked(w) ==
    /\ workers[w].at = "unbooked"
    /\ payouts' = [payouts EXCEPT
         ![workers[w].req.leg].status = "bookkeeping_pending",
         ![workers[w].req.leg].txHash = TRUE]
    /\ Leave(w)
    /\ UNCHANGED <<journal, exitFills, sequence, queued, landings, doubts,
                   requested, hopFaults>>

(* The process dies, or the write of MarkFailed or MarkUnbooked throws:    *)
(* the row stays as it is.                                                 *)
Die(w) ==
    /\ workers[w].at # "resting"
    /\ HopFault
    /\ Leave(w)
    /\ UNCHANGED <<payouts, journal, exitFills, sequence, queued, landings,
                   doubts, requested>>

(* Mutant: the journal is not looked at.                                   *)
NeverBooked(refId) == FALSE

(* bookPendingPayouts, one row: the conditional update, the look at the    *)
(* journal and the booking share a transaction.                            *)
AlreadyBooked(refId) == journal[refId].usdc_cash > 0 \/ journal[refId].payout_hop > 0

Repair(l) ==
    /\ payouts[l].status = "bookkeeping_pending"
    /\ payouts' = [payouts EXCEPT ![l].status = "sent"]
    /\ IF AlreadyBooked(payouts[l].refId) THEN UNCHANGED <<journal, exitFills>>
       ELSE payouts[l].txHash /\ BookPayout(payouts[l])
    /\ UNCHANGED <<workers, sequence, queued, landings, doubts, requested,
                   hopFaults>>

(* What the network does with the queued payment: it closes and pays, it   *)
(* closes and fails, or its 30 seconds pass.                               *)
NetworkCloses ==
    /\ queued # None
    /\ queued' = None
    /\ \/ /\ sequence' = sequence + 1
          /\ landings' = [landings EXCEPT ![queued.leg] = @ + 1]
       \/ sequence' = sequence + 1 /\ UNCHANGED landings
       \/ UNCHANGED <<sequence, landings>>
    /\ UNCHANGED <<payouts, workers, journal, exitFills, doubts, requested,
                   hopFaults>>

PayoutNext ==
    \/ \E w \in Workers :
         \/ Verify(w) \/ Claim(w) \/ LoadSequenceAccount(w) \/ SignAndSubmit(w)
         \/ SubmissionThrows(w) \/ MarkFailed(w) \/ Book(w) \/ MarkUnbooked(w)
         \/ Die(w)
    \/ \E l \in Legs : Repair(l)
    \/ NetworkCloses

PayoutSpec == PayoutInit /\ [][PayoutNext]_payoutVars

-----------------------------------------------------------------------------
(* Properties.                                                             *)

(* Booked means: both accounts of the row's ref_id carry its amount, once, *)
(* and its quote has one exit_fill.                                        *)
Booked(p) ==
    /\ journal[p.refId] = [usdc_cash |-> p.amount, payout_hop |-> p.amount]
    /\ p.quoteId # None => exitFills[p.quoteId] = 1

(* hop.ts:222: `sent` always means booked - whatever order requests,       *)
(* retries, lost acknowledgements, deaths and repairs come in - and        *)
(* nothing but a sent payout, or one that waits for the repair, is booked. *)
SentMeansBooked ==
    /\ \A l \in Legs : payouts[l].status = "sent" => Booked(payouts[l])
    /\ \A r \in RefIds : journal[r].usdc_cash > 0 =>
         \E l \in Legs : /\ payouts[l].refId = r
                         /\ payouts[l].status \in {"sent", "bookkeeping_pending"}
                         /\ Booked(payouts[l])

(* A leg is paid again only when the answer to an accepted payment was     *)
(* lost: claims alone never pay twice (hop.ts:158).                        *)
PaidOnceUnlessInDoubt ==
    \A l \in Legs :
        landings[l] + (IF queued = [leg |-> l] THEN 1 ELSE 0) <= 1 + doubts[l]

(* The claim table keeps the promise of OnceOnly: a leg is held by one     *)
(* request, a failed one is free again, and an accepted one is done for    *)
(* good with the amount and the ref_id it was claimed with.                *)
PayoutSlot(p) ==
    CASE p.status \in {"none", "failed"} -> "free"
      [] p.status = "claimed" -> "held"
      [] OTHER -> "done"

PayoutClaims == INSTANCE OnceOnly WITH
    Key <- Legs,
    NoAnswer <- None,
    slot <- [l \in Legs |-> PayoutSlot(payouts[l])],
    answer <- [l \in Legs |-> IF PayoutSlot(payouts[l]) = "done"
                              THEN <<payouts[l].amount, payouts[l].refId>>
                              ELSE None]

PayoutClaimsOnce == PayoutClaims!OnceSpec

=============================================================================
