----------------------------- MODULE MCRequests -----------------------------
(***************************************************************************)
(* Model checking what answers requests: the payout hop, the issuer        *)
(* gateway, the API's authentication and its compliance gate, and the      *)
(* ledger's reconciliation of what they leave behind.  Their models share  *)
(* no variable: what one needs of another is part of its own model.  So    *)
(* they are checked side by side in one state space, each from its own     *)
(* initial states: `focus` names the one that moves, and the others stay   *)
(* where they start.                                                       *)
(***************************************************************************)
EXTENDS PayoutHop, IssuerGateway, Reconciliation, ApiAccess, Compliance

CONSTANTS l1, l2, q2

VARIABLE focus

(* Two legs with two units each; the second is an exit whose quote has an  *)
(* id.  One request asks for more than its leg brought, one has a memo     *)
(* that does not fit and one does not know the token.                      *)
TwoUnitLegs == [l \in Legs |-> [status |-> "SUCCESS", payments |-> 0, transfers |-> 2]]

Request(leg, amount, quote) ==
    [leg |-> leg, to |-> "anchor", issuer |-> "usdc", amount |-> amount, quoteId |-> quote,
     memoFits |-> TRUE, token |-> "secret"]

SomeRequests ==
    {Request(l1, 2, None), Request(l2, 1, q2), Request(l1, 3, None),
     [Request(l1, 1, None) EXCEPT !.memoFits = FALSE],
     [Request(l2, 1, q2) EXCEPT !.token = "guess"]}

OneAnchor == [allowedDestinations |-> {"anchor"}, usdcIssuer |-> "usdc", maxAmount |-> 3]

(* Larger than the tolerance, so that one pledge too many is a break. *)
TwoUnitsEach == [p \in Pledges |-> 2]

(* One message, signed for a moment two seconds ahead, sent again and again. *)
OneMessage == {[key |-> "key", nonce |-> "nonce", timestamp |-> 2, signed |-> TRUE]}

-----------------------------------------------------------------------------
requestVars == <<payoutVars, gatewayVars, reconVars, accessVars, gateVars, focus>>

RequestsInit ==
    /\ PayoutInit /\ GatewayInit /\ ReconInit /\ AccessInit /\ ComplianceInit
    /\ focus \in {"payout", "gateway", "reconciliation", "access", "compliance"}

RequestsNext ==
    /\ UNCHANGED focus
    /\ \/ /\ focus = "payout" /\ PayoutNext
          /\ UNCHANGED <<gatewayVars, reconVars, accessVars, gateVars>>
       \/ /\ focus = "gateway" /\ GatewayNext
          /\ UNCHANGED <<payoutVars, reconVars, accessVars, gateVars>>
       \/ /\ focus = "reconciliation" /\ ReconNext
          /\ UNCHANGED <<payoutVars, gatewayVars, accessVars, gateVars>>
       \/ /\ focus = "access" /\ AccessNext
          /\ UNCHANGED <<payoutVars, gatewayVars, reconVars, gateVars>>
       \/ /\ focus = "compliance" /\ ComplianceNext
          /\ UNCHANGED <<payoutVars, gatewayVars, reconVars, accessVars>>

RequestsSpec == RequestsInit /\ [][RequestsNext]_requestVars

=============================================================================
