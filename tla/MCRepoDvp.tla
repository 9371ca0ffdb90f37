----------------------------- MODULE MCRepoDvp ------------------------------
(***************************************************************************)
(* Constants for model checking RepoDvp: basis points out of 10, whole     *)
(* prices, a year of one second and one-second ledgers, so that one ledger *)
(* already owes interest and an expiry bucket is one ledger.               *)
(***************************************************************************)
EXTENDS RepoDvp

Ladder(w, m, l) == [warning_bps |-> w, margin_call_bps |-> m, liquidation_bps |-> l]

OneConfig == {[haircut_bps |-> 0, thresholds |-> Ladder(5, 7, 9)]}

Reading(v, s) == [value |-> v, status |-> s]

OnePrice == {Reading(3, "Ok")}

TwoPrices == {Reading(1, "Ok"), Reading(3, "Ok")}

PriceSwings == {Reading(1, "Ok"), Reading(3, "Ok"), Reading(3, "Degraded")}

Offer(units, cash, rate, maturity) ==
    [asset |-> "rwa", units |-> units, cash_amount |-> cash, rate_bps |-> rate,
     maturity_at |-> maturity]

(* One offer for the life of a single trade; a long and a short one for    *)
(* trades that run side by side.                                           *)
OneOffer == {Offer(1, 2, 5, 2)}

LongAndShort == {Offer(2, 2, 5, 2), Offer(1, 1, 5, 1)}

AllOffers == OneOffer \cup LongAndShort

-----------------------------------------------------------------------------
(***************************************************************************)
(* Two scenarios in one run.  "life" follows a single trade through every  *)
(* call, with degraded prices, both scopes of a stop and changing grace    *)
(* periods; "trades" runs a long and a short trade side by side while the  *)
(* price swings, with one scope of a stop and one ledger less.             *)
(***************************************************************************)
VARIABLE scenario

TermsOf(t) == Offer(t.units, t.cash_amount, t.rate_bps, t.maturity_at)

NewIds == {id \in Id : trades[id] = None /\ trades'[id] # None}

InLife ==
    /\ nextId' <= 1
    /\ \A id \in NewIds : TermsOf(trades'[id]) \in OneOffer

InTrades ==
    /\ sequence' <= 3
    /\ \A id \in NewIds : TermsOf(trades'[id]) \in LongAndShort
    /\ \A id \in Id : trades[id] # None => trades'[id].units = trades[id].units
    /\ paused' \subseteq {"Repos"}
    /\ \A id \in Id : pendingUnpause'[id] # None => pendingUnpause'[id].scope = "Repos"
    /\ UNCHANGED <<cureGrace, maturityGrace>>
    /\ price' \in [Asset -> TwoPrices]

ScenarioInit ==
    /\ RepoInit
    /\ \/ scenario = "life"
       \/ scenario = "trades" /\ price \in [Asset -> TwoPrices]

ScenarioNext ==
    /\ RepoNext
    /\ UNCHANGED scenario
    /\ IF scenario = "life" THEN InLife ELSE InTrades

ScenarioSpec == ScenarioInit /\ [][ScenarioNext]_<<repoVars, scenario>>

=============================================================================
