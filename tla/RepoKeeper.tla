----------------------------- MODULE RepoKeeper -----------------------------
(***************************************************************************)
(* services/keeper jobs/repoMargin.ts and jobs/repoUnwind.ts for one       *)
(* settled repo trade: they read the trade from the RepoDvp contract, call *)
(* the contract and book the outcome in repo_trade and repo_margin_call,   *)
(* beside the borrower, whose top-up the API books when its intent is      *)
(* settled (intents.ts).                                                   *)
(*                                                                         *)
(* Each await ends a step, and the two jobs overlap when one of them was   *)
(* abandoned at its deadline (KeeperQueue).  The contract is RepoDvp's,    *)
(* reduced to the trade's status, its margin call and whether the position *)
(* is in the margin-call band; a call it refuses throws.                   *)
(***************************************************************************)
EXTENDS Services

CONSTANTS
    MATURITY,   \* when the trade matures
    GRACE,      \* the contract's cure window
    MaxCallRows,\* bound on margin calls on record
    MaxRepoTime \* bound

ASSUME RepoKeeperAssumption ==
    MATURITY \in Nat /\ GRACE \in Nat /\ MaxCallRows \in Nat /\ MaxRepoTime \in Nat

VARIABLES
    repoTime,
    trade,      \* RepoDvp: status, called (pending_margin_call), deadline
    band,       \* the position is in the margin-call band or worse
    priceOk,    \* the guarded price can be used
    tradeRow,   \* repo_trade.status
    openCalls,  \* repo_margin_call rows without cured_at
    topUp,      \* the borrower's top-up: in flight, landed, or read and to be booked
    marginJob,  \* where runRepoMarginJob is, and what it has read
    unwindJob,  \* where runRepoUnwindJob is
    repoFaults

repoKeeperVars == <<repoTime, trade, band, priceOk, tradeRow, openCalls, topUp, marginJob,
                    unwindJob, repoFaults>>

repoMarket == <<repoTime, band, priceOk>>

repoBooks == <<tradeRow, openCalls, topUp>>

NoMarginRun == [at |-> "idle", now |-> 0, trade |-> None]

RepoKeeperInit ==
    /\ repoTime = 0
    /\ trade = [status |-> "Settled", called |-> FALSE, deadline |-> None]
    /\ band = FALSE
    /\ priceOk = TRUE
    /\ tradeRow = "settled"
    /\ openCalls = 0
    /\ topUp = "none"
    /\ marginJob = NoMarginRun
    /\ unwindJob = "idle"
    /\ repoFaults = 0

RepoFault == repoFaults < MaxFaults /\ repoFaults' = repoFaults + 1

(* A submission whose transaction landed returns, or throws all the same. *)
MarginReturns(next) ==
    \/ marginJob' = [marginJob EXCEPT !.at = next] /\ UNCHANGED repoFaults
    \/ marginJob' = NoMarginRun /\ RepoFault

UnwindReturns(next) ==
    \/ unwindJob' = next /\ UNCHANGED repoFaults
    \/ unwindJob' = "idle" /\ RepoFault

-----------------------------------------------------------------------------
(* runRepoMarginJob *)

(* The settled rows are read, and the clock. *)
MarginStarts ==
    /\ marginJob.at = "idle"
    /\ tradeRow = "settled"
    /\ marginJob' = [at |-> "trade", now |-> repoTime, trade |-> None]
    /\ UNCHANGED <<repoMarket, trade, repoBooks, unwindJob, repoFaults>>

(* A trade that has ended is left, after a default has been booked. *)
MarginReadsTrade ==
    /\ marginJob.at = "trade"
    /\ marginJob' =
           CASE trade.status = "Settled" -> [marginJob EXCEPT !.at = "view", !.trade = trade]
             [] trade.status = "Defaulted" -> [marginJob EXCEPT !.at = "book default"]
             [] OTHER -> NoMarginRun
    /\ UNCHANGED <<repoMarket, trade, repoBooks, unwindJob, repoFaults>>

(* margin_view, and what to do about it: close a call that was not cured   *)
(* in time, open or clear one, or nothing.                                 *)
MarginDecision ==
    LET t == marginJob.trade
    IN  CASE ~ priceOk -> NoMarginRun
          [] priceOk /\ t.called /\ band /\ marginJob.now >= t.deadline ->
                 [marginJob EXCEPT !.at = "default_close"]
          [] OTHER -> IF band # t.called THEN [marginJob EXCEPT !.at = "call_margin"]
                      ELSE NoMarginRun

MarginViews ==
    /\ marginJob.at = "view"
    /\ marginJob' = MarginDecision
    /\ UNCHANGED <<repoMarket, trade, repoBooks, unwindJob, repoFaults>>

MarginDefaultCloses ==
    /\ marginJob.at = "default_close"
    /\ IF /\ trade.status = "Settled" /\ trade.called
          /\ repoTime >= trade.deadline /\ priceOk /\ band
       THEN trade' = [trade EXCEPT !.status = "Defaulted"] /\ MarginReturns("book default")
       ELSE marginJob' = NoMarginRun /\ UNCHANGED <<trade, repoFaults>>
    /\ UNCHANGED <<repoMarket, repoBooks, unwindJob>>

MarginBooksDefault ==
    /\ marginJob.at = "book default"
    /\ tradeRow' = "defaulted"
    /\ marginJob' = NoMarginRun
    /\ UNCHANGED <<repoMarket, trade, openCalls, topUp, unwindJob, repoFaults>>

(* call_margin: in the band a call is opened, or keeps its deadline; out   *)
(* of it an open one is cleared.                                           *)
MarginCalls ==
    /\ marginJob.at = "call_margin"
    /\ \/ /\ trade.status = "Settled" /\ priceOk /\ (band \/ trade.called)
          /\ trade' = IF ~ band THEN [trade EXCEPT !.called = FALSE, !.deadline = None]
                      ELSE IF trade.called THEN trade
                      ELSE [trade EXCEPT !.called = TRUE, !.deadline = repoTime + GRACE]
          /\ MarginReturns("read back")
       \/ /\ ~ (trade.status = "Settled" /\ priceOk /\ (band \/ trade.called))
          /\ marginJob' = NoMarginRun
          /\ UNCHANGED <<trade, repoFaults>>
    /\ UNCHANGED <<repoMarket, repoBooks, unwindJob>>

MarginReadsBack ==
    /\ marginJob.at = "read back"
    /\ marginJob' = [marginJob EXCEPT !.at = IF trade.called THEN "book call" ELSE "book cure"]
    /\ UNCHANGED <<repoMarket, trade, repoBooks, unwindJob, repoFaults>>

(* A row for the call, or cured_at on all open ones. *)
CallsBooked(cured) == IF cured THEN 0 ELSE openCalls + 1

MarginBooksCall ==
    /\ marginJob.at \in {"book call", "book cure"}
    /\ openCalls' = CallsBooked(marginJob.at = "book cure")
    /\ openCalls' <= MaxCallRows
    /\ marginJob' = NoMarginRun
    /\ UNCHANGED <<repoMarket, trade, tradeRow, topUp, unwindJob, repoFaults>>

(* A read or a write throws, or the keeper dies. *)
MarginFails ==
    /\ marginJob.at # "idle"
    /\ marginJob' = NoMarginRun
    /\ RepoFault
    /\ UNCHANGED <<repoMarket, trade, repoBooks, unwindJob>>

MarginStep ==
    \/ MarginStarts \/ MarginReadsTrade \/ MarginViews \/ MarginDefaultCloses
    \/ MarginBooksDefault \/ MarginCalls \/ MarginReadsBack \/ MarginBooksCall

-----------------------------------------------------------------------------
(* runRepoUnwindJob *)

UnwindStarts ==
    /\ unwindJob = "idle"
    /\ tradeRow = "settled"
    /\ MATURITY <= repoTime
    /\ unwindJob' = "trade"
    /\ UNCHANGED <<repoMarket, trade, repoBooks, marginJob, repoFaults>>

(* Mutant: a trade that has ended already is nothing to do. *)
AfterUnwindReadSkips == IF trade.status = "Settled" THEN "unwind" ELSE "idle"

AfterUnwindRead ==
    CASE trade.status = "Settled" -> "unwind"
      [] trade.status = "Unwound" -> "book unwound"
      [] trade.status = "Defaulted" -> "book defaulted"

UnwindReadsTrade ==
    /\ unwindJob = "trade"
    /\ unwindJob' = AfterUnwindRead
    /\ UNCHANGED <<repoMarket, trade, repoBooks, marginJob, repoFaults>>

(* unwind: refused when the borrower's allowance or balance is short. *)
UnwindSubmits ==
    /\ unwindJob = "unwind"
    /\ \/ /\ trade.status = "Settled"
          /\ trade' = [trade EXCEPT !.status = "Unwound"]
          /\ UnwindReturns("book unwound")
       \/ unwindJob' = "idle" /\ UNCHANGED <<trade, repoFaults>>
    /\ UNCHANGED <<repoMarket, repoBooks, marginJob>>

UnwindBooks ==
    /\ unwindJob \in {"book unwound", "book defaulted"}
    /\ tradeRow' = IF unwindJob = "book unwound" THEN "unwound" ELSE "defaulted"
    /\ unwindJob' = "idle"
    /\ UNCHANGED <<repoMarket, trade, openCalls, topUp, marginJob, repoFaults>>

UnwindFails ==
    /\ unwindJob # "idle"
    /\ unwindJob' = "idle"
    /\ RepoFault
    /\ UNCHANGED <<repoMarket, trade, repoBooks, marginJob>>

UnwindStep == UnwindStarts \/ UnwindReadsTrade \/ UnwindSubmits \/ UnwindBooks

-----------------------------------------------------------------------------
(* The price moves, into or out of the band, or stops being usable. *)
PriceMoves ==
    /\ band' \in BOOLEAN
    /\ priceOk' \in BOOLEAN
    /\ UNCHANGED <<repoTime, trade, repoBooks, marginJob, unwindJob, repoFaults>>

(* The borrower tops up: it takes the position out of the band or not, and *)
(* the contract clears the call when it does.                              *)
TopUpLands ==
    /\ topUp = "none"
    /\ trade.status = "Settled"
    /\ band' \in {band, FALSE}
    /\ trade' = IF trade.called /\ priceOk /\ ~ band'
                THEN [trade EXCEPT !.called = FALSE, !.deadline = None] ELSE trade
    /\ topUp' = "landed"
    /\ UNCHANGED <<repoTime, priceOk, tradeRow, openCalls, marginJob, unwindJob, repoFaults>>

(* The API settles the top-up: it reads the trade, then follows it. *)
TopUpRead ==
    /\ topUp = "landed"
    /\ topUp' = IF trade.called THEN "none" ELSE "cured"
    /\ UNCHANGED <<repoMarket, trade, tradeRow, openCalls, marginJob, unwindJob, repoFaults>>

TopUpBooks ==
    /\ topUp = "cured"
    /\ topUp' = "none"
    /\ openCalls' = 0
    /\ UNCHANGED <<repoMarket, trade, tradeRow, marginJob, unwindJob, repoFaults>>

(* The parties end the trade themselves, and the API does not always book  *)
(* it: default_at_maturity has no route.                                   *)
PartiesEndTrade ==
    /\ trade.status = "Settled"
    /\ MATURITY <= repoTime
    /\ \/ trade' = [trade EXCEPT !.status = "Unwound"]
       \/ /\ priceOk /\ MATURITY + GRACE <= repoTime
          /\ trade' = [trade EXCEPT !.status = "Defaulted"]
    /\ UNCHANGED <<repoMarket, repoBooks, marginJob, unwindJob, repoFaults>>

RepoClock ==
    /\ repoTime < MaxRepoTime
    /\ repoTime' = repoTime + 1
    /\ UNCHANGED <<trade, band, priceOk, repoBooks, marginJob, unwindJob, repoFaults>>

RepoKeeperNext ==
    \/ MarginStep \/ MarginFails \/ UnwindStep \/ UnwindFails
    \/ PriceMoves \/ TopUpLands \/ TopUpRead \/ TopUpBooks \/ PartiesEndTrade \/ RepoClock

(* Cron runs both jobs for ever, and time passes. *)
RepoKeeperFairness ==
    /\ WF_repoKeeperVars(MarginStep)
    /\ WF_repoKeeperVars(UnwindStep)
    /\ WF_repoKeeperVars(RepoClock)

RepoKeeperSpec ==
    RepoKeeperInit /\ [][RepoKeeperNext]_repoKeeperVars /\ RepoKeeperFairness

-----------------------------------------------------------------------------
(***************************************************************************)
(* However a trade ended, by the unwind job, by the margin job or by the   *)
(* parties, and whatever failed meanwhile, the books say so in the end     *)
(* (repoUnwind.ts:41-57, repoMargin.ts:57-63), and they never say it of a  *)
(* trade that ended otherwise.  (A trade that has ended stays ended, so    *)
(* "in the end" is: again and again, the books agree.)                     *)
(***************************************************************************)
EndedTradeBooked ==
    /\ []<>(trade.status = "Unwound" => tradeRow = "unwound")
    /\ []<>(trade.status = "Defaulted" => tradeRow = "defaulted")
    /\ [](tradeRow = "unwound" => trade.status = "Unwound")
    /\ [](tradeRow = "defaulted" => trade.status = "Defaulted")

=============================================================================
