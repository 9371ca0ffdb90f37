--------------------------- MODULE RepoDvpProofs ----------------------------
(***************************************************************************)
(* Proofs about RepoDvp for every value of its constants.                  *)
(***************************************************************************)
EXTENDS RepoDvp, FiniteSums, TLAPS

-----------------------------------------------------------------------------
(* Arithmetic *)

(* A product of natural numbers is one, and grows with its factor. *)
LEMMA MulNat ==
    ASSUME NEW m \in Nat, NEW n \in Nat
    PROVE  m * n \in Nat
    OBVIOUS

LEMMA MulGrows ==
    ASSUME NEW k \in Nat, NEW m \in Nat, NEW n \in Nat, m <= n
    PROVE  k * m <= k * n
<1>1. PICK d \in Nat : n = m + d
    <2>1. n - m \in Nat /\ n = m + (n - m)
        OBVIOUS
    <2>2. QED
        BY <2>1
<1>2. k * n = k * m + k * d
    BY <1>1
<1>3. k * m \in Nat /\ k * d \in Nat
    BY <1>1, MulNat
<1>4. QED
    BY <1>2, <1>3

(* A quotient of natural numbers is one, and grows with the dividend. *)
LEMMA DivNat ==
    ASSUME NEW m \in Nat, NEW n \in Nat \ {0}
    PROVE  m \div n \in Nat
    OBVIOUS

LEMMA DivGrows ==
    ASSUME NEW k \in Nat \ {0}, NEW m \in Nat, NEW n \in Nat, m <= n
    PROVE  m \div k <= n \div k
    OBVIOUS

(* accrue_interest never returns a negative amount. *)
LEMMA InterestNat ==
    ASSUME NEW c \in Nat, NEW r \in Nat, NEW e \in Nat
    PROVE  AccrueInterest(c, r, e) \in Nat
<1>1. c * r * e \in Nat
    BY MulNat
<1>2. (c * r * e) \div SECONDS_PER_YEAR \in Nat
    BY <1>1, DivNat, RepoAssumption
<1>3. QED
    BY <1>2, DivNat, RiskAssumption DEF AccrueInterest

(* A longer term never costs less. *)
LEMMA InterestGrows ==
    ASSUME NEW c \in Nat, NEW r \in Nat, NEW e \in Nat, NEW f \in Nat, e <= f
    PROVE  AccrueInterest(c, r, e) <= AccrueInterest(c, r, f)
<1>1. c * r \in Nat
    BY MulNat
<1>2. c * r * e <= c * r * f /\ c * r * e \in Nat /\ c * r * f \in Nat
    BY <1>1, MulGrows, MulNat
<1>3. /\ (c * r * e) \div SECONDS_PER_YEAR <= (c * r * f) \div SECONDS_PER_YEAR
      /\ (c * r * e) \div SECONDS_PER_YEAR \in Nat
      /\ (c * r * f) \div SECONDS_PER_YEAR \in Nat
    BY <1>2, DivGrows, DivNat, RepoAssumption
<1>4. QED
    BY <1>3, DivGrows, RiskAssumption DEF AccrueInterest

(* What a trade owes is a natural number, from whenever it is counted. *)
LEMMA DueNat ==
    ASSUME NEW t \in RepoTrade, NEW from \in Nat
    PROVE  TotalDue(t, from) \in Nat
<1>1. t.cash_amount \in Nat /\ t.rate_bps \in Nat /\ t.maturity_at \in Nat
    BY DEF RepoTrade
<1>2. Elapsed(from, t.maturity_at) \in Nat
    BY <1>1 DEF Elapsed
<1>3. AccrueInterest(t.cash_amount, t.rate_bps, Elapsed(from, t.maturity_at)) \in Nat
    BY <1>1, <1>2, InterestNat
<1>4. QED
    BY <1>1, <1>3 DEF TotalDue

(* Counting from the proposal is a ceiling on what leg 2 can owe. *)
LEMMA CeilingBounds ==
    ASSUME NEW t \in RepoTrade, NEW s \in Nat, t.proposed_at <= s
    PROVE  TotalDue(t, s) <= TotalDue(t, t.proposed_at)
<1>1. /\ t.cash_amount \in Nat /\ t.rate_bps \in Nat /\ t.maturity_at \in Nat
      /\ t.proposed_at \in Nat
    BY DEF RepoTrade
<1> DEFINE e == Elapsed(s, t.maturity_at)
           f == Elapsed(t.proposed_at, t.maturity_at)
<1>2. e \in Nat /\ f \in Nat /\ e <= f
    BY <1>1 DEF Elapsed
<1>3. /\ AccrueInterest(t.cash_amount, t.rate_bps, e) \in Nat
      /\ AccrueInterest(t.cash_amount, t.rate_bps, f) \in Nat
      /\ AccrueInterest(t.cash_amount, t.rate_bps, e)
             <= AccrueInterest(t.cash_amount, t.rate_bps, f)
    BY <1>1, <1>2, InterestNat, InterestGrows
<1>4. QED
    BY <1>1, <1>3 DEF TotalDue

(* An allowance expiry is a ledger number. *)
LEMMA ExpiryNat ==
    ASSUME sequence \in Nat, NEW s \in Nat, NEW g \in Nat
    PROVE  AllowanceExpiry(s, g) \in Nat
<1>1. s \div SECONDS_PER_LEDGER \in Nat
    BY DivNat, RepoAssumption
<1>2. (sequence + s \div SECONDS_PER_LEDGER + g) \div ALLOWANCE_EXPIRY_BUCKET_LEDGERS \in Nat
    BY <1>1, DivNat, RepoAssumption
<1>3. sequence + MaxTtl - 1 \in Nat
    BY RepoAssumption
<1>4. (sequence + MaxTtl - 1) \div ALLOWANCE_EXPIRY_BUCKET_LEDGERS \in Nat
    BY <1>3, DivNat, RepoAssumption
<1>5. \A n \in Nat : n * ALLOWANCE_EXPIRY_BUCKET_LEDGERS \in Nat
    BY MulNat, RepoAssumption
<1>6. QED
    BY <1>2, <1>4, <1>5 DEF AllowanceExpiry

(* default_close and default_at_maturity: the lender's units cover what is *)
(* owed unless they are all there is, and one unit less would not cover.   *)
LEMMA LenderUnitsFair ==
    ASSUME NEW owed \in Nat, NEW p \in Nat \ {0}, NEW units \in Nat
    PROVE  /\ LenderUnits(owed, p, units) \in 0 .. units
           /\ LenderUnits(owed, p, units) < units
                  => LenderUnits(owed, p, units) * p >= owed * PRICE_SCALE
           /\ (LenderUnits(owed, p, units) - 1) * p < owed * PRICE_SCALE
<1> DEFINE o == owed * PRICE_SCALE
           q == (o + (p - 1)) \div p
<1>1. o \in Nat
    BY MulNat, RiskAssumption
<1>2. q \in Nat
    BY <1>1, DivNat
<1>3. q * p <= o + (p - 1) /\ o + (p - 1) < (q + 1) * p
    BY <1>1, <1>2
<1>4. (q + 1) * p = q * p + p /\ (q - 1) * p = q * p - p /\ q * p \in Nat
    BY <1>2, MulNat
<1>5. q * p >= o /\ (q - 1) * p < o
    BY <1>1, <1>3, <1>4
<1>6. LenderUnits(owed, p, units) = IF q <= units THEN q ELSE units
    BY DEF LenderUnits
<1>7. CASE q <= units
    BY <1>2, <1>5, <1>6, <1>7
<1>8. CASE ~(q <= units)
    <2>1. LenderUnits(owed, p, units) = units
        BY <1>6, <1>8
    <2>2. units <= q /\ units \in Nat
        BY <1>2, <1>8
    <2>3. p * units <= p * q
        BY <2>2, <1>2, MulGrows
    <2>4. (units - 1) * p = p * units - p /\ p * q = q * p /\ p * units \in Nat
        BY <1>2, MulNat
    <2>5. (units - 1) * p < o
        BY <2>3, <2>4, <1>4, <1>5, <1>1
    <2>6. QED
        BY <2>1, <2>5
<1>9. QED
    BY <1>7, <1>8
-----------------------------------------------------------------------------
(* The inductive invariant *)

(* What a call must know of the trade it writes. *)
TradeSound(t) ==
    /\ t \in RepoTrade
    /\ TradeInOrder(t)
    /\ assetConfig[t.asset] # None
    /\ t.proposed_at <= now
    /\ t.settled_at # None => t.settled_at <= now

(* The clock is a natural number of seconds. *)
LEMMA NowNat ==
    ASSUME sequence \in Nat
    PROVE  now \in Nat
    BY MulNat, RepoAssumption DEF now

(* Nothing is proposed, set or paused at first. *)
LEMMA RepoInitInv == RepoInit => RepoInv
<1> SUFFICES ASSUME RepoInit PROVE RepoInv
    OBVIOUS
<1>1. NoGrant \in Grant
    BY DEF NoGrant, Grant
<1>2. RepoTypeOK
    BY <1>1, RepoAssumption DEF RepoInit, RepoTypeOK, PauseScope
<1>3. QED
    BY <1>2, RepoAssumption DEF RepoInit, RepoInv, TradesInOrder

(* A call rewrites one trade: if it is sound and the rest keeps its type,  *)
(* the invariant is kept.                                                  *)
LEMMA WriteOneTrade ==
    ASSUME RepoInv,
           NEW id \in Id, NEW t,
           TradeSound(t),
           WriteTrade(id, t),
           pendingUnpause[id] = None,
           nextId' \in 0 .. MaxIds, nextId' >= nextId, id < nextId',
           latestProposal' \in [Party -> Id \cup {None}],
           borrowerDue' \in [Party -> Grant],
           allowance' \in [Party -> Grant],
           rwa' \in [Asset -> [Holder -> Int]],
           UNCHANGED <<sequence, price, settingVars, pauseVars>>
    PROVE  RepoInv'
<1>1. t \in RepoTrade /\ TradeInOrder(t)
    BY DEF TradeSound
<1>2. trades' \in [Id -> RepoTrade \cup {None}]
    BY <1>1 DEF RepoInv, RepoTypeOK, WriteTrade
<1>3. RepoTypeOK'
    BY <1>2 DEF RepoInv, RepoTypeOK, settingVars, pauseVars
<1>4. \A k \in Id : trades'[k] = IF k = id THEN t ELSE trades[k]
    BY DEF RepoInv, RepoTypeOK, WriteTrade
<1>5. TradesInOrder'
    BY <1>1, <1>4 DEF RepoInv, TradesInOrder
<1>6. now' = now
    BY DEF now
<1>7. ASSUME NEW k \in Id, trades'[k] # None
      PROVE  /\ k < nextId'
             /\ pendingUnpause'[k] = None
             /\ assetConfig'[trades'[k].asset] # None
             /\ trades'[k].proposed_at <= now'
             /\ trades'[k].settled_at # None => trades'[k].settled_at <= now'
    <2>1. CASE k = id
        BY <2>1, <1>4, <1>6 DEF TradeSound, settingVars, pauseVars
    <2>2. CASE k # id
        <3>1. trades'[k] = trades[k] /\ trades[k] # None
            BY <2>2, <1>4, <1>7
        <3>2. k < nextId /\ nextId \in Int /\ k \in Int
            BY <3>1, RepoAssumption DEF RepoInv, RepoTypeOK, Id
        <3>3. k < nextId'
            BY <3>2, RepoAssumption
        <3>4. QED
            BY <3>1, <3>3, <1>6 DEF RepoInv, settingVars, pauseVars
    <2>3. QED
        BY <2>1, <2>2
<1>8. \A k \in Id : pendingUnpause'[k] # None => k < nextId'
    BY DEF RepoInv, RepoTypeOK, Id, pauseVars
<1>9. QED
    BY <1>3, <1>5, <1>7, <1>8 DEF RepoInv, settingVars

(* A stored trade is sound. *)
LEMMA StoredSound ==
    ASSUME RepoInv, NEW id \in Id, trades[id] # None
    PROVE  /\ TradeSound(trades[id])
           /\ pendingUnpause[id] = None
           /\ id < nextId
           /\ now \in Nat
<1>1. now \in Nat
    BY NowNat DEF RepoInv, RepoTypeOK
<1>2. QED
    BY <1>1 DEF RepoInv, RepoTypeOK, TradesInOrder, TradeSound

(* A settled trade has its settlement time, and owes natural amounts. *)
LEMMA SettledOwes ==
    ASSUME RepoInv, NEW id \in Id, HasStatus(id, "Settled")
    PROVE  /\ TradeSound(trades[id])
           /\ trades[id].settled_at \in Nat
           /\ Due(trades[id]) \in Nat
           /\ Ceiling(trades[id]) \in Nat
           /\ Exposure(trades[id]) \in Nat
<1> DEFINE t == trades[id]
<1>1. trades[id] # None /\ t.status = "Settled"
    BY DEF HasStatus
<1>2. TradeSound(t) /\ now \in Nat
    BY <1>1, StoredSound
<1>3. t \in RepoTrade /\ t.settled_at # None
    BY <1>1, <1>2 DEF TradeSound, TradeInOrder
<1>4. t.settled_at \in Nat /\ t.proposed_at \in Nat /\ t.cash_amount \in Nat
      /\ t.rate_bps \in Nat
    BY <1>3 DEF RepoTrade
<1>5. Due(t) \in Nat /\ Ceiling(t) \in Nat
    BY <1>3, <1>4, DueNat DEF Due, Ceiling
<1>6. Elapsed(t.settled_at, now) \in Nat
    BY <1>2, <1>4 DEF Elapsed
<1>7. AccrueInterest(t.cash_amount, t.rate_bps, Elapsed(t.settled_at, now)) \in Nat
    BY <1>4, <1>6, InterestNat
<1>8. Exposure(t) \in Nat
    BY <1>4, <1>7 DEF Exposure
<1>9. QED
    BY <1>2, <1>4, <1>5, <1>8

(* Moving units keeps every holder's movement an integer. *)
LEMMA TransferType ==
    ASSUME NEW r \in [Asset -> [Holder -> Int]],
           NEW a \in Asset, NEW from \in Holder, NEW to \in Holder, NEW units \in Int
    PROVE  Transfer(r, a, from, to, units) \in [Asset -> [Holder -> Int]]
    BY DEF Transfer

(* Releasing a trade's ceiling keeps the borrower's record well formed. *)
LEMMA ReleaseType ==
    ASSUME borrowerDue \in [Party -> Grant], NEW t \in RepoTrade, Ceiling(t) \in Nat,
           ReleaseBorrowerDue(t)
    PROVE  borrowerDue' \in [Party -> Grant]
<1>1. t.borrower \in Party
    BY DEF RepoTrade
<1>2. borrowerDue[t.borrower].amount \in Nat /\ borrowerDue[t.borrower].live_until \in Nat
    BY <1>1 DEF Grant
<1>3. Larger(borrowerDue[t.borrower].amount - Ceiling(t), 0) \in Nat
    BY <1>2 DEF Larger
<1>4. DueRecord(Larger(borrowerDue[t.borrower].amount - Ceiling(t), 0),
                borrowerDue[t.borrower].live_until) \in Grant
    BY <1>2, <1>3 DEF DueRecord, NoGrant, Grant
<1>5. QED
    BY <1>4 DEF ReleaseBorrowerDue

(* A proposal is sound, and unsettled, when it is written. *)
LEMMA ProposeKeeps ==
    ASSUME RepoInv, NEW l \in Party, NEW b \in Party, NEW terms \in RepoTerms,
           Propose(l, b, terms)
    PROVE  RepoInv'
<1> DEFINE t ==
    [lender |-> l, borrower |-> b, asset |-> terms.asset,
     units |-> terms.units, cash_amount |-> terms.cash_amount,
     rate_bps |-> terms.rate_bps, maturity_at |-> terms.maturity_at,
     proposed_at |-> now, status |-> "Proposed", settled_at |-> None,
     pending_margin_call |-> FALSE, margin_call_amount |-> 0,
     cure_deadline |-> None]
<1>1. sequence \in Nat /\ now \in Nat /\ nextId \in Id
    BY NowNat DEF RepoInv, RepoTypeOK, Propose
<1>2. /\ terms.asset \in Asset /\ terms.units \in Nat /\ terms.cash_amount \in Nat
      /\ terms.rate_bps \in Nat /\ terms.maturity_at \in Nat
    BY DEF RepoTerms
<1>3. t \in RepoTrade
    BY <1>1, <1>2 DEF RepoTrade, RepoStatus
<1>4. TradeInOrder(t)
    BY DEF TradeInOrder
<1>5. assetConfig[terms.asset] # None
    BY DEF Propose
<1>6. TradeSound(t)
    BY <1>1, <1>3, <1>4, <1>5 DEF TradeSound
<1>7. terms.maturity_at - now \in Nat
    BY <1>1, <1>2 DEF Propose
<1>8. AllowanceExpiry(terms.maturity_at - now, 0) \in Nat
    BY <1>1, <1>7, ExpiryNat
<1>9. allowance' \in [Party -> Grant]
    BY <1>2, <1>8 DEF Propose, Approve, RepoInv, RepoTypeOK, Grant
<1>10. latestProposal' \in [Party -> Id \cup {None}]
    BY <1>1 DEF Propose, RepoInv, RepoTypeOK
<1>11. /\ nextId' \in 0 .. MaxIds /\ nextId' >= nextId /\ nextId < nextId'
    BY <1>1, RepoAssumption DEF Propose, Id
<1>12. pendingUnpause[nextId] = None
    BY <1>1, RepoAssumption DEF RepoInv, Id
<1>13. WriteTrade(nextId, t)
    BY DEF Propose
<1>14. /\ UNCHANGED <<sequence, price, settingVars, pauseVars>>
       /\ borrowerDue' \in [Party -> Grant] /\ rwa' \in [Asset -> [Holder -> Int]]
    BY DEF Propose, RepoInv, RepoTypeOK
<1>15. QED
    BY <1>1, <1>6, <1>9, <1>10, <1>11, <1>12, <1>13, <1>14, WriteOneTrade

(* What every call on an existing trade leaves to show. *)
LEMMA TradeCallKeeps ==
    ASSUME RepoInv, NEW id \in Id, trades[id] # None,
           NEW t, TradeSound(t), WriteTrade(id, t),
           UNCHANGED <<sequence, price, settingVars, pauseVars, nextId, latestProposal>>,
           borrowerDue' \in [Party -> Grant],
           allowance' \in [Party -> Grant],
           rwa' \in [Asset -> [Holder -> Int]]
    PROVE  RepoInv'
<1>1. pendingUnpause[id] = None /\ id < nextId
    BY StoredSound
<1>2. /\ nextId' \in 0 .. MaxIds /\ nextId' >= nextId /\ id < nextId'
      /\ latestProposal' \in [Party -> Id \cup {None}]
    BY <1>1, RepoAssumption DEF RepoInv, RepoTypeOK
<1>3. QED
    BY <1>1, <1>2, WriteOneTrade

LEMMA CancelKeeps ==
    ASSUME RepoInv, NEW caller \in Party, NEW id \in Id, CancelProposal(caller, id)
    PROVE  RepoInv'
<1> DEFINE t == trades[id]
           u == [t EXCEPT !.status = "Cancelled"]
<1>1. trades[id] # None /\ t.status = "Proposed"
    BY DEF CancelProposal, HasStatus
<1>2. TradeSound(t)
    BY <1>1, StoredSound
<1>3. t \in RepoTrade
    BY <1>2 DEF TradeSound
<1>4. u \in RepoTrade
    BY <1>3 DEF RepoTrade, RepoStatus
<1>5. t.settled_at = None /\ t.pending_margin_call = FALSE
    BY <1>1, <1>2, <1>3 DEF TradeSound, TradeInOrder, RepoTrade
<1>6. TradeInOrder(u)
    BY <1>2, <1>3, <1>5 DEF TradeSound, TradeInOrder, RepoTrade
<1>7. TradeSound(u)
    BY <1>2, <1>3, <1>4, <1>6 DEF TradeSound, RepoTrade
<1>8. AllowanceExpiry(0, 0) \in Nat
    BY ExpiryNat DEF RepoInv, RepoTypeOK
<1>9. allowance' \in [Party -> Grant]
    <2>1. allowance \in [Party -> Grant]
        BY DEF RepoInv, RepoTypeOK
    <2>2. [amount |-> 0, live_until |-> AllowanceExpiry(0, 0)] \in Grant
        BY <1>8 DEF Grant
    <2>3. \/ allowance' = [allowance EXCEPT ![t.lender] =
                [amount |-> 0, live_until |-> AllowanceExpiry(0, 0)]]
          \/ allowance' = allowance
        BY DEF CancelProposal, Approve
    <2>4. QED
        BY <2>1, <2>2, <2>3
<1>10. QED
    BY <1>1, <1>7, <1>9, TradeCallKeeps DEF CancelProposal, RepoInv, RepoTypeOK

LEMMA AcceptKeeps ==
    ASSUME RepoInv, NEW b \in Party, NEW id \in Id, AcceptAndSettle(b, id)
    PROVE  RepoInv'
<1> DEFINE t == trades[id]
           u == [t EXCEPT !.status = "Settled", !.settled_at = now]
           expiry == AllowanceExpiry(Elapsed(now, t.maturity_at),
                                     UNWIND_ALLOWANCE_GRACE_LEDGERS)
           grant == [amount |-> borrowerDue[b].amount + Ceiling(t),
                     live_until |-> Larger(expiry, borrowerDue[b].live_until)]
<1>1. trades[id] # None /\ t.status = "Proposed" /\ t.borrower = b
    BY DEF AcceptAndSettle, StillOpen, HasStatus
<1>2. TradeSound(t) /\ now \in Nat /\ sequence \in Nat
    BY <1>1, StoredSound DEF RepoInv, RepoTypeOK
<1>3. t \in RepoTrade
    BY <1>2 DEF TradeSound
<1>4. /\ t.lender \in Party /\ t.asset \in Asset /\ t.units \in Nat
      /\ t.cash_amount \in Nat /\ t.maturity_at \in Nat /\ t.proposed_at \in Nat
      /\ t.proposed_at <= now /\ now < t.maturity_at
    BY <1>2, <1>3 DEF RepoTrade, TradeSound, AcceptAndSettle, StillOpen
<1>5. u \in RepoTrade
    BY <1>2, <1>3 DEF RepoTrade, RepoStatus
<1>6. /\ u.proposed_at = t.proposed_at /\ u.maturity_at = t.maturity_at
      /\ u.settled_at = now /\ u.asset = t.asset /\ u.status = "Settled"
      /\ u.pending_margin_call = t.pending_margin_call
      /\ u.cure_deadline = t.cure_deadline
    BY <1>3 DEF RepoTrade
<1>7. Due(u) <= Ceiling(u)
    BY <1>2, <1>4, <1>5, <1>6, CeilingBounds DEF Due, Ceiling
<1>8. t.settled_at = None /\ t.pending_margin_call = FALSE /\ t.cure_deadline = None
    BY <1>1, <1>2, <1>3 DEF TradeSound, TradeInOrder, RepoTrade
<1>9. TradeInOrder(u)
    BY <1>2, <1>4, <1>6, <1>7, <1>8, RepoAssumption DEF TradeInOrder
<1>10. TradeSound(u)
    BY <1>2, <1>4, <1>5, <1>6, <1>9 DEF TradeSound
<1>11. Ceiling(t) \in Nat
    BY <1>3, <1>4, DueNat DEF Ceiling
<1>12. Elapsed(now, t.maturity_at) \in Nat
    BY <1>2, <1>4 DEF Elapsed
<1>13. expiry \in Nat
    BY <1>2, <1>12, ExpiryNat, RepoAssumption
<1>14. borrowerDue[b].amount \in Nat /\ borrowerDue[b].live_until \in Nat
    BY DEF RepoInv, RepoTypeOK, Grant
<1>15. grant \in Grant
    BY <1>11, <1>13, <1>14 DEF Grant, Larger
<1>16. DueRecord(grant.amount, grant.live_until) \in Grant
    BY <1>15 DEF DueRecord, NoGrant, Grant
<1>17. borrowerDue' \in [Party -> Grant]
    BY <1>16 DEF AcceptAndSettle, LegTwoGrant, RepoInv, RepoTypeOK
<1>18. allowance[t.lender].amount - t.cash_amount \in Nat
    <2>1. allowance[t.lender].amount \in Nat
        BY <1>4 DEF RepoInv, RepoTypeOK, Grant
    <2>2. t.cash_amount <= Spendable(t.lender)
        BY <1>4 DEF AcceptAndSettle
    <2>3. QED
        BY <1>4, <2>1, <2>2 DEF Spendable
<1>19. [allowance EXCEPT ![t.lender].amount = @ - t.cash_amount] \in [Party -> Grant]
    BY <1>4, <1>18 DEF RepoInv, RepoTypeOK, Grant
<1>20. allowance' \in [Party -> Grant]
    <2>1. allowance' = [[allowance EXCEPT ![t.lender].amount = @ - t.cash_amount]
                            EXCEPT ![b] = grant]
        BY DEF AcceptAndSettle, LegTwoGrant, SpendThenApprove
    <2> DEFINE spent == [allowance EXCEPT ![t.lender].amount = @ - t.cash_amount]
    <2> HIDE DEF spent, grant
    <2>2. [spent EXCEPT ![b] = grant] \in [Party -> Grant]
        BY <1>15, <1>19 DEF spent
    <2>3. QED
        BY <2>1, <2>2, Zenon DEF spent
<1>21. rwa' \in [Asset -> [Holder -> Int]]
    <2>1. rwa' = Transfer(rwa, t.asset, b, Contract, t.units)
        BY DEF AcceptAndSettle, Move
    <2>2. /\ rwa \in [Asset -> [Holder -> Int]]
          /\ b \in Holder /\ Contract \in Holder /\ t.units \in Int
        <3>1. rwa \in [Asset -> [Holder -> Int]]
            BY DEF RepoInv, RepoTypeOK
        <3>2. t.units \in Int
            BY <1>4
        <3>3. QED
            BY <1>1, <1>4, <3>1, <3>2, Zenon DEF Holder
    <2>3. Transfer(rwa, t.asset, b, Contract, t.units) \in [Asset -> [Holder -> Int]]
        BY <1>4, <2>2, TransferType
    <2>4. QED
        BY <2>1, <2>3, Zenon
<1>22. WriteTrade(id, u)
       /\ UNCHANGED <<sequence, price, settingVars, pauseVars, nextId, latestProposal>>
    BY DEF AcceptAndSettle
<1>23. QED
    BY <1>1, <1>10, <1>17, <1>20, <1>21, <1>22, TradeCallKeeps

(* Closing a sound settled trade leaves it sound. *)
LEMMA ClosedSound ==
    ASSUME RepoInv, NEW id \in Id, HasStatus(id, "Settled"),
           NEW s \in {"Unwound", "Defaulted"}
    PROVE  TradeSound([trades[id] EXCEPT !.status = s])
<1> DEFINE t == trades[id]
           u == [t EXCEPT !.status = s]
<1>1. TradeSound(t) /\ t.status = "Settled"
    BY SettledOwes DEF HasStatus
<1>2. t \in RepoTrade
    BY <1>1 DEF TradeSound
<1>3. u \in RepoTrade
    BY <1>2 DEF RepoTrade, RepoStatus
<1>4. /\ u.status = s
      /\ u.cash_amount = t.cash_amount /\ u.rate_bps = t.rate_bps
      /\ u.proposed_at = t.proposed_at /\ u.maturity_at = t.maturity_at
      /\ u.settled_at = t.settled_at /\ u.asset = t.asset
      /\ u.pending_margin_call = t.pending_margin_call
      /\ u.cure_deadline = t.cure_deadline
    BY <1>2 DEF RepoTrade
<1>5. Due(u) = Due(t) /\ Ceiling(u) = Ceiling(t)
    BY <1>4 DEF Due, Ceiling, TotalDue
<1>6. TradeInOrder(u)
    BY <1>1, <1>4, <1>5 DEF TradeSound, TradeInOrder
<1>7. QED
    BY <1>1, <1>3, <1>4, <1>6 DEF TradeSound

LEMMA UnwindKeeps ==
    ASSUME RepoInv, NEW byBorrower \in BOOLEAN, NEW id \in Id, Unwind(byBorrower, id)
    PROVE  RepoInv'
<1> DEFINE t == trades[id]
<1>1. HasStatus(id, "Settled") /\ trades[id] # None
    BY DEF Unwind, HasStatus
<1>2. TradeSound(t) /\ Due(t) \in Nat /\ Ceiling(t) \in Nat
    BY <1>1, SettledOwes
<1>3. t \in RepoTrade
    BY <1>2 DEF TradeSound
<1>4. t.borrower \in Party /\ t.asset \in Asset /\ t.units \in Nat
    BY <1>3 DEF RepoTrade
<1>5. allowance' \in [Party -> Grant]
    <2>1. allowance \in [Party -> Grant]
        BY DEF RepoInv, RepoTypeOK
    <2>2. CASE UNCHANGED allowance
        BY <2>1, <2>2
    <2>3. CASE /\ Due(t) <= Spendable(t.borrower)
               /\ allowance' = [allowance EXCEPT ![t.borrower].amount = @ - Due(t)]
        <3>1. allowance[t.borrower].amount \in Nat
            BY <1>4, <2>1 DEF Grant
        <3>2. allowance[t.borrower].amount - Due(t) \in Nat
            BY <1>2, <2>3, <3>1 DEF Spendable
        <3>3. QED
            BY <1>4, <2>1, <2>3, <3>2 DEF Grant
    <2>4. QED
        BY <2>2, <2>3 DEF Unwind
<1>6. rwa' \in [Asset -> [Holder -> Int]]
    <2>1. rwa' = Transfer(rwa, t.asset, Contract, t.borrower, t.units)
        BY DEF Unwind, Move
    <2>2. /\ rwa \in [Asset -> [Holder -> Int]]
          /\ t.borrower \in Holder /\ Contract \in Holder /\ t.units \in Int
        <3>1. rwa \in [Asset -> [Holder -> Int]]
            BY DEF RepoInv, RepoTypeOK
        <3>2. t.units \in Int
            BY <1>4
        <3>3. QED
            BY <1>1, <1>4, <3>1, <3>2, Zenon DEF Holder
    <2>3. Transfer(rwa, t.asset, Contract, t.borrower, t.units) \in [Asset -> [Holder -> Int]]
        BY <1>4, <2>2, TransferType
    <2>4. QED
        BY <2>1, <2>3, Zenon
<1>7. borrowerDue' \in [Party -> Grant]
    BY <1>2, <1>3, ReleaseType DEF Unwind, RepoInv, RepoTypeOK
<1>8. TradeSound([t EXCEPT !.status = "Unwound"])
    BY <1>1, ClosedSound
<1>9. QED
    BY <1>1, <1>5, <1>6, <1>7, <1>8, TradeCallKeeps DEF Unwind

(* The units of a default are split between two wallets. *)
LEMMA SplitType ==
    ASSUME RepoInv, NEW t \in RepoTrade, NEW owed \in Nat, price[t.asset].value > 0,
           SplitUnits(t, owed)
    PROVE  rwa' \in [Asset -> [Holder -> Int]]
<1> DEFINE x == LenderUnits(owed, price[t.asset].value, t.units)
<1>1. /\ t.asset \in Asset /\ t.lender \in Holder /\ t.borrower \in Holder
      /\ Contract \in Holder /\ t.units \in Nat
    BY DEF RepoTrade, Holder
<1>2. price[t.asset].value \in Nat \ {0}
    BY <1>1 DEF RepoInv, RepoTypeOK, GuardedPrice
<1>3. x \in Int /\ t.units - x \in Int
    BY <1>1, <1>2, LenderUnitsFair
<1>4. rwa \in [Asset -> [Holder -> Int]]
    BY DEF RepoInv, RepoTypeOK
<1>5. Transfer(rwa, t.asset, Contract, t.lender, x) \in [Asset -> [Holder -> Int]]
    BY <1>1, <1>3, <1>4, TransferType
<1>6. Transfer(Transfer(rwa, t.asset, Contract, t.lender, x),
               t.asset, Contract, t.borrower, t.units - x) \in [Asset -> [Holder -> Int]]
    BY <1>1, <1>3, <1>5, TransferType
<1>7. rwa' = Transfer(Transfer(rwa, t.asset, Contract, t.lender, x),
                      t.asset, Contract, t.borrower, t.units - x)
    BY Zenon DEF SplitUnits
<1>8. QED
    BY <1>6, <1>7, Zenon

LEMMA DefaultCloseKeeps ==
    ASSUME RepoInv, NEW id \in Id, DefaultClose(id)
    PROVE  RepoInv'
<1> DEFINE t == trades[id]
<1>1. HasStatus(id, "Settled") /\ trades[id] # None
    BY DEF DefaultClose, HasStatus
<1>2. TradeSound(t) /\ Exposure(t) \in Nat /\ Ceiling(t) \in Nat
    BY <1>1, SettledOwes
<1>3. t \in RepoTrade
    BY <1>2 DEF TradeSound
<1>4. rwa' \in [Asset -> [Holder -> Int]]
    BY <1>2, <1>3, SplitType DEF DefaultClose
<1>5. borrowerDue' \in [Party -> Grant]
    BY <1>2, <1>3, ReleaseType DEF DefaultClose, RepoInv, RepoTypeOK
<1>6. allowance' \in [Party -> Grant]
    BY DEF DefaultClose, RepoInv, RepoTypeOK
<1>7. TradeSound([t EXCEPT !.status = "Defaulted"])
    BY <1>1, ClosedSound
<1>8. QED
    BY <1>1, <1>4, <1>5, <1>6, <1>7, TradeCallKeeps DEF DefaultClose

LEMMA DefaultAtMaturityKeeps ==
    ASSUME RepoInv, NEW id \in Id, DefaultAtMaturity(id)
    PROVE  RepoInv'
<1> DEFINE t == trades[id]
<1>1. HasStatus(id, "Settled") /\ trades[id] # None
    BY DEF DefaultAtMaturity, HasStatus
<1>2. TradeSound(t) /\ Due(t) \in Nat
    BY <1>1, SettledOwes
<1>3. t \in RepoTrade
    BY <1>2 DEF TradeSound
<1>4. rwa' \in [Asset -> [Holder -> Int]]
    BY <1>2, <1>3, SplitType DEF DefaultAtMaturity
<1>5. borrowerDue' \in [Party -> Grant] /\ allowance' \in [Party -> Grant]
    BY DEF DefaultAtMaturity, RepoInv, RepoTypeOK
<1>6. TradeSound([t EXCEPT !.status = "Defaulted"])
    BY <1>1, ClosedSound
<1>7. QED
    BY <1>1, <1>4, <1>5, <1>6, TradeCallKeeps DEF DefaultAtMaturity

(* The amount a margin call names is never negative. *)
LEMMA CallAmountNat ==
    ASSUME RepoInv, NEW id \in Id, HasStatus(id, "Settled")
    PROVE  MarginCallAmount(trades[id]) \in Nat
<1> DEFINE t == trades[id]
           config == assetConfig[t.asset]
<1>1. TradeSound(t) /\ Exposure(t) \in Nat
    BY SettledOwes
<1>2. t.asset \in Asset /\ t.units \in Nat /\ config # None
    BY <1>1 DEF TradeSound, RepoTrade
<1>3. config \in RepoAssetConfig
    BY <1>2 DEF RepoInv, RepoTypeOK
<1>4. HaircutUsable(config.haircut_bps) /\ ValidThresholds(config.thresholds)
    BY <1>2 DEF RepoInv
<1>5. config.haircut_bps \in Nat /\ config.thresholds \in MarginThresholds
    BY <1>3 DEF RepoAssetConfig
<1>6. config.thresholds.margin_call_bps \in Nat \ {0}
    BY <1>4, <1>5 DEF ValidThresholds, MarginThresholds
<1>7. price[t.asset].value \in Nat
    BY <1>2 DEF RepoInv, RepoTypeOK, GuardedPrice
<1>8. (t.units * price[t.asset].value) \div PRICE_SCALE \in Nat
    BY <1>2, <1>7, MulNat, DivNat, RiskAssumption
<1>9. BPS_DENOMINATOR - config.haircut_bps \in Nat
    BY <1>4, <1>5, RiskAssumption DEF HaircutUsable
<1>10. ((t.units * price[t.asset].value) \div PRICE_SCALE)
           * (BPS_DENOMINATOR - config.haircut_bps) \in Nat
    BY <1>8, <1>9, MulNat
<1>11. ValueOf(t) \in Nat
    BY <1>10, DivNat, RiskAssumption DEF ValueOf, CollateralValue
<1>12. Exposure(t) * BPS_DENOMINATOR \in Nat
    BY <1>1, MulNat, RiskAssumption
<1>13. (Exposure(t) * BPS_DENOMINATOR) \div config.thresholds.margin_call_bps \in Nat
    BY <1>6, <1>12, DivNat
<1>14. QED
    BY <1>11, <1>13 DEF MarginCallAmount, Larger

(* A trade whose margin call, or units, alone were rewritten stays sound   *)
(* if the new call is whole or absent.                                     *)
LEMMA CallRewritten ==
    ASSUME RepoInv, NEW id \in Id, HasStatus(id, "Settled"),
           NEW units \in Nat, NEW amount \in Nat, NEW pending \in BOOLEAN,
           NEW deadline \in Nat \cup {None},
           pending <=> deadline # None,
           pending => deadline >= trades[id].settled_at + MIN_GRACE_SECONDS
    PROVE  TradeSound([trades[id] EXCEPT !.units = units, !.margin_call_amount = amount,
                           !.pending_margin_call = pending, !.cure_deadline = deadline])
<1> DEFINE t == trades[id]
           u == [t EXCEPT !.units = units, !.margin_call_amount = amount,
                          !.pending_margin_call = pending, !.cure_deadline = deadline]
<1>1. TradeSound(t) /\ t.status = "Settled" /\ t.settled_at \in Nat
    BY SettledOwes DEF HasStatus
<1>2. t \in RepoTrade
    BY <1>1 DEF TradeSound
<1>3. u \in RepoTrade
    BY <1>2 DEF RepoTrade
<1>4. /\ u.status = t.status
      /\ u.cash_amount = t.cash_amount /\ u.rate_bps = t.rate_bps
      /\ u.proposed_at = t.proposed_at /\ u.maturity_at = t.maturity_at
      /\ u.settled_at = t.settled_at /\ u.asset = t.asset
      /\ u.pending_margin_call = pending /\ u.cure_deadline = deadline
    BY <1>2 DEF RepoTrade
<1>5. Due(u) = Due(t) /\ Ceiling(u) = Ceiling(t)
    BY <1>4 DEF Due, Ceiling, TotalDue
<1>6. TradeInOrder(u)
    BY <1>1, <1>4, <1>5, RepoAssumption DEF TradeSound, TradeInOrder
<1>7. QED
    BY <1>1, <1>3, <1>4, <1>6 DEF TradeSound

LEMMA CallMarginKeeps ==
    ASSUME RepoInv, NEW id \in Id, CallMargin(id)
    PROVE  RepoInv'
<1> DEFINE t == trades[id]
           deadline == IF t.pending_margin_call THEN t.cure_deadline ELSE now + cureGrace
           called == [t EXCEPT !.margin_call_amount = MarginCallAmount(t),
                               !.pending_margin_call = TRUE, !.cure_deadline = deadline]
<1>1. HasStatus(id, "Settled") /\ trades[id] # None
    BY DEF CallMargin, HasStatus
<1>2. TradeSound(t) /\ t.settled_at \in Nat /\ now \in Nat
    BY <1>1, SettledOwes, StoredSound
<1>3. t \in RepoTrade /\ TradeInOrder(t) /\ t.settled_at <= now
    BY <1>2, RepoAssumption DEF TradeSound
<1>4. t.units \in Nat /\ t.pending_margin_call \in BOOLEAN
      /\ t.cure_deadline \in Nat \cup {None}
    BY <1>3 DEF RepoTrade
<1>5. MarginCallAmount(t) \in Nat
    BY <1>1, CallAmountNat
<1>6. cureGrace \in Nat /\ cureGrace >= MIN_GRACE_SECONDS
    BY DEF RepoInv, RepoTypeOK
<1>7. deadline \in Nat /\ deadline >= t.settled_at + MIN_GRACE_SECONDS
    BY <1>2, <1>3, <1>4, <1>6, RepoAssumption DEF TradeInOrder
<1>8. TradeSound(called)
    <2>1. TradeSound([t EXCEPT !.units = t.units, !.margin_call_amount = MarginCallAmount(t),
                               !.pending_margin_call = TRUE, !.cure_deadline = deadline])
        BY <1>1, <1>4, <1>5, <1>7, CallRewritten, RepoAssumption
    <2>2. [t EXCEPT !.units = t.units, !.margin_call_amount = MarginCallAmount(t),
                    !.pending_margin_call = TRUE, !.cure_deadline = deadline] = called
        BY <1>3 DEF RepoTrade
    <2>3. QED
        BY <2>1, <2>2
<1>9. TradeSound(ClearMarginCall(t))
    <2>1. TradeSound([t EXCEPT !.units = t.units, !.margin_call_amount = 0,
                               !.pending_margin_call = FALSE, !.cure_deadline = None])
        BY <1>1, <1>4, CallRewritten
    <2>2. [t EXCEPT !.units = t.units, !.margin_call_amount = 0,
                    !.pending_margin_call = FALSE, !.cure_deadline = None]
              = ClearMarginCall(t)
        BY <1>3 DEF RepoTrade, ClearMarginCall
    <2>3. QED
        BY <2>1, <2>2
<1>10. WriteTrade(id, called) \/ WriteTrade(id, ClearMarginCall(t))
    BY DEF CallMargin, CureDeadline
<1>11. /\ borrowerDue' \in [Party -> Grant] /\ allowance' \in [Party -> Grant]
       /\ rwa' \in [Asset -> [Holder -> Int]]
    BY DEF CallMargin, RepoInv, RepoTypeOK
<1>12. UNCHANGED <<sequence, price, settingVars, pauseVars, nextId, latestProposal>>
    BY DEF CallMargin
<1>13. QED
    BY <1>1, <1>8, <1>9, <1>10, <1>11, <1>12, TradeCallKeeps

LEMMA TopUpKeeps ==
    ASSUME RepoInv, NEW id \in Id, NEW extra \in Nat, TopUp(id, extra)
    PROVE  RepoInv'
<1> DEFINE t == trades[id]
           more == [t EXCEPT !.units = @ + extra]
<1>1. HasStatus(id, "Settled") /\ trades[id] # None
    BY DEF TopUp, HasStatus
<1>2. TradeSound(t) /\ t.settled_at \in Nat
    BY <1>1, SettledOwes
<1>3. t \in RepoTrade /\ TradeInOrder(t)
    BY <1>2 DEF TradeSound
<1>4. /\ t.units \in Nat /\ t.pending_margin_call \in BOOLEAN /\ t.margin_call_amount \in Nat
      /\ t.cure_deadline \in Nat \cup {None} /\ t.asset \in Asset /\ t.borrower \in Party
      /\ t.units + extra \in Nat
    BY <1>3 DEF RepoTrade
<1>5. TradeSound(more)
    <2>1. TradeSound([t EXCEPT !.units = t.units + extra,
                               !.margin_call_amount = t.margin_call_amount,
                               !.pending_margin_call = t.pending_margin_call,
                               !.cure_deadline = t.cure_deadline])
        BY <1>1, <1>3, <1>4, CallRewritten DEF TradeInOrder
    <2>2. [t EXCEPT !.units = t.units + extra, !.margin_call_amount = t.margin_call_amount,
                    !.pending_margin_call = t.pending_margin_call,
                    !.cure_deadline = t.cure_deadline] = more
        BY <1>3 DEF RepoTrade
    <2>3. QED
        BY <2>1, <2>2
<1>6. TradeSound(ClearMarginCall(more))
    <2>1. TradeSound([t EXCEPT !.units = t.units + extra, !.margin_call_amount = 0,
                               !.pending_margin_call = FALSE, !.cure_deadline = None])
        BY <1>1, <1>4, CallRewritten
    <2>2. [t EXCEPT !.units = t.units + extra, !.margin_call_amount = 0,
                    !.pending_margin_call = FALSE, !.cure_deadline = None]
              = ClearMarginCall(more)
        BY <1>3 DEF RepoTrade, ClearMarginCall
    <2>3. QED
        BY <2>1, <2>2
<1>7. WriteTrade(id, more) \/ WriteTrade(id, ClearMarginCall(more))
    BY DEF TopUp
<1>8. rwa' \in [Asset -> [Holder -> Int]]
    <2>1. rwa' = Transfer(rwa, t.asset, t.borrower, Contract, extra)
        BY <1>3 DEF TopUp, Move, RepoTrade
    <2>2. rwa \in [Asset -> [Holder -> Int]]
        BY DEF RepoInv, RepoTypeOK
    <2>3. t.borrower \in Holder /\ Contract \in Holder
        BY <1>4, Zenon DEF Holder
    <2>4. extra \in Int
        OBVIOUS
    <2>5. Transfer(rwa, t.asset, t.borrower, Contract, extra) \in [Asset -> [Holder -> Int]]
        BY <1>4, <2>2, <2>3, <2>4, TransferType
    <2>6. QED
        BY <2>1, <2>5, Zenon
<1>9. borrowerDue' \in [Party -> Grant] /\ allowance' \in [Party -> Grant]
    BY DEF TopUp, RepoInv, RepoTypeOK
<1>10. UNCHANGED <<sequence, price, settingVars, pauseVars, nextId, latestProposal>>
    BY DEF TopUp
<1>11. QED
    BY <1>1, <1>5, <1>6, <1>7, <1>8, <1>9, <1>10, TradeCallKeeps

(* A call that touches no trade keeps the invariant if the settings stay   *)
(* valid, assets stay configured and the clock does not go back.           *)
LEMMA TradesUntouched ==
    ASSUME RepoInv,
           UNCHANGED tradeVars,
           RepoTypeOK',
           now' \in Nat, now' >= now,
           nextId' >= nextId,
           cureGrace' >= MIN_GRACE_SECONDS, maturityGrace' >= MIN_GRACE_SECONDS,
           \A a \in Asset : assetConfig[a] # None => assetConfig'[a] # None,
           \A a \in Asset : assetConfig'[a] # None =>
               /\ HaircutUsable(assetConfig'[a].haircut_bps)
               /\ ValidThresholds(assetConfig'[a].thresholds),
           \A id \in Id : trades[id] # None => pendingUnpause'[id] = None,
           \A id \in Id : pendingUnpause'[id] # None => id < nextId'
    PROVE  RepoInv'
<1>1. TradesInOrder'
    BY DEF RepoInv, TradesInOrder, tradeVars
<1>2. now \in Nat
    BY NowNat DEF RepoInv, RepoTypeOK
<1>3. ASSUME NEW id \in Id, trades[id] # None
      PROVE  /\ id < nextId'
             /\ pendingUnpause'[id] = None
             /\ assetConfig'[trades[id].asset] # None
             /\ trades[id].proposed_at <= now'
             /\ trades[id].settled_at # None => trades[id].settled_at <= now'
    <2>1. TradeSound(trades[id]) /\ id < nextId
        BY <1>3, StoredSound
    <2>2. trades[id] \in RepoTrade
        BY <2>1 DEF TradeSound
    <2>3. /\ trades[id].asset \in Asset /\ trades[id].proposed_at \in Nat
          /\ trades[id].settled_at \in Nat \cup {None}
        BY <2>2 DEF RepoTrade
    <2>4. nextId \in Int /\ nextId' \in Int /\ id \in Int
        BY RepoAssumption DEF RepoInv, RepoTypeOK, Id
    <2>5. QED
        BY <1>2, <1>3, <2>1, <2>3, <2>4 DEF TradeSound
<1>4. QED
    BY <1>1, <1>3 DEF RepoInv, tradeVars

LEMMA AdminKeeps ==
    ASSUME RepoInv, AdminCall
    PROVE  RepoInv'
<1> USE RepoAssumption
<1>1. now \in Nat /\ RepoTypeOK
    BY NowNat DEF RepoInv, RepoTypeOK
<1>2. CASE \E seconds \in Graces : SetCureGrace(seconds) \/ SetMaturityGrace(seconds)
    <2>1. RepoTypeOK' /\ UNCHANGED <<tradeVars, assetConfig, pendingUnpause, nextId>>
        BY <1>1, <1>2 DEF SetCureGrace, SetMaturityGrace, RepoTypeOK, tradeVars, pauseVars
    <2>2. now' = now
        BY <1>2 DEF SetCureGrace, SetMaturityGrace, now
    <2>3. cureGrace' >= MIN_GRACE_SECONDS /\ maturityGrace' >= MIN_GRACE_SECONDS
        BY <1>2 DEF SetCureGrace, SetMaturityGrace, RepoInv
    <2>4. QED
        BY <1>1, <2>1, <2>2, <2>3, TradesUntouched DEF RepoInv, RepoTypeOK
<1>3. CASE \E a \in Asset, config \in Configs : ConfigureAsset(a, config)
    <2>1. PICK a \in Asset, config \in Configs : ConfigureAsset(a, config)
        BY <1>3
    <2>2. config \in RepoAssetConfig /\ config # None
        OBVIOUS
    <2>3. assetConfig' \in [Asset -> RepoAssetConfig \cup {None}]
        BY <1>1, <2>1, <2>2 DEF ConfigureAsset, RepoTypeOK
    <2>4. /\ UNCHANGED <<tradeVars, pendingUnpause, nextId, sequence, price, assetDisabled,
                         cureGrace, maturityGrace, paused>>
          /\ RepoTypeOK'
        BY <1>1, <2>1, <2>3 DEF ConfigureAsset, RepoTypeOK, tradeVars, pauseVars
    <2>5. now' = now
        BY <2>4 DEF now
    <2>6. \A b \in Asset : assetConfig'[b] = IF b = a THEN config ELSE assetConfig[b]
        BY <1>1, <2>1 DEF ConfigureAsset, RepoTypeOK
    <2>7. HaircutUsable(config.haircut_bps) /\ ValidThresholds(config.thresholds)
        BY <2>1 DEF ConfigureAsset
    <2>8. \A b \in Asset : assetConfig[b] # None => assetConfig'[b] # None
        BY <2>2, <2>6
    <2>9. \A b \in Asset : assetConfig'[b] # None =>
              /\ HaircutUsable(assetConfig'[b].haircut_bps)
              /\ ValidThresholds(assetConfig'[b].thresholds)
        BY <2>6, <2>7 DEF RepoInv
    <2>10. nextId' >= nextId
        BY <1>1, <2>4 DEF RepoTypeOK
    <2>11. QED
        BY <1>1, <2>4, <2>5, <2>8, <2>9, <2>10, TradesUntouched DEF RepoInv
<1>4. CASE \E a \in Asset, disabled \in BOOLEAN : SetAssetDisabled(a, disabled)
    <2>1. RepoTypeOK' /\ UNCHANGED <<tradeVars, assetConfig, pendingUnpause, nextId,
                                     cureGrace, maturityGrace>>
        BY <1>1, <1>4 DEF SetAssetDisabled, RepoTypeOK, tradeVars, pauseVars
    <2>2. now' = now
        BY <1>4 DEF SetAssetDisabled, now
    <2>3. QED
        BY <1>1, <2>1, <2>2, TradesUntouched DEF RepoInv, RepoTypeOK
<1>5. CASE \E scope \in Scopes : Pause(scope) \/ QueueUnpause(scope)
    <2>1. PICK scope \in Scopes : Pause(scope) \/ QueueUnpause(scope)
        BY <1>5
    <2>2. now' = now /\ UNCHANGED <<tradeVars, assetConfig, cureGrace, maturityGrace>>
        BY <2>1 DEF Pause, QueueUnpause, now, settingVars
    <2>3. CASE Pause(scope)
        <3>1. RepoTypeOK' /\ UNCHANGED <<pendingUnpause, nextId>>
            BY <1>1, <2>3 DEF Pause, RepoTypeOK, tradeVars, settingVars
        <3>2. QED
            BY <1>1, <2>2, <3>1, TradesUntouched DEF RepoInv, RepoTypeOK
    <2>4. CASE QueueUnpause(scope)
        <3>1. now + TIMELOCK_DELAY_SECONDS \in Nat /\ nextId \in Id
            BY <1>1, <2>4 DEF QueueUnpause
        <3>2. [scope |-> scope, executes_at |-> now + TIMELOCK_DELAY_SECONDS]
                  \in PendingUnpause
            BY <3>1 DEF PendingUnpause
        <3>3. pendingUnpause' \in [Id -> PendingUnpause \cup {None}]
            BY <1>1, <2>4, <3>1, <3>2 DEF QueueUnpause, RepoTypeOK
        <3>4. nextId' = nextId + 1 /\ nextId' \in 0 .. MaxIds
            BY <2>4, <3>1 DEF QueueUnpause, Id
        <3>5. RepoTypeOK'
            BY <1>1, <2>4, <3>3, <3>4 DEF QueueUnpause, RepoTypeOK, tradeVars, settingVars
        <3>6. \A id \in Id : id # nextId => pendingUnpause'[id] = pendingUnpause[id]
            BY <1>1, <2>4 DEF QueueUnpause, RepoTypeOK
        <3>7. trades[nextId] = None
            BY <3>1 DEF RepoInv, Id
        <3>8. \A id \in Id : trades[id] # None => pendingUnpause'[id] = None
            BY <3>6, <3>7 DEF RepoInv
        <3>9. \A id \in Id : pendingUnpause'[id] # None => id < nextId'
            <4>1. ASSUME NEW id \in Id, pendingUnpause'[id] # None PROVE id <= nextId
                <5>1. CASE id = nextId
                    BY <5>1, <3>1 DEF Id
                <5>2. CASE id # nextId
                    BY <5>2, <3>1, <3>6, <4>1 DEF RepoInv, Id
                <5>3. QED
                    BY <5>1, <5>2
            <4>2. QED
                BY <4>1, <3>1, <3>4 DEF Id
        <3>10. nextId' >= nextId
            BY <3>1, <3>4 DEF Id
        <3>11. QED
            BY <1>1, <2>2, <3>5, <3>8, <3>9, <3>10, TradesUntouched DEF RepoInv
    <2>5. QED
        BY <2>1, <2>3, <2>4
<1>6. CASE \E id \in Id : CancelUnpause(id) \/ ExecuteUnpause(id)
    <2>1. PICK id \in Id : CancelUnpause(id) \/ ExecuteUnpause(id)
        BY <1>6
    <2>2. pendingUnpause' = [pendingUnpause EXCEPT ![id] = None] /\ paused' \subseteq paused
        BY <2>1 DEF CancelUnpause, ExecuteUnpause
    <2>3. now' = now /\ UNCHANGED <<tradeVars, assetConfig, cureGrace, maturityGrace, nextId>>
        BY <2>1 DEF CancelUnpause, ExecuteUnpause, now, settingVars
    <2>4. pendingUnpause' \in [Id -> PendingUnpause \cup {None}]
        BY <1>1, <2>2 DEF RepoTypeOK
    <2>5. RepoTypeOK'
        BY <1>1, <2>1, <2>2, <2>4
        DEF CancelUnpause, ExecuteUnpause, RepoTypeOK, tradeVars, settingVars
    <2>6. \A k \in Id : pendingUnpause'[k] # None => pendingUnpause'[k] = pendingUnpause[k]
        BY <1>1, <2>2 DEF RepoTypeOK
    <2>7. QED
        BY <1>1, <2>3, <2>5, <2>6, TradesUntouched DEF RepoInv, RepoTypeOK
<1>7. QED
    BY <1>2, <1>3, <1>4, <1>5, <1>6 DEF AdminCall

LEMMA EnvironmentKeeps ==
    ASSUME RepoInv,
           CloseLedger \/ \E a \in Asset, reading \in PriceReadings : PriceMoves(a, reading)
    PROVE  RepoInv'
<1> USE RepoAssumption
<1>1. now \in Nat /\ RepoTypeOK
    BY NowNat DEF RepoInv, RepoTypeOK
<1>2. RepoTypeOK'
    BY <1>1 DEF CloseLedger, PriceMoves, RepoTypeOK, tradeVars, settingVars, pauseVars
<1>3. now' \in Nat /\ now' >= now
    <2>1. CASE CloseLedger
        <3>1. (sequence + 1) * SECONDS_PER_LEDGER
                  = sequence * SECONDS_PER_LEDGER + SECONDS_PER_LEDGER
            BY <1>1 DEF RepoTypeOK
        <3>2. now' = now + SECONDS_PER_LEDGER
            BY <2>1, <3>1 DEF CloseLedger, now
        <3>3. QED
            BY <1>1, <3>2
    <2>2. CASE sequence' = sequence
        BY <1>1, <2>2 DEF now
    <2>3. QED
        BY <2>1, <2>2 DEF PriceMoves
<1>4. UNCHANGED <<tradeVars, assetConfig, cureGrace, maturityGrace, pendingUnpause, nextId>>
    BY DEF CloseLedger, PriceMoves, settingVars, pauseVars
<1>5. QED
    BY <1>1, <1>2, <1>3, <1>4, TradesUntouched DEF RepoInv, RepoTypeOK

(* Every step keeps the inductive invariant. *)
LEMMA RepoNextKeeps == RepoInv /\ [RepoNext]_repoVars => RepoInv'
<1> SUFFICES ASSUME RepoInv, [RepoNext]_repoVars PROVE RepoInv'
    OBVIOUS
<1>1. ASSUME NEW l \in Lenders, NEW b \in Borrowers, NEW terms \in Terms,
             Propose(l, b, terms)
      PROVE  RepoInv'
    BY <1>1, ProposeKeeps, RepoAssumption DEF Party
<1>2. ASSUME NEW id \in Id, TradeCall(id) PROVE RepoInv'
    <2>1. TopUps \subseteq Nat
        BY RepoAssumption
    <2>2. QED
        BY <1>2, <2>1, CancelKeeps, AcceptKeeps, UnwindKeeps, CallMarginKeeps, TopUpKeeps,
           DefaultCloseKeeps, DefaultAtMaturityKeeps DEF TradeCall
<1>3. CASE UNCHANGED repoVars
    BY <1>3 DEF repoVars, settingVars, pauseVars, tradeVars, RepoInv, RepoTypeOK,
                TradesInOrder, now
<1>4. QED
    BY <1>1, <1>2, <1>3, AdminKeeps, EnvironmentKeeps DEF RepoNext

-----------------------------------------------------------------------------
(* The theorems *)

(* Every call keeps the repo contract's inductive invariant. *)
THEOREM RepoInvariantHolds == RepoSpec => []RepoInv
<1>1. QED
    BY RepoInitInv, RepoNextKeeps, PTL DEF RepoSpec

(* The repo contract's state keeps its types: no allowance is overspent,   *)
(* no due and no margin call goes negative.                                *)
THEOREM RepoTypesHold == RepoSpec => []RepoTypeOK
<1>1. RepoInv => RepoTypeOK
    BY DEF RepoInv
<1>2. QED
    BY <1>1, RepoInvariantHolds, PTL

(* Settled trades were accepted before maturity, owe no more than the      *)
(* ceiling the borrower approved, and any margin call leaves the window.   *)
THEOREM TradesInOrderHolds == RepoSpec => []TradesInOrder
<1>1. RepoInv => TradesInOrder
    BY DEF RepoInv
<1>2. QED
    BY <1>1, RepoInvariantHolds, PTL

-----------------------------------------------------------------------------
(* What a step may do to a trade *)

(* A stored trade changes only by a call on it. *)
LEMMA OnlyOwnCall ==
    ASSUME RepoInv, [RepoNext]_repoVars, NEW id \in Id, trades[id] # None,
           trades'[id] # trades[id]
    PROVE  TradeCall(id)
<1>1. trades \in [Id -> RepoTrade \cup {None}] /\ id < nextId
    BY DEF RepoInv, RepoTypeOK
<1>2. ASSUME NEW l \in Lenders, NEW b \in Borrowers, NEW terms \in Terms,
             Propose(l, b, terms)
      PROVE  FALSE
    <2>1. nextId # id
        BY <1>1, RepoAssumption DEF RepoInv, RepoTypeOK, Id
    <2>2. trades'[id] = trades[id]
        BY <1>1, <1>2, <2>1 DEF Propose, WriteTrade
    <2>3. QED
        BY <2>2
<1>3. ASSUME NEW k \in Id, TradeCall(k), k # id PROVE FALSE
    <2>1. \E t : WriteTrade(k, t)
        BY <1>3, Zenon DEF TradeCall, CancelProposal, AcceptAndSettle, StillOpen, Unwind, CallMargin, TopUp,
                    DefaultClose, DefaultAtMaturity
    <2>2. trades'[id] = trades[id]
        BY <1>1, <1>3, <2>1 DEF WriteTrade
    <2>3. QED
        BY <2>2
<1>4. ~AdminCall
    BY DEF AdminCall, SetCureGrace, SetMaturityGrace, ConfigureAsset, SetAssetDisabled,
           Pause, QueueUnpause, CancelUnpause, ExecuteUnpause, tradeVars
<1>5. ~CloseLedger /\ ~\E a \in Asset, reading \in PriceReadings : PriceMoves(a, reading)
    BY DEF CloseLedger, PriceMoves, tradeVars
<1>6. ~UNCHANGED repoVars
    BY DEF repoVars, tradeVars
<1>7. QED
    BY <1>2, <1>3, <1>4, <1>5, <1>6 DEF RepoNext

(* A trade is defaulted by one of the two default calls. *)
LEMMA OnlyDefaultsDefault ==
    ASSUME RepoInv, [RepoNext]_repoVars, NEW id \in Id, Defaults(id)
    PROVE  DefaultClose(id) \/ DefaultAtMaturity(id)
<1> DEFINE t == trades[id]
<1>1. /\ trades[id] # None /\ t.status = "Settled"
      /\ trades'[id].status = "Defaulted"
    BY DEF Defaults, Live, HasStatus
<1>2. TradeCall(id)
    BY <1>1, OnlyOwnCall
<1>3. t \in RepoTrade /\ trades \in [Id -> RepoTrade \cup {None}]
    BY <1>1 DEF RepoInv, RepoTypeOK
<1>4. ~\E p \in Party : CancelProposal(p, id) \/ AcceptAndSettle(p, id)
    BY <1>1 DEF CancelProposal, AcceptAndSettle, StillOpen, HasStatus
<1>5. ~\E byBorrower \in BOOLEAN : Unwind(byBorrower, id)
    <2>1. SUFFICES ASSUME NEW byBorrower \in BOOLEAN, Unwind(byBorrower, id) PROVE FALSE
        OBVIOUS
    <2>2. trades'[id] = [t EXCEPT !.status = "Unwound"]
        BY <1>3, <2>1 DEF Unwind, WriteTrade
    <2>3. QED
        BY <1>1, <1>3, <2>2 DEF RepoTrade
<1>6. ~CallMargin(id)
    <2>1. SUFFICES ASSUME CallMargin(id) PROVE FALSE
        OBVIOUS
    <2>2. trades'[id].status = t.status
        BY <1>3, <2>1 DEF CallMargin, WriteTrade, ClearMarginCall, RepoTrade
    <2>3. QED
        BY <1>1, <2>2
<1>7. ~\E extra \in TopUps : TopUp(id, extra)
    <2>1. SUFFICES ASSUME NEW extra \in TopUps, TopUp(id, extra) PROVE FALSE
        OBVIOUS
    <2>2. trades'[id].status = t.status
        BY <1>3, <2>1 DEF TopUp, WriteTrade, ClearMarginCall, RepoTrade
    <2>3. QED
        BY <1>1, <2>2
<1>8. QED
    BY <1>2, <1>4, <1>5, <1>6, <1>7 DEF TradeCall

(* No default comes before the shortest cure window since settlement, or   *)
(* the shortest grace since maturity, is over.                             *)
THEOREM NoSurpriseHolds == RepoSpec => NoSurpriseDefault
<1>1. ASSUME RepoInv, [RepoNext]_repoVars, NEW id \in Id, Defaults(id)
      PROVE  \/ trades[id].pending_margin_call
                    /\ now >= trades[id].settled_at + MIN_GRACE_SECONDS
             \/ now >= trades[id].maturity_at + MIN_GRACE_SECONDS
    <2> DEFINE t == trades[id]
    <2>1. HasStatus(id, "Settled") /\ trades[id] # None
        BY <1>1 DEF Defaults, Live, HasStatus
    <2>2. TradeSound(t) /\ t.settled_at \in Nat /\ now \in Nat
        BY <1>1, <2>1, SettledOwes, StoredSound
    <2>3. t.maturity_at \in Nat /\ t.cure_deadline \in Nat \cup {None}
        BY <2>2 DEF TradeSound, RepoTrade
    <2>4. CASE DefaultClose(id)
        <3>1. t.pending_margin_call /\ now >= t.cure_deadline
            BY <2>4 DEF DefaultClose
        <3>2. t.cure_deadline # None /\ t.cure_deadline >= t.settled_at + MIN_GRACE_SECONDS
            BY <2>2, <3>1 DEF TradeSound, TradeInOrder
        <3>3. QED
            BY <2>2, <2>3, <3>1, <3>2, RepoAssumption
    <2>5. CASE DefaultAtMaturity(id)
        <3>1. now >= t.maturity_at + maturityGrace
            BY <2>5 DEF DefaultAtMaturity, DefaultAfter
        <3>2. maturityGrace \in Nat /\ maturityGrace >= MIN_GRACE_SECONDS
            BY <1>1 DEF RepoInv, RepoTypeOK
        <3>3. QED
            BY <2>2, <2>3, <3>1, <3>2, RepoAssumption
    <2>6. QED
        BY <1>1, <2>4, <2>5, OnlyDefaultsDefault
<1>2. RepoInv /\ [RepoNext]_repoVars =>
          [\A id \in Id : Defaults(id) =>
              LET t == trades[id]
              IN  \/ t.pending_margin_call /\ now >= t.settled_at + MIN_GRACE_SECONDS
                  \/ now >= t.maturity_at + MIN_GRACE_SECONDS]_repoVars
    BY <1>1
<1>3. QED
    BY <1>2, RepoInvariantHolds, PTL DEF RepoSpec, NoSurpriseDefault

(* An open call's deadline stands until the call is closed on a good price *)
(* by the keeper or the borrower.                                          *)
THEOREM DeadlineStands == RepoSpec => CureDeadlineStands
<1>1. ASSUME RepoInv, [RepoNext]_repoVars, NEW id \in Id,
             trades[id] # None /\ trades[id].pending_margin_call
      PROVE  \/ trades'[id].cure_deadline = trades[id].cure_deadline
             \/ ~trades'[id].pending_margin_call /\ PriceOk(trades[id].asset)
    <2> DEFINE t == trades[id]
    <2>1. CASE trades'[id] = trades[id]
        BY <2>1
    <2>2. CASE trades'[id] # trades[id]
        <3>1. TradeCall(id)
            BY <1>1, <2>2, OnlyOwnCall
        <3>2. t \in RepoTrade /\ trades \in [Id -> RepoTrade \cup {None}]
            BY <1>1 DEF RepoInv, RepoTypeOK
        <3>3. ASSUME NEW p \in Party, CancelProposal(p, id) \/ AcceptAndSettle(p, id)
              PROVE  trades'[id].cure_deadline = t.cure_deadline
            BY <3>2, <3>3 DEF CancelProposal, AcceptAndSettle, StillOpen, WriteTrade, RepoTrade
        <3>4. ASSUME NEW byBorrower \in BOOLEAN, Unwind(byBorrower, id)
              PROVE  trades'[id].cure_deadline = t.cure_deadline
            BY <3>2, <3>4 DEF Unwind, WriteTrade, RepoTrade
        <3>5. CASE DefaultClose(id) \/ DefaultAtMaturity(id)
            BY <3>2, <3>5 DEF DefaultClose, DefaultAtMaturity, WriteTrade, RepoTrade
        <3>6. CASE CallMargin(id)
            <4>1. PriceOk(t.asset)
                BY <3>6 DEF CallMargin
            <4>2. \/ trades'[id].cure_deadline = t.cure_deadline
                  \/ trades'[id].pending_margin_call = FALSE
                BY <1>1, <3>2, <3>6 DEF CallMargin, CureDeadline, WriteTrade, ClearMarginCall, RepoTrade
            <4>3. QED
                BY <4>1, <4>2
        <3>7. ASSUME NEW extra \in TopUps, TopUp(id, extra)
              PROVE  \/ trades'[id].cure_deadline = t.cure_deadline
                     \/ ~trades'[id].pending_margin_call /\ PriceOk(t.asset)
            <4> DEFINE more == [t EXCEPT !.units = @ + extra]
            <4>1. more.asset = t.asset /\ more.cure_deadline = t.cure_deadline
                BY <3>2 DEF RepoTrade
            <4>2. \/ trades'[id] = more
                  \/ trades'[id] = ClearMarginCall(more) /\ PriceOk(more.asset)
                BY <3>2, <3>7 DEF TopUp, WriteTrade
            <4>3. ClearMarginCall(more).pending_margin_call = FALSE
                BY <3>2 DEF ClearMarginCall, RepoTrade
            <4>4. QED
                BY <4>1, <4>2, <4>3
        <3>8. QED
            BY <3>1, <3>3, <3>4, <3>5, <3>6, <3>7 DEF TradeCall
    <2>3. QED
        BY <2>1, <2>2
<1>2. RepoInv /\ [RepoNext]_repoVars =>
          [\A id \in Id : (trades[id] # None /\ trades[id].pending_margin_call) =>
              \/ trades'[id].cure_deadline = trades[id].cure_deadline
              \/ ~trades'[id].pending_margin_call /\ PriceOk(trades[id].asset)]_repoVars
    BY <1>1
<1>3. QED
    BY <1>2, RepoInvariantHolds, PTL DEF RepoSpec, CureDeadlineStands

(* What a split moves to the two wallets of a trade between two parties. *)
LEMMA SplitGains ==
    ASSUME RepoInv, NEW t \in RepoTrade, NEW owed \in Nat, t.lender # t.borrower,
           price[t.asset].value > 0, SplitUnits(t, owed)
    PROVE  LET p == price[t.asset].value
               Gain(h) == rwa'[t.asset][h] - rwa[t.asset][h]
           IN  /\ Gain(t.lender) + Gain(t.borrower) = t.units
               /\ Gain(t.borrower) > 0 => Gain(t.lender) * p >= owed * PRICE_SCALE
               /\ (Gain(t.lender) - 1) * p < owed * PRICE_SCALE
<1> DEFINE p == price[t.asset].value
           x == LenderUnits(owed, p, t.units)
           first == Transfer(rwa, t.asset, Contract, t.lender, x)
           Gain(h) == rwa'[t.asset][h] - rwa[t.asset][h]
<1>1. /\ t.asset \in Asset /\ t.units \in Nat
      /\ t.lender \in Party /\ t.borrower \in Party
    BY DEF RepoTrade
<1>2. /\ t.lender \in Holder /\ t.borrower \in Holder
      /\ t.lender # Contract /\ t.borrower # Contract
    BY <1>1, RepoAssumption DEF Holder
<1>3. p \in Nat \ {0}
    BY <1>1 DEF RepoInv, RepoTypeOK, GuardedPrice
<1>4. /\ x \in 0 .. t.units
      /\ x < t.units => x * p >= owed * PRICE_SCALE
      /\ (x - 1) * p < owed * PRICE_SCALE
    BY <1>1, <1>3, LenderUnitsFair
<1>5. rwa \in [Asset -> [Holder -> Int]]
    BY DEF RepoInv, RepoTypeOK
<1> HIDE DEF x
<1>6. /\ first \in [Asset -> [Holder -> Int]]
      /\ first[t.asset][t.lender] = rwa[t.asset][t.lender] + x
      /\ first[t.asset][t.borrower] = rwa[t.asset][t.borrower]
    <2>1. x \in Int
        BY <1>1, <1>4
    <2>2. QED
        BY <1>1, <1>2, <1>5, <2>1 DEF Transfer
<1>7. rwa' = Transfer(first, t.asset, Contract, t.borrower, t.units - x)
    BY Zenon DEF SplitUnits, x
<1> HIDE DEF first
<1>8. /\ rwa'[t.asset][t.lender] = first[t.asset][t.lender]
      /\ rwa'[t.asset][t.borrower] = first[t.asset][t.borrower] + (t.units - x)
    <2>1. x \in Int
        BY <1>1, <1>4
    <2>2. QED
        BY <1>1, <1>2, <1>6, <1>7, <2>1 DEF Transfer
<1>9. /\ rwa[t.asset][t.lender] \in Int /\ rwa[t.asset][t.borrower] \in Int
    BY <1>1, <1>2, <1>5
<1>10. Gain(t.lender) = x /\ Gain(t.borrower) = t.units - x
    BY <1>1, <1>4, <1>6, <1>8, <1>9
<1>11. QED
    BY <1>1, <1>4, <1>10

(* A default pays the lender just enough units to cover what is owed, or   *)
(* all of them, and returns the rest to the borrower.                      *)
THEOREM FairSplitHolds == RepoSpec => FairSplit
<1>1. ASSUME RepoInv, [RepoNext]_repoVars, NEW id \in Id,
             Defaults(id), trades[id].lender # trades[id].borrower
      PROVE  LET t    == trades[id]
                 p    == price[t.asset].value
                 Gain(h) == rwa'[t.asset][h] - rwa[t.asset][h]
             IN  /\ Gain(t.lender) + Gain(t.borrower) = t.units
                 /\ \E owed \in {Exposure(t), Due(t)} :
                        /\ Gain(t.borrower) > 0 => Gain(t.lender) * p >= owed * PRICE_SCALE
                        /\ (Gain(t.lender) - 1) * p < owed * PRICE_SCALE
    <2> DEFINE t == trades[id]
    <2>1. HasStatus(id, "Settled")
        BY <1>1 DEF Defaults, Live
    <2>2. t \in RepoTrade /\ Due(t) \in Nat /\ Exposure(t) \in Nat
        BY <1>1, <2>1, SettledOwes DEF TradeSound
    <2>3. PICK owed \in {Exposure(t), Due(t)} :
              SplitUnits(t, owed) /\ price[t.asset].value > 0
        BY <1>1, OnlyDefaultsDefault DEF DefaultClose, DefaultAtMaturity
    <2>4. owed \in Nat
        BY <2>2, <2>3
    <2>5. QED
        BY <1>1, <2>2, <2>3, <2>4, SplitGains
<1>2. RepoInv /\ [RepoNext]_repoVars =>
          [\A id \in Id : Defaults(id) /\ trades[id].lender # trades[id].borrower =>
              LET t    == trades[id]
                  p    == price[t.asset].value
                  Gain(h) == rwa'[t.asset][h] - rwa[t.asset][h]
              IN  /\ Gain(t.lender) + Gain(t.borrower) = t.units
                  /\ \E owed \in {Exposure(t), Due(t)} :
                         /\ Gain(t.borrower) > 0 => Gain(t.lender) * p >= owed * PRICE_SCALE
                         /\ (Gain(t.lender) - 1) * p < owed * PRICE_SCALE]_repoVars
    BY <1>1
<1>3. QED
    BY <1>2, RepoInvariantHolds, PTL DEF RepoSpec, FairSplit

(* A stop is lifted only by using up an unpause that has waited out its    *)
(* timelock, and nothing settles under a stop.                             *)
THEOREM StopsHoldAlways == RepoSpec => StopsHold
<1> DEFINE Lifted ==
        /\ \A scope \in paused \ paused' :
               \E id \in Id :
                   /\ pendingUnpause[id] # None /\ pendingUnpause'[id] = None
                   /\ pendingUnpause[id].scope = scope
                   /\ now >= pendingUnpause[id].executes_at
        /\ \A s, r \in paused \ paused' : s = r
           Settles(id) == HasStatus(id, "Proposed") /\ HasStatus(id, "Settled")'
<1>1. ASSUME RepoInv, [RepoNext]_repoVars PROVE Lifted
    <2>1. CASE \E id \in Id : ExecuteUnpause(id)
        <3>1. PICK id \in Id : ExecuteUnpause(id)
            BY <2>1
        <3>2. /\ pendingUnpause[id] # None
              /\ now >= pendingUnpause[id].executes_at
              /\ paused' = paused \ {pendingUnpause[id].scope}
              /\ pendingUnpause' = [pendingUnpause EXCEPT ![id] = None]
            BY <3>1 DEF ExecuteUnpause
        <3>3. pendingUnpause'[id] = None
            BY <1>1, <3>2 DEF RepoInv, RepoTypeOK
        <3>4. QED
            BY <3>2, <3>3
    <2>2. CASE paused \ paused' = {}
        BY <2>2
    <2>3. (\E id \in Id : ExecuteUnpause(id)) \/ paused \ paused' = {}
        <3>1. ASSUME NEW id \in Id, TradeCall(id) PROVE paused' = paused
            BY <3>1 DEF TradeCall, CancelProposal, AcceptAndSettle, StillOpen, Unwind, CallMargin, TopUp,
                        DefaultClose, DefaultAtMaturity, pauseVars
        <3>2. CASE AdminCall
            BY <3>2 DEF AdminCall, SetCureGrace, SetMaturityGrace, ConfigureAsset,
                        SetAssetDisabled, Pause, QueueUnpause, CancelUnpause, pauseVars
        <3>3. ASSUME NEW l \in Lenders, NEW b \in Borrowers, NEW terms \in Terms,
                     Propose(l, b, terms)
              PROVE  paused' = paused
            BY <3>3 DEF Propose, pauseVars
        <3>4. CASE CloseLedger \/ \E a \in Asset, reading \in PriceReadings :
                                      PriceMoves(a, reading)
            BY <3>4 DEF CloseLedger, PriceMoves, pauseVars
        <3>5. CASE UNCHANGED repoVars
            BY <3>5 DEF repoVars, pauseVars
        <3>6. QED
            BY <1>1, <3>1, <3>2, <3>3, <3>4, <3>5 DEF RepoNext
    <2>4. QED
        BY <2>1, <2>2, <2>3
<1>2. ASSUME RepoInv, [RepoNext]_repoVars, NEW id \in Id, Settles(id)
      PROVE  paused = {}
    <2> DEFINE t == trades[id]
    <2>1. /\ trades[id] # None /\ t.status = "Proposed" /\ trades'[id].status = "Settled"
        BY <1>2 DEF HasStatus
    <2>2. TradeCall(id)
        BY <1>2, <2>1, OnlyOwnCall
    <2>3. t \in RepoTrade /\ trades \in [Id -> RepoTrade \cup {None}]
        BY <1>2, <2>1 DEF RepoInv, RepoTypeOK
    <2>4. ~\E p \in Party : CancelProposal(p, id)
        BY <2>1, <2>3 DEF CancelProposal, WriteTrade, RepoTrade
    <2>5. \E p \in Party : AcceptAndSettle(p, id)
        BY <2>1, <2>2, <2>4 DEF TradeCall, Unwind, CallMargin, TopUp, DefaultClose,
                                DefaultAtMaturity, HasStatus
    <2>6. ~IsPaused("Repos")
        BY <2>5 DEF AcceptAndSettle
    <2>7. paused \in SUBSET {"Repos", "All"}
        BY <1>2 DEF RepoInv, RepoTypeOK, PauseScope
    <2>8. QED
        BY <2>6, <2>7 DEF IsPaused
<1>3. RepoInv /\ [RepoNext]_repoVars =>
          [/\ Lifted /\ ((\E id \in Id : Settles(id)) => paused = {})]_repoVars
    BY <1>1, <1>2
<1>4. QED
    BY <1>3, RepoInvariantHolds, PTL DEF RepoSpec, StopsHold

-----------------------------------------------------------------------------
(* What the contract holds *)

(* There are finitely many trades.                                         *)
LEMMA FiniteIds == IsFiniteSet(Id)
    BY RepoAssumption, FS_Interval DEF Id

(* The units the contract holds for a trade. *)
Pledged(t) == IF t # None /\ t.status = "Settled" THEN t.units ELSE 0

LEMMA PledgedInt ==
    ASSUME NEW t \in RepoTrade \cup {None}
    PROVE  Pledged(t) \in Int
    BY DEF Pledged, RepoTrade

(* What the contract's balance of an asset does in one step. *)
Flow(a) == rwa'[a][Contract] - rwa[a][Contract]

(* Units that come and go with the one trade that is written keep the      *)
(* contract's balance in step.                                             *)
LEMMA UnitsMove ==
    ASSUME RepoInv, RepoInv', RepoEscrowBacked, NEW id \in Id, NEW t \in RepoTrade,
           WriteTrade(id, t),
           trades[id] # None => trades[id].asset = t.asset,
           \A b \in Asset \ {t.asset} : rwa'[b][Contract] = rwa[b][Contract],
           Flow(t.asset) = Pledged(t) - Pledged(trades[id])
    PROVE  RepoEscrowBacked'
<1>1. /\ trades \in [Id -> RepoTrade \cup {None}]
      /\ rwa \in [Asset -> [Holder -> Int]] /\ rwa' \in [Asset -> [Holder -> Int]]
      /\ Contract \in Holder /\ t.asset \in Asset /\ t # None
    BY RepoAssumption DEF RepoInv, RepoTypeOK, Holder, RepoTrade
<1>2. /\ trades'[id] = t
      /\ \A k \in Id : k # id => trades'[k] = trades[k]
    BY <1>1 DEF WriteTrade
<1>3. ASSUME NEW b \in Asset, b # t.asset
      PROVE  rwa'[b][Contract] = SumFunctionOnSet(UnitsIn(b)', Id)
  <2>1. ASSUME NEW k \in Id PROVE UnitsIn(b)'[k] = UnitsIn(b)[k]
      BY <1>2, <1>3 DEF UnitsIn, Live, HasStatus
  <2>2. UnitsIn(b)' = UnitsIn(b)
      BY <2>1 DEF UnitsIn
  <2>3. QED
      BY <1>3, <2>2 DEF RepoEscrowBacked
<1>4. ASSUME NEW b \in Asset, b = t.asset
      PROVE  rwa'[b][Contract] = SumFunctionOnSet(UnitsIn(b)', Id)
  <2>1. PICK f, g : f = UnitsIn(b) /\ g = UnitsIn(b)'
      OBVIOUS
  <2>2. ASSUME NEW k \in Id
        PROVE  /\ f[k] \in Int /\ g[k] \in Int
               /\ k # id => f[k] = g[k]
    <3>1. trades[k] \in RepoTrade \cup {None} /\ trades'[k] \in RepoTrade \cup {None}
        BY <1>1, <1>2
    <3>2. /\ f[k] = IF trades[k] # None /\ trades[k].status = "Settled" /\ trades[k].asset = b
                    THEN trades[k].units ELSE 0
          /\ g[k] = IF trades'[k] # None /\ trades'[k].status = "Settled" /\ trades'[k].asset = b
                    THEN trades'[k].units ELSE 0
        BY <2>1 DEF UnitsIn, Live, HasStatus
    <3>3. \A u \in RepoTrade : u.units \in Int
        BY DEF RepoTrade
    <3>4. f[k] \in Int /\ g[k] \in Int
        BY <3>1, <3>2, <3>3
    <3>5. k # id => f[k] = g[k]
        BY <1>2, <3>2
    <3>6. QED
        BY <3>4, <3>5
  <2>3. g[id] = Pledged(t)
      BY <1>1, <1>2, <1>4, <2>1 DEF UnitsIn, Live, HasStatus, Pledged
  <2>4. f[id] = Pledged(trades[id])
      BY <1>4, <2>1 DEF UnitsIn, Live, HasStatus, Pledged
  <2>5. SumFunctionOnSet(g, Id) = SumFunctionOnSet(f, Id) + (g[id] - f[id])
    <3>1. \A k \in Id : f[k] \in Int /\ g[k] \in Int
        BY <2>2
    <3>2. \A k \in Id \ {id} : f[k] = g[k]
        BY <2>2
    <3>3. QED
        BY <3>1, <3>2, FiniteIds, SumMoves
  <2>6. rwa[b][Contract] = SumFunctionOnSet(f, Id)
      BY <2>1 DEF RepoEscrowBacked
  <2>7. rwa'[b][Contract] - rwa[b][Contract] = g[id] - f[id]
      BY <1>4, <2>3, <2>4 DEF Flow
  <2>8. /\ rwa'[b][Contract] \in Int /\ rwa[b][Contract] \in Int
        /\ f[id] \in Int /\ g[id] \in Int
      BY <1>1, <2>2
  <2>9. rwa'[b][Contract] = SumFunctionOnSet(g, Id)
      BY <2>5, <2>6, <2>7, <2>8
  <2>10. QED
      BY <2>1, <2>9
<1>5. QED
    BY <1>3, <1>4 DEF RepoEscrowBacked

(* What a transfer between a party and the contract does to the contract.  *)
LEMMA TransferIn ==
    ASSUME NEW r \in [Asset -> [Holder -> Int]], NEW a \in Asset, NEW p \in Party,
           NEW units \in Int,
           NEW q, q = Transfer(r, a, p, Contract, units)
    PROVE  /\ q[a][Contract] = r[a][Contract] + units
           /\ \A b \in Asset \ {a} : q[b] = r[b]
<1>1. Contract \in Holder /\ Contract # p
    BY RepoAssumption DEF Holder
<1>2. r[a][Contract] \in Int
    BY <1>1
<1>3. QED
    BY <1>1, <1>2 DEF Transfer

LEMMA TransferOut ==
    ASSUME NEW r \in [Asset -> [Holder -> Int]], NEW a \in Asset, NEW p \in Party,
           NEW units \in Int,
           NEW q, q = Transfer(r, a, Contract, p, units)
    PROVE  /\ q[a][Contract] = r[a][Contract] - units
           /\ \A b \in Asset \ {a} : q[b] = r[b]
<1>1. Contract \in Holder /\ Contract # p
    BY RepoAssumption DEF Holder
<1>2. r[a][Contract] \in Int
    BY <1>1
<1>3. QED
    BY <1>1, <1>2 DEF Transfer

(* A split takes exactly the trade's units out of the contract.            *)
LEMMA SplitFlow ==
    ASSUME RepoInv, NEW t \in RepoTrade, NEW owed \in Nat, price[t.asset].value > 0,
           SplitUnits(t, owed)
    PROVE  /\ Flow(t.asset) = 0 - t.units
           /\ \A b \in Asset \ {t.asset} : rwa'[b][Contract] = rwa[b][Contract]
<1> DEFINE x == LenderUnits(owed, price[t.asset].value, t.units)
           first == Transfer(rwa, t.asset, Contract, t.lender, x)
<1>1. /\ t.asset \in Asset /\ t.lender \in Party /\ t.borrower \in Party /\ t.units \in Nat
    BY DEF RepoTrade
<1>2. price[t.asset].value \in Nat \ {0}
    BY <1>1 DEF RepoInv, RepoTypeOK, GuardedPrice
<1>3. x \in Int /\ t.units - x \in Int
    BY <1>1, <1>2, LenderUnitsFair
<1>4. rwa \in [Asset -> [Holder -> Int]] /\ t.lender \in Holder /\ Contract \in Holder
    BY <1>1 DEF RepoInv, RepoTypeOK, Holder
<1>5. first \in [Asset -> [Holder -> Int]]
    BY <1>1, <1>3, <1>4, TransferType
<1>6. rwa' = Transfer(first, t.asset, Contract, t.borrower, t.units - x)
    BY Zenon DEF SplitUnits
<1>7. PICK one, rest : one = first /\ rest = rwa'
    OBVIOUS
<1>8. PICK y \in Int : y = x
    BY <1>3
<1>9. /\ one = Transfer(rwa, t.asset, Contract, t.lender, y)
      /\ rest = Transfer(one, t.asset, Contract, t.borrower, t.units - y)
      /\ one \in [Asset -> [Holder -> Int]] /\ t.units - y \in Int
    BY <1>3, <1>5, <1>6, <1>7, <1>8
<1> HIDE DEF x, first
<1>10. /\ one[t.asset][Contract] = rwa[t.asset][Contract] - y
       /\ \A b \in Asset \ {t.asset} : one[b] = rwa[b]
    BY <1>1, <1>4, <1>9, TransferOut
<1>11. /\ rest[t.asset][Contract] = one[t.asset][Contract] - (t.units - y)
       /\ \A b \in Asset \ {t.asset} : rest[b] = one[b]
    BY <1>1, <1>9, TransferOut
<1>12. rwa[t.asset][Contract] \in Int
    BY <1>1, <1>4
<1>13. Flow(t.asset) = 0 - t.units
    BY <1>1, <1>7, <1>10, <1>11, <1>12 DEF Flow
<1>14. QED
    BY <1>7, <1>10, <1>11, <1>13

(* A step proposes a trade, is a call on one, or leaves all of them alone. *)
LEMMA StepOnTrades ==
    ASSUME [RepoNext]_repoVars
    PROVE  \/ \E l \in Lenders, b \in Borrowers, terms \in Terms : Propose(l, b, terms)
           \/ \E id \in Id : TradeCall(id)
           \/ UNCHANGED tradeVars
<1>1. AdminCall => UNCHANGED tradeVars
    BY DEF AdminCall, SetCureGrace, SetMaturityGrace, ConfigureAsset, SetAssetDisabled,
           Pause, QueueUnpause, CancelUnpause, ExecuteUnpause
<1>2. CloseLedger => UNCHANGED tradeVars
    BY DEF CloseLedger
<1>3. ASSUME NEW a \in Asset, NEW reading \in PriceReadings, PriceMoves(a, reading)
      PROVE  UNCHANGED tradeVars
    BY <1>3 DEF PriceMoves
<1>4. UNCHANGED repoVars => UNCHANGED tradeVars
    BY DEF repoVars
<1>5. QED
    BY <1>1, <1>2, <1>3, <1>4 DEF RepoNext

(* What no call on a trade changes. *)
SameTerms(u, t) ==
    /\ u.lender = t.lender /\ u.borrower = t.borrower /\ u.asset = t.asset
    /\ u.cash_amount = t.cash_amount /\ u.rate_bps = t.rate_bps
    /\ u.maturity_at = t.maturity_at /\ u.proposed_at = t.proposed_at

(* A margin call writes the trade with its terms, status and units.        *)
LEMMA MarginWrites ==
    ASSUME RepoInv, NEW id \in Id, CallMargin(id)
    PROVE  \E u \in RepoTrade :
              /\ WriteTrade(id, u) /\ SameTerms(u, trades[id])
              /\ u.status = "Settled" /\ u.settled_at = trades[id].settled_at
              /\ u.units = trades[id].units
<1> DEFINE t == trades[id]
           called == [t EXCEPT !.margin_call_amount = MarginCallAmount(t),
                               !.pending_margin_call = TRUE,
                               !.cure_deadline = CureDeadline(t)]
           cleared == ClearMarginCall(t)
<1>1. HasStatus(id, "Settled") /\ t # None /\ t.status = "Settled"
    BY DEF CallMargin, HasStatus
<1>2. t \in RepoTrade /\ now \in Nat
    BY <1>1, StoredSound DEF TradeSound
<1>3. MarginCallAmount(t) \in Nat
    BY <1>1, CallAmountNat
<1>4. CureDeadline(t) \in Nat \cup {None}
  <2>1. cureGrace \in Nat /\ t.cure_deadline \in Nat \cup {None}
      BY <1>2 DEF RepoInv, RepoTypeOK, RepoTrade
  <2>2. now + cureGrace \in Nat
      BY <1>2, <2>1
  <2>3. QED
      BY <2>1, <2>2 DEF CureDeadline
<1>5. /\ called \in RepoTrade /\ SameTerms(called, t)
      /\ called.status = t.status /\ called.settled_at = t.settled_at
      /\ called.units = t.units
  <2>1. PICK m \in Nat, d \in Nat \cup {None} : m = MarginCallAmount(t) /\ d = CureDeadline(t)
      BY <1>3, <1>4
  <2> HIDE DEF t
  <2>2. called = [t EXCEPT !.margin_call_amount = m, !.pending_margin_call = TRUE,
                           !.cure_deadline = d]
      BY <2>1
  <2>3. QED
      BY <1>2, <2>2 DEF RepoTrade, SameTerms
<1>6. /\ cleared \in RepoTrade /\ SameTerms(cleared, t)
      /\ cleared.status = t.status /\ cleared.settled_at = t.settled_at
      /\ cleared.units = t.units
  <2> HIDE DEF t
  <2>1. QED
      BY <1>2 DEF RepoTrade, SameTerms, ClearMarginCall
<1>7. WriteTrade(id, called) \/ WriteTrade(id, cleared)
    BY DEF CallMargin
<1> HIDE DEF called, cleared
<1>8. QED
    BY <1>1, <1>5, <1>6, <1>7

(* A top-up writes the trade with its terms and status, and more units.    *)
LEMMA TopUpWrites ==
    ASSUME RepoInv, NEW id \in Id, NEW extra \in Nat, TopUp(id, extra)
    PROVE  \E u \in RepoTrade :
              /\ WriteTrade(id, u) /\ SameTerms(u, trades[id])
              /\ u.status = "Settled" /\ u.settled_at = trades[id].settled_at
              /\ u.units = trades[id].units + extra
<1> DEFINE t == trades[id]
           more == [t EXCEPT !.units = @ + extra]
           cleared == ClearMarginCall(more)
<1>1. HasStatus(id, "Settled") /\ t # None /\ t.status = "Settled"
    BY DEF TopUp, HasStatus
<1>2. t \in RepoTrade
    BY <1>1, StoredSound DEF TradeSound
<1>3. PICK n \in Nat : n = t.units + extra
    BY <1>2 DEF RepoTrade
<1>4. WriteTrade(id, more) \/ WriteTrade(id, cleared)
    BY DEF TopUp
<1>5. more = [t EXCEPT !.units = n]
    BY <1>2, <1>3 DEF RepoTrade
<1> HIDE DEF t, more
<1>6. /\ more \in RepoTrade /\ SameTerms(more, t)
      /\ more.status = t.status /\ more.settled_at = t.settled_at /\ more.units = n
    BY <1>2, <1>5 DEF RepoTrade, SameTerms
<1>7. /\ cleared \in RepoTrade /\ SameTerms(cleared, more)
      /\ cleared.status = more.status /\ cleared.settled_at = more.settled_at
      /\ cleared.units = more.units
    BY <1>6 DEF RepoTrade, SameTerms, ClearMarginCall
<1> HIDE DEF cleared
<1>8. SameTerms(cleared, t)
    BY <1>6, <1>7 DEF SameTerms
<1>9. QED
    BY <1>1, <1>3, <1>4, <1>6, <1>7, <1>8 DEF t

(* A proposal takes no units yet, and uses a number nothing had.           *)
LEMMA ProposeEscrow ==
    ASSUME RepoInv, RepoInv', RepoEscrowBacked, NEW l \in Lenders, NEW b \in Borrowers,
           NEW terms \in Terms, Propose(l, b, terms)
    PROVE  RepoEscrowBacked'
<1> DEFINE t ==
    [lender |-> l, borrower |-> b, asset |-> terms.asset,
     units |-> terms.units, cash_amount |-> terms.cash_amount,
     rate_bps |-> terms.rate_bps, maturity_at |-> terms.maturity_at,
     proposed_at |-> now, status |-> "Proposed", settled_at |-> None,
     pending_margin_call |-> FALSE, margin_call_amount |-> 0,
     cure_deadline |-> None]
<1>1. nextId \in Id /\ WriteTrade(nextId, t) /\ rwa' = rwa
    BY DEF Propose
<1>2. trades \in [Id -> RepoTrade \cup {None}] /\ trades' \in [Id -> RepoTrade \cup {None}]
    BY DEF RepoInv, RepoTypeOK
<1>3. trades[nextId] = None
    BY <1>1, RepoAssumption DEF RepoInv, Id
<1>4. trades'[nextId] = t /\ t # None
  <2>1. trades'[nextId] = t
      BY <1>1, <1>2 DEF WriteTrade
  <2>2. t # None
    <3>1. terms \in RepoTerms /\ now \in Nat
        BY NowNat, RepoAssumption DEF RepoInv, RepoTypeOK
    <3>2. t \in RepoTrade
        BY <3>1 DEF RepoTrade, RepoTerms, RepoStatus, Party
    <3>3. QED
        BY <3>2, RepoAssumption
  <2>3. QED
      BY <2>1, <2>2
<1>5. t \in RepoTrade /\ t.status = "Proposed" /\ t.asset \in Asset
  <2>1. t \in RepoTrade
      BY <1>1, <1>2, <1>4
  <2>2. QED
      BY <2>1 DEF RepoTrade
<1>6. Pledged(t) = 0 /\ Pledged(trades[nextId]) = 0
    BY <1>3, <1>5 DEF Pledged
<1> HIDE DEF t
<1>7. Flow(t.asset) = 0 /\ \A a \in Asset : rwa'[a][Contract] = rwa[a][Contract]
  <2>1. rwa[t.asset][Contract] \in Int
      BY <1>5 DEF RepoInv, RepoTypeOK, Holder
  <2>2. QED
      BY <1>1, <2>1 DEF Flow
<1>8. QED
    BY <1>1, <1>3, <1>5, <1>6, <1>7, UnitsMove

(* A trade's call moves the trade's own units, in or out.                  *)
LEMMA TradeCallEscrow ==
    ASSUME RepoInv, RepoInv', RepoEscrowBacked, NEW id \in Id, TradeCall(id)
    PROVE  RepoEscrowBacked'
<1> DEFINE t == trades[id]
<1>1. t # None
    BY DEF TradeCall, CancelProposal, AcceptAndSettle, Unwind, CallMargin, TopUp,
           DefaultClose, DefaultAtMaturity, HasStatus
<1>2. t \in RepoTrade /\ trades \in [Id -> RepoTrade \cup {None}]
    BY <1>1, StoredSound DEF TradeSound, RepoInv, RepoTypeOK
<1>3. /\ t.asset \in Asset /\ t.units \in Nat /\ t.borrower \in Party
      /\ rwa \in [Asset -> [Holder -> Int]] /\ Contract \in Holder
    BY <1>2 DEF RepoTrade, RepoInv, RepoTypeOK, Holder
<1>4. rwa[t.asset][Contract] \in Int
    BY <1>3
<1>5. ASSUME NEW u \in RepoTrade, WriteTrade(id, u), u.asset = t.asset,
             Flow(t.asset) = Pledged(u) - Pledged(t),
             \A b \in Asset \ {t.asset} : rwa'[b][Contract] = rwa[b][Contract]
      PROVE  RepoEscrowBacked'
    BY <1>5, UnitsMove
<1>6. ASSUME NEW u \in RepoTrade, WriteTrade(id, u), u.asset = t.asset,
             Pledged(u) = Pledged(t), rwa' = rwa
      PROVE  RepoEscrowBacked'
  <2>1. Pledged(t) \in Int
      BY <1>2, PledgedInt
  <2>2. Flow(t.asset) = Pledged(u) - Pledged(t)
      BY <1>4, <1>6, <2>1 DEF Flow
  <2>3. QED
      BY <1>5, <1>6, <2>2
<1>8. ASSUME NEW p \in Party, CancelProposal(p, id) PROVE RepoEscrowBacked'
  <2> DEFINE u == [t EXCEPT !.status = "Cancelled"]
  <2>1. WriteTrade(id, u) /\ rwa' = rwa /\ t.status = "Proposed"
      BY <1>8 DEF CancelProposal, HasStatus
  <2>2. u \in RepoTrade /\ u.asset = t.asset /\ u.status = "Cancelled"
      BY <1>2 DEF RepoTrade, RepoStatus
  <2>3. Pledged(u) = Pledged(t)
      BY <2>1, <2>2 DEF Pledged
  <2> HIDE DEF u
  <2>4. QED
      BY <1>6, <2>1, <2>2, <2>3
<1>9. ASSUME NEW p \in Party, AcceptAndSettle(p, id) PROVE RepoEscrowBacked'
  <2> DEFINE u == [t EXCEPT !.status = "Settled", !.settled_at = now]
  <2>1. /\ WriteTrade(id, u) /\ t.status = "Proposed"
        /\ rwa' = Transfer(rwa, t.asset, p, Contract, t.units)
      BY <1>9 DEF AcceptAndSettle, StillOpen, Move
  <2>2. now \in Nat
      BY <1>1, StoredSound
  <2>3. /\ u \in RepoTrade /\ u.asset = t.asset /\ u.status = "Settled"
        /\ u.units = t.units
      BY <1>2, <2>2 DEF RepoTrade, RepoStatus
  <2>4. Pledged(u) = t.units /\ Pledged(t) = 0
      BY <2>1, <2>3, RepoAssumption DEF Pledged
  <2> HIDE DEF u
  <2>5. /\ rwa'[t.asset][Contract] = rwa[t.asset][Contract] + t.units
        /\ \A b \in Asset \ {t.asset} : rwa'[b] = rwa[b]
    <3>1. t.units \in Int
        BY <1>3
    <3>2. PICK q : q = rwa'
        OBVIOUS
    <3>3. q = Transfer(rwa, t.asset, p, Contract, t.units)
        BY <2>1, <3>2
    <3> HIDE DEF t
    <3>4. /\ q[t.asset][Contract] = rwa[t.asset][Contract] + t.units
          /\ \A b \in Asset \ {t.asset} : q[b] = rwa[b]
        BY <1>3, <3>1, <3>3, TransferIn
    <3>5. QED
        BY <3>2, <3>4
  <2>6. Flow(t.asset) = Pledged(u) - Pledged(t)
      BY <1>3, <1>4, <2>4, <2>5 DEF Flow
  <2>7. QED
      BY <1>5, <2>1, <2>3, <2>5, <2>6
<1>10. ASSUME NEW byBorrower \in BOOLEAN, Unwind(byBorrower, id) PROVE RepoEscrowBacked'
  <2> DEFINE u == [t EXCEPT !.status = "Unwound"]
  <2>1. /\ WriteTrade(id, u) /\ t.status = "Settled"
        /\ rwa' = Transfer(rwa, t.asset, Contract, t.borrower, t.units)
      BY <1>10 DEF Unwind, HasStatus, Move
  <2>2. /\ u \in RepoTrade /\ u.asset = t.asset /\ u.status = "Unwound"
      BY <1>2 DEF RepoTrade, RepoStatus
  <2>3. Pledged(u) = 0 /\ Pledged(t) = t.units
      BY <1>1, <2>1, <2>2 DEF Pledged
  <2> HIDE DEF u
  <2>4. /\ rwa'[t.asset][Contract] = rwa[t.asset][Contract] - t.units
        /\ \A b \in Asset \ {t.asset} : rwa'[b] = rwa[b]
    <3>1. t.units \in Int
        BY <1>3
    <3>2. PICK q : q = rwa'
        OBVIOUS
    <3>3. q = Transfer(rwa, t.asset, Contract, t.borrower, t.units)
        BY <2>1, <3>2
    <3> HIDE DEF t
    <3>4. /\ q[t.asset][Contract] = rwa[t.asset][Contract] - t.units
          /\ \A b \in Asset \ {t.asset} : q[b] = rwa[b]
        BY <1>3, <3>1, <3>3, TransferOut
    <3>5. QED
        BY <3>2, <3>4
  <2>5. Flow(t.asset) = Pledged(u) - Pledged(t)
      BY <1>3, <1>4, <2>3, <2>4 DEF Flow
  <2>6. QED
      BY <1>5, <2>1, <2>2, <2>4, <2>5
<1>11. CASE CallMargin(id)
  <2>1. PICK u \in RepoTrade : /\ WriteTrade(id, u) /\ SameTerms(u, t)
                               /\ u.status = "Settled" /\ u.units = t.units
      BY <1>11, MarginWrites
  <2>2. t.status = "Settled" /\ rwa' = rwa /\ u # None
      BY <1>11, RepoAssumption DEF CallMargin, HasStatus
  <2>3. Pledged(u) = Pledged(t)
      BY <1>1, <2>1, <2>2 DEF Pledged
  <2>4. QED
      BY <1>6, <2>1, <2>2, <2>3 DEF SameTerms
<1>12. ASSUME NEW extra \in TopUps, TopUp(id, extra) PROVE RepoEscrowBacked'
  <2>1. extra \in Nat
      BY RepoAssumption
  <2>2. PICK u \in RepoTrade : /\ WriteTrade(id, u) /\ SameTerms(u, t)
                               /\ u.status = "Settled" /\ u.units = t.units + extra
      BY <1>12, <2>1, TopUpWrites
  <2>3. /\ t.status = "Settled" /\ u # None
        /\ rwa' = Transfer(rwa, t.asset, t.borrower, Contract, extra)
      BY <1>2, <1>12, RepoAssumption DEF TopUp, HasStatus, Move, RepoTrade
  <2>4. Pledged(u) = t.units + extra /\ Pledged(t) = t.units
      BY <1>1, <2>2, <2>3 DEF Pledged
  <2>5. /\ rwa'[t.asset][Contract] = rwa[t.asset][Contract] + extra
        /\ \A b \in Asset \ {t.asset} : rwa'[b] = rwa[b]
    <3>1. extra \in Int
        BY <2>1
    <3>2. PICK q : q = rwa'
        OBVIOUS
    <3>3. q = Transfer(rwa, t.asset, t.borrower, Contract, extra)
        BY <2>3, <3>2
    <3> HIDE DEF t
    <3>4. /\ q[t.asset][Contract] = rwa[t.asset][Contract] + extra
          /\ \A b \in Asset \ {t.asset} : q[b] = rwa[b]
        BY <1>3, <3>1, <3>3, TransferIn
    <3>5. QED
        BY <3>2, <3>4
  <2>6. Flow(t.asset) = Pledged(u) - Pledged(t)
      BY <1>3, <1>4, <2>1, <2>4, <2>5 DEF Flow
  <2>7. QED
      BY <1>5, <2>2, <2>5, <2>6 DEF SameTerms
<1>13. CASE DefaultClose(id) \/ DefaultAtMaturity(id)
  <2> DEFINE u == [t EXCEPT !.status = "Defaulted"]
  <2>1. HasStatus(id, "Settled") /\ WriteTrade(id, u) /\ price[t.asset].value > 0
      BY <1>13 DEF DefaultClose, DefaultAtMaturity
  <2>2. Exposure(t) \in Nat /\ Due(t) \in Nat /\ t.status = "Settled"
      BY <2>1, SettledOwes DEF HasStatus
  <2>3. PICK owed \in Nat : SplitUnits(t, owed)
      BY <1>13, <2>2 DEF DefaultClose, DefaultAtMaturity
  <2>4. u \in RepoTrade /\ u.asset = t.asset /\ u.status = "Defaulted"
      BY <1>2 DEF RepoTrade, RepoStatus
  <2>5. Pledged(u) = 0 /\ Pledged(t) = t.units
      BY <1>1, <2>2, <2>4 DEF Pledged
  <2> HIDE DEF u, t
  <2>6. /\ Flow(t.asset) = 0 - t.units
        /\ \A b \in Asset \ {t.asset} : rwa'[b][Contract] = rwa[b][Contract]
      BY <1>2, <2>1, <2>3, SplitFlow
  <2>7. QED
      BY <1>3, <1>5, <2>1, <2>4, <2>5, <2>6
<1>14. QED
    BY <1>8, <1>9, <1>10, <1>11, <1>12, <1>13 DEF TradeCall

(* The contract holds exactly the units of the settled trades, for any     *)
(* number of trades and assets and any order of settlements, top-ups,      *)
(* unwinds and defaults.                                                   *)
THEOREM RepoEscrowHolds == RepoSpec => []RepoEscrowBacked
<1>1. RepoInit => RepoEscrowBacked
  <2> SUFFICES ASSUME RepoInit, NEW a \in Asset
               PROVE  rwa[a][Contract] = SumFunctionOnSet(UnitsIn(a), Id)
      BY DEF RepoEscrowBacked
  <2>1. \A id \in Id : UnitsIn(a)[id] = 0
      BY DEF RepoInit, UnitsIn, Live, HasStatus
  <2>2. SumFunctionOnSet(UnitsIn(a), Id) = 0
      BY <2>1, FiniteIds, SumOfZeroes
  <2>3. rwa[a][Contract] = 0
      BY DEF RepoInit, Holder
  <2>4. QED
      BY <2>2, <2>3
<1>2. ASSUME RepoInv, RepoInv', RepoEscrowBacked, [RepoNext]_repoVars
      PROVE  RepoEscrowBacked'
  <2>1. CASE UNCHANGED tradeVars
      BY <1>2, <2>1 DEF tradeVars, RepoEscrowBacked, UnitsIn, Live, HasStatus
  <2>2. QED
      BY <1>2, <2>1, StepOnTrades, ProposeEscrow, TradeCallEscrow
<1>3. QED
    BY <1>1, <1>2, RepoInvariantHolds, PTL DEF RepoSpec

-----------------------------------------------------------------------------
(* What the borrowers have approved *)

(* A term of seconds that the host's limit leaves room for is outlasted,   *)
(* with the grace of leg 2, by the expiry that is asked for it.            *)
LEMMA ExpiryOutlasts ==
    ASSUME sequence \in Nat, NEW s \in Nat,
           s \div SECONDS_PER_LEDGER + UNWIND_ALLOWANCE_GRACE_LEDGERS
               + 3 * ALLOWANCE_EXPIRY_BUCKET_LEDGERS <= MaxTtl
    PROVE  AllowanceExpiry(s, UNWIND_ALLOWANCE_GRACE_LEDGERS) * SECONDS_PER_LEDGER
               >= now + s + UNWIND_ALLOWANCE_GRACE_LEDGERS * SECONDS_PER_LEDGER
<1>1. PICK B \in Nat \ {0}, L \in Nat \ {0}, G \in Nat :
          /\ B = ALLOWANCE_EXPIRY_BUCKET_LEDGERS
          /\ L = SECONDS_PER_LEDGER
          /\ G = UNWIND_ALLOWANCE_GRACE_LEDGERS
    BY RepoAssumption
<1>2. PICK q \in Nat : q = s \div L
    BY <1>1, DivNat
<1>3. PICK e \in Nat : e = sequence + q + G
    OBVIOUS
<1>4. PICK k \in Nat : k = e \div B
    BY DivNat
<1>5. PICK w \in Nat : w = sequence + MaxTtl - 1
  <2>1. MaxTtl \in Nat /\ MaxTtl > 0
      BY RepoAssumption
  <2>2. QED
      BY <2>1
<1>6. PICK m \in Nat : m = w \div B
    BY DivNat
<1>7. k * B \in Nat /\ m * B \in Nat /\ (k + 2) * B = k * B + 2 * B
    BY MulNat
<1>8. e < k * B + B /\ w < m * B + B
    BY <1>4, <1>6
<1>9. AllowanceExpiry(s, UNWIND_ALLOWANCE_GRACE_LEDGERS)
          = IF (k + 2) * B <= m * B THEN (k + 2) * B ELSE m * B
    BY <1>1, <1>2, <1>3, <1>4, <1>5, <1>6 DEF AllowanceExpiry
<1>10. q + G + 3 * B <= MaxTtl
    BY <1>1, <1>2
<1>11. m * B >= e + 1
  <2>1. PICK mb \in Nat : mb = m * B
      BY <1>7
  <2>2. MaxTtl \in Nat
      BY RepoAssumption
  <2>3. sequence + MaxTtl - 1 < mb + B
      BY <1>5, <1>8, <2>1
  <2>4. mb >= e + 1
      BY <1>3, <1>10, <2>2, <2>3
  <2>5. QED
      BY <2>1, <2>4
<1>12. (k + 2) * B >= e + 1
    BY <1>7, <1>8
<1>13. PICK x \in Nat : /\ x = AllowanceExpiry(s, UNWIND_ALLOWANCE_GRACE_LEDGERS)
                        /\ x >= e + 1
    BY <1>7, <1>9, <1>11, <1>12
<1>14. L * (e + 1) <= L * x
    BY <1>13, MulGrows
<1>15. L * (e + 1) = sequence * L + q * L + G * L + L
    BY <1>3
<1>16. s < q * L + L
    BY <1>2
<1>17. /\ sequence * L \in Nat /\ q * L \in Nat /\ G * L \in Nat /\ L * x = x * L
       /\ x * L \in Nat
    BY MulNat
<1>18. x * L >= sequence * L + s + G * L
    BY <1>14, <1>15, <1>16, <1>17
<1>19. QED
    BY <1>1, <1>13, <1>18 DEF now

(* The ceiling a trade counts with in its borrower's due. *)
CeilingFor(b, t) ==
    IF t # None /\ t.status = "Settled" /\ t.borrower = b THEN Ceiling(t) ELSE 0

CeilingsOf(b) == [id \in Id |-> CeilingFor(b, trades[id])]

(* Trades are between a lender and a borrower, for cash. *)
TermsKept ==
    \A id \in Id : trades[id] # None =>
        /\ trades[id].lender \in Lenders /\ trades[id].borrower \in Borrowers
        /\ trades[id].cash_amount > 0

(* What the contract books as a borrower's due covers the ceilings of its  *)
(* settled trades, its allowance covers what is booked, and both last.     *)
Covered(b) ==
    /\ borrowerDue[b].amount >= SumFunctionOnSet(CeilingsOf(b), Id)
    /\ allowance[b].amount >= borrowerDue[b].amount
    /\ \A id \in LiveOf(b) : WithinReach(trades[id]) =>
           Outlasts(borrowerDue[b], trades[id]) /\ Outlasts(allowance[b], trades[id])

CollectableInv == TermsKept /\ \A b \in Borrowers : Covered(b)

(* A ceiling is a natural number, and positive where cash was lent.        *)
LEMMA CeilingNat ==
    ASSUME NEW t \in RepoTrade
    PROVE  Ceiling(t) \in Nat /\ (t.cash_amount > 0 => Ceiling(t) > 0)
<1>1. /\ t.cash_amount \in Nat /\ t.rate_bps \in Nat /\ t.maturity_at \in Nat
      /\ t.proposed_at \in Nat
    BY DEF RepoTrade
<1>2. Elapsed(t.proposed_at, t.maturity_at) \in Nat
    BY <1>1 DEF Elapsed
<1>3. AccrueInterest(t.cash_amount, t.rate_bps, Elapsed(t.proposed_at, t.maturity_at)) \in Nat
    BY <1>1, <1>2, InterestNat
<1>4. QED
    BY <1>1, <1>3 DEF Ceiling, TotalDue

LEMMA CeilingForNat ==
    ASSUME NEW t \in RepoTrade \cup {None}, NEW b
    PROVE  CeilingFor(b, t) \in Nat
    BY CeilingNat DEF CeilingFor

(* Writing one trade moves the sum of a borrower's ceilings by that trade. *)
LEMMA CeilingsMove ==
    ASSUME RepoInv, RepoInv', NEW id \in Id, NEW u \in RepoTrade, WriteTrade(id, u), NEW b
    PROVE  /\ SumFunctionOnSet(CeilingsOf(b)', Id)
                  = SumFunctionOnSet(CeilingsOf(b), Id)
                        + (CeilingFor(b, u) - CeilingFor(b, trades[id]))
           /\ SumFunctionOnSet(CeilingsOf(b), Id) \in Nat
           /\ SumFunctionOnSet(CeilingsOf(b)', Id) \in Nat
           /\ CeilingFor(b, trades[id]) <= SumFunctionOnSet(CeilingsOf(b), Id)
           /\ \A k \in Id : CeilingFor(b, trades'[k]) <= SumFunctionOnSet(CeilingsOf(b)', Id)
<1>1. /\ trades \in [Id -> RepoTrade \cup {None}]
      /\ trades' \in [Id -> RepoTrade \cup {None}]
    BY DEF RepoInv, RepoTypeOK
<1>2. trades'[id] = u /\ \A k \in Id : k # id => trades'[k] = trades[k]
    BY <1>1 DEF WriteTrade
<1>3. PICK f, g : f = CeilingsOf(b) /\ g = CeilingsOf(b)'
    OBVIOUS
<1>4. \A k \in Id : f[k] = CeilingFor(b, trades[k])
    BY <1>3 DEF CeilingsOf
<1>5. \A k \in Id : g[k] = CeilingFor(b, trades'[k])
    BY <1>3 DEF CeilingsOf, CeilingFor
<1>6. \A k \in Id : f[k] \in Nat
    BY <1>1, <1>4, CeilingForNat
<1>7. \A k \in Id : g[k] \in Nat
  <2>1. ASSUME NEW k \in Id PROVE g[k] \in Nat
    <3>1. PICK v \in RepoTrade \cup {None} : v = trades'[k]
        BY <1>1
    <3>2. CeilingFor(b, v) \in Nat
        BY CeilingForNat
    <3>3. QED
        BY <1>5, <3>1, <3>2
  <2>2. QED
      BY <2>1
<1>8. \A k \in Id \ {id} : f[k] = g[k]
    BY <1>2, <1>4, <1>5
<1>9. \A k \in Id : f[k] \in Int /\ g[k] \in Int
    BY <1>6, <1>7
<1>10. SumFunctionOnSet(g, Id) = SumFunctionOnSet(f, Id) + (g[id] - f[id])
    BY <1>8, <1>9, FiniteIds, SumMoves
<1>11. SumFunctionOnSet(f, Id) \in Nat /\ SumFunctionOnSet(g, Id) \in Nat
    BY <1>6, <1>7, FiniteIds, SumNat
<1>12. f[id] <= SumFunctionOnSet(f, Id)
    BY <1>6, FiniteIds, SumCoversTerm
<1>13. \A k \in Id : g[k] <= SumFunctionOnSet(g, Id)
    BY <1>7, FiniteIds, SumCoversTerm
<1>14. g[id] = CeilingFor(b, u)
    BY <1>2, <1>5
<1>15. QED
    BY <1>3, <1>4, <1>5, <1>10, <1>11, <1>12, <1>13, <1>14

(* The settled trades of a borrower after one trade was written.           *)
LEMMA LiveAfter ==
    ASSUME RepoInv, NEW id \in Id, NEW u \in RepoTrade, WriteTrade(id, u), NEW b,
           NEW k \in LiveOf(b)'
    PROVE  /\ k \in Id /\ trades'[k] # None
           /\ trades'[k].status = "Settled" /\ trades'[k].borrower = b
           /\ k # id => k \in LiveOf(b) /\ trades'[k] = trades[k]
           /\ k = id => trades'[k] = u
<1>1. trades \in [Id -> RepoTrade \cup {None}]
    BY DEF RepoInv, RepoTypeOK
<1>2. trades'[id] = u /\ \A j \in Id : j # id => trades'[j] = trades[j]
    BY <1>1 DEF WriteTrade
<1>3. /\ k \in Id /\ trades'[k] # None
      /\ trades'[k].status = "Settled" /\ trades'[k].borrower = b
    BY DEF LiveOf, Live, HasStatus
<1>4. QED
    BY <1>2, <1>3 DEF LiveOf, Live, HasStatus

(* A call that leaves a borrower's due and allowance alone, and adds no    *)
(* settled trade to its own, leaves it covered.                            *)
LEMMA QuietCover ==
    ASSUME RepoInv, RepoInv', NEW b \in Borrowers, Covered(b),
           NEW id \in Id, NEW u \in RepoTrade, WriteTrade(id, u),
           borrowerDue'[b] = borrowerDue[b], allowance'[b] = allowance[b],
           CeilingFor(b, u) <= CeilingFor(b, trades[id]),
           u.status = "Settled" /\ u.borrower = b =>
               /\ id \in LiveOf(b)
               /\ u.maturity_at = trades[id].maturity_at
               /\ u.settled_at = trades[id].settled_at
    PROVE  Covered(b)'
<1>1. /\ SumFunctionOnSet(CeilingsOf(b)', Id)
             = SumFunctionOnSet(CeilingsOf(b), Id)
                   + (CeilingFor(b, u) - CeilingFor(b, trades[id]))
      /\ SumFunctionOnSet(CeilingsOf(b), Id) \in Nat
      /\ SumFunctionOnSet(CeilingsOf(b)', Id) \in Nat
    BY CeilingsMove
<1>2. trades[id] \in RepoTrade \cup {None}
    BY DEF RepoInv, RepoTypeOK
<1>3. CeilingFor(b, u) \in Nat /\ CeilingFor(b, trades[id]) \in Nat
    BY <1>2, CeilingForNat
<1>4. b \in Party
    BY DEF Party
<1>5. borrowerDue[b].amount \in Nat
    BY <1>4 DEF RepoInv, RepoTypeOK, Grant
<1>6. borrowerDue'[b].amount >= SumFunctionOnSet(CeilingsOf(b)', Id)
    BY <1>1, <1>3, <1>5 DEF Covered
<1>7. allowance'[b].amount >= borrowerDue'[b].amount
    BY DEF Covered
<1>8. ASSUME NEW k \in LiveOf(b)', WithinReach(trades[k])'
      PROVE  Outlasts(borrowerDue[b], trades[k])' /\ Outlasts(allowance[b], trades[k])'
  <2>1. /\ k \in Id /\ trades'[k].status = "Settled" /\ trades'[k].borrower = b
        /\ k # id => k \in LiveOf(b) /\ trades'[k] = trades[k]
        /\ k = id => trades'[k] = u
      BY LiveAfter
  <2>2. /\ k \in LiveOf(b)
        /\ trades'[k].maturity_at = trades[k].maturity_at
        /\ trades'[k].settled_at = trades[k].settled_at
      BY <2>1
  <2>3. WithinReach(trades[k])
      BY <1>8, <2>2 DEF WithinReach
  <2>4. Outlasts(borrowerDue[b], trades[k]) /\ Outlasts(allowance[b], trades[k])
      BY <2>2, <2>3 DEF Covered
  <2>5. QED
      BY <2>2, <2>4 DEF Outlasts
<1>9. QED
    BY <1>6, <1>7, <1>8 DEF Covered

(* Terms that a call keeps, or a proposal starts with, stay in order.      *)
LEMMA TermsStay ==
    ASSUME RepoInv, TermsKept, NEW id \in Id, NEW u \in RepoTrade, WriteTrade(id, u),
           u.lender \in Lenders, u.borrower \in Borrowers, u.cash_amount > 0
    PROVE  TermsKept'
<1>1. trades \in [Id -> RepoTrade \cup {None}]
    BY DEF RepoInv, RepoTypeOK
<1>2. trades'[id] = u /\ \A j \in Id : j # id => trades'[j] = trades[j]
    BY <1>1 DEF WriteTrade
<1>3. QED
    BY <1>2 DEF TermsKept

(* Settling adds the trade's ceiling to the due and to the allowance, for  *)
(* as long as it and the trades before it need.                            *)
LEMMA AcceptCovers ==
    ASSUME Lenders \cap Borrowers = {}, RepoInv, RepoInv', CollectableInv,
           NEW p \in Party, NEW id \in Id, AcceptAndSettle(p, id)
    PROVE  CollectableInv'
<1> DEFINE t == trades[id]
           u == [t EXCEPT !.status = "Settled", !.settled_at = now]
<1>1. t # None /\ t.status = "Proposed" /\ t.borrower = p /\ now < t.maturity_at
    BY DEF AcceptAndSettle, StillOpen
<1>2. t \in RepoTrade /\ now \in Nat /\ sequence \in Nat
    BY <1>1, StoredSound DEF TradeSound, RepoInv, RepoTypeOK
<1>3. /\ t.lender \in Lenders /\ p \in Borrowers /\ t.cash_amount > 0
      /\ t.lender # p /\ t.maturity_at \in Nat
    BY <1>1, <1>2 DEF CollectableInv, TermsKept, RepoTrade
<1>4. WriteTrade(id, u)
    BY DEF AcceptAndSettle
<1>5. /\ u \in RepoTrade /\ SameTerms(u, t) /\ u.status = "Settled" /\ u.settled_at = now
    BY <1>2 DEF RepoTrade, RepoStatus, SameTerms
<1> HIDE DEF u
<1>6. Ceiling(u) = Ceiling(t)
    BY <1>5 DEF SameTerms, Ceiling, TotalDue
<1>7. PICK c \in Nat : c = Ceiling(t) /\ c > 0
    BY <1>2, <1>3, CeilingNat
<1>8. PICK d \in Grant : d = borrowerDue[p]
    BY DEF RepoInv, RepoTypeOK
<1>9. d.amount \in Nat /\ d.live_until \in Nat
    BY DEF Grant
<1>10. PICK s \in Nat : s = Elapsed(now, t.maturity_at) /\ now + s = t.maturity_at
    BY <1>1, <1>2, <1>3 DEF Elapsed
<1>11. PICK x \in Nat : x = AllowanceExpiry(s, UNWIND_ALLOWANCE_GRACE_LEDGERS)
    BY <1>2, ExpiryNat, RepoAssumption
<1>12. PICK y \in Nat : y = Larger(x, d.live_until) /\ y >= x /\ y >= d.live_until
    BY <1>9 DEF Larger
<1>13. PICK g \in Grant : g = LegTwoGrant(p, t) /\ g.amount = d.amount + c /\ g.live_until = y
  <2>1. PICK n \in Nat : n = d.amount + c
      BY <1>9
  <2>2. LegTwoGrant(p, t) = [amount |-> n, live_until |-> y]
    <3> HIDE DEF t
    <3>1. LegTwoGrant(p, t)
              = [amount |-> d.amount + c, live_until |-> Larger(x, d.live_until)]
        BY <1>7, <1>8, <1>10, <1>11 DEF LegTwoGrant
    <3>2. QED
        BY <1>12, <2>1, <3>1
  <2>3. [amount |-> n, live_until |-> y] \in Grant
      BY DEF Grant
  <2>4. QED
      BY <2>1, <2>2, <2>3
<1>14. DueRecord(g.amount, g.live_until) = g
    BY <1>7, <1>9, <1>13 DEF DueRecord, Grant
<1>15. /\ borrowerDue'[p] = g /\ \A b \in Party \ {p} : borrowerDue'[b] = borrowerDue[b]
  <2>1. borrowerDue' = [borrowerDue EXCEPT ![p] = g]
      BY <1>13, <1>14 DEF AcceptAndSettle
  <2>2. QED
      BY <2>1 DEF RepoInv, RepoTypeOK
<1>16. allowance'[p] = g /\ \A b \in Party \ {p, t.lender} : allowance'[b] = allowance[b]
  <2>1. allowance' = [[allowance EXCEPT ![t.lender].amount = @ - t.cash_amount]
                          EXCEPT ![p] = g]
      BY <1>13 DEF AcceptAndSettle, SpendThenApprove
  <2>2. allowance \in [Party -> Grant]
      BY DEF RepoInv, RepoTypeOK
  <2>3. PICK spent : spent = [allowance EXCEPT ![t.lender].amount = @ - t.cash_amount]
      OBVIOUS
  <2>4. DOMAIN spent = Party /\ \A b \in Party \ {t.lender} : spent[b] = allowance[b]
      BY <2>2, <2>3
  <2>5. allowance' = [spent EXCEPT ![p] = g]
      BY <2>1, <2>3
  <2>6. QED
      BY <2>4, <2>5
<1>17. TermsKept'
  <2>1. u.lender \in Lenders /\ u.borrower \in Borrowers /\ u.cash_amount > 0
      BY <1>1, <1>3, <1>5 DEF SameTerms
  <2>2. QED
      BY <1>4, <1>5, <2>1, TermsStay DEF CollectableInv
<1>18. ASSUME NEW b \in Borrowers, b # p PROVE Covered(b)'
  <2>1. borrowerDue'[b] = borrowerDue[b] /\ allowance'[b] = allowance[b]
      BY <1>3, <1>15, <1>16, <1>18 DEF Party
  <2>2. u.borrower # b
      BY <1>1, <1>5, <1>18 DEF SameTerms
  <2>3. CeilingFor(b, u) = 0 /\ CeilingFor(b, trades[id]) = 0
      BY <1>1, <2>2, <1>18 DEF CeilingFor
  <2>4. CeilingFor(b, u) <= CeilingFor(b, trades[id])
      BY <2>3
  <2>5. QED
      BY <1>4, <1>5, <2>1, <2>2, <2>4, QuietCover DEF CollectableInv
<1>19. Covered(p)'
  <2>1. CeilingFor(p, u) = c /\ CeilingFor(p, t) = 0
    <3>1. u # None
        BY <1>5, RepoAssumption
    <3>2. QED
        BY <1>1, <1>5, <1>6, <1>7, <3>1 DEF CeilingFor, SameTerms
  <2>2. /\ SumFunctionOnSet(CeilingsOf(p)', Id)
               = SumFunctionOnSet(CeilingsOf(p), Id) + (CeilingFor(p, u) - CeilingFor(p, t))
        /\ SumFunctionOnSet(CeilingsOf(p), Id) \in Nat
      BY <1>4, <1>5, CeilingsMove
  <2>3. Covered(p) /\ p \in Party
      BY <1>3 DEF CollectableInv
  <2>4. borrowerDue'[p].amount >= SumFunctionOnSet(CeilingsOf(p)', Id)
    <3>1. d.amount >= SumFunctionOnSet(CeilingsOf(p), Id)
        BY <1>8, <2>3 DEF Covered
    <3>2. QED
        BY <1>9, <1>13, <1>15, <2>1, <2>2, <3>1
  <2>5. allowance'[p].amount >= borrowerDue'[p].amount
      BY <1>9, <1>13, <1>15, <1>16
  <2>6. ASSUME NEW k \in LiveOf(p)', WithinReach(trades[k])'
        PROVE  Outlasts(g, trades'[k])
    <3>1. /\ k \in Id
          /\ k # id => k \in LiveOf(p) /\ trades'[k] = trades[k]
          /\ k = id => trades'[k] = u
        BY <1>4, <1>5, LiveAfter
    <3>2. PICK L \in Nat, G \in Nat :
              /\ L = SECONDS_PER_LEDGER
              /\ G = UNWIND_ALLOWANCE_GRACE_LEDGERS * SECONDS_PER_LEDGER
        BY MulNat, RepoAssumption
    <3>3. CASE k = id
      <4>1. u.maturity_at = now + s /\ u.settled_at = now
          BY <1>5, <1>10 DEF SameTerms
      <4>2. WithinReach(u)
          BY <2>6, <3>1, <3>3 DEF WithinReach
      <4>3. s \div SECONDS_PER_LEDGER + UNWIND_ALLOWANCE_GRACE_LEDGERS
                + 3 * ALLOWANCE_EXPIRY_BUCKET_LEDGERS <= MaxTtl
        <5>1. (now + s) - now = s
            BY <1>2
        <5>2. QED
            BY <4>1, <4>2, <5>1 DEF WithinReach
      <4>4. x * L >= now + s + G
          BY <1>2, <1>11, <3>2, <4>3, ExpiryOutlasts
      <4>5. L * x <= L * y /\ L * x \in Nat /\ L * y \in Nat
          BY <1>12, MulGrows, MulNat
      <4>6. y * L >= now + s + G
          BY <1>2, <4>4, <4>5
      <4>7. QED
          BY <1>13, <3>1, <3>2, <3>3, <4>1, <4>6 DEF Outlasts
    <3>4. CASE k # id
      <4>1. k \in LiveOf(p) /\ trades'[k] = trades[k] /\ WithinReach(trades[k])
          BY <2>6, <3>1, <3>4 DEF WithinReach
      <4>2. Outlasts(d, trades[k])
          BY <1>8, <2>3, <4>1 DEF Covered
      <4>3. trades[k].maturity_at \in Nat
        <5>1. trades[k] # None
            BY <4>1 DEF LiveOf, Live, HasStatus
        <5>2. trades[k] \in RepoTrade
            BY <3>1, <5>1 DEF RepoInv, RepoTypeOK
        <5>3. QED
            BY <5>2 DEF RepoTrade
      <4>4. d.live_until * L >= trades[k].maturity_at + G
          BY <3>2, <4>2 DEF Outlasts
      <4>5. L * d.live_until <= L * y /\ L * d.live_until \in Nat /\ L * y \in Nat
          BY <1>9, <1>12, MulGrows, MulNat
      <4>6. y * L >= trades[k].maturity_at + G
          BY <1>9, <4>3, <4>4, <4>5
      <4>7. QED
          BY <1>13, <3>2, <4>1, <4>6 DEF Outlasts
    <3>5. QED
        BY <3>3, <3>4
  <2>7. \A k \in LiveOf(p)' : WithinReach(trades[k])' =>
            Outlasts(borrowerDue[p], trades[k])' /\ Outlasts(allowance[p], trades[k])'
      BY <1>15, <1>16, <2>6 DEF Outlasts
  <2>8. QED
      BY <2>4, <2>5, <2>7 DEF Covered
<1>20. QED
    BY <1>17, <1>18, <1>19 DEF CollectableInv

(* A closed trade gives its ceiling back: what stays booked covers the     *)
(* trades that are left, and so does an allowance that leg 2 was paid      *)
(* from.                                                                   *)
LEMMA ClosingCovers ==
    ASSUME RepoInv, RepoInv', CollectableInv, NEW id \in Id, Live(id),
           NEW u \in RepoTrade, WriteTrade(id, u),
           u.status \in {"Unwound", "Defaulted"}, SameTerms(u, trades[id]),
           ReleaseBorrowerDue(trades[id]),
           \A b \in Party \ {trades[id].borrower} : allowance'[b] = allowance[b],
           allowance'[trades[id].borrower].live_until
               = allowance[trades[id].borrower].live_until,
           allowance'[trades[id].borrower].amount
               >= allowance[trades[id].borrower].amount - Ceiling(trades[id])
    PROVE  CollectableInv'
<1>1. PICK t \in RepoTrade : t = trades[id]
    BY StoredSound DEF Live, HasStatus, TradeSound
<1>2. /\ t # None /\ t.status = "Settled" /\ t.lender \in Lenders
      /\ t.borrower \in Borrowers /\ t.cash_amount > 0
    BY <1>1 DEF Live, HasStatus, CollectableInv, TermsKept
<1>3. u.lender = t.lender /\ u.borrower = t.borrower /\ u.cash_amount = t.cash_amount
    BY <1>1 DEF SameTerms
<1>4. TermsKept'
    BY <1>2, <1>3, TermsStay DEF CollectableInv
<1>5. PICK c \in Nat : c = Ceiling(t)
    BY CeilingNat
<1>6. PICK p \in Borrowers : p = t.borrower
    BY <1>2
<1>7. p \in Party
    BY DEF Party
<1>8. PICK d \in Grant : d = borrowerDue[p]
    BY <1>7 DEF RepoInv, RepoTypeOK
<1>9. d.amount \in Nat /\ d.live_until \in Nat
    BY DEF Grant
<1>10. PICK n \in Nat : n = Larger(d.amount - c, 0) /\ n >= d.amount - c
                         /\ (d.amount >= c => n = d.amount - c)
    BY <1>9 DEF Larger
<1>11. /\ borrowerDue'[p] = DueRecord(n, d.live_until)
       /\ \A b \in Party \ {p} : borrowerDue'[b] = borrowerDue[b]
  <2>1. PICK e : e = DueRecord(n, d.live_until)
      OBVIOUS
  <2>2. borrowerDue' = [borrowerDue EXCEPT ![p] = e]
      BY <1>1, <1>5, <1>6, <1>8, <1>10, <2>1 DEF ReleaseBorrowerDue
  <2>3. QED
      BY <1>7, <2>1, <2>2 DEF RepoInv, RepoTypeOK
<1>12. ASSUME NEW b \in Borrowers, b # p PROVE Covered(b)'
  <2>1. borrowerDue'[b] = borrowerDue[b] /\ allowance'[b] = allowance[b]
      BY <1>1, <1>6, <1>11, <1>12 DEF Party
  <2>2. u.borrower # b
      BY <1>3, <1>6, <1>12
  <2>3. CeilingFor(b, u) = 0 /\ CeilingFor(b, trades[id]) = 0
      BY <1>1, <1>6, <2>2, <1>12 DEF CeilingFor
  <2>4. CeilingFor(b, u) <= CeilingFor(b, trades[id])
      BY <2>3
  <2>5. QED
      BY <2>1, <2>2, <2>4, QuietCover DEF CollectableInv
<1>13. Covered(p)'
  <2>1. CeilingFor(p, u) = 0 /\ CeilingFor(p, t) = c
      BY <1>2, <1>5, <1>6 DEF CeilingFor
  <2>2. PICK old \in Nat, new \in Nat :
            /\ old = SumFunctionOnSet(CeilingsOf(p), Id)
            /\ new = SumFunctionOnSet(CeilingsOf(p)', Id)
    <3>1. SumFunctionOnSet(CeilingsOf(p), Id) \in Nat
        BY CeilingsMove
    <3>2. SumFunctionOnSet(CeilingsOf(p)', Id) \in Nat
        BY CeilingsMove
    <3>3. QED
        BY <3>1, <3>2
  <2>3. new = old + (CeilingFor(p, u) - CeilingFor(p, t))
      BY <1>1, <2>2, CeilingsMove
  <2>4. CeilingFor(p, t) <= old
      BY <1>1, <2>2, CeilingsMove
  <2>5. \A k \in Id : CeilingFor(p, trades'[k]) <= new
      BY <2>2, CeilingsMove
  <2>6. new = old - c /\ c <= old
      BY <2>1, <2>3, <2>4
  <2>7. Covered(p)
      BY DEF CollectableInv
  <2>8. d.amount >= old /\ allowance[p].amount >= d.amount
      BY <1>8, <2>2, <2>7 DEF Covered
  <2>9. n = d.amount - c /\ n >= new
      BY <1>9, <1>10, <2>6, <2>8
  <2>10. borrowerDue'[p].amount = n
      BY <1>11 DEF DueRecord, NoGrant
  <2>11. allowance'[p].amount >= n
    <3>1. allowance[p].amount \in Nat /\ allowance'[p].amount \in Nat
        BY <1>7 DEF RepoInv, RepoTypeOK, Grant
    <3>2. allowance'[p].amount >= allowance[p].amount - c
        BY <1>1, <1>5, <1>6
    <3>3. QED
        BY <1>9, <2>8, <2>9, <3>1, <3>2
  <2>12. ASSUME NEW k \in LiveOf(p)', WithinReach(trades[k])'
         PROVE  /\ Outlasts(borrowerDue[p], trades[k])'
                /\ Outlasts(allowance[p], trades[k])'
    <3>1. /\ k \in Id /\ trades'[k] # None
          /\ trades'[k].status = "Settled" /\ trades'[k].borrower = p
          /\ k # id => k \in LiveOf(p) /\ trades'[k] = trades[k]
          /\ k = id => trades'[k] = u
        BY LiveAfter
    <3>2. k \in LiveOf(p) /\ trades'[k] = trades[k]
        BY <3>1
    <3>3. PICK v \in RepoTrade : v = trades[k]
        BY <3>1, <3>2 DEF RepoInv, RepoTypeOK
    <3>4. v.cash_amount > 0
        BY <3>1, <3>2, <3>3 DEF CollectableInv, TermsKept
    <3>5. Ceiling(v) \in Nat /\ Ceiling(v) > 0
        BY <3>4, CeilingNat
    <3>6. CeilingFor(p, v) = Ceiling(v)
        BY <3>1, <3>2, <3>3 DEF CeilingFor
    <3>7. n > 0
        BY <2>5, <2>9, <3>1, <3>2, <3>3, <3>5, <3>6
    <3>8. borrowerDue'[p].live_until = d.live_until
        BY <1>11, <3>7 DEF DueRecord
    <3>9. allowance'[p].live_until = allowance[p].live_until
        BY <1>1, <1>6
    <3>10. WithinReach(trades[k])
        BY <2>12, <3>2 DEF WithinReach
    <3>11. Outlasts(d, trades[k]) /\ Outlasts(allowance[p], trades[k])
        BY <1>8, <2>7, <3>2, <3>10 DEF Covered
    <3>12. QED
        BY <3>2, <3>8, <3>9, <3>11 DEF Outlasts
  <2>13. borrowerDue'[p].amount >= SumFunctionOnSet(CeilingsOf(p)', Id)
      BY <2>2, <2>9, <2>10
  <2>14. allowance'[p].amount >= borrowerDue'[p].amount
      BY <2>10, <2>11
  <2>15. QED
      BY <2>12, <2>13, <2>14 DEF Covered
<1>14. QED
    BY <1>4, <1>12, <1>13 DEF CollectableInv

(* Any call that leaves every borrower's due and allowance alone and does  *)
(* not settle anything keeps everyone covered.                             *)
LEMMA OtherCallsCover ==
    ASSUME RepoInv, RepoInv', CollectableInv, NEW id \in Id,
           NEW u \in RepoTrade, WriteTrade(id, u),
           u.lender \in Lenders, u.borrower \in Borrowers, u.cash_amount > 0,
           \A b \in Borrowers : /\ borrowerDue'[b] = borrowerDue[b]
                                /\ allowance'[b] = allowance[b],
           u.status = "Settled" => /\ trades[id] # None
                                   /\ trades[id].status = "Settled"
                                   /\ SameTerms(u, trades[id])
                                   /\ u.settled_at = trades[id].settled_at
    PROVE  CollectableInv'
<1>1. TermsKept'
    BY TermsStay DEF CollectableInv
<1>2. ASSUME NEW b \in Borrowers PROVE Covered(b)'
  <2>1. PICK t \in RepoTrade \cup {None} : t = trades[id]
      BY DEF RepoInv, RepoTypeOK
  <2>2. CeilingFor(b, u) \in Nat /\ CeilingFor(b, t) \in Nat
      BY CeilingForNat
  <2>3. CeilingFor(b, u) <= CeilingFor(b, t)
    <3>1. CASE u.status = "Settled" /\ u.borrower = b
      <4>1. /\ t # None /\ t.status = "Settled" /\ SameTerms(u, t)
          BY <2>1, <3>1
      <4>2. Ceiling(u) = Ceiling(t) /\ t.borrower = b
          BY <3>1, <4>1 DEF SameTerms, Ceiling, TotalDue
      <4>3. CeilingFor(b, u) = Ceiling(u) /\ CeilingFor(b, t) = Ceiling(t)
        <5>1. u # None
            BY RepoAssumption
        <5>2. QED
            BY <3>1, <4>1, <4>2, <5>1 DEF CeilingFor
      <4>4. QED
          BY <2>2, <4>2, <4>3
    <3>2. CASE ~(u.status = "Settled" /\ u.borrower = b)
      <4>1. CeilingFor(b, u) = 0
          BY <3>2 DEF CeilingFor
      <4>2. QED
          BY <2>2, <4>1
    <3>3. QED
        BY <3>1, <3>2
  <2>4. u.status = "Settled" /\ u.borrower = b =>
            /\ id \in LiveOf(b)
            /\ u.maturity_at = trades[id].maturity_at
            /\ u.settled_at = trades[id].settled_at
      BY DEF LiveOf, Live, HasStatus, SameTerms
  <2>5. Covered(b)
      BY DEF CollectableInv
  <2>6. CeilingFor(b, u) <= CeilingFor(b, trades[id])
      BY <2>1, <2>3
  <2>7. QED
      BY <2>4, <2>5, <2>6, QuietCover
<1>3. QED
    BY <1>1, <1>2 DEF CollectableInv

(* A proposal spends and approves on the lender's side only.               *)
LEMMA ProposeCovers ==
    ASSUME Lenders \cap Borrowers = {}, RepoInv, RepoInv', CollectableInv,
           NEW l \in Lenders, NEW b \in Borrowers, NEW terms \in Terms, Propose(l, b, terms)
    PROVE  CollectableInv'
<1> DEFINE u ==
    [lender |-> l, borrower |-> b, asset |-> terms.asset,
     units |-> terms.units, cash_amount |-> terms.cash_amount,
     rate_bps |-> terms.rate_bps, maturity_at |-> terms.maturity_at,
     proposed_at |-> now, status |-> "Proposed", settled_at |-> None,
     pending_margin_call |-> FALSE, margin_call_amount |-> 0,
     cure_deadline |-> None]
<1>1. /\ nextId \in Id /\ WriteTrade(nextId, u) /\ terms.cash_amount > 0
      /\ borrowerDue' = borrowerDue
    BY DEF Propose
<1>2. u \in RepoTrade
  <2>1. terms \in RepoTerms /\ now \in Nat
      BY RepoAssumption, NowNat DEF RepoInv, RepoTypeOK
  <2>2. QED
      BY <2>1 DEF RepoTerms, RepoTrade, RepoStatus, Party
<1>3. /\ u.lender \in Lenders /\ u.borrower \in Borrowers /\ u.cash_amount > 0
      /\ u.status # "Settled"
    BY <1>1
<1> HIDE DEF u
<1>4. \A c \in Borrowers : allowance'[c] = allowance[c]
  <2>1. PICK g : allowance' = [allowance EXCEPT ![l] = g]
      BY DEF Propose, Approve
  <2>2. allowance \in [Party -> Grant]
      BY DEF RepoInv, RepoTypeOK
  <2>3. QED
      BY <2>1, <2>2 DEF Party
<1>5. QED
  <2>1. PICK k \in Id : k = nextId
      BY <1>1
  <2>2. WriteTrade(k, u)
      BY <1>1, <2>1
  <2>3. QED
      BY <1>1, <1>2, <1>3, <1>4, <2>2, OtherCallsCover

(* Every call on a trade keeps the borrowers covered.                      *)
LEMMA TradeCallCovers ==
    ASSUME Lenders \cap Borrowers = {}, RepoInv, RepoInv', CollectableInv,
           NEW id \in Id, TradeCall(id)
    PROVE  CollectableInv'
<1> DEFINE t == trades[id]
<1>1. t # None
    BY DEF TradeCall, CancelProposal, AcceptAndSettle, Unwind, CallMargin, TopUp,
           DefaultClose, DefaultAtMaturity, HasStatus
<1>2. /\ t \in RepoTrade /\ t.lender \in Lenders /\ t.borrower \in Borrowers
      /\ t.cash_amount > 0 /\ t.borrower \in Party /\ t.lender \in Party
    BY <1>1, StoredSound DEF TradeSound, CollectableInv, TermsKept, Party
<1>3. allowance \in [Party -> Grant]
    BY DEF RepoInv, RepoTypeOK
<1>4. ASSUME NEW p \in Party, AcceptAndSettle(p, id) PROVE CollectableInv'
    BY <1>4, AcceptCovers
<1>5. ASSUME NEW p \in Party, CancelProposal(p, id) PROVE CollectableInv'
  <2> DEFINE u == [t EXCEPT !.status = "Cancelled"]
  <2>1. WriteTrade(id, u) /\ borrowerDue' = borrowerDue
      BY <1>5 DEF CancelProposal
  <2>2. u \in RepoTrade /\ SameTerms(u, t) /\ u.status = "Cancelled"
      BY <1>2 DEF RepoTrade, RepoStatus, SameTerms
  <2>3. \E g : allowance' = [allowance EXCEPT ![t.lender] = g] \/ allowance' = allowance
      BY <1>5 DEF CancelProposal, Approve
  <2>4. \A b \in Borrowers : allowance'[b] = allowance[b]
      BY <1>2, <1>3, <2>3 DEF Party
  <2> HIDE DEF u
  <2>5. u.lender \in Lenders /\ u.borrower \in Borrowers /\ u.cash_amount > 0
      BY <1>2, <2>2 DEF SameTerms
  <2>6. QED
      BY <2>1, <2>2, <2>4, <2>5, OtherCallsCover
<1>6. ASSUME NEW u \in RepoTrade, WriteTrade(id, u), SameTerms(u, t),
             u.status = "Settled" => t.status = "Settled" /\ u.settled_at = t.settled_at,
             borrowerDue' = borrowerDue, allowance' = allowance
      PROVE  CollectableInv'
  <2>1. u.lender \in Lenders /\ u.borrower \in Borrowers /\ u.cash_amount > 0
      BY <1>2, <1>6 DEF SameTerms
  <2>2. QED
      BY <1>1, <1>6, <2>1, OtherCallsCover
<1>7. CASE CallMargin(id)
  <2>1. /\ t.status = "Settled" /\ borrowerDue' = borrowerDue /\ allowance' = allowance
      BY <1>7 DEF CallMargin, HasStatus
  <2>2. QED
      BY <1>6, <1>7, <2>1, MarginWrites
<1>8. ASSUME NEW extra \in TopUps, TopUp(id, extra) PROVE CollectableInv'
  <2>1. /\ t.status = "Settled" /\ borrowerDue' = borrowerDue /\ allowance' = allowance
        /\ extra \in Nat
      BY <1>8, RepoAssumption DEF TopUp, HasStatus
  <2>2. QED
      BY <1>6, <1>8, <2>1, TopUpWrites
<1>9. CASE DefaultAtMaturity(id)
  <2> DEFINE u == [t EXCEPT !.status = "Defaulted"]
  <2>1. WriteTrade(id, u) /\ borrowerDue' = borrowerDue /\ allowance' = allowance
      BY <1>9 DEF DefaultAtMaturity
  <2>2. u \in RepoTrade /\ SameTerms(u, t) /\ u.status = "Defaulted"
      BY <1>2 DEF RepoTrade, RepoStatus, SameTerms
  <2> HIDE DEF u
  <2>3. QED
      BY <1>6, <2>1, <2>2
<1>10. CASE DefaultClose(id)
  <2> DEFINE u == [t EXCEPT !.status = "Defaulted"]
  <2>1. /\ WriteTrade(id, u) /\ ReleaseBorrowerDue(t) /\ allowance' = allowance
        /\ HasStatus(id, "Settled")
      BY <1>10 DEF DefaultClose
  <2>2. u \in RepoTrade /\ SameTerms(u, t) /\ u.status \in {"Unwound", "Defaulted"}
      BY <1>2 DEF RepoTrade, RepoStatus, SameTerms
  <2> HIDE DEF u
  <2>3. Ceiling(t) \in Nat /\ allowance[t.borrower].amount \in Nat
      BY <1>2, <1>3, <2>1, SettledOwes DEF Grant
  <2>4. allowance'[t.borrower].amount >= allowance[t.borrower].amount - Ceiling(t)
      BY <2>1, <2>3
  <2>5. QED
      BY <2>1, <2>2, <2>4, ClosingCovers DEF Live
<1>11. ASSUME NEW byBorrower \in BOOLEAN, Unwind(byBorrower, id) PROVE CollectableInv'
  <2> DEFINE u == [t EXCEPT !.status = "Unwound"]
  <2>1. /\ WriteTrade(id, u) /\ ReleaseBorrowerDue(t) /\ HasStatus(id, "Settled")
        /\ \/ allowance' = allowance
           \/ allowance' = [allowance EXCEPT ![t.borrower].amount = @ - Due(t)]
      BY <1>11 DEF Unwind
  <2>2. u \in RepoTrade /\ SameTerms(u, t) /\ u.status \in {"Unwound", "Defaulted"}
      BY <1>2 DEF RepoTrade, RepoStatus, SameTerms
  <2> HIDE DEF u
  <2>3. PICK c \in Nat, w \in Nat : c = Ceiling(t) /\ w = Due(t)
      BY <2>1, SettledOwes
  <2>4. w <= c
    <3>1. t.status = "Settled" /\ TradeInOrder(t)
        BY <1>1, <2>1 DEF HasStatus, RepoInv, TradesInOrder
    <3>2. QED
        BY <2>3, <3>1 DEF TradeInOrder
  <2>5. PICK p \in Party, g \in Grant : p = t.borrower /\ g = allowance[p]
      BY <1>2, <1>3
  <2>6. g.amount \in Nat
      BY DEF Grant
  <2>7. /\ \A b \in Party \ {p} : allowance'[b] = allowance[b]
        /\ allowance'[p].live_until = g.live_until
        /\ allowance'[p].amount = g.amount \/ allowance'[p].amount = g.amount - w
    <3>1. CASE allowance' = allowance
        BY <2>5, <3>1
    <3>2. CASE allowance' = [allowance EXCEPT ![t.borrower].amount = @ - Due(t)]
      <4>1. allowance' = [allowance EXCEPT ![p] = [g EXCEPT !.amount = g.amount - w]]
          BY <1>3, <2>3, <2>5, <3>2
      <4>2. PICK e : e = [g EXCEPT !.amount = g.amount - w]
          OBVIOUS
      <4>3. e.amount = g.amount - w /\ e.live_until = g.live_until
          BY <4>2 DEF Grant
      <4>4. allowance' = [allowance EXCEPT ![p] = e]
          BY <4>1, <4>2
      <4>5. QED
          BY <1>3, <4>3, <4>4
    <3>3. QED
        BY <2>1, <3>1, <3>2
  <2>8. allowance'[p].amount >= g.amount - c
      BY <2>4, <2>6, <2>7
  <2>9. /\ allowance'[t.borrower].amount >= allowance[t.borrower].amount - Ceiling(t)
        /\ allowance'[t.borrower].live_until = allowance[t.borrower].live_until
        /\ \A b \in Party \ {t.borrower} : allowance'[b] = allowance[b]
      BY <2>3, <2>5, <2>7, <2>8
  <2>10. QED
      BY <2>1, <2>2, <2>9, ClosingCovers DEF Live
<1>12. QED
    BY <1>4, <1>5, <1>7, <1>8, <1>9, <1>10, <1>11 DEF TradeCall

(* Covered borrowers can be collected from: what a trade owes is at most   *)
(* its ceiling.                                                            *)
LEMMA CoveredCollectable ==
    ASSUME RepoInv, CollectableInv
    PROVE  EveryTradeCollectable
<1> SUFFICES ASSUME NEW b \in Borrowers, NEW id \in LiveOf(b), WithinReach(trades[id])
             PROVE  /\ allowance[b].amount >= SumFunctionOnSet(OwedOf(b), Id)
                    /\ Outlasts(allowance[b], trades[id])
    BY DEF EveryTradeCollectable
<1>1. Covered(b) /\ b \in Party
    BY DEF CollectableInv, Party
<1>2. PICK f, g : f = OwedOf(b) /\ g = CeilingsOf(b)
    OBVIOUS
<1>3. ASSUME NEW k \in Id PROVE f[k] \in Nat /\ g[k] \in Nat /\ f[k] <= g[k]
  <2>1. CASE k \in LiveOf(b)
    <3>1. HasStatus(k, "Settled") /\ trades[k].borrower = b
        BY <2>1 DEF LiveOf, Live
    <3>2. Due(trades[k]) \in Nat /\ Ceiling(trades[k]) \in Nat
        BY <3>1, SettledOwes
    <3>3. Due(trades[k]) <= Ceiling(trades[k])
        BY <3>1 DEF HasStatus, RepoInv, TradesInOrder, TradeInOrder
    <3>4. f[k] = Due(trades[k]) /\ g[k] = Ceiling(trades[k])
        BY <1>2, <2>1, <3>1 DEF OwedOf, CeilingsOf, CeilingFor, HasStatus
    <3>5. QED
        BY <3>2, <3>3, <3>4
  <2>2. CASE k \notin LiveOf(b)
      BY <1>2, <2>2 DEF OwedOf, CeilingsOf, CeilingFor, LiveOf, Live, HasStatus
  <2>3. QED
      BY <2>1, <2>2
<1>4. SumFunctionOnSet(f, Id) <= SumFunctionOnSet(g, Id)
    BY <1>3, FiniteIds, SumGrows
<1>5. SumFunctionOnSet(f, Id) \in Nat /\ SumFunctionOnSet(g, Id) \in Nat
    BY <1>3, FiniteIds, SumNat
<1>6. borrowerDue[b].amount \in Nat /\ allowance[b].amount \in Nat
    BY <1>1 DEF RepoInv, RepoTypeOK, Grant
<1>7. allowance[b].amount >= SumFunctionOnSet(OwedOf(b), Id)
    BY <1>1, <1>2, <1>4, <1>5, <1>6 DEF Covered
<1>8. QED
    BY <1>1, <1>7 DEF Covered

(* Leg 2 stays collectable without the borrower, for any number of trades  *)
(* and any rates, as long as no party stands on both sides: until the      *)
(* grace after its maturity is over, the borrower's allowance covers what  *)
(* all its settled trades together owe.                                    *)
THEOREM CollectableHolds ==
    ASSUME Lenders \cap Borrowers = {}
    PROVE  RepoSpec => []EveryTradeCollectable
<1>1. RepoInit => CollectableInv
  <2> SUFFICES ASSUME RepoInit PROVE CollectableInv
      OBVIOUS
  <2>1. TermsKept
      BY DEF RepoInit, TermsKept
  <2>2. ASSUME NEW b \in Borrowers PROVE Covered(b)
    <3>1. \A id \in Id : CeilingsOf(b)[id] = 0
        BY DEF RepoInit, CeilingsOf, CeilingFor
    <3>2. SumFunctionOnSet(CeilingsOf(b), Id) = 0
        BY <3>1, FiniteIds, SumOfZeroes
    <3>3. borrowerDue[b].amount = 0 /\ allowance[b].amount = 0
        BY DEF RepoInit, NoGrant, Party
    <3>4. LiveOf(b) = {}
        BY DEF RepoInit, LiveOf, Live, HasStatus
    <3>5. QED
        BY <3>2, <3>3, <3>4 DEF Covered
  <2>3. QED
      BY <2>1, <2>2 DEF CollectableInv
<1>2. ASSUME RepoInv, RepoInv', CollectableInv, [RepoNext]_repoVars
      PROVE  CollectableInv'
  <2>1. CASE UNCHANGED tradeVars
      BY <1>2, <2>1 DEF tradeVars, CollectableInv, TermsKept, Covered, CeilingsOf, LiveOf,
                        Live, HasStatus, WithinReach, Outlasts
  <2>2. QED
      BY <1>2, <2>1, StepOnTrades, ProposeCovers, TradeCallCovers
<1>3. QED
    BY <1>1, <1>2, RepoInvariantHolds, CoveredCollectable, PTL DEF RepoSpec

=============================================================================
