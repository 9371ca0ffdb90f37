# Ballast: TLA+ models, checks and proofs

Ballast lends USDC against tokenized real-world assets on Stellar. Six Soroban
contracts hold the money and the rules; eight TypeScript services around
Postgres prepare transactions, index events, watch margins and push the
periodic work (`keeper`). The models here are translated from `src/contracts`
and `src/services`; `PROJECT.json` maps every definition to the lines it stands
for.

## 1. Inventory

| Part | State it keeps | Operations | Talks to |
|---|---|---|---|
| `contracts/credit-line` | one `Line` per id (commitment, principal, interest, pledged units, margin state, breach flag, clock, status), a liquidation record per line, asset terms, one USDC balance for all lines | open, fund, draw, repay, poke, liquidate, close_liquidated, withdraw_undrawn, withdraw_interest, sync_from_vault, sync_collateral, configure_asset | reads price-guard; told its collateral by pledge-vault |
| `contracts/pledge-vault` | a `Position` (units, pending units) per line and asset, asset terms with a custody mode, token balances | pledge, release, record_lien, liquidate, configure_asset | calls credit-line in the same transaction; reads price-guard |
| `contracts/price-guard` | per asset: readings by source, last good value, rolling reference, halt latch, pending value; timelocked settings | publish_nav, publish_source, guarded_price, confirm_halt_cleared, configure / queue / execute / cancel | read by the lending contracts |
| `contracts/repo-dvp` | repo trades with their margin calls, each borrower's summed due, asset terms, grace periods, pause flags and queued unpauses | propose, cancel_proposal, accept_and_settle, call_margin, top_up, unwind, default_close, default_at_maturity, settings, pause / queue / cancel / execute unpause | price-guard, tokens |
| `contracts/exit-desk` | desks, quotes, pool balance | quote, execute, fund, withdraw | price-guard, tokens |
| `contracts/registry` | asset and party lists, roles, timelocked changes | queue / execute / cancel, pause | read by operators and services |
| `contracts/common` | no state of its own: risk arithmetic, margin classes, timelock, roles, pause | - | linked into every contract |
| `services/keeper` | an in-memory job lane, an advisory lock in Postgres | sync-collateral, cure-expiry, interest accrual, repo margin and unwind jobs | contracts, Postgres |
| `services/margin-monitor` | `margin_event` rows | poll lines, write transitions | credit-line, Postgres; read by cure-expiry |
| `services/api` | transaction intents, pledges, lines; API keys, nonces, limits, sessions; compliance checks and a copy of the sanctions list; webhook subscriptions and deliveries | prepare, submit, settle, expire; authenticate; screen, clear; fan out, deliver, redeliver | contracts, Postgres, the sanctions list, subscribers |
| `services/indexer` | `chain_event`, a cursor in memory and one in Postgres, gap rows | poll, backfill | Stellar RPC |
| `services/payout-hop` | payout claims, the journal pair and the exit fill of each | forward, repair | Stellar, Postgres |
| `services/issuer-gateway` | idempotency keys, audit log | freeze a lien, redeem, authorize | issuers' APIs |
| `services/ledger` | reconciliation runs | compare pledge rows with vault events | Postgres |
| `services/price-guard` | observations, snapshots | fetch, record, publish, read back | third-party prices, price-guard contract |

What is hard here:

* every contract call is atomic, but the *story* of a line spans many calls of
  borrower, lender, operator, keeper and risk desk, in any order, with the
  price and the clock moving in between;
* two contracts keep a figure for the same thing (the collateral of a line);
* off-chain jobs read, wait and write, and can die between any two steps;
* a call to the network, to an issuer or to a subscriber may be acted on although
  it seemed to fail, and a retry repeats it;
* a table in Postgres is written by several processes, with a read and a
  decision before each write;
* amounts are integers and every division truncates.

What makes each part correct: a line is never lent more than was committed; its
debt changes only for cash, time or a recorded write-off; a liquidation takes
two reads in different ledgers and is then frozen; the shared USDC balance
covers all lines; the vault and the line agree on the collateral; an escrow
position is always backed by tokens; the repair job repairs; a liquidation that
was begun is finished, and booked as it happened; money is paid and an
obligation created once per claim, as far as the answers of others allow; a
chain event is stored or its loss is on record; a signed request works once; a
sanctions match holds until a person clears it; a delivery, a job, an ended
trade and a price are not forgotten.

## 2. Modules

| Module | Models | State and actions |
|---|---|---|
| `Risk` | `contracts/common` `risk.rs`, `margin.rs` | operators only: collateral value, LTV, margin classes, threshold validation, with the code's truncating divisions |
| `CreditLine` | `contracts/credit-line` | `lines`, `liquidation`, `claimable`, `assetConfig`, `nextLineId` are the contract's storage entries; `pool` is the USDC at its address; one action per entry point; `price` is what the price guard would answer, `ledger` the sequence number and the time |
| `PledgeVault` (EXTENDS `CreditLine`) | `contracts/pledge-vault` calling the credit line | `positions`, `vaultConfig`, `escrow`; every action that writes a position contains the `sync_from_vault` it makes in the same transaction |
| `CollateralSync` (EXTENDS `PledgeVault`) | `services/keeper` sync-collateral job | `syncJob[l]`: idle, line read, submission in flight; each `await` ends a step |
| `BoundedFeed` | abstract specification | what a lender may rely on: bounded steps, bounded drift, a halt that only a human lifts |
| `PriceGuard` | `contracts/price-guard`, `timelock.rs` | readings per source, last good value, reference, halt latch, settings and their queue; `Evaluate` is part of each publish, read and removal as in the code |
| `RepoDvp` | `contracts/repo-dvp`, `pause.rs`, `timelock.rs` | `trades`, `latestProposal`, `borrowerDue` and the settings are the storage entries; `allowance` is what each party lets the contract spend, `rwa` the tokens moved to each holder; one action per entry point |
| `TxIntents` | `services/api` intents and the routes that write rows, the keeper jobs that move those rows | `intents` and `rows` are the Postgres rows, `landed` what the network did with each envelope, `settler` where each submit call and the sweep stand; each `await` ends a step, each database transaction is one |
| `LiquidationKeeper` (EXTENDS `PledgeVault`) | `services/keeper` cure-expiry and interest-accrual jobs, `services/margin-monitor`, beside both contracts | `marginEvents`, `pledgeRows`, `liquidationRow`, `lineRow` are the rows; `cureJob[l]` is the await the job stands at and what it has read; one action per await, `CureFails` and the second half of `Returns` are the throws |
| `RepoKeeper` | `services/keeper` repo-margin and repo-unwind jobs and the API's booking of a top-up | one trade on chain (status, margin call, deadline), its rows, where each job is |
| `KeeperQueue` | `services/keeper` `jobQueue.ts`, `lock.ts`, `index.ts` | per instance its lane and its state; the runs that have not settled, with those abandoned at their deadline; who holds which lock |
| `PricePublisher` | `services/price-guard` | per cycle where `runPriceUpdateCycle` is; the newest reading of each source, what the contract holds, what is recorded |
| `Indexer` | `services/indexer` poller | chain, nodes that lag, event rows, gap rows and both cursors; where `pollOnce` is |
| `Webhooks` | `services/api` webhook routes and outbox | deliveries with attempts and back-off; the pass and what it has read |
| `PayoutHop` | `services/payout-hop` with `packages/db` `journal.ts` | `payout_forward`, journal and exit fills; where each request is; the network's queue of the one operator account |
| `IssuerGateway` | `services/issuer-gateway` idempotency | the key table; where each request is; what the issuer has really done |
| `OnceOnly` | abstract specification | what a claim table promises: one holder per key, given back or finished for good |
| `ApiAccess` | `services/api` `apiKeys.ts`, `auth.ts`, sessions and key routes | keys, nonces, limits and sessions; where each request is |
| `Compliance` | `services/api/src/compliance`, `complianceCli.ts` | checks in the order they were inserted, the list and its age, where each request is in the gate |
| `Reconciliation` | `services/ledger` `reconcile.ts` and the writers of both its sides | pledge rows, vault events, indexed events, the seizure |
| `Services` | - | what the service models share: the absent value and the bound on faults |
| `MCCreditLine`, `MCPledgeVault`, `MCKeeper`, `MCPriceGuard`, `MCRepoDvp`, `MCTxIntents`, `MCRequests`, `MCWorkers` | - | constants for TLC, and which models share a run |
| `CreditLineProofs`, `PledgeVaultProofs` (with `LiquidationKeeper`), `PriceGuardProofs`, `RepoDvpProofs`, `TxIntentsProofs` | - | theorems and proofs of one model each |
| `ServicesProofs` | - | theorems and proofs of `PayoutHop`, `IssuerGateway`, `ApiAccess`, `KeeperQueue` |
| `RecordsProofs` | - | theorems and proofs of `Compliance`, `Webhooks`, `Indexer`, `Reconciliation` |
| `FiniteSums` | - | lemmas on sums over finite sets, which the balances of all the others rest on |

A contract call is atomic on Stellar: it commits or panics and changes nothing.
So a call is one action, its asserts and early returns are guards, and a call
that panics is no step. An action may be taken by any caller the code accepts;
`require_auth` is that choice of caller. Services are not atomic: each of their
awaits ends an action.

Definitions called *Mutant* in the modules are wrong variants of the definition
below them (a dropped guard, a missing reset); `PROJECT.json` "mutants" says
which property each of them breaks. No specification uses them.

### Abstractions

* Numbers are scaled: 10 basis points to the whole, a year of one second, prices
  of a few units. The formulas are the code's; the constants are parameters.
* `i128` and `u64` arithmetic is unbounded; overflow panics in the contracts and
  would be one more refused call.
* Wallets outside the contracts are not tracked: a transfer that lacks funds is
  a refused call. Storage TTLs, events and logging are left out.
* Roles are fixed and the vault is wired to the line (`set_vault`). Rotation of
  roles and upgrade are left out.
* The pause flag of `contracts/common` has no entry point that sets it in the
  credit line or in the vault, so its checks never refuse a call there.
* A line's agreement hash, cure period and breach ratio, and a pledge's lien
  reference, are stored and never read back by the contracts; left out.
* In `CreditLine` the price is an arbitrary reading with an arbitrary status,
  which includes everything `PriceGuard` can answer.
* `PriceGuard` has one asset: the contract's entries are keyed by asset and no
  call touches two assets. Its queue ids are shared with role and upgrade
  queues in the code, which only leaves gaps in them. A signature is the key
  that made it.

* `RepoDvp` has one clock: a ledger closes every `SECONDS_PER_LEDGER`, which is
  what the contract itself assumes when it turns seconds into an allowance's
  expiry. It knows two pause scopes, `Repos` and `All`; the contract reads no
  other. The token is external: an approval replaces the one before, a spend
  takes from it, an expired one is worth nothing. The caller of `unwind` matters
  only in being the borrower or not.
* `TxIntents` keeps one row of each table an envelope can be about, and of a row
  its status and how often a success was booked (0, 1, or 2 for more). The API,
  the sweep and the network share one clock; the RPC node answers from a ledger
  that is at most `LAG` behind. A submit call that gets `NOT_FOUND` keeps
  polling, which changes nothing and is no step. `MaxFaults` bounds the database
  transactions that throw.
* In every service model each await ends a step, a Postgres transaction is one
  step, and a fault (`MaxFaults`, `MaxFailures`) is a throw, a lost answer or a
  death; a lost answer comes in both kinds, with and without the effect.
* `LiquidationKeeper` reads `ltv` and `line` in one step: the code sends both
  reads at once and the contract repeats every check made on them. Whether the
  contract refuses a call is `ENABLED` of that call. Of the pledge rows it keeps
  their total, active or still waiting for their intent to be applied.
* `RepoKeeper` reduces the trade to what the jobs look at: its status, its
  margin call and deadline, and whether the position is in the band.
* `PayoutHop` assumes that a quote belongs to one first leg (`QuoteAssumption`):
  a quote is filled by one exit. `exit_fill.quote_id` is not unique, and the
  repair would take a second leg under the same quote for booked already.
* `Indexer`: `since` is the newest ledger that any cold start has asked for
  first; nothing is said of events before it, which the code does not promise
  either. (Of the last cold start alone the promise would be false: two cold
  starts before anything is stored, the second through a node that lags behind
  the first, leave a hole before the ledger the first one asked for.)
* `ApiAccess` and `Compliance` follow one address and one party; signatures and
  tokens are not forged.
* `PricePublisher` knows a reading by its timestamp; the contract keeps what was
  published last.

## 3. Runs

| Run | Question | Instance |
|---|---|---|
| `credit_line` | Do lines stay sound through every order of calls, and does the shared USDC balance cover them exactly? | 2 lines of 1 USDC, 3 ledgers, interest in every ledger, prices that crash and halt, a configuration `validate` refuses |
| `pledge_vault` | Do vault and line agree, are draws and releases backed, do custody changes keep tokens and positions together, and does the composition implement `CreditLine`? | 1 line, 2 units, 2 assets, escrow and lien custody, degraded prices |
| `keeper_jobs` | Does the sync job repair every drift? Is a liquidation carried through two transactions and a booking, and booked as it happened, whatever fails in between? (safety and liveness) | 1 line, 2 units, 2 ledgers, 1 failure, a price that crashes and recovers, a borrower who repays, pledges and releases in between |
| `price_guard` | Is the price guard a bounded feed with a majority behind each price, and can any order of settings calls loosen a rule early? | 3 sources, 3 prices, early and stale readings, 4 settings, one queued change of each kind, 2 keys, 4 instants |
| `repo` | Does one trade keep its cure window and a fair end, and is each trade's escrow and claim its own beside others? | 1 trade with changing grace periods and stops of both scopes; 2 trades of one borrower, long and short; 1-2 units, 5 instants, prices that crash and degrade |
| `tx_intents` | Does every envelope end, with the status the network gave it, its success booked once? (safety and liveness) | 2 envelopes of 4 kinds, a submit call and the sweep, a lagging RPC node, 1 fault, 4 instants |
| `requests` | What is paid, promised or let in once, does it stay so when two requests race and one step fails? | payout: 2 legs, 3 requests, 2 at a time; gateway: 1 key, 2 bodies, 4 calls; reconciliation: 2 pledges; access: 1 key, 1 message sent again and again, 5 instants; gate: 2 requests, 2 checks, 4 instants; 1 fault each |
| `workers` | Do the loops that run by themselves lose nothing and get everything done? (safety and liveness) | outbox: a row that stands for two events, 2 attempts; indexer: 2 nodes, pages of 1, 4 ledgers, 2 events; queue: 2 keepers, 2 jobs; repo jobs: 1 trade, 3 instants; publisher: 2 overlapping cycles; 1 fault each |
| `stale_breach` | finding | 1 line, a crash and a recovery |
| `repo_both_sides` | finding | a party that borrows and lends |
| `booked_twice` | finding | 1 repayment, 1 fault |
| `resume_lost` | finding | as `keeper_jobs`, 1 unit |

**Several models in one run.** `requests`, `workers` and `keeper_jobs` start one
of several models, named by the variable `focus`, and leave the others where
they begin. The models of a run share no variable (in `keeper_jobs` they share
the contracts, and the queue never runs two jobs at once), so a property of one
of them holds in the run exactly when it holds of that model alone; the run
saves the repetition. `price_guard` and `repo` do the same with two scenarios of
one model: one follows prices, or one trade, in detail, the other settings, or
several trades. The scenario only restricts which calls are tried.

Why the bounds are enough: two lines are enough for one to be paid with the
other's money; two ledgers are what arming and liquidating take and a third lets
the line be closed or recover; two units let a release be partial; an asset
beside the line's own shows a position in the wrong asset; three sources give
the first median with a middle value of its own and, as one goes stale, the
first even one; four instants let a window and a timelock of two pass and a
reading grow stale; two repo trades are the fewest that share a borrower's one
allowance, and three ledgers hold settlement, the maturity of both, their grace
and a default after it (a single trade has four); two envelopes can be about one row (a pledge being created and
released), two settlers are enough to race for one intent, one fault is enough
to hand an intent back, and with a timeout, a margin and a lag of one the four
instants let an envelope expire, land unseen and be written off. Two requests
are enough to race for a claim, a third retries what failed; two RPC nodes are
enough to disagree about the tip, and a page of one fills at the first event;
two keepers with two jobs are enough for a lock to be contended and for an
abandoned run to meet its successor; two cycles are enough for one to overtake
the other; one fault anywhere is enough to lose an answer. In `keeper_jobs` a
line is healthy or in liquidation, so one margin event is all the job looks back
for; longer stretches only move the start of the cure window. The safety results that matter most are also proved
without bounds (section 4).

Deadlock is checked where some call is always possible (a new price, a read, a
configuration). `requests` and `workers` say `CHECK_DEADLOCK FALSE`: their
models have served the bounded number of requests, closed the last ledger or
booked the only trade when they stop.

**Fairness.** Nothing is assumed of borrowers, lenders, subscribers, prices or
callers; what is assumed of the loops is that they keep running.

| Fairness | Says | Because |
|---|---|---|
| `RailFairness` | the sync job starts again and again, and a read or a submission that keeps being tried succeeds in the end | scheduled every minute (`services/keeper/src/index.ts`); without the second part the network may fail for ever |
| `LiquidationFairness` | the monitor polls, the API's sweep applies intents, and the job takes its next step | timers of the three services; failures are finitely many |
| `IntentFairness` | time passes and the sweep takes its next step | 15 second interval (`services/api/src/index.ts`); nothing is assumed of submit calls, which may die at any await |
| `HooksFairness` | the pass takes its next step, and time passes | timer in `services/api/src/index.ts`; passes that die are finitely many |
| `IndexerFairness` | every node catches up, and the poll takes its next step | the poll loop catches everything (`services/indexer/src/index.ts`) |
| `QueueFairness` | the lane starts its next job, and a run is held to its deadline | the promise chain and `setTimeout` of `jobQueue.ts`; nothing says that a run ever settles by itself |
| `RepoKeeperFairness` | both jobs take their next step, and time passes | cron |
| `PublisherFairness` | a cycle takes its next step | cron; the NAV's side may fail for ever, the feed's side finitely often |

### Findings

* `stale_breach`: `draw` stores a `Healthy` state and leaves the clock and the
  breach flag that an earlier `poke` set. The flag survives the recovery, and
  the first bad read after it is enough to liquidate.
* `repo_both_sides`: a token allowance is one number per owner and contract. A
  party that has a settled trade as borrower and then proposes one as lender
  replaces the allowance its own leg 2 is collected from; until it settles
  another trade as borrower, only it can unwind. (With lenders and borrowers
  apart, `repo` shows that every trade stays collectable.)
* `booked_twice`: `recordSettleError` sets an intent to pending whatever its
  status. A settler whose transaction throws after another has settled the
  intent hands it back, and the next sweep books the success again.
  `AppliedOnceUnlessFlagged` shows that this is the only way to book twice.

* `resume_lost`: the cure-expiry job skips a line whose newest margin event is
  not unhealthy, before it looks at the contract. A run dies after
  `CreditLine.liquidate`; a repayment or the price makes the line healthy; the
  monitor records it; and no later run resumes. `LiquidationCarriedOn` shows
  that this, the lender closing the line, and a borrower who never stops moving
  the collateral are the only ways a liquidation is left half done.

Not disagreements with a document, but worth knowing, and kept in the models:

* The sync job writes an absolute figure it read earlier. A release between read
  and write is undone on the line, and a draw then succeeds against units that
  left the vault (`syncCollateral.ts:42`); `DriftRepaired` says that the next
  sweep repairs the figure, and the draw has happened by then.
* `default_at_maturity` does not take the trade's ceiling off the borrower's
  tracked sum, so later approvals are larger than the live trades need.
* The seizure checks nothing about the line's status (`pledge-vault`
  `lib.rs:447`): the lender may close the line before it, and a borrower who
  repays may release first, or pledge into the liquidation.
  `BookedWhatWasSeized` is about liquidations no such call fell into (`touched`).
* A payout that the node answered with TRY_AGAIN_LATER was not queued and is
  booked as sent (`hop.ts:209`). A payment whose answer was lost is marked
  failed and may be paid again; `PaidOnceUnlessInDoubt` counts exactly those.
* A failed issuer call gives its key back even when the issuer has acted;
  `OneObligationUnlessLost` counts exactly those.
* All keeper instances and jobs sign with one account (`keeper/src/index.ts:20`);
  the lock is per job, so their transactions may spend the same sequence number.
  The loser's submission throws and its job runs again.
* The margin job inserts a call row whenever the contract's call is open after
  its own transaction, so two overlapping runs leave two rows for one call.
* Two requests for a new API key may both find room and overshoot the limit by
  one (`routes/api-keys.ts`).
* A check is dated with the start of its request. A match written after a
  person's clear, but dated before it, is hidden by it (`gate.ts:92`);
  `MatchHoldsUntilCleared` is stated accordingly.

## 4. Proofs

`tlapm` checks all eight proof modules. The theorems hold for any number of
lines, trades, parties, assets, sources, changes, envelopes, settlers, requests,
keepers, pledges, nodes and messages, and for any amounts. Every invariant and
every action property that a run checks is also a theorem, and so are the
refinements (`VaultSpec => Spec`, `GuardSpec => FeedSpec`, and each of the two
claim tables against `OnceOnly`).

**Sums** (`FiniteSums`). A balance that covers all lines, positions or trades is
a fold over a finite set. What such a fold does when one term changes needs
induction over the set. The library states induction with an operator as a
parameter, which the provers cannot instantiate, but well-foundedness without
one: a nonempty set of numbers has a least element (`LeastOf`), so a set of
subsets has a smallest one (`SmallestOf`), and each fact is proved on a smallest
set that would break it. `SumUnfolds` ties the library's fold to a function on
the subsets that satisfies its equation; `SumTakesOut` shows that any element,
not only the one the fold chooses, can be taken out first; `SumMoves` (one term
changes), `SumSame`, `SumNat`, `SumCoversTerm` and `SumGrows` follow and are what
the other modules cite.

**Credit line** (`CreditLineProofs`). No safety property is inductive alone:
that `repay` keeps the numbers natural needs principal <= commitment; that a
closed line owes nothing needs the life cycle of its record; that a line with a
breach flag has a clock needs that a line without debt is `Healthy`, which needs
validated thresholds (a zero warning level would classify no debt as
`Warning`). `IndInv` collects these per line (`LineSound`) together with the
types, the order of ids and the thresholds. The proof has one lemma per call.
From it: `TypeOK`, `NeverOverLent`, `LiquidationLifecycle`, `ArmedLineHasClock`,
`OutcomeReconciles` as invariants and `LiquidationFrozen`, `DebtMovesWithCash`,
`OneLinePerCall` as action properties. `UsdcBacked` follows from the last of
them and `SumMoves`: a call changes what one lender can take out, and moves the
pool by as much.

**Vault and line** (`PledgeVaultProofs`). `VaultInv` adds to `IndInv` that a
position with units belongs to an opened line and its asset: without it, opening
a line could find a non-empty position and the two figures would start apart.
From it: `CollateralInStep`, `PositionsMatchLines`, `DrawBackedByVault`,
`ReleaseKeepsHealthy`, and `VaultSpec => Spec`, so that everything proved of the
credit line alone holds behind the vault. `ReleaseKeepsHealthy` is about
releases judged on the same terms in both contracts, as its statement says: the
operator sets the terms of the two contracts separately. `EscrowBacked` is again
one changed term: each vault call moves as many tokens as the escrow units of the
position it writes, also when the custody mode of the position changes with it.

**The keeper that liquidates** (second half of `PledgeVaultProofs`). `KeeperInv`
adds to `VaultInv`, per line, what the contracts, the job and the books know of
each other (`LineBooks`): a job past the freeze stands on a frozen line, also one
that resumed what another run began; until the liquidation is booked, the pledge
rows with the intents still to apply account for what the vault holds and has
sent; and while the borrower stays away (`~touched`) what the job has read across
its awaits is still so (`Undisturbed`). The proof has one lemma per await, for
the job's failure at each of them, and for the calls of borrower and lender in
between. From it `BookedWhatWasSeized` and `SeizureWithinRecord`, and, from the
fact that the keeper's steps are vault steps, that `CollateralInStep` survives
the keeper. That the contracts may refuse a call (`ENABLED`) only decides which
way the job goes on; the invariant holds either way, so nothing has to be known
about it.

**Price guard** (`PriceGuardProofs`). `GuardInv` is the types, the latch with
its value, the drift bound and the bounds on the settings in force and in the
queue (a queued change must not be able to widen a band past the stated bound).
From it: the four parts, `GuardSpec => FeedSpec`, `LooseningWaits`, and
`NoMinorityMovesPrice`, whose core is `MedianIsMiddle`: the two middle values
are in order, fewer than `len / 2 + 1` readings lie below the upper one and at
least `(len + 1) / 2` do not exceed the lower one.

**Repo trades** (`RepoDvpProofs`). `RepoInv` joins the types with
`TradesInOrder` and what that needs: both grace periods stay at or above their
minimum, thresholds stay validated and a trade's asset configured (a margin
call divides by a threshold), nothing is proposed or settled in the future (the
ceiling bounds the due because settlement follows the proposal), and ids are
used once. The action properties follow from it: `CureDeadlineStands` and
`NoSurpriseDefault` by which calls can touch an open margin call,
`FairSplit` from a lemma on the rounded-up division, `StopsHold` from the fact
that one call removes one queued unpause. `RepoEscrowBacked` follows from the
flow of each call: what enters or leaves the contract is the change of the one
trade it writes. `EveryTradeCollectable` needs `CollectableInv`: the ceilings of
a borrower's settled trades sum up to at most what the contract books as its due,
the allowance is never less than that due, and both outlast every settled trade.
Settling adds the same ceiling to all three; a closed trade takes its ceiling off
the due, and leg 2 takes at most that off the allowance because the due amount
never exceeds the ceiling; when the due reaches zero its expiry is dropped, which
is safe since a live trade has a positive ceiling; `default_at_maturity` leaves
its ceiling booked, which only makes the due larger than needed.
`ExpiryOutlasts` shows that rounding the expiry up by two buckets survives the
cap at the host's limit for trades within reach. The theorem assumes that no party
is both lender and borrower; `repo_both_sides` shows that it is false otherwise.

**Transaction intents** (`TxIntentsProofs`). `IntentInv` joins the types and the
three invariants with what a step needs to know: `SettlersKnow` (what a settler
carries across an await is still true of the network, whatever others did
meanwhile), `TimesInOrder` (an envelope closes within its timeout and nothing is
dated in the future) and `WorkIsRecorded` (a settler works only on recorded
intents). The heart is `MissingIsGone`: an envelope the RPC node does not know
after expiry plus margin cannot land any more, because the node lags by no more
than the margin; this is what makes writing it off safe. Settlers claim an
intent by a conditional update in the transaction that books it, which gives
`AppliedOnceUnlessFlagged`.

**Services** (`ServicesProofs`). Each result joins the types with who holds
what across an await. `PayoutInv`: a request between its claim and its last
write finds its row claimed (or already sent, when the commit's acknowledgement
was lost), and no two such requests share a leg; hence every write to a row is
its holder's, and `PayoutSpec => PayoutClaimsOnce`. `GatewayInv` says the same
of the idempotency keys and gives `GatewaySpec => GatewayClaimsOnce`; that the
two tables implement one abstract `OnceOnly` is what they have in common.
`QueueInv`: a working run holds the lock of its job and holds it alone, also
when it was abandoned, and the lane's run is the one at its head; from it
`OneRunPerJob`. `AccessInv`: a request past the checks was fresh when it read
the clock, so its nonce is no older than the timestamp less the tolerance, and
while the message is valid that is within the retention of twice the tolerance;
from it `NoReplayWhileValid`. The fault bound is arbitrary in all of them.

What the two tables are for is proved on top of the claims. `AnswersInv` (an
answer names an obligation made for that key and body; once a key has an answer
its row is taken and nobody works on it) gives `OneAnswerPerKey`. `LossesInv`
counts: a key has at most as many obligations as lost calls, and one more once it
or the request that holds it has an answer; hence `OneObligationUnlessLost`.
`LandingsInv` is the same count for payments, with the one in the network's queue
among them, and gives `PaidOnceUnlessInDoubt`. `BooksInv` says which leg a journal
reference belongs to (a drawn one to the leg that drew it, a quote to its one
leg), and that it is booked exactly when that leg is paid; hence
`SentMeansBooked`.

**Records** (`RecordsProofs`). `ComplianceInv`: a match that was recorded alone
and that nobody has cleared is the latest check, and no request stands between
reading the latest check and passing on an older one; the age a request has read
bounds the age of the copy it screens against. From it `MatchHoldsUntilCleared`
and `StaleListFailsClosed`. `HookInv`: the copies a pass works on are what the
table says, since nobody else writes a pending row; what a fan-out has looked at
is queued or still on its list. From it `OutboxIsTrue`. `IndexerInv`: the newest
stored event is as good a cursor as the row, nothing promised is missing before
the first ledger of a poll, its pages leave no hole, and after the last page it
has every event up to the tip that page was read at. From it
`NothingLostSilently`, for any number of nodes that lag and any page size.
`ReconInv`: the vault's events add up to what it holds, and so do the pledge rows,
when an envelope's fate is counted before its row is settled and a seizure is
added until it is booked. From it `QuietBooksReconcile`.

Type invariants and the inductive invariants are stated as theorems only: the
runs are kept for what crosses several steps.

Assumptions are the named `ASSUME`s of `Risk`, `CreditLine`, `PledgeVault`,
`PriceGuard`, `RepoDvp`, `TxIntents` and of the services' modules: constants are
naturals where the code has unsigned or positive values, `None` is no value, the
sets of sources and of pledges are finite, and the settings stay inside the
bounds the results are stated with; the RPC lag is within the margin; a payout
request names a known leg and an integer amount, and the id of a quote is not one
that is drawn; nonces are kept for twice the timestamp tolerance; the sanctions
list is refreshed before it is too old to use. TLC evaluates them in every run.
`CollectableHolds` has the one hypothesis that is not an `ASSUME` (no party on
both sides), because a run shows what happens without it.

**Only model-checked.** Liveness: `DriftRepaired`, `LiquidationCarriedOn`,
`EveryIntentEnds`, `DeliveriesEnd`, `EventsGetIndexed`, `LaneNeverJams`,
`EndedTradeBooked` and `FeedKeepsFlowing` rest on fairness and so on `ENABLED`,
which the prover cannot reason about. `CollateralSync`, `RepoKeeper` and
`PricePublisher` have no safety property beyond what their contracts already
guarantee, and so no theorem of their own. The findings are counterexamples, and
counterexamples are TLC's.

## 5. Plan

Done: the contracts `Risk`, `CreditLine`, `PledgeVault`, `PriceGuard`, `RepoDvp`;
the services `TxIntents`, `CollateralSync`, `LiquidationKeeper`, `RepoKeeper`,
`KeeperQueue`, `PayoutHop`, `IssuerGateway`, `Indexer`, `Webhooks`,
`Reconciliation`, `ApiAccess`, `Compliance`, `PricePublisher`; the abstract
specifications `BoundedFeed` and `OnceOnly`. Next:

1. The safety half of the liveness results: that `CollateralSync` only ever
   writes a figure the vault once held, and that `RepoKeeper` never books an end
   the contract has not reached.
2. `ExitDesk` (its daily cap and its float) and `Registry` with role rotation
   and upgrade, which every contract shares.
3. An abstract delivery-versus-payment specification for `RepoDvp`.

## 6. Not modelled

* `contracts/exit-desk`: `exit` prices, checks its cap and swaps in one
  transaction; the float, the daily cap and the pause are state worth a module,
  planned above. The intent of an exit is in `TxIntents`, its payout in
  `PayoutHop`.
* `contracts/registry`: parameters and roles behind the timelock that
  `PriceGuard` and `RepoDvp` model; no other contract reads it yet.
* The indexer's backfill command, the issuer gateway's pass-through routes and
  the ledger's read routes.
* The console, the API's validation and read routes, the issuers' and anchors'
  HTTP formats, XDR encoding, key management, configuration and metrics are I/O
  and formatting without a protocol of their own.
