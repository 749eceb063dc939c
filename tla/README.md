# NFTAIX: specifications, model checks and proofs

NFTAIX is a set of Solidity contracts on opBNB (`contracts/`), an API in
TypeScript over PostgreSQL (`apps/api/src/`) that mirrors the chain and keeps an
income ledger, and a web application (`apps/web/`). This directory holds TLA+
modules for the contracts, for the parts of the API that move money or decide
who is who, and for what the web application does between two answers; the TLC
configurations that check them; and TLAPS proofs, for every value of the constants,
of all safety properties and refinements that the configurations check on small
instances. `PROJECT.json` maps each definition to the lines it stands for.

To run: `tlc -config MarketQueue.cfg MCMarketplace.tla` (any `.cfg` with the MC
module named in `PROJECT.json`), `tlapm MarketplaceProofs.tla` (from
nothing the eight proof modules take about ten minutes in all).

## 1. Inventory

### Components, state, operations

| Component | State it keeps | Operations that change it |
|---|---|---|
| `NFTMarketplace.sol` | owners, FIFO queue, listings, one hold per user, pricing, sale split, daily volume | `buy`, `botBuy`, `runBot`, `listHeld`, `adminMintToQueue`, `adminBurnToken`, transfers, settings |
| `Registration.sol` with `NFTAIXToken.sol` | users, sponsor tree, packages, split, level unlocks, volumes, inactivity, the token's treasury | `register`, `registerAndActivate(For)`, `activate`, `upgrade`, `recordVolume`, deactivation, settings |
| `GlobalPool.sol`, `Treasury.sol`, `LiquidityManager.sol` | the pool of each day, burned total, liquidity books | `credit`, `distributeDay`, `setRankBps`, `receiveBurn`, `receiveLiquidity`, `forward*` |
| `Rewards.sol` | pending income of a user and day, what is settled | `creditIncome`, `claim`, `settle`, the owner's burn |
| Chain indexer (`modules/chain`) | `ChainEvent`, `ChainSyncState`, `NFTRecord`, `TradingLog`, `DailyTradingCompliance`, `PackageActivation` | `syncRange`, head window, sync of one transaction, per-user backfill |
| Trading routes (`modules/trading`) | the same volume rows and verdicts | `POST /trading/submit`, the page that names submitted rows after purchases |
| Marketplace sale income | `NftSaleTradingIncome`, `NftSaleLevelIncome`, grants | indexing of a purchase's income, backfill |
| Reward engine | `IncomeLedger`, `IncomeLog`, `TokenDistributionLog`, `BurnLog` | distribution of an activation, grants under the daily cap, unlock, burn, mirror of activations |
| Ranks and payout | `GlobalPool` rows, rank history | `persistGlobalPoolRun`, `executeGlobalPoolOnChainPayouts` |
| Bots | `BotPurchaseRun`, `BotPurchaseAttempt` | one `runBot` for each user with the bot on, "Trade Now" for one |
| Packages and registration sync | `PackageActivation` again, the custodial balance | copy of the contract's state, sign-up, recovery, administrator's grants, activation from the balance |
| Authentication | nonces (Redis or table), `RefreshToken`, account status | nonce, logins, refresh, logout, deactivation, blocking |
| Referral tree | `User.sponsorId`, `ReferralEdge`, `directReferralCount`, `teamCount` | sign-up, rewire of a leaf, recount |
| Jobs | none of their own | timers or BullMQ workers: unlock 60 s, burn 120 s, indexer 20 s, pool and inactivity daily, bots each period |
| Web application | `localStorage`: tokens and two times; the wallet's allowances | login, refresh on a 401, idle and session timers; approve and buy, activate or upgrade |
| NFT and trading pages, administration views, faucet, site content, scripts | content, settings | requests on single rows, and views |

### How they interact

* The marketplace calls `Registration.requireActive`, `recordVolume` and reads the
  upline; Registration and the marketplace pay USDT directly to users, and
  through `credit`, `receiveLiquidity` and `receiveBurn` to the other contracts.
  `GlobalPool` and `Rewards` read days, volumes, ranks and compliance from
  Registration. All of this happens inside one transaction, which is atomic.
* The API reads the chain by `getLogs` and by receipts, and writes rows. Several of
  its calls run interleaved in one Node process (and in the worker process when
  Redis is used): every `await` is a point where another call goes on. What
  guards them is the database: a unique key, or a transaction.
* The payout job and the bots send transactions and then write what they sent.
* Tabs of the web application share `localStorage` and the wallet, and learn of
  each other only by reading them.

### What is hard here

* Contracts: long legal sequences (hold, displace, split, burn, transfer, new
  settings) that must keep the queue sellable; payments rounded part by part that
  must add up; a value checked now and used after a setting changed.
* Indexer: four overlapping calls that write the same rows and users who submit
  rows of their own, a cursor that overlapping calls move back, errors in the
  middle of a range, restarts between a row and what should follow it, and data
  derived from sums that go stale.
* Ledger and payout: checks outside the transaction that relies on them, two jobs
  on the same rows, and payments on chain whose hash is saved afterwards.
* Requests: look-ups and writes in separate statements (nonce, refresh token,
  balance, sponsor tree, current package), from tabs and requests at once.
* Web application: prices and allowances read before a signature is awaited; a
  session that one tab renews and another ends.

`PROJECT.json` lists these hazards one by one, at their lines, with the properties
that cover them or the reason none does.

### What correctness means

* Marketplace: the queue can always be sold; sales are first in, first out; a hold
  is the user's own; nothing of a sale stays in the contract; nobody trades past
  the daily limit.
* Registration: sponsors form a tree, counters match it, an activation pays out the
  whole price, an account with a recent trade is not deactivated.
* Funds and Rewards: every pool and escrow covers what it owes, income of a
  day is claimed or burned as the day ended, unless its terms changed since.
* Indexer: no log is skipped and none counts twice, verdicts are earned, a sale's
  income is granted at most once, and every block is stored in the end.
* Ledger: what is due is booked in whole and once, then released or destroyed,
  once; a day's cap holds; a row marked as paid was distributed, or its call
  was mined and reverted.
* Requests: a nonce or a token row serves one login, a logout leaves no session, a
  balance is not overdrawn, the package shown is the chain's, the tree's rows
  follow the sponsors.
* Web: a session in use goes on, and a click costs what it showed.

Where the code keeps such a promise only outside a race, the property names the
race as history (`contended`, `overlapped`, `shared`, `missed`, `crossed`, ...): it
then says that nothing else breaks the promise.

## 2. Modules

| Module | Models | Extends |
|---|---|---|
| `Marketplace` | `NFTMarketplace.sol` and what it needs of Registration | |
| `Registration` | `Registration.sol`, the token's treasury | |
| `Funds` | `GlobalPool`, `Treasury`, `LiquidityManager`, fed by Registration's steps | `Registration` |
| `Rewards` | `Rewards.sol` over Registration's days and compliance | `Registration` |
| `Indexer` | the API's chain indexer, submitted volume, period compliance, sale income | |
| `Books` | what an income ledger promises: the abstract specification | |
| `IncomeLedger` | distributions, resale grants, the cap, unlock and burn jobs | refines `Books` |
| `PoolPayout` | the daily run of the global pool and its payment on chain | `IncomeLedger`, refines `Books` |
| `Activations` | every writer of one member's package rows, and the mirror | |
| `Referrals` | the sponsor tree as rows | |
| `Accounts` | nonces, refresh tokens, account status; the custodial balance | |
| `Keepers` | auto-trading runs and "Trade Now" | |
| `Browser` | the stored session over several tabs | |
| `Checkout` | a purchase from the page to the wallet to the contract | |
| `Sums` | the sum of a function's values over a set, used by the ledger, the funds and the escrow | |
| `MarketplaceProofs` | theorems of `Marketplace` | `Marketplace` |
| `RegistrationProofs` | theorems of `Registration`, `Funds`, `Rewards` | `Funds`, `Rewards`, `SumsProofs` |
| `IndexerProofs` | theorems of `Indexer` | `Indexer`, `SumsProofs` |
| `LedgerProofs` | theorems of `IncomeLedger` and `PoolPayout`, both refinements of `Books` | `PoolPayout`, `SumsProofs` |
| `MembersProofs` | theorems of `Referrals` and `Activations` | both, `SumsProofs` |
| `AccountsProofs` | theorems of `Accounts` and `Keepers` | both |
| `WebProofs` | theorems of `Browser` and `Checkout` | both |
| `SumsProofs` | lemmas on finite sets, sums and lists that the others cite | `Sums` |
| `MC*` | constants and state constraints of the runs | |

**Marketplace.** A transaction is an action; `Purchase(u)` is `_buy` with everything it
calls (queue or fresh mint, sale split, volume, and one of the placements
`HoldAtThreshold`, `AutoList`, `HoldFirst`, `HoldDisplacing`, `BurnAndSplit`).
`runBot` loops over purchases and breaks off where limit, balance or allowance end,
so it is a lock `bot` and steps under it. Variables carry the contract's names
(`queue`, `listing`, `heldTokenId`, `nextTokenId`...); `vault` is the USDT the
contract holds.

**Registration.** `users` and `referrals` are the contract's mappings; the internal
functions `_register`, `_activate`, `_distributeActivation` are the operators
`WithRegistered`, `WithActivated`, `DistributeActivation`, composed as the entry
points compose them. `paid` keeps what the last transaction paid, `held` the USDT
left in the contract.

**Funds, Rewards.** `RegistrationStep` is any step of Registration, with the payments it
makes delivered to the pool, the treasury and the liquidity manager in `Funds`,
and with two histories taken in `Rewards`: `met`, the days ended compliant, and
`regraded`, the ended days whose required volume a later step has changed.

**Indexer.** A worker is a call under way: `todo` are the logs still to handle, `phase`
where it is in the current one, and `user`, `act`, `current`, `volume` what it has
read and still relies on. Each database transaction, and each group of adjacent
reads, is one step, so other workers run between a read and the write that uses
it: `LookMarket` then `StorePurchase` then `Measure` then `Judge`;
`LookPackage`, `ClearCurrent`, `StoreActivation`, `CheckDistribution`, `Distribute`.
`LoseRace` is the transaction that breaks a unique key because another call
stored the purchase first. A verdict and the burn of NFT rows that follows it are two
steps (`Judge`, `BurnRecords`). `due` and `granting` are the income calls started
without `await`. A block has one transaction, so its number stands for the hash.
Users write volume too: a request (`request`) is `SubmitRow`, `SubmitMeasure`,
`SubmitJudge` and `SubmitBurns`, with an activation, a period and a volume of the
caller's choice, or `FindPurchase` and `NameRow`, by which the page of trades gives a row
without a hash the hash of a purchase of that volume; the indexer does the same
(`FindRow`, `AdoptRow`) before it adds a row for a stored purchase. The code compares
volumes up to 0.06 USDT, for the rounding of a column of two decimals; the model has
whole prices and compares them exactly, and leaves out the windows of time.

**Books, IncomeLedger, PoolPayout.** `Books` has three totals, `waiting`, `released`
and `destroyed`, and two steps: `Book` a source in whole, `Settle` what waits. In
`IncomeLedger` a caller drafts a transaction from the committed rows
(`ActivationShares`, `Share` cut at the cap) and appends it at its commit; the
unlock and burn jobs hold a batch that they found and update it row by row.
`PoolPayout` adds the contract's days and the run: `ReadPool`, `DraftRun`,
`CommitRun`, `FindUnpaid`, `Distribute` (the call is sent, if its estimate does not
revert), the wait (`Mined`, `LoseReceipt`), `MarkPaid` and `EndRun`; `RestartPool` may
come between any two. A call sent is `inFlight` until the chain mines it, which may be
after the wait for it was lost, and it may revert there (`Mine`): because another call
distributed the day first, or for gas. The code does not look at the status of the
receipt, so `MarkPaid` follows in either case. `KeepsBooks` and `PoolKeepsBooks`
are `Books!Spec` under a refinement mapping that sums the rows by status.

**Activations.** `bought` is the chain, `rows` the table. `Index` is the event,
`SignUp` and `Recover` the requests that name a transaction or find one, `Copy` the
copy of the contract's state, `Mirrors` the pages that distribute what nobody has,
`Grant` an administrator. Calls overlap without restriction. `Buy` is `_activate`, for
any package, or `_upgrade`, to a dearer one.

**Referrals.** A sign-up is `CountDirect`, `AddEdge` for each ancestor, `CountTeam`, a
statement each; `Rewire` checks and then writes; `Recount` reads a member
(`CountOne`) and writes it later (`WriteOne`).

**Accounts.** A door is a request: `ReadNonce`, `ConsumeNonce`, `OpenSession`, or
`FindToken`, `RevokeToken`, `RenewToken`. `store` chooses Redis or the table for the
nonces; the table is cleared and written in two steps (`ClearNonces`, `CreateNonce`). A refresh may match any live row of its user (see section 5). `Custody` is
the activation from the balance: price and balance read, then charged.

**Keepers.** `runs` and their attempts are the rows, `txs` what was sent, `keeper` the
call of a run between its answers; the chain mines a transaction whenever it
likes, also one nobody awaits any more. `executor` and `fallback` are the
configuration that the code reads.

**Browser, Checkout.** A tab or a window holds what it has read while it awaits the
server, the wallet or a receipt. In `Browser` `kept` is `localStorage`; in
`Checkout` `window[w].shown` is the price on which the window acts.

## 3. Runs

Sizes are distinct states; times are with two workers.

| Run | What it shows | States |
|---|---|---|
| `market_queue` | two users, five tokens, up to the burn threshold and its split, transfers and burns: `QueueSound`, `HoldSound`, `StockIsQueued`, `AsksBelowThreshold`, `Fifo` | 1.8 M, 84 s |
| `market_accounts` | packages, days, pausing, bots, pricing and split changes: `VolumeWithinLimit`, `NoVault` | 3.6 M, 40 s |
| `reg_tree` | a root and three symmetric members until the token runs out: `SponsorTree`, `DirectsCounted` | 193 k |
| `contracts` | two accounts, two ranks, candidate lists with repetitions: `NothingHeld`, `PoolCoversDays`; three days of credits, claims, trades, upgrades, settings: `EscrowSolvent`, `SettledAsEnded`, `RecentTradeProtects` | 555 k, 74 s |
| `indexer_trades` | two overlapping calls, four purchases over two periods, one token bought twice in a transaction, a submission that is named after a purchase: `VolumeCountedOnce`, `CompliantEarned` | 893 k, 77 s |
| `indexer_calls` | two overlapping calls with a failure or restart, under fairness: `CursorSound`, `EventuallyStored` | 30 k |
| `indexer_restarts` | one call at a time with two failures or restarts: `SaleIncomeOnce` | 2.1 M, 50 s |
| `ledger` | two granting calls, an unlock and a burn job, a restart anywhere: `KeepsBooks` (refinement), `CapKept`, `SettledOnce`, `DistributedOnce`, `BurnsNeedAlignedPeriod` | 1.3 M, 113 s |
| `pool` | two runs with a restart anywhere, both jobs beside them, under fairness: `PoolKeepsBooks` (refinement), `PaidIsDistributed`, `RevivedOnlyByRace`, `OneRunADay`, `LockedIsSettled` | 177 k, 55 s |
| `requests` | two requests, tabs or windows on what one member shares: `CurrentFollowsChain`, `OneRowPerPurchase`, `TreeRowsFollowSponsors`, `LoopsNeedTwoRewires`, `CredentialsUsedOnce`, `LogoutEndsSessions`, `NeverOverdrawn`, `SessionGoesOn`, `PaidAsShown` | 2.3 M, 192 s |
| `keepers` | a run for two wallets and "Trade Now" for one, a fault anywhere, under fairness: `RowsTellTrades`, `EveryRunEnds` | 663 k, 60 s |

`mirror_twice` ends in a violation of what a comment says of the code:
"Idempotent via tokenDistributionLog" (`activation-reward-mirror.service.ts:73`).
A copy of the contract's state has no transaction hash, so the event of the same
purchase creates a second row; the check is by row, and both rows are
distributed (`PurchaseBookedOnce`).

Each property of the other runs has a mutant in `PROJECT.json`: a plausible bug in a
mapped definition, written beside it as `Bug_...`, under which TLC finds the
property violated.

### Bounds, and why they are enough

* *Whole and prices.* Basis points are 100 (Marketplace) or 20 (Registration) in
  the whole, prices are small integers and shares keep the code's proportions;
  every rounding case (a remainder, a zero share) occurs. `MaxLevels` is 2 instead
  of 20: none, some and all levels eligible are three different counts.
* *Marketplace.* `MaxToken` 5 or 2. Three tokens let a queue hold one token while
  another is held and a third displaced. A primary mint at the threshold is burned and
  split in three: the price of the second token (30) is the threshold, so tokens three to
  five are the split's (`BurnAndSplit` fires in `market_queue`). A day's limit there is one
  sale (`OneSaleADay`). `QueueFocus` leaves pausing, deactivation and bots to
  `market_accounts`.
* *Registration.* Three members give chains, siblings and a member registered
  under a member; `MaxSupply` 54 lets the token's treasury run dry; `MaxDay` 2 is
  enough to become inactive with `inactiveDays` 1. `TreeFocus` of
  `MCRegistration`: the root buys no package and nothing is paused.
* *Funds and Rewards* share `contracts`, one of them in a behaviour (`part`).
  `MaxCredits` 7, `MaxCandidates` 2 (both accounts, or one twice), two days for the
  funds: one that can be distributed and one that cannot; three for the escrow: the
  day of the income, the day it is judged and one more for inactivity. `MaxPending`
  6 is two credits, `MaxVolume` 5 one trade. `Focus`: not paused, no token, new terms and
  rules only for the escrow, new splits only for the funds, income only of the member.
  The escrow has two packages, of limits 10 and 20, and a rule that asks for the
  whole limit instead of half: either one changes what an ended day is judged by.
* *Indexer.* Three blocks of at most two events (`MaxBlock`, `MaxLogs`), `Chunk` 1 or 2
  so that a range ends before the head, `Lookback` 0 or 1, `MaxPeriod` 1, `MaxRows`
  activations, `MaxFaults` 0 to 2 failures and restarts in all. Two workers are one
  race; the calls keep no state but what they read, so a third adds no other kind.
  One request at a time submits one row (`MaxSubmits`) of the volume of a purchase, so
  that it can be named after one. `TradeFocus` fixes the order of the three transactions
  and lets requests meet one call at a time, in the last period, and `IncomeAtOnce`
  settles an income call before anything else happens; both only in
  `indexer_trades`. `indexer_restarts` lets everything but overlap happen.
  `indexer_calls` indexes listings only, because what a call stores does not
  change the order of calls.
* *Ledger.* One activation and one resale of two users, one above the other; a day of
  two ticks, a period of three, so that periods do and do not start at midnight;
  `LockTicks` 2, `Take` 1 row for the burn job, `MaxTime` 4, `MaxVerdicts` 1. Caps of
  50 and 20 are above and below what is due. One restart (`MaxCrashes`);
  `RestartFocus`: compliance is judged only where none happens.
* *Pool.* Two members of different ranks and a rank nobody has, two runs, one
  credit on any day, one restart, one verdict, four days of one tick. Both runs may call
  for the day of the credit, before or after midnight, and the two calls are mined in
  either order or reverted. Days with a credit each take the run past its time limit;
  the theorems have any number. A member without a verdict is not compliant.
* *Requests.* `MCRequests` composes six modules that share no state; a behaviour takes
  one of them (`part`), with two calls. `MaxRows` 3 package rows, `MaxDisturbed` 1 lost
  call or grant; four members, `Depth` 2 of 20 levels, `MaxRare` 2 rewires, recounts
  or lost calls (`TreeFocus` of `MCRequests`: one when all have joined); `MaxTokens` 3, `MaxNonces`
  2, `MaxLogouts` 1, `MaxStatus` 1 and `MaxHours` 1 hour of life for a token
  (`SessionsFocus`: two tokens once the status was changed); three charges of a
  credit that pays for some tiers and not all. For the tabs: an hour is two ticks
  (`HourTicks`), the idle time one, `MaxTicks` 4 lets a session follow another that
  lasted an hour, `MaxPairs` 4 pairs of tokens. For the purchases: two prices at the
  head (`Asks`) and two of packages (`Fees`) that differ by one, a standing approval
  (`Cap` 5) above both, a wallet that is short at first (`InitFunds` 1, `Minted` 8) and
  can pay for two purchases, `MaxMoves` 3 moves of others.
* *Keepers.* `Kinds`: the first run is for everybody, the second is "Trade Now"
  for the first wallet (`ForFirst`), so that one wallet is in both and one in none;
  `Room` 2 purchases, one per `runBot` (`MaxTrades`), and one fault, change of mind,
  lost answer or stop.

### Fairness

* `Indexer`, `FairSpec`: `LogStep(w)` is weakly fair, a call whose reads and writes
  return goes on (`Fail` and `Restart` are bounded, not fair). `StartRange` is
  strongly fair: the 20 s timer of `scheduled-jobs.ts` waits for nothing, whereas in
  the model a call needs an idle worker, which the other calls may take again and
  again.
* `PoolPayout`, `FairPool`: weak fairness of the steps of a run, whose wait for a receipt
  has a timeout, of the clock, and of the unlock job, whose timer fires every minute whatever happened before. The
  burn job needs none: `LockedIsSettled` does not rely on it.
* `Keepers`, `KeepersFairness`: weak fairness of the steps of a run. An awaited call
  returns or throws, and so does a receipt that does not come, by its timeout; the
  chain owes nothing.

Contracts, requests and the web application have no fairness: nobody is obliged to
call, click or come back.

### Assumptions

* A contract call is atomic, and `nonReentrant`, ownership and role checks exclude
  the callers they name. Volumes are recorded by the marketplace only, for active users.
* Blocks are final. Log queries return what the chain holds
  (`getLogsChunked` retries with smaller ranges and covers the range).
* `READ COMMITTED`: an update sees the rows committed when it runs.
* `indexer_restarts` assumes that range calls do not overlap. They can: the timer
  has no guard, and `POST /chain/sync` calls it too. What overlapping calls do to
  package rows is in `Activations`.
* `PoolPayout` has one runner: the timer of the API, or the worker when Redis is used.
* `Checkout` abstracts gas, the daily limit and the pause as a purchase that is
  given up. A wallet that is registered but has no package takes the same way as a new one.

## 4. Proofs

A theorem holds for every value of the constants that the named `ASSUME`s of the
module admit: any users, windows, callers, workers and requests, any prices, splits,
caps and bounds. All invariants and step properties of the runs are proved, and both
refinements of `Books`. The proofs have one shape: an inductive invariant that says
what a step relies on, a lemma for each action that keeps it, and the property from
it. In what follows the property is what the run checks, and the invariant why it holds.

### The marketplace: `MarketplaceProofs`

* `TypeCorrect`: asks and volumes are naturals, a split adds up.
* `QueueAlwaysSound`, `HoldAlwaysSound`, from
  `NftInv == QueueSound /\ HoldSound /\ UnmintedFree`. `QueueSound` alone is not
  inductive: a fresh token is appended, so one must know that an id from
  `nextTokenId` on is nobody's, in no queue and held by nobody (`UnmintedFree`); and
  a displaced hold is appended, so it must have been its owner's and not queued
  (`HoldSound`). There is a lemma for each placement of a purchase.
* `NothingRetained`: no USDT stays in the contract (`NoVault`), from
  `SaleConserved`: what rounding and missing levels leave is burned.
* `QueueServedInOrder`: a step appends to the queue, drops its head, or both (`Fifo`).
* `StockAlwaysQueued`, if nobody transfers an NFT to the contract
  (`Market \notin Recipients`): such an NFT is the contract's and in no queue.
* `VolumeAlwaysWithinLimit`, if a dearer package has no lower limit
  (`LimitsRiseWithPrice`): otherwise an upgrade lowers the limit under what was bought.
* `AsksStayBelowThreshold`, while the pricing is the constructor's (`PricingFixed`: the
  mint price is below the threshold and a resale adds at most 200 %). From `AskInv`: the
  price paid for a hold is below the threshold too, and the next primary price below
  three times of it; a purchase at the threshold or above is split in three.

The three hypotheses hold in the runs, and without each TLC finds its property violated.

### Registration, funds, escrow: `RegistrationProofs`

* `RegistrationTypeCorrect`, including that the token's treasury is never overdrawn.
* `SponsorsFormTree`: from `Rooted` and `Acyclic` (every non-empty set of members has one
  whose sponsor is outside it), which registration extends by a leaf.
* `DirectsAreCounted`: from `Counted`, which ties `directs`, the referral list and
  the set of users sponsored.
* `ActivationRetainsNothing`: `held = 0`, from `PaymentsBalance`: network shares stay
  within their budget (`NetworkInBudget`) and what is left is burned.
  `RegistrationInv == TypeOK /\ TreeInv /\ held = 0` is inductive.
* `TradersStayActive` (`RecentTradeProtects`, a property of steps), from `ActivityInv`:
  an account activates once and trades only afterwards, so that its last trade, if it has
  one, is no earlier than its activation.
* `EscrowAlwaysSolvent`: the contract holds the sum over users of the sum over days of what is
  pending. A credit, a claim or a burn changes one addend and the total by the same.
* `EndedDaysSettledAsEnded` (`SettledAsEnded`): income of an ended day is claimed only if
  the day ended compliant and burned only if it did not. Settlement judges a past day by the terms
  of the present (`Rewards.sol:87`), so an upgrade or a new ratio in between may burn the income
  of a compliant day or release that of another; such days are `regraded`, and the theorem
  says that nothing else does it. From `MetInv`: a day noted as met is past, and unless
  regraded it is judged again as it ended.
* `PoolAlwaysCovered` (`PoolCoversDays`), for any finite set of ranks whose shares add up to
  the whole: the slices of a day fit into its pool (`SlicesFit`), rounding leaves less
  than one unit for a rank (`FloorsLeave`), and a slice is paid and burned to the last
  unit (`SliceSpent`).

### The indexer: `IndexerProofs`

`ReadingsHold` is the invariant under all others: a call in phase *p* holds what
it has read, of the type that phase needs, and what it still relies on is in the rows (a log
it is handling is on the chain, the activation it is to distribute exists).

* `IndexerTyped`.
* `NoLogSkipped` (`CursorSound`), from `CursorInv`: the range call has every log up to its
  end stored, or before it; past the store, the log at hand is stored. Without the second
  half the cursor could move over a log whose store failed.
* `SaleIncomePaidOnce` (`SaleIncomeOnce`), from `SaleInv`: what is being granted was not granted.
* `VolumeNeverCountedTwice` (`VolumeCountedOnce`), from `RowsInv`: every row that has a hash is a
  purchase on the chain, of its price, and no two are of the same, whichever call stored
  it and whoever named it. The sum over rows is matched to a sum over purchases (`SumMatched`).
* `ComplianceIsEarned` (`CompliantEarned`), from `ComplianceInv`: a verdict in the making, of
  the indexer or of a submission, is earned already, because no row loses its volume or
  its period. Earned means by the rows, purchased and submitted: `POST /trading/submit` takes the
  user's word for the volume, so purchases alone need not reach the target.

### The ledger and the pool: `LedgerProofs`

* `LedgerTypeCorrect`, with the drafts of the calls under way.
* `IncomesSettledOnce` (`SettledOnce`), from `SettleInv`: a row that a job holds was not settled yet, and no other job holds it, unless
  two jobs had found it (`contended`).
* `ActivationsDistributedOnce` (`DistributedOnce`), from `DistributeInv`: while a call has an
  activation in hand nothing of it is distributed and no other call has it, or it is `overlapped`.
* `BurnsAreAligned` (`BurnsNeedAlignedPeriod`), from `AlignInv`: a verdict is only ever
  written at the start of a period.
* `CapAlwaysKept` (`CapKept`), from `CapInv == DraftsFit /\ DaysFit`: a draft fits into
  the room that the rows it saw left, and rows it did not see make the day `loose`. A draft is a
  fold over shares; the proof follows it share by share.
* `PaidRowsDistributed`, `BurnedStaysBurned`, `DaysBookedOnce` (`PaidIsDistributed`,
  `RevivedOnlyByRace`, `OneRunADay`) with the pool's run, from `PaidInv` (rows found belong to
  the run; the call it waits for is under way, or has distributed its day, or was
  reverted), `RevivedInv` and `OneRunInv` (without
  a restart the run under way has the day of the last timer and all before it have earlier ones).
* `LedgerKeepsBooks` and `PoolRunsKeepBooks`: the ledger, and the ledger with the pool's run,
  implement `Books`. A draft is worth what its shares are (`DraftWhole`: what the cap
  takes from a share is burned), and the shares of an activation, a resale or a run add up
  to what is due (`ActivationDue`, `SharesDue`, `RunDue`). Hence `DueInv`: whatever other calls
  commit between a draft and its commit, the draft is worth what is due of its source. A commit
  then is `Book` (`CommitBooks`). An update of a status is `Settle`: the three totals are the
  sum of all rows (`ThreeStatuses`), which keeps its value (`MoneyMoves`). With
  the pool one must know which number a run will have and that it is free
  (`RunBookInv`): `due` of a number changes once, as it is booked.

### Members: `MembersProofs`

* `LoopsTakeTwoRewires` (`LoopsNeedTwoRewires`), from `LoopInv`: without two
  rewires at once the sponsors are ranked, and the one under way holds a sponsor that is
  not below its member, however many have signed up since it looked.
* `TreeTypeCorrect`; `RowsFollowSponsors` (`TreeRowsFollowSponsors`), from `EdgesInv`: a sign-up under way has
  written its edges up to its level, everybody else's are complete; and
  `CountsInv`: a counter lacks exactly the sign-ups that are still to count there.
* `PurchasesHaveOneRow` (`OneRowPerPurchase`) and `CurrentPackageIsBought` (`CurrentFollowsChain`), from
  `PurchasesInv`: the chain's packages rise and events are taken in order (`ChainHolds`); who
  made a row tells its package and hash (`RowsKnown`); what a call has found missing nobody
  else has created, unless the history says so (`LooksHold`); and at rest the current row is the
  newest (`CurrentKnown`).

### Accounts, keepers, web: `AccountsProofs`, `WebProofs`

* `SessionsTyped`, `CredentialsInvariant`; `CredentialsAreUsedOnce` (`CredentialsUsedOnce`) and
  `LogoutsEndSessions` (`LogoutEndsSessions`): two requests that read a key make it
  `shared` before either has consumed it (`KeyInv`), and a live row of before the last
  logout was issued late (`EpochInv`).
* `CustodyInvariant`, `AccountNeverOverdrawn` (`NeverOverdrawn`): unless two activations
  were priced together there is one at most, and the balance covers it.
* `RowsTellWhatWasBought` (`RowsTellTrades`), from `KeepersInv`: a transaction has a row, is awaited or is
  missed (`RowsOK`), and of two of a run for a wallet one is missed (`PairsOK`), because
  a run takes each wallet of its list once and sends again for the one at hand only
  when it lost an answer about the first or the row of it was refused (`CallsOK`). That nobody is enrolled twice is an
  `ASSUME`: the list is a query for users.
* `WindowsCovered`, `ClicksPayAsShown` (`PaidAsShown`): a window that has settled its allowance knows how much
  there is at most, unless an approval has come in between (`CoverInv`).
* `SessionsInvariant`, `UsedSessionsGoOn` (`SessionGoesOn`): the pairs of a session have one login, and a tab deals
  with the 401 of a session only when its hour is over (`SessionInv`).

### How induction over data is done: `SumsProofs`

The induction theorems of the library take an operator as a parameter, which the provers
cannot instantiate. `SumsProofs` replaces them by minimal counterexamples: a non-empty set of
subsets of a finite set has a minimal member (`SmallestSubset`), a set of naturals
that is closed under successors is all of them (`AllNaturals`). A sum is a
function defined on the subsets of its set, chosen once (`SumAsFunction`); from its
existence and uniqueness follow the rules used above (`SumRemove`, `SumChange`,
`SumSplit`, `SumMatched`). `Weight(s, w)` sums a list and
`WeightFlatten` a list of lists, in which the code's shares come.

### What is only model-checked

* `EventuallyStored`, `LockedIsSettled`, `EveryRunEnds`: liveness under fairness is out of
  the prover's reach.
* `mirror_twice`, which is a violation.

## 5. What the models showed

Besides `mirror_twice`, reading and checking met these places where the code does
something else than one would think, or than its comments say.

Contracts:

* `NFTMarketplace.sol:216` "mid-queue listed tokens revert": an NFT bought fresh and held
  keeps its listed flag, and its burn reverts too. `:294` "2nd buy lists previous": near the
  burn threshold the hold is replaced, the previous NFT is not listed and
  `listHeld` no longer accepts it.
* `Rewards.sol:13` "Claim if compliant; else burn": income credited after the day's first claim
  can be neither claimed nor burned.
* `runBot` is for the owner only (`:184`) although its comment and
  `auto-trade-keeper.service.ts:2` name a keeper or bot, and it does not look at the pause.

Ledger and pool:

* Verdicts of a period rest on the user's word as well: `POST /trading/submit`
  (`trading.routes.ts:270`) adds volume of any size, for any activation, without a
  purchase (`CompliantEarned` says what is left of the promise).
* Compliance rows are keyed by the start of a period, which follows the user's sign-up
  time; the burn job looks for a row at midnight (`reward-engine.service.ts:61-73`), so it
  burns next to nothing (`BurnsNeedAlignedPeriod`).
* The cap can be passed by grants that do not see each other, and both jobs can settle an income
  twice if they have found it together; `CapKept` and `SettledOnce` say that this
  is the only way.
* Without a row that can be paid `distributeDay` is not called: the day's pool stays in
  the contract, and the comment of `rank-engine.service.ts:88` ("burned, not carried forward")
  holds for the books only. Amounts come from today's pool or the whole balance, while the
  day distributed is yesterday's.
* Marking as paid (`global-pool-chain.service.ts:380`) also unlocks a row that the burn job burned
  meanwhile, and the status of the receipt is not looked at (`:378`): a call that was
  mined and reverted marks its rows too (the exception of `PaidIsDistributed`). A run
  repeated after a crash books a second pool for the day (`OneRunADay`).
* `Rewards.sol:13` again: an upgrade or a stricter ratio before settlement burns income of a
  day that ended compliant (`Rewards.sol:87`, the exception of `SettledAsEnded`).
* The idempotency row of a resale and its grant are two transactions; a crash between them
  loses the grant.

Package rows and requests:

* A sign-up creates the row of the entry package as the current one even after a newer
  package's row. A grant by an administrator lasts until the next page copies
  the contract's state.
* A rewire's checks precede its transaction: two rewires at once can make a cycle
  (`LoopsNeedTwoRewires`). Recounts race sign-ups.
* A nonce in Redis is read and deleted in two steps; the deletion may also remove a newer
  nonce of the wallet. `bcrypt` compares 72 bytes, which all tokens of one user
  share, so a refresh with an exchanged or revoked token is accepted while another row
  of that user is live. `CredentialsUsedOnce` and `LogoutEndsSessions` speak of rows.
* "Maximum session time is 1 hour" (`auth.service.ts:15`): a refresh renews the full hour, again
  and again. Both tokens of a pair live one hour, so a refresh after a 401 succeeds
  only with a pair that another tab has stored meanwhile.
* The custodial balance is read outside the transaction that charges it (`chargedTogether`).
* `auto-trade-interval.ts:26` says users who have met the period's target are skipped;
  they are not. A receipt's status is not looked at. After a refused write of the
  success row "Trade Now" buys again with `botBuy`.

Web application:

* `setSession` keeps a `SESSION_START` that it finds, and the interceptor's `clearTokens` leaves
  it: the first login after an hour's absence is ended by the 10 s timer
  (`AuthContext.tsx:95`, `:167`), the last alternative of `SessionGoesOn`. Closing a
  tab revokes rows but leaves the tokens in `localStorage`.
* Of two tabs that refresh together the slower one removes the pair of the faster one.
* `buy` takes the head of the queue, whichever listing was clicked, and names no price; only
  the allowance limits what a click costs (`PaidAsShown`), and a standing approval for auto
  trading lifts that limit.

## 6. Not modelled

* Setters of addresses and roles, ERC-721 approvals, `baseURI`: no property depends on them.
* In the indexer: the resets of volume by an administrator, which move a start date or
  delete verdicts, the count of consecutive misses, which is only shown, the head
  window's 15 s throttle (it only skips calls), derived income metrics, and the
  upline's sale rows, each one idempotent insert.
* The pool's payout by transfers of a wallet (`global-pool-chain.service.ts` 230-274), an
  alternative that a setting chooses; it has the same crash window with one hash per row.
* The older auto-trade keeper behind `LEGACY_AUTO_TRADE_KEEPER`, off unless set.
* Which token a refresh presented, where its user has several live rows.
* Chain reorganisations: the code has no step for them.
* Gas, ERC-20 failures other than a revert of the whole transaction.
* Pages and administration views, faucet and gas sponsor, site content, layout and scripts:
  views, wiring, or single updates guarded by what they have just read. They are more than
  half of the lines of the repository and keep no state of their own.

## 7. Plan

Done: `Marketplace`, `Registration`, `Funds`, `Rewards`, `Indexer`, `IncomeLedger` with
`Books`, `PoolPayout`, `Activations`, `Referrals`, `Accounts`, `Keepers`, `Browser`,
`Checkout`; proofs of every safety property that a passing run checks, and of both refinements.

1. Type invariants of `Funds` and `Rewards` as theorems of their own; the parts that
   the proofs need are in `FundsInv` and `MetInv`.
2. The safety half of liveness: that a step of a run is possible where `EveryRunEnds` needs one,
   as far as it can be said without `ENABLED`.
3. An abstract specification of the package rows that `Activations` implements between
   disturbances.
4. Models that are worth adding: the wallet payout, and the mint of NFTs by an
   administrator, which reads token ids from the end of the queue after its receipt.
