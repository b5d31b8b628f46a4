# cpredict in TLA+

cpredict is a parimutuel prediction-market protocol: Solidity contracts under
`src/` of the repository and off-chain services under `offchain/`. This
directory specifies the settlement core, the order book, the sponsorship of
free operations, the automation lane with its claim queue, and the indexer;
model-checks them with TLC and proves with TLAPS the custody and accounting
properties, matching priority, and the safety of the lane, of the claim queue
and of the indexer. Paths below are relative to the repository.

## Inventory

### On-chain components

| component | state it keeps | operations | what makes it correct |
|---|---|---|---|
| `MarketVaultCoreV1` (full and clone vaults) | immutable snapshot, terms, phase, principal, early-bird scores, ERC-1155 shares, claim pools | `initialize`, `updateBeforeFirstBuy`, `buy`, `buyWithPermit2`, `resolve`, `creatorVoid`, `voidAfterDeadline`, `claimWinningsFor`, `claimEarlyBirdFor`, `refundFor`, `fundTimeoutBonus`, `claimTimeoutBonusFor`, `burnLosingPosition`, share transfers | holds exactly what it owes; every claim can be made in any order and gets at least its floor share; terms and verdicts are final |
| `LaunchExposureGuardV1` | reported exposure per market, total, cap, retirement | `registerMarket`, `reserve`, `sync`, `raiseCap`, `retireForever` | reports never lag below the liability; the cap bounds open principal |
| `BondEscrowV1` | a bond per market, credits per creator | `lockBond`, `settleBond`, `claim`, `claimFor` | one settlement per bond; balance covers locks and credits |
| `FeeVaultV1` | credits per treasury, authorised sources | `registerAccruer`, `accrue`, `claim`, `claimFor` | balance covers all credits |
| `EmergencyControllerV1` | epoch, flags, expiry | `pause`, `resetEpoch`, `setEmergencySafe` | one bounded pause per epoch |
| `ProtocolConfigV1` | fees, shares, caps, treasury | setters, `snapshot` | hard limits hold whatever governance does |
| `MarketFactoryV1` | activation, deprecation, registered markets | `setMarketplace`, `activate`, `setDeprecated`, `createMarket`, `createMarketWithPlatformFees` | only valid requests become markets, wired to all ledgers in one transaction |
| `FixedPriceMarketplaceV1` | listings with escrowed shares | `createListing`, `fillListing`, `cancelListing`, `returnTerminalListing` | escrow equals listed units; sellers get price less fees |
| `OrderbookMarketplaceV2` | orders, per-side and per-size heaps, locked payments, deferred shares | `createOrder`, `fillOrder`, `matchOrders`, `cancelOrder`, `releaseOrder`, `withdrawOrderShares` | locks equal open bids, heaps ordered, price-time priority |
| `SponsorshipPaymasterV1` | budgets, charges per day and sender, consumed sponsorships, pause | validation, `postOp`, setters | a sponsorship is used once, and a day's cost stays inside the budgets even when `postOp` fails |
| `TradingSessionPolicyV1/V2` | none (call validation) | checks | only permitted calls pass |

Contracts call each other synchronously inside a transaction. An EVM
transaction is atomic and the vault, escrow and fee vault are `nonReentrant`
with state written before transfers, so the interleavings that matter are
those of whole transactions of different callers and of time.

### Off-chain components

| component | state | hard behaviour |
|---|---|---|
| automatic claims worker (`automatic-claims.ts`, `automatic-store.ts`, `automatic-recovery.ts`, `automatic-chain.ts` in `offchain/workers/src`) | signed transactions, reserved budget, recoveries, one advisory lock | crash or lost lock between saving, broadcasting and recording; unknown outcomes; a replacement racing its original |
| claims queue (`automatic-queue.ts`, `automatic-discovery.ts`, `automatic-runtime.ts`) | cursor and epoch of the ledger, versioned scopes, candidates | a scan overtaken by a wake, a rollback, an opt-out or a transaction; work that nothing wakes again |
| terminal workers, matching worker | none of their own | simulate, then send, racing others |
| indexer (`offchain/indexer/src`) | checkpoint, block headers, scanned ranges, events | reorganisations between any two reads, restart on another fork, headers left out of sparse ranges |
| paymaster budget store (`offchain/paymaster-service/src`) | leases, counters per day and scope | crash between reserve, sign and commit; concurrent requests; lost answers |
| Permit2 relay | intents by nonce | crash while pending, retries |
| app service, metadata service, SDK, RPC pool | caches, documents, endpoints | request handling and I/O |

Left aside: deployment scripts, load tests, monitoring, generated ABIs,
manifests, reports, the example user interface, vendored code.

The behaviours of this code that are hard to test are listed in
`PROJECT.json` under `hazards`, each at its line, with the properties that
would notice it going wrong.

## Modules

```
Arithmetic       mulDiv, min, max, basis points
ProtocolTypes    addresses, enums, limits, the clock                       (EXTENDS Arithmetic)
  ProtocolMath   payout split, early-bird weight, pool draw-down   (EXTENDS Sums)
    MarketVault          MarketVaultCoreV1 and its ERC-1155 shares
    ExposureGuard        LaunchExposureGuardV1
    BondEscrow           BondEscrowV1
    FeeVault             FeeVaultV1
    ProtocolConfig       ProtocolConfigV1
      MarketFactory      MarketFactoryV1
  EmergencyController    EmergencyControllerV1
Settlement       the contracts composed: one action per transaction
  SettlementProps        the properties and the fairness
    MCSettlement         values of the constants for TLC
    SettlementProofs     TypeCorrect, SharesConserved, Solvency,
                         EscrowIsSolvent, FeeVaultIsSolvent, GuardIsConservative,
                         LaunchCapRespected, TermsAreFrozen, TerminalMarketsAreFinal,
                         FeesAreLimited, EntitlementsAreCounted, DrawDownIsFair,
                         WinnersArePaid, ClaimsAreCovered
SumTheorems      lemmas about Sums, rounding and products

PriorityBook     what an automatic book promises: the best order by price and time
  BookHeap       the array heap of OrderbookMarketplaceV2
    BookHeapProofs       BookIsHeap, HeapImplementsPriorityBook
  OrderBook      OrderbookMarketplaceV2 with such books (INSTANCE PriorityBook)
    OrderBookProps       the properties and the fairness
      MCOrderBook        values of the constants for TLC
      OrderBookProofs    CustodyKept, BooksKept, OpenOrdersStayFillable,
                         MatchesProgress, PriorityKept

SponsorTypes     users, days, the accounts a charge goes to
  SponsorBudget          the budget store of the paymaster service
  SponsorshipPaymaster   SponsorshipPaymasterV1
    Sponsorship          both, with the service's handler and the EntryPoint's bundles
      SponsorshipProps, MCSponsorship
        SponsorshipProofs  BudgetsAreExact, ConsumedWasLeased, LossIsBounded

AutomationLane   the signing lane: save, broadcast, follow, recover
  AutomationLaneProps, MCAutomationLane
    AutomationLaneProofs  NothingUnrecordedAlways, SettledOnChain, BudgetKept,
                          OneNonceAtATime
ClaimQueue       discovery, scopes, candidates and the sender's use of them
  ClaimQueueProps, MCClaimQueue
    ClaimQueueProofs     InflightIsAlwaysSigned, OptOutIsHonoured, WakesAreKept

CanonicalLog     what an index of events promises: the events of one branch
Indexer          the scanner over a chain that reorganises implements it
  IndexerProps, MCIndexer
    IndexerProofs        IndexInvariant, RecoveryFindsItsHeaders,
                         IndexerImplementsLog, CanonicalRangesStay,
                         FinalityPreventsMisreading
```

Each contract module has its storage as variables (per-market storage is
indexed by the market's address) and one operator per external function: its
reverts are conjuncts that must hold, its assignments primed variables.
`Settlement` conjoins, for each transaction, the operators of all contracts
the call reaches, in the way the code calls them: `CreateMarket` is the
factory's checks, the vault's `initialize`, the guard's `registerMarket`, the
fee vault's registration and creation fee, and the escrow's `lockBond`.

Correspondence worth knowing:

* The token balances of vault, escrow and fee vault are `cash`, `escrowCash`
  and `feeCash`. The token moves exact amounts (the contracts check that) and
  nobody donates tokens to a contract, which could only add a surplus.
* `NONE` is the state of an address where no vault is deployed yet.
* `buy` and `buyWithPermit2` are one action with a flag. What a caller's own
  limits (minimum units, maximum payment, deadline) do is to revert, so they
  are left out.
* The full and the clone deployment run the same vault code; they differ in
  the cap that applies.
* The four claims, `settleBond`, `sync` and `voidAfterDeadline` have no caller
  because anyone may make these calls.
* The fixed-price marketplace appears as one account that receives shares of
  open markets (`SendShares`) and gives them back or to buyers
  (`ReleaseShares`) at any time. A claim for that account is rejected by the
  vault; the claims range over users only.
* Checked subtractions are guards. `ERC1155Supply` lowers `totalSupply`
  without a check; that it never goes below zero is proved.
* uint128 and uint16 widths are not modelled: amounts are bounded by caps far
  below 2^128 and every product goes through `mulDiv`, which is exact.

The order book:

* `market` is the storage and the token balances of `OrderbookMarketplaceV2`
  for one outcome of one market; the books of other outcomes are disjoint and
  share only the totals. It is one record because one call changes most of it:
  `Removed`, `Inserted`, `Taken`, `Spent`, `Paid`, `BidTrimmed`, `Released` and
  `Finished` are functions on it, named after `_remove`, `_insert`,
  `_spendBid`, `_pay`, `_release` and `_finish`, and an action composes them in
  the order of the code.
* A heap is the set of the ids on it. That an array heap with stored
  positions, with removals from its middle, always answers with the best of
  its set is shown apart: `BookHeap` refines `PriorityBook`, and `OrderBook`
  asks `PriorityBook!BestOf`. `UpTurn` and `DownTurn` are the bodies of the
  contract's loops, with the loop's condition; `After(turn, x, n)` is n of
  them, and a turn after the loop has ended changes nothing, so `Len(heap)`
  turns are the whole loop (`LoopEnds` shows that they are enough).
* One matching step is an action. The code loops up to twenty steps; none of
  them reverts (`MatchMakesProgress` covers every test they make), so a longer
  call is a sequence of such actions. The matching worker always asks for one.
* `rejecting` is the set of owners whose receiver contract rejects shares in
  this call. In a fill that makes the call revert; in a match the bid is
  released; in a release the shares become `pendingShares`.
* The vault's shares, its end and the pause bits are environment: the traders
  start with shares, `VaultTerminates` and `PauseChanges` happen at any time.

The sponsorship:

* `SponsorBudget` is `postgres-budget-store.ts`: `reserve`, `commit` and
  `release` are one action each, as each is one transaction of the database
  under the locks of its counters. `reserved` and `committed` are the
  counters per row (user or everybody, and day), `leases` the table of leases.
* `SponsorshipPaymaster` is the contract; `bundle` holds the contexts of
  operations that were validated and not yet executed, because the EntryPoint
  validates a whole bundle before it executes any of it. An execution may end
  without a `postOp` that counts; the charge of the validation then stands.
* `Sponsorship` joins them: `Receive`, `Reserve`, `Sign`, `Commit`, `Release`
  are the steps of `server.ts` and `sponsorship.ts`, each of which may be the
  last before a crash or be answered too late; a client holds what was
  `delivered` and may use it at any time.

The automation lane:

* Each statement of the store and each view of the chain is an action of a
  worker; `pc` and `tick` are where it stands and what it has read. A worker
  that loses its lock keeps running until its next check, as in the code.
* `rows` and `recoveries` are the two tables. `sent` is what the network was
  handed, by whoever and however often, and `mined` the signer's transactions
  by nonce. Two of them may compete for a nonce; one is mined.
* Faults: a stop at any step, an answer lost after a broadcast, a lost
  advisory lock, a reorganisation of the unconfirmed suffix, an owner who
  settles or opts out between any two steps, a change of the day.

The claim queue:

* A scope is an owner in one market (named by its one job) or all of an owner.
  Versions are compared, never used otherwise, so a scope only remembers
  whether it was `touched` since the running scan listed it. A candidate that
  is done, discarded or has no row is `Closed`.
* The lane appears as its one open transaction (`journal`), with `Cancel`,
  `Settle` and `Finish` for what `AutomationLane` does inside.
* `ActFails` is a failed request, or a lack of gas, between the look at a
  candidate and its save: the candidate is put off (`setStatus`, `reject`).
* The ledger is what the indexer has stored; `Reorganise` undoes the last fact
  and, where it had been indexed, raises the epoch.

The indexer:

* A block hash commits to its parents, so it is the sequence of blocks up to
  it, and a replaced block carries the number of its fork: it never returns.
* `Reconcile` reads checkpoint and ranges, `CompareNext` is one header of the
  walk back, `NoAncestor` its end without one, `RollBack` is `rollbackAfter`.
* `Discover`, `ReadLogs`, `ReadLateLogs` (for vaults that only the second query
  shows), `ReadAnchor(n)` (one header, in any order) and `Commit` (the fence and
  the transaction) are the requests of `runBatch`. A query in `Lagging` may be
  answered by a node that has not seen the range yet.
* `DensifyFetch` is the unlocked part of `densifyCanonicalRanges` for one range,
  `DensifyWrite` the locked one, with what the first has read in `jobs`.
  The endpoint is read before and after the headers and a block that has left
  the chain never returns, so all that was fetched is of one branch.
* The chain may move between any two of these actions, and as deep as it likes.
  `scan.torn` and `misread` are history: nothing reads them. They mark what the
  code does not notice (`Unseen`, or a short answer to the last queries).

## What the runs check

The runs of a component instantiate its MC module; `book_heap` needs none.
`CHECK_DEADLOCK FALSE` where the bounds end a run: the clock, the number of
orders, blocks and requests are bounded, and a settled market, an empty book or
an index of the whole chain has nothing left to do. The lane and the queue
never stop, and their runs check that.

| run | instance | properties |
|---|---|---|
| `settlement` | one market, two users, two outcomes, four ticks | `TypeOK`, `VaultSolvent`, `SupplyIsSumOfBalances`, `EntitlementsMatch`, `DrawDownFair`, `ExitAlwaysOpen`, `WinnerPaidProRata` |
| `two_markets` | two markets, one user, launch cap 100 raised to 150 | `EscrowSolvent`, `GuardConservative`, `OpenExposureWithinCap`, `TerminalIsFinal` |
| `fees` | one market, all setters, several terms and requests, creation fee, two treasuries, deprecation | `FeeVaultSolvent`, `FeesWithinHardLimits`, `TermsFrozenByFirstBuy` |
| `liveness` | one market, two users, a pause of everything, two epochs | `OpenMarketTerminates`, `TerminalMarketPaysOut` |
| `book_heap` | seven orders, two prices, both sides | `ImplementsPriorityBook` |
| `order_book` | two orders of several kinds, fills, pauses, expiries, one rejecting receiver | `CustodyMatches`, `BooksMatch`, `OpenOrdersFillable`, `CrossedOrdersMeet`, `EndedOrdersReleased` |
| `matching` | three automatic orders of eight kinds, two owners | `MatchMakesProgress`, `MatchesInPriority` |
| `sponsorship` | two requests out of three kinds, two users, two days, budgets lowered on the way | `BudgetExact`, `ConsumedIsLeased`, `LossBounded` |
| `lane` | two workers, two jobs, two rows, two days, one mishap | `NothingUnrecorded`, `BudgetHeld`, `NoncesOneByOne`, `ConfirmedIsMined`, `LaneComesFree` |
| `claim_queue` | one owner who may opt out, one job, three facts, one mishap | `InflightIsSigned`, `OptOutHonoured`, `WakesKept`, `WantedIsSigned` |
| `backstop` | the same with one fact and no opt-out | `BackstopComesRound` (violated, see Findings) |
| `indexer` | three blocks, batches of up to three, no confirmations, two mishaps (reorganisations of any depth, crashes), lagging discovery, both modes | `RecoveryHasItsHeaders`, `ImplementsCanonicalLog`, `CanonicalRangesKept`, `CatchesUp` |

What they show:

* **Custody.** A vault holds at all times exactly what it owes, and so do
  escrow and fee vault. In particular `_assertCoverage` never reverts.
* **Agreement.** The units a pool is divided by are the shares (scores,
  refunded units) that can still be presented, so no claim reverts for ever
  because somebody else claimed, moved or burned shares first. `ExitAlwaysOpen`
  says so directly: whoever is owed something can take it now.
* **Fairness.** Each claim takes the floor of its share of what is left; what
  is left per unit never falls (`DrawDownFair`), so no order of claims gives
  a winner less than the floor of his share of the initial pool
  (`WinnerPaidProRata`), and the last claim empties the pool.
* **Guard.** Open principal stays within the launch cap although reports are
  lowered only by `sync`, and no market owes more than it reported.
* **Finality.** Verdict, split and terms of a terminal market and the
  settlement of a bond never change; terms are frozen by the first purchase.
* **Order book.** The tokens held are what the open bids lock, to the unit,
  and the shares held are what is on offer or waits to be withdrawn; the three
  families of heaps hold exactly the open automatic orders under their present
  size; what stays open can be filled. While two orders could trade some call
  makes progress, and a match takes the first in line on both sides.
* **Sponsorship.** Whatever requests run at once, are answered late or die
  half-way, the counters are what the leases say and no limit is passed
  (`BudgetExact`); a sponsorship that can be used was paid for by a committed
  lease on its day (`ConsumedIsLeased`); and what the EntryPoint takes of the
  deposit is covered by charges within a budget that was set, even where
  `postOp` never counts (`LossBounded`).
* **Signing lane.** A signed transaction the network may hold is on record
  (`NothingUnrecorded`), so that a restart can find it; a settled row is what
  the chain has settled; while no lock is lost the day's budget covers unknown
  outcomes and replacements too, and a nonce is only handed out once the one
  before is final; and the lane always comes free again.
* **Claim queue.** A candidate is in flight exactly as long as its transaction
  is open, so none is signed twice or forgotten; opting out holds from the
  moment it is stored, also against a scan that read the preference before;
  every wake is kept until a scan of the new state (`WakesKept`), and a claim
  that stays due and wanted is signed (`WantedIsSigned`). `WakesKept` exempts
  two cases that TLC shows are real: a sender that rejects on what it read
  before the claim fell due again, and the end of the job's own earlier
  transaction. They are left to the periodic scan of everything.
* **Indexer.** A restart finds every header it compares, also after a range was
  made dense beside a rollback; ranges that still end on the chain are not
  thrown away; and once the chain stands still the index ends at its safe head,
  however deep the reorganisations were. The database holds the events of one
  branch, all and no others, and moves along branches
  (`ImplementsCanonicalLog`), until a batch is misread. The property names the
  three ways: logs left out by a lagging node, blocks of the range replaced
  between logs and headers where neither shows it, and, in sparse mode, blocks
  replaced that no header links. All three happen in the code (see
  Observations), and each part of `Unseen` is needed: with any of them left
  out, TLC refutes the property.
* **Liveness.** A market whose creator never acts is voided and pays out in
  full, whatever the safe pauses. Crossed orders do not stand against each
  other for ever, and ended orders are given back.

### Bounds, and why they are enough

Each cfg names its bounds. `BuySizes = {60}` against a market cap of 110 and a
user cap of 100 gives fills of 60, 50 and 40, so clipping by either cap occurs
and shares 60 of 110 make every floor inexact; the rake of 730 basis points,
the default platform share and the early-bird share leave every fee non-zero
with a remainder. Transfers move whole balances; partial transfers add nothing
the properties distinguish, because holdings of different sizes arise anyway.
Two users are the least with which one claim changes another's pool; two
markets the least with which they compete for cap and share a creator's
credit. `MaxTime` lets the markets created at once reach their deadline; those
created later meet the horizon in an earlier phase. A governance share of 9000 basis points and a requested rake of 5000 are
values that must be rejected. Symmetry is used over users (`settlement`),
over markets (`two_markets`) and over owners (`matching`), all runs without
liveness properties.

In the order book sizes 20 and 51 against a minimum of 20 leave 31 (goes back
into the books) and then 11 (dust); the prices 4999 and 5101 per 1000 cross or
not, and the ceiling of a lock differs from the floor of a payment. At a price
of 25 a remainder of 31 units has the minimum size but is worth nothing. Three
orders are the least with which somebody can be passed over and with which one
order stands before a pair that could trade; two are enough for money and
shares, which concern one order and its counterpart, and for liveness, where
the larger queue is covered by `MatchMakesProgress`. Seven heap positions are
three levels, the least at which an order moved into a gap may have to rise.

Sponsorship: two requests are the least that compete for a limit of three
after costs of two; a lease or sponsorship made on the last tick of a day is
used on the next; the lowered budgets leave charges above them.

Lane: two workers and a lost lock let both act at once; a transaction costs 2,
a replacement 3, and a budget of 4 is filled by two transactions and overrun
by a replacement beside one, before and after the day changes; the second row
needs the nonce after the first. One
mishap out of stop, lost answer, lost lock and reorganisation happens in the
run. The invariants were also checked with one of each (2.1 million states);
the second mishap brought no new case.

Queue: three facts let a claim fall due, be taken and fall due again while a
scan is under way; the mishap is a failed read, a candidate put off, a restart,
a cancelled transaction or a rollback. With two jobs of one owner and one
mishap the invariant and the action properties also hold for two facts (4.3
million states), and the liveness property for one.

Indexer: three blocks without confirmations make a batch of three, in which a
sparse one has a block without a header and a log below its end, or several
batches in any split, as the chain grows between them. Without confirmations
every block can be replaced at every step, which more confirmations would only
restrict. Two mishaps can hit two steps of one batch, a walk back and its
rollback, or a batch and a conversion. The properties were also checked with
all three queries lagging (2.5 million states).

### Fairness

`FairSpec` assumes that time passes and that the permissionless calls are
eventually made: `voidAfterDeadline`, `settleBond`, the marketplace's return
of shares of terminal markets and the claims. This is what
`offchain/workers/src/automatic-source.ts:222-305` issues (void-timeout,
settle-bond, return-listing or `releaseOrder`, then the claims) and what
`terminal-workers.ts` repeats; a holder without the worker can make the same
calls. Nothing is assumed of creators, buyers, governance or the safe. Weak
fairness is enough because none of these calls can be disabled again except
by somebody making it.

For the order book fairness is that of the matching worker,
`offchain/workers/src/matching-source.ts:143-275`: it releases every ended
order and, per group, calls one matching step while the heads cross; anybody
may make both calls. A pause of fills suspends matching, so
`CrossedOrdersMeet` promises nothing while fills are paused; releases are not
paused. Receivers may reject shares at every attempt.

In the lane every worker goes on (both loops are timers that never stop), and
the network mines what it holds and finalises it. Nothing is assumed of
owners, of faults or of the change of days. In the queue both processes tick
for ever, back-offs and deadlines end, transactions that were signed settle,
and the ledger follows the chain; opting in and out, new facts and mishaps are
free. In the indexer the scheduler ticks for ever (`WF(Step)`); reorganisations
and crashes are bounded, as a chain that never stands still cannot be caught
up with. The sponsorship has no liveness property: an answer may be lost.

### Mutants

Every property has a mutant in `PROJECT.json`: a definition with a plausible
mistake (a dropped guard, a wrong denominator, a rounding up, a missing reset
or sync) for which TLC refutes the property in the same run. The mutated
operators stand beside the originals, marked `Bug`.

### Findings

* `backstop`: `docs/orderbook-autoclaim-release.md:40` says of the scan of all
  owners "完成后 5 分钟启动下一轮" (five minutes after it is complete the next
  round starts). It starts only when no work is pending
  (`automatic-discovery.ts:157-160`), and `workPending`
  (`automatic-queue.ts:193`) counts candidates of every epoch, while
  `candidates` (line 179) serves those of the current epoch only. A candidate
  that is in flight while the ledger rolls back and is then cancelled or
  reverted comes back `deferred` under the old epoch. Unless a scan of its own
  scope finds or discards it, nothing serves it, it counts as work for ever,
  and no further round starts. `WantedIsSigned`, which rests on the
  backstop, therefore exempts states with such a candidate (`LeftOver`).

### Observations

Met while modelling; they contradict no property of a run.

* `indexer.ts:76` promises "arbitrary-depth reorg recovery", and the comment at
  `indexer.ts:412-414` says that re-reading the endpoint "detects a change
  anywhere in the scanned range", because `reconcileCheckpoint` has verified
  the predecessor; `confirmations` may be 0. The fence compares two readings of
  the endpoint, both after the logs. When blocks of the range are replaced
  between the last query for logs and the first header, and every log read lies
  below them (or there is none), headers and fence are those of the new branch,
  and its events are left out for good. In sparse mode the headers do not link
  to the checkpoint either: one that is replaced after the walk back compared
  it is continued on the other branch, and the old events below it stay until
  a reorganisation makes a later walk back go deeper. Within the configured
  confirmations neither happens (`FinalityPreventsMisreading`).
  `ImplementsCanonicalLog` exempts these batches and says so.
* The second query for logs is trusted to be complete: `indexer.ts:158-159`
  provides for nodes at different stages in discovery only. A node that
  serves the head and an empty answer to the second query loses the events of
  the range.
* After a rollback into the middle of a dense range the checkpoint is no
  range's end; when the next batch does not commit, the next reconciliation
  falls back further than it had to.
* `server.ts:139` says a reservation is retained until it expires;
  `valid_until` is written and never read. A reservation whose request died
  counts until its day ends.
* A repeated opt-in that changes nothing still touches the owner's scope: an
  owner who repeats it faster than a scan takes starves his own scans.
* The budget of a day is checked before a row is marked as broadcasting and
  before a recovery is started (`automatic-claims.ts:321-351`,
  `automatic-recovery.ts:160-218`), by reading what the other rows reserve.
  That no other row is marked in between rests on the advisory lock alone,
  which a lost database session gives up while its process goes on until its
  next check. TLC shows two processes that both pass the check when the old
  one recovers one row and the new one broadcasts another: the day spends a
  transaction more than its budget. `BudgetHeld` and `NoncesOneByOne` are
  therefore stated for lanes that have lost no lock; `NothingUnrecorded` and
  `ConfirmedIsMined` hold without it.
* A recovery left `prepared` by a stop is not tried again
  (`docs/orderbook-autoclaim-release.md:147` says so).

## What is proved

The proofs hold for every value of the constants that the named assumptions
allow: any finite sets of markets, users, outcomes, treasuries, traders,
workers, jobs and rows, all limits, requests, sizes, prices and costs, and
every governance choice. The assumptions (`AddressAssumption`,
`LimitAssumption`, `OrderAssumption`, `LaneAssumption` and their like) say
that these are finite sets and natural numbers. The bounds on time, facts and
faults are arbitrary numbers.

* `SumTheorems`. The protocol's conservation laws are sums over finite sets.
  `Total` is a recursive function on subsets; induction over sets is out of
  reach for the provers, so `TotalIsCoins` ties the sum to the cardinality of
  a set with one coin per unit, where the library has the facts. The absurd
  case, a set for which the two differ, is excluded by taking one of minimal
  cardinality. `TotalSplit`, `TotalUpdate`, `TotalPlus` and `TotalMono` are
  what the other proofs use, with a few facts about rounding and products.
* `SettlementProofs`: **TypeCorrect** (`TypeOK`) and **SharesConserved**
  (`SupplyIsSumOfBalances`). `TypeOK` is not inductive: the unchecked
  subtraction in the burn keeps the supply a natural number only because the
  supply is the sum of the balances. The inductive invariant is
  `ShareInv == TypeOK /\ SupplyIsSumOfBalances`; there is a lemma per contract
  operation and one step per disjunct of `Next`. That the resolution's
  subtractions do not underflow is `PayoutsSplit`.
  **Solvency** (`VaultSolvent`): relative to `ShareInv` the invariant is `VaultSolvent` with `BonusOnlyWhenFunded` (a bonus pool is empty
  before it is funded, and funded only in voided markets); without it the bonus
  claim, which tests only `bonusFunded`, could take tokens of another phase.
  The four claims are shown to be instances of one payment rule,
  `PaysFromPool`.
  **EscrowIsSolvent**, **FeeVaultIsSolvent**,
  **GuardIsConservative** and **LaunchCapRespected**. Each ledger's invariant
  is its property with one fact about the callers: a market without a creator
  has never had a bond (`NoBondYet`), so locking a bond never overwrites one;
  a deployed market names both treasuries (`TreasuriesNamed`), so no accrual
  credits nobody; nothing is sold in a market that is not deployed
  (`NothingSold`), so a market enters the guard owing nothing. The guard is
  argued over the vault's balance instead of its four pools, which Solvency
  allows: payments can only lower what a market owes below its report, and the
  two steps that raise it (a purchase, the timeout bonus) report in the same
  transaction. The cap follows because the open principal is, market by
  market, at most the reports.
  **TermsAreFrozen**, **TerminalMarketsAreFinal** and **FeesAreLimited** are
  action properties and a bound over the same invariants. The last rests on
  `RatesLimited`: every setter keeps the
  configured rates below the hard limits, and so every snapshot taken at
  creation is; a rate of one tenth rounded down is at most one tenth
  (`RateTakesAtMost`), and `OnlyResolveResolves` shows that the split is
  written once.
  **EntitlementsAreCounted**, **DrawDownIsFair** and **WinnersArePaid** are
  about what the pools are divided by. Shares match the units only because, before the verdict,
  the supply of every outcome is its recorded principal (`UnitsInv`); bonus
  units, because nothing is recorded before a timeout (`BonusInv`). For the
  draw-down the invariant (`DrawInv`) compares each pool with the rate it
  began with by cross-products, `remaining * W <= pool * P`; the one lemma
  `DrawDown` shows that a claim rounded down keeps it and that the last unit
  takes the rest, and `PaidShare` that a claim is paid its floor share. The
  bonus part also needs that a settled bond never changes, or the rate would.
  **ClaimsAreCovered** joins these ledgers with solvency: every check and
  checked subtraction of the four claims succeeds for whoever is owed
  something. It is the part of `ExitAlwaysOpen` that needs no `ENABLED`.

* `SponsorshipProofs`: **BudgetsAreExact**, **ConsumedWasLeased** and
  **LossIsBounded**, for any users, requests, limits and budgets. The
  invariant joins three parts: the counters are sums over leases, with the
  progress of each request telling what its lease must be (`Progress`); a
  delivered sponsorship has its committed lease; and on the chain the
  reservations of a day are at least the costs of the bundle's contexts
  (`ChainInv`), which is why the checked subtraction of `postOp` succeeds.
* `ClaimQueueProofs`: **InflightIsAlwaysSigned**, **OptOutIsHonoured** and
  **WakesAreKept**, for any number of owners and jobs. `InflightIsSigned`
  alone is not inductive: what keeps an opted-out owner's candidate from being
  written by a scan that read the preference before is that opting out touches
  the scope of that scan (`ScanIsChecked`), and what keeps the sender from
  signing it is that opting out closes the candidate the sender will look at
  again (`SenderIsChecked`). `WakesKept` is about a pair of states; the
  invariant it needs (`WakeInv`) says why the running scan may close the
  candidate of a job it did not find due (`Excused`): the claim was taken, is
  not wanted, has a deadline, has a fact beyond the cursor, or its owner's
  whole scope waits to be scanned. Whatever ends such an excuse while the scan
  runs leaves a fact, a wake or a new version of the scope. That a fact which
  is undone took its claim with it rests on `FactsOK`: the last fact about a
  claim that stands is the one that made it.

* `OrderBookProofs`: **CustodyKept**, **BooksKept**, **OpenOrdersStayFillable**,
  **MatchesProgress** and **PriorityKept**, for any orders, sizes, prices and
  fees. A match works on two orders that have left the books under their old
  size and return under the new one, so neither `BooksMatch` nor
  `CustodyMatches` holds inside a call. The invariant `Kept(s, X)` is stated
  for a value of the storage and a set of ids in hand; every helper of the
  contract has a lemma that says which ids it takes in hand or lets go, and
  between calls none is. `RoundingSplit` is why a bid never runs out: the price
  of a part rounded down and of the rest rounded up fit into that of the whole
  rounded up. `MatchesProgress` uses that every non-empty set of orders has a
  best one (`BestExists`) and that whoever heads a side can at least be
  released, skipped or traded.
* `AutomationLaneProofs`: **NothingUnrecordedAlways** and **SettledOnChain**
  hold whatever is lost, by `RecordInv`. A worker acts on rows it read before,
  which others may have moved since, so it says what each worker still knows
  at each step (`Knows`) in terms that no statement of the database takes away
  (`Recorded`, `Seen`). **BudgetKept** and **OneNonceAtATime** are about lanes
  that have lost no lock, by `LaneInv`: there one worker is in the lane, what it
  has read is what the rows are (`Sure`), at most one row is unsettled, no nonce
  is of two rows, and a transaction of a row that is only prepared has never
  been handed out and cannot be mined. The budget is a sum over rows; the
  check before a broadcast or a replacement leaves out the row it is for.
* `IndexerProofs`, for chains of any height that reorganise at any step and to
  any depth, any batches, confirmations, lagging queries and crashes, and both
  modes. The invariant (**IndexInvariant**) has two parts. `StoreInv` holds
  whatever was misread: ranges and headers are in order, a walk back compares
  only what is stored, and a range about to become dense is still there or has
  left the chain for good (`JobsOK`). From it follow
  **RecoveryFindsItsHeaders** and **CanonicalRangesStay**. A fall back is
  prepared on one chain and done on another; it is still right because a block
  that has left the chain never returns (`ChainStep`, `RollbackOK`).
  `LogInv` holds until a batch is misread. What is stored is one branch
  (`BranchOK`). What a batch has read is not known to be canonical; if it is not
  torn and nothing it holds shows otherwise (`LooksSound`), it is canonical and
  complete (`LogsOK`), and from the fence on it is a piece of one branch
  (`FenceOK`): in dense mode because its headers link to the checkpoint, in
  sparse mode because the checkpoint was compared (`TrustOK`). From it follows
  **IndexerImplementsLog**: every step appends to the log of `CanonicalLog`,
  cuts it, or leaves it alone, until a batch is misread.
  **FinalityPreventsMisreading** says when that is never: if no block below the
  confirmations is ever replaced (`Finality`), and only discovery may lag.
  Checkpoint, predecessor and range lie below the confirmations from the moment
  they are used (`SettledInv`), so no replacement is one of `Unseen`.

* `BookHeapProofs`: **BookIsHeap** and **HeapImplementsPriorityBook**
  (`ImplementsPriorityBook`), for any orders, prices and lengths of the array,
  and any sequence of insertions and removals. Only ids above zero and natural
  prices are assumed (`HeapAssumption`), as `nextOrderId` begins at 1. The
  loops are the difficulty. The library's induction takes an operator, which
  the provers cannot instantiate; `Induction` takes a set of numbers instead,
  and is shown by a smallest counterexample. From it follow that the recursive
  function in `After` exists (`AfterTurns`), the rule for an invariant of a
  loop (`LoopKeeps`) and the rule for its end (`LoopEnds`): a loop with a rank
  that each turn lowers is over after as many turns. The invariant of both
  loops is that the array is a heap but where the moving order stands, and
  that the orders below it are not better than the one above it
  (`OrderedBut`); without the second half an exchange could leave a child
  above a better grandparent. `RiseKeeps` and `SinkKeeps` are one turn, with
  the position as the rank, or its distance from the end. A removal puts the
  last order into the gap, where it may belong higher or lower; that the test
  of its parent alone decides which loop runs is `RemoveKeeps`. The root is
  the best because no order is better than its parent, all the way up
  (`RootIsBest`), and price, then id, is a total order (`BetterOrder`).

Only model-checked: everything about liveness and `ENABLED`, which the prover
cannot handle. Of `ExitAlwaysOpen` it proves that the guards of the claims
hold, not that the claims are `ENABLED`.

## What is not modelled, and the plan

Not modelled inside the covered contracts: one-time `setFactory` calls and
`setEmergencySafe`, secondary-market fee settings, addresses, salts, code
hashes, dependency fingerprints, signatures, URIs and evidence hashes.

Left out of the modelled services:

* sponsorship: deposit and stake forwarders, gas limits and lengths, the
  decoding of calls by the policy, authentication, the amount of the deposit;
* lane: the balance check and the cap per transaction, quotas of cleanups,
  `auditCanonical`, the flag that asks for a manual recovery and its alerts,
  the loop over further candidates after a failed save. While a lock is lost,
  two workers may sign the same bytes, and then a row that was given up is
  finished by the other's; both are the same transaction;
* queue: a second discovery process, the pages of the backstop, the limits of
  4, 20 and 100 with priorities and serving order, repair of links after a
  rollback to an older release, index lag;
* indexer: the projections and the financial ledger (derived from the events in
  the same transaction), account-scoped logs, backfills, the legacy form of
  `applyBatch`, two indexers over one database; a block hash that returns after
  it was replaced (a replaced block gets a new name in the model).

Not modelled at all, in the order in which they would be worth it:

1. the Permit2 relay service: one intent per nonce under retries and stops;
2. `FixedPriceMarketplaceV1` as a module of its own: listings, fills with fee
   floors, terminal returns. It is present as an escrow account;
3. the terminal workers' loop of simulate, then send; that a repeated call is
   not enabled follows from `Settlement`;
4. the RPC pool: the modules take an answer from any node, early or late;
5. metadata service, app service, SDK, session policies, sandbox token:
   request handling, encoding and checks without protocol state.
