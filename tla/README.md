# vnst-be in TLA+

`vnst-be` is the NestJS backend of the VNST stable coin.  It follows the VNST
contract on BSC and the VNST account on TON, keeps what it finds in MongoDB,
notifies and mails the owners of mints and redeems, and serves wallets, prices
and statistics over HTTP.  The specifications here model the parts of it whose
correctness depends on the order in which things happen.

All paths below are relative to the repository (`src/modules/...` is
`src/src/modules/...` in `PROJECT.json`).

## The system

| component | state | operations | hard behaviour |
|---|---|---|---|
| BSC event scanner (`event-logs.service.ts`) | watermark `last_scan_block_number` in Redis; local block numbers of each run | `scanEventLog` every minute, `getEventLogByTrasaction` on request | runs overlap; errors and restarts between queueing and saving; the newest block is replaced; fallback to the newest stored event |
| Event queue and consumer (`event-logs.consumer.ts`) | the Bull queue `eventLog`; collections `event-logs`, `wallets`, `notifications` | `insertEventLog`, `updateBalance` | handlers side by side; duplicate jobs; a crash in the middle, stalled jobs run again |
| TON account poller (`account-subscription.service.ts`) | `lastIndexedLt` in memory; collection `ton_transactions` | `onModuleInit`, `tick` every ten seconds, `onTransactions` | newest first; crash in the middle of an iteration; restart by timestamp; errors skip a swap |
| TON balance schedule (`ton.schedule.ts`) | `wallets`; the page and offset of each call | `syncBalances` every five minutes and for each swap | calls overlap; pages of 100 with one element more; one error ends the round |
| Wallets (`wallets.service.ts`) | `wallets` | create, find, update, nonce, `verifyEmail`, `updateEmail`, `scanBalance` | load-change-save of documents by concurrent requests |
| Transaction log (`transaction-log.service.ts`) | `transaction-logs` | `transactionLogJob` every minute | newest first, resumes after the greatest stored block |
| Merchant subscribers | `merchant-subscribers` | `saveMerchantSubscriber` | find, then create |
| Auth (`auth.service.ts`) | `wallets` (nonce), tokens | nonce, login, payload, TON login | wallet created by login and by the indexers at once; a nonce is replaced while it is being signed |
| TON proof (`ton-proof.service.ts`, `wallets-data.ts`) | none | `checkProof`, `tryParsePublicKey` | the key's place differs with the wallet version; what ties key, address and signature together |
| Notifications, e-mail | `notifications`, Mailgun | create, list, mark read; send | errors of Mailgun are swallowed |
| List endpoints (events, TON transactions, notifications, contributions, liquidity, the log) | none | `findAll` with filters, period, page and limit | rows and total are two queries; documents arrive between the pages |
| Statistics (`app.controller.ts`, totals of merchants) | the cache in Redis | `getStats`, totals | several queries at different moments; cached answers of requests that overlapped |
| Token prices | `tokenprices` | a sample every five minutes for each network; chart, latest price | calendar arithmetic in two time zones |
| Infrastructure | configuration, cache, sessions, pipes | | none of interest |

How they interact: the scanner puts jobs on the queue and never waits for
them; the consumer writes the collections that the scanner's fallback reads.
Scanner, consumer, poller, schedule and requests share the `wallets`
collection, whose documents are loaded, changed and saved, and `save()` writes
only the fields that were changed.  Everything runs in one Node process: a
rejection that nobody catches ends it, and Docker (`restart: always`) starts it
again.  Redis and MongoDB survive that, the memory of the process does not.


What makes each part correct:

* an indexer leaves nothing behind the position it continues from, gets to the
  head of the chain in the end, and records and announces an item once;
* the queue's handlers announce a mint or redeem once and lose at most what an
  error or crash cost, and a refreshed balance is not overwritten by an older one;
* a wallet shows an e-mail address only after a code mailed to it was presented,
  and a save about one field does not undo a save about another;
* a merchant contact subscribes once;
* a session for a TON address belongs to the key the address obeys, an owner's
  own proof is accepted on the basechain, and the wallet of a session stays;
* a sync of balances that goes through leaves no holder out, and in the end
  every wallet shows the balance on chain;
* what the pages, the figures and the charts show is what is stored: nothing is
  left out of a walk, no figure lies outside what was there while it was
  computed, no sample falls between two candles.

## Modules

| module | models | extends / composed with |
|---|---|---|
| `ChainIndex` | what an indexer promises: the abstract specification | implemented by the three indexers |
| `EventScan` | `scanEventLog`, `getEventLogByTrasaction` | `Index == INSTANCE ChainIndex` |
| `EventScanProofs` | theorems | `EventScan` |
| `EventJobs` | the Bull queue and `EventLogsConsumer` | |
| `EventJobsProofs` | theorems | `EventJobs` |
| `TonSubscription` | `AccountSubscriptionService` | `Index == INSTANCE ChainIndex` |
| `ParseTransaction` | `parseTransaction` | composed with `TonSubscription` in `TonDeals` |
| `TonDeals` | the deals that happened, the transactions that show them, and what the poller and the parser make of these | `TonSubscription`, `ParseTransaction` |
| `TonSubscriptionProofs` | theorems | `TonDeals` |
| `TransactionLog` | `transactionLogJob` | `Index == INSTANCE ChainIndex` |
| `TransactionLogProofs` | theorems | `TransactionLog` |
| `WalletProfile` | one wallet document and all that saves it | |
| `WalletProfileProofs` | theorems | `WalletProfile` |
| `MerchantSubscriber` | `saveMerchantSubscriber` | |
| `MerchantSubscriberProofs` | theorems | `MerchantSubscriber` |
| `TonProof` | `checkProof`, `tryParsePublicKey` | |
| `TonWallets` | `syncBalances`, `loginTon`, `getNonce` on the collection `wallets` | `TonProof` |
| `TonWalletsProofs` | theorems | `TonWallets` |
| `Listings` | the six list endpoints, marking a notification, and a client that turns the pages | |
| `Statistics` | `getStats`, the merchants' totals, the cache interceptor | |
| `TokenPrice` | the cron jobs, the chart and the latest price | |
| `ReadsProofs` | theorems | `Listings`, `Statistics`, `TokenPrice` |
| `MCReads` | an instance of the three side by side | `Listings`, `Statistics`, `TokenPrice` |
| `MC...` | small instances and symmetry sets for TLC | |

Operators named `X_Y` with a comment "Mutant:" are the definition `X` with a
plausible bug; nothing uses them.  `PROJECT.json` says which property each of
them breaks when it takes `X`'s place.

In every module an action ends where the code awaits something: between two
actions of one handler, another handler, a job, the chain or the end of the
process may come.  Ghost variables, marked as such, only record history for the
properties; no guard reads them.

### ChainIndex

Items at positions; `taken` are those the backend has taken charge of, `mark`
is where it continues and `floor` how far down it vouches.  `Grow` may rewrite
the chain at or above the mark only, `Take` only adds, and `Move` may move the
mark forwards or back, but never so that an item between floor and mark is left
out.  Raising the floor is the one licence it has.

### EventScan

`Scans` is a set of concurrent runs, since `@Cron` starts one each minute and
nothing stops it while another runs.  `ReadCache`/`MissCache` and `ReadLatest`
are the choice of `fromBlock`, `ReadHeight` is `getBlockNumber`, `FetchRange`
one `getPastEvents` with the loop's arithmetic, `QueueBalances` and
`QueueInserts` the two `addBulk` calls, `SaveWatermark` the end.  `Abort` is the
`catch`, `Restart` the death of the process, `ByTransaction` the request that
queues the events of one block, with `ByTransactionCrash` for its unawaited
`addBulk`.  The consumer is reduced to `InsertJob`/`JobFails`; the queue is a
set, which makes no difference because the insert is an upsert.

The watermark 0 stands for "absent": the code tests it with `!`.  When a run
cannot use the watermark it begins from the newest stored event, and that may
be one a lookup put there: the ghost `floor` keeps where it began, and `base`
the highest floor of a run that completed.

### EventJobs

Bull as the package behaves: `waiting` is first in, first out; `Take` fills
`Slots` shared by both processors; `attempts` is 1, so an error fails the job; a
job whose process died is found stalled by `Recover` and run once more.  One
action per await of `insertEventLog` (`Upsert`, `FindWallet`,
`CreateNotification`, `SendEmail`) and of `updateBalance` (`GetBalance`,
`FindHolder`, `SaveBalance`/`CreateWallet`, and `UpdateFails` for its `catch`).
`Add` is any `addBulk`: of the scanner, of a lookup, and of `scanBalance`, which
queues a refresh of every wallet.  `SignUp` is a nonce request for an address that
has no document yet, the zero address not excepted; it upserts one, and may come
between a refresh's lookup and its `create`.  `updateBalance` sets the balance of the document it loaded, and
when that is the balance already there `save()` has nothing to write: then the
job ends with the lookup.

### TonSubscription

`OnModuleInit` takes `lastIndexedLt` from the stored transaction with the
greatest *timestamp*; `SentAt` gives each swap its own, not in the order of
`lt`.  `FetchBatch` is one round of the loop with a page of any size the API may
choose, `EndIteration` the empty page, after which alone `lastIndexedLt` moves.
`CreateTransaction`, `SyncBalances`, `Notify`, `Mail` handle one swap, newest
first.  `SyncBalances` has three ends: the sender is listed as a holder and has a
wallet afterwards; toncenter does not list the sender, which is no error, and if he
has no wallet none is made and nobody is told (the ghost `unlisted`); or it fails.
The ghost `base` is where the service resumed after it had died inside
an iteration.

### ParseTransaction and TonDeals

A cell is a sequence of fields, and loading becomes indexing.  `IsNotify` is the
three guards and the incoming message, `FirstOut` the `find` over the outgoing
messages, `Parse` all of `parseTransaction`.

`TonDeals` has the deals that happened (`Deals`) and the account's transactions
(`History`).  `ShowsDeal` says what a transaction that is a deal looks like: who sent
which jettons with which op, and one message of the account that pays out another
amount.  What else the account sends in the transaction and where, messages without
an op included, and whether the pay-out has its addresses, is left open.  `NoDeal`
lists the transactions that are none: skipped, of another kind, not answered, or
answered with what was sent.  `Swaps`, `SentAt` and `Owner` are what `Parse` makes of
the history, so a deal need not be a swap; `RecordsDeals` compares the collection
with the deals.  The deals that the parser passes over, with a message without an op
before the pay-out or a pay-out without an address, are its stated exception
(`Unread`).  The property compares amounts, sender and time.  The `toAddress` of the
document is not among them: it is the pay-out's fifth field, which for either op is
where the excess of gas goes, and not who is paid.

`MCTonSubscription` builds a history of seven out of deals with and without other
messages before the pay-out, one of them without an op, one whose pay-out has no
excess address, a refused deal and one that is not answered.

### TransactionLog

`ReadMax`, `Fetch` and one `Store` per document; `Fail` is the `catch`, which
the scheduler logs.  `NotOk` is a refusal of BscScan, which comes with status 200 and
a message in the place of the list: the loop iterates over its characters, and if the
decoder puts up with them, one document without hash and `blockNumber` is upserted
for them all (`junk`).  It sorts behind every other; alone in the collection it makes
the next start `NaN`.  The list of transactions only grows here: that a
reorganisation takes back a listed block is not modelled.  The list BscScan answers with is cut at `ApiLimit`, newest
first.  There is no watermark: the mark of the refinement, `Resume`, is the block
after the greatest stored one.

### WalletProfile

Every handler loads the document, changes its copy without waiting, and saves:
`Load` with the fields a handler sets, then `Save`.  `Delta` is what Mongoose
writes: only the fields in which the copy differs from what was loaded.  A
"group" is the fields a handler is about; `overlapped` records the groups of
which two handlers were between load and save.  A code is its index in `codes`,
the ghost record of the address and time of each; only a code that arrived is
ever presented.  `GetNonce` is one update, by anybody, for the request is not
authenticated; then its answer reaches the owner (`GiveNonce`) or does not
(`LoseNonce`: it is lost, or somebody else asked).  `LoginEVM` is the login with the
nonce the owner was given last; the ghost `issued` is the one written last.

### MerchantSubscriber

`Find` or `Conflict`, then `Create`; an undefined `telegramId` matches the
documents that have none, as MongoDB does it.

### TonProof and TonWallets

`KnownWallets` says how many bits the loader of each wallet version reads before
and after the key; initial data is where in it the key really lies.  `LoadKey`
gives the key, other bits or an exception.  An address is a workchain and the state
init it is the hash of; the message that is signed names the workchain too, and
`writeUInt32BE` throws for that of the masterchain, -1.  A signature is the record of who signed and what; so hashes do not
collide and signatures are not forged.  `Owner` is the reference: the key a
contract obeys.

In `TonWallets` the calls of `syncBalances` are the `Rounds` of the interval and
the `Refreshes` of swaps, several at a time.  One action per await: `FetchPage`,
`FindHolder`, `SaveBalance` or `CreateWallet`; `Break` is the `catch`.  The
balances of a page are those of the moment it was fetched.  `LoginTon`,
`FindWallet`, `CreateOwner` are `loginTon`; `TurnAway` is the refusal of a request that
the owner of the address made himself, which is remembered as "denied", and so is the
error of the index in `CreateOwner`; the refusal of any other request leaves no trace
and is no step.  `GetNonce` upserts by address alone,
and what keeps it from turning a TON wallet into one of BNB is the validation
of its query.  The ghost `begun` is what a call vouches for when it goes through.

### Listings, Statistics, TokenPrice

`Listings` has one operator for each endpoint's DTO and one for its query, over
documents with the fields the filters ask for; `IsPage` is what MongoDB may
answer when documents sort alike.  A client asks for the first page, gets rows and
total in either order, and turns pages until it has had the total; meanwhile
documents arrive.

`Statistics` has the aggregations as sums over sets of documents.  A request
misses or hits the cache; its queries return one by one, each from what is stored
then; its answer is sent and kept.  The cache goes by URL, and the network is optional
with BNB for its default: `/stats` and `/stats?network=BNB` are two entries, and
`Route` says what a URL asks for.

`TokenPrice` has the calendar of the years `FirstYear` to `LastYear`, the
chart's start (`StartDate`), the parts its samples' groups are made of
(`GroupTime`, in UTC) and what `$dateFromParts` makes of them with the time zone
(`Stamp`, by which they are grouped).  What a chart should be is said without
them: how many days back it goes (`DaysBack`), and that its candles, each of the
hours after its own timestamp, hold every sample asked for once (`CandlesFit`),
the latest price among them.

The three share no state; `MCReads` puts one of them at a time into a behaviour.

## What the runs check

| run | instance | what it shows |
|---|---|---|
| `scan_reorg` | two runs, three blocks, ranges of one block, a lookup, a fault, the head replaced | `NoGapAboveBase`; the scan implements `ChainIndex` |
| `scan_final` | two runs, two blocks, two faults, final blocks, no lookup | `NoGap`: nothing lost at all; `RefreshBeforeInsert`; `EventuallyIndexed` |
| `ton` | seven transactions, five deals of which three can be read, pages of two, three faults | `AnnouncedOnce`, `OneFaultOneLoss`, `NoGapAboveBase`, `EventuallyRecorded`, `RecordsDeals`; the poller implements `ChainIndex` |
| `ton_gap` | the same | **violation** of `NoGap`, see findings |
| `jobs` | three insert jobs, two of them for one mint, a refresh of the zero address, which may sign up, one error, two crashes; no transfers | `AnnouncedOnce`, `LossIsBounded`, `Drains` |
| `jobs_balance` | three refreshes of one address, the only one, and an insert of its owner's mint, who has no wallet yet, an error, a crash | `FreshUnlessOverlap`, `NewOwnerHeard` |
| `ton_wallets` | the interval's call, a call for a swap, one login; contracts of several versions, one of them on the masterchain too; pages of one, one fault | `SessionAuthentic`, `HonestAccepted`, `SessionHasWallet`, `SyncedUnlessOverlap`, `EventuallySynced` |
| `log` | two runs, three blocks of up to two, lists of three, two errors, refusals or crashes | `NothingMissed`, `EventuallyLogged`; the log implements `ChainIndex` |
| `profile` | two handlers, two addresses, four requests, three ticks | `EmailVerifiedUnlessOverlap`, `CodeUsedOnce`, `CodeAwaited`, `SettingsKept`, `LoginAccepted` |
| `profile_race` | the same | **violation** of `EmailVerified` |
| `subscribers` | three requests at a time, two addresses and a Telegram name | `SubscribedOnceUnlessOverlap` |
| `reads` | four documents, eight requests; two of eight items, two clients, two URLs at a time; five moments at the ends of months and years | `WalkComplete`; `StatsBracketed`, `StatsForward`; `ChartWhole` |

The runs of the modules with a `TypeOK` check it too, except `subscribers`, whose `TypeOK` is proved.

The bounds (`MaxBlock`, `MaxLt`, `MaxBalance`, `MaxTime`, `MaxStarts`,
`MaxDocuments`, `MaxItems`, `MaxMisses`, `MaxFaults`, `MaxCrashes`, and `LastYear` of
the calendar) cap what would grow for ever.  They
are enough to see what can go wrong: two runs overlap in every way one pair can;
with ranges of one block every run of two blocks crosses a boundary; three
blocks leave one behind, one at and one before the mark; pages of two over seven
transactions make an iteration of several pages; a life of one tick lets a code
be in time or late; two faults let a run fail while it repairs the last one's
damage.  Pages of one wallet over two holders make the element beyond the page,
the next page and its end all happen; a holder may appear while the pages are
turned.  Four documents in pages of one or two give walks of several pages, with
two that sort alike.  The moments of the price chart lie at the last days of
February in a leap year and of March, an hour before and after the start of a
day, and more than a year apart.  The theorems remove the bounds
altogether from everything but liveness: there they are any numbers, and the sets of
items, blocks, documents, requests and moments any sets.

Deadlock is checked except where a run says otherwise: in `EventJobs` jobs end
and transfers are bounded, in `WalletProfile` requests and time are bounded, so
these may come to rest; in `MCReads` a bounded collection fills up, the cache
misses are used up and the last sample is taken.

### Fairness

Weak fairness of the program's own steps, never of the environment's.

* `EventScan`: the cron job fires every minute and errors are caught, so
  `ScanStep(s)`; Bull serves its queue, so `InsertJob(e)`.
* `TonSubscription`: the interval fires, the TON client's and Mongo's promises
  settle, and Docker (`restart: always`) starts a process that ended, so `Poll`
  with `OnModuleInit` in it.
* `EventJobs`: Bull takes jobs, handlers' awaits settle, and the stalled check
  runs on an interval: `Take`, `Handle(j)`, `Recover(j)`.
* `TransactionLog`: the cron job, and the axios timeout of ten seconds: `Step(r)`.
* `TonWallets`: the interval fires (`Interval(s)`), every call under way goes on,
  since requests time out and promises settle (`Sync(s)`), and so does a login
  under way.  Nobody has to log in, and no swap has to come.

Faults and crashes are bounded, never fair: what is claimed is that the system
recovers once they stop.

### Findings

* `ton_gap`: transactions are recorded newest first, so a crash inside an
  iteration leaves the older swaps below the newest recorded one, where the
  restarted service never looks.
* `profile_race`: two overlapping requests to verify an address leave the code of
  one with the address of the other.

What else came up while modelling, and needs no run of its own:

* A crash between the upsert of an event and its notification: the stalled job's
  second run takes the event for a duplicate and stays silent.  `LossIsBounded`
  counts these losses.
* Two overlapping subscriptions of one contact both succeed; hence the exception
  in `SubscribedOnceUnlessOverlap`.
* A `limit` of 0 passes `@Max(50)` and means no limit to MongoDB; an end `to` of 0
  counts as not given; the log's DTO bounds neither page nor limit.
* The TON totals may be negative for a while, because the poller stores the newest
  swaps first; those of BSC are cut off at 0.
* The statistics of events do not ask for the contract's address, as the list does.
* `getOtcDeltaSetting` turns a setting of 0 into 25.
* `/circulating` answers with the total supply.
* The mail for a TON redeem carries the subject of a mint.
* An outgoing message without an op before the pay-out makes `parseTransaction`
  throw, and the swap is skipped; so does a pay-out without an excess address.  The
  document's `toAddress` is that excess address.
* A TON sender without a wallet whom toncenter does not list, because his jetton
  wallet is new or was never made, is not told of his swap, and no error is logged.
* `GET /auth/nonce` is open to all: whoever asks replaces the nonce of the owner, whose
  login then fails; and it takes the zero address, so that one can get a wallet,
  though no balance (`getBalanceOf` is never asked for it).
* A refusal of BscScan (status 200, a message for a result) can leave one document
  without hash and block in `transactionlogs`; if it is the first, `startblock` is
  `NaN` from then on, until BscScan answers that with a list.  The document stays.
* `checkProof` throws, and so refuses, for every wallet on the masterchain.
* `/stats` and `/stats?network=BNB` may show figures of different age.
* A TON owner whose wallet a sync creates between the look-up and the creation of
  his login gets an error; the next attempt succeeds.
* A day's candle is grouped by the day in UTC and labelled with midnight in
  Vietnam: it covers seven hours more to the end and less at its start than its
  label says.  `ChartWhole` states which hours it covers.
* The decorator of `updateBalance` says `concurrency: 1`, but Bull adds up the
  concurrencies of a queue's processors and every slot takes jobs of either kind,
  so refreshes do run side by side.  That is why `FreshUnlessOverlap` has its
  exception.

That `TransactionLog` has the weakness of `ton_gap` shows in `NothingMissed`: it
needs the exception for what a failed run gave up, because no later run asks for
it.  No text in the repository claims otherwise, so there is no run for it.

## What is proved

`tlapm` checks every theorem for all values of the constants, given the
assumptions named in the modules (`ScanAssumption`, `TonAssumption`,
`LogAssumption`, `JobsAssumption`, `SubscriberAssumption`, `ProfileAssumption`,
`ProofAssumption`, `WalletsAssumption`, `ListAssumption`, `StatisticsAssumption`,
`TokenPriceAssumption`, `TonDealsAssumption`), which say no more than
that times, amounts, prices and bounds are naturals, that limits are positive, that
names for different things differ, that the zero address neither mints nor burns, that
the jetton lists a holder once, that the documents of a list are finitely many and
that a walk through it begins with the first page; that the prices are sampled within
the calendar, at least a year after its start; and that each transaction of the TON
account shows a deal, as `ShowsDeal` says, or is none.  Nothing is assumed of the
order of its outgoing messages or of what stands before the pay-out.

* **Types** (`TypeCorrect`): by cases on the actions.  For `EventJobs` the limit on
  running jobs is part of it, which takes the cardinality of `Running` with a job
  added and taken away; and that no refresh of the zero address comes to read a
  balance, which `Take` alone sees to, whether it has a wallet or not.
* **`EventScanProofs!NothingLeftBehind`**: `NoGapAboveBase` for any chain, any
  number of overlapping runs, any range size.  It is not inductive: a run sets
  the watermark to a height it read long ago.  `IInv` therefore says of each run
  what it will have covered when it saves: from where it began up to
  `fromBlock` every event is in hand or in its `result` (`Covered`); a run that
  began from the watermark began where all below is known (`BeginsKnown`); the
  loop ends only at the height (`LoopDone`); and marks and heights stay behind
  the head, which is what a reorganisation may replace (`BehindHead`).
* **`EventScanProofs!NothingLost`**: `NoGap`, given that blocks are final and nobody
  looks up a transaction.  Falling back to the newest stored event is then safe,
  because whatever is in hand came with everything before it (`Closed`), whichever
  run brought it; so a run that begins after such an event has nothing missing behind
  the block it has come to (`Behind`), and none begins beyond the next block
  (`BeginsNear`).  `BalancesFirst` needs the second premise only: what a run has
  queued inserts for has had its refreshes queued (`Refreshed`).
* **`TonSubscriptionProofs!SwapAnnouncedOnce`**: `OnceInv` adds that the swap in
  hand is one this very pass inserted, so not yet announced.
* **`TonSubscriptionProofs!NothingLeftBehind`**: `IInv` says how far an
  iteration has swept: from the cursor up to where it started everything is
  recorded, dropped or in the page in hand (`SweptToCursor`), nothing recorded
  lies above the start (`Cursor`), and unless the process died inside an
  iteration there is no hole below a recorded swap (`NoHoles`).  The last is
  what makes resuming from the newest recorded swap safe.
* **`TonSubscriptionProofs!LossBounded`**: by cardinalities.  `LossInv` counts a swap
  in hand as lost already when its sync has failed and its owner has no wallet;
  then every fault adds at most one to the count and no other step does.  Swaps of
  senders who are not listed and have no wallet are not counted: those cost no fault.
* **`TonSubscriptionProofs!DealsRecorded`**: `RecordsDeals` for any history of deals
  and other transactions.  The search takes the first message that pays out or has no
  op (`FirstFound`; that there is a first, by the well-foundedness of the indices); so
  what is found is the pay-out or nothing that parses (`FoundPaysOut`).  A transaction
  that shows a deal therefore parses to that deal or to nothing, the latter only if
  it is `Unread` (`ParsesDeals`), any other parses to nothing (`ParsesNothingElse`), and
  the poller's swaps are deals, all of those it can read among them (`SwapsAreDeals`).
  The rest is `NothingLeftBehind`.
* **`TransactionLogProofs!NothingIsMissed`**: each run knows something: one that
  has read its start, that all before it is accounted for (`StartKnown`), which is
  vacuous for `NaN`; one
  with a page, that all up to its newest is (`PageKnown`).  The two survive the
  other runs because what is accounted for stays so.
* **Refinement**: `ScanImplementsChainIndex`, `PollerImplementsChainIndex` and
  `LogImplementsChainIndex`: every step is a `Grow`, `Take` or `Move` of
  `ChainIndex`, or leaves its variables alone.  The invariants above are what
  `Move` needs.  For the log the mark is a `CHOOSE`, so that a greatest stored
  block exists is an invariant too (`HasStart`).
* **`EventJobsProofs!SwapAnnouncedOnce`**: an event has at most one job past its
  upsert, since only the job that inserted the document goes on; the invariant says
  so for every pair of jobs and ties the counts of notices and mails to the steps.
* **`EventJobsProofs!WalletFresh`**: while no refresh of an address overlaps
  another, what the one in a slot has read is at least what any completed refresh
  was asked for, and each queued one will read later still.
* **`EventJobsProofs!OwnerHeard`**: without errors a recorded swap is announced,
  about to be, or was looked at too early (`HeardOf`); a refresh that has been
  through leaves a wallet, and wallets stay.
* **`EventJobsProofs!LossBounded`**: by cardinalities.  A crash interrupts at most
  as many swaps as there are slots, because each interrupted swap has a job of its
  own in one; an error adds at most one.
* **`WalletProfileProofs`**: `AddressVerified`, `CodeOnce`, `CodeHeld`, `SettingsSafe`
  and `OwnerLogsIn` come from one invariant.  `Hands` says of each copy that where
  its handler has changed nothing it is what was loaded, so `Delta` leaves the
  other groups alone, the nonce among them: it stays the one issued last
  (`NonceKept`), whoever asked for it and whether the answer arrived or not; `Alone` that without an overlap a group has one handler at a
  time; `Fresh` that the copy it holds still agrees with the document on that group,
  whatever other groups have been saved since.
* **`MerchantSubscriberProofs!RecordedOnce`**: a request past `Find` knows that
  nobody has been recorded, unless another overlapped it.
* **`TonWalletsProofs!OwnerAccepted`**: an owner's own proof passes on the basechain,
  since loading finds the key in the place the version keeps it, by cases on the
  versions (`HonestPasses`); so what is denied there is denied by the index, and then
  the wallet is there and stays, which is part of `SessionInv`.  Of owners on the
  masterchain, whom `checkProof` refuses, it says nothing.
* **`TonWalletsProofs!SessionSigned`, `SessionServed`**: a session's proof was
  checked, and `SessionInv` says that every write to a TON address leaves it a TON
  wallet: the index refuses a second creation, and a nonce request cannot name it.
* **`TonWalletsProofs!NobodyLeftOut`**: whoever was listed as a call began is done
  with, in its page, or lies ahead of its offset (`Ahead`); what a call began with
  is not above the chain; and no call holds an older balance of an owner than
  another call began with, unless that owner still lies ahead of the latter.  The
  last clause is the one that makes it inductive: it says why a slow call cannot
  undo one that has gone through without having overlapped it.
* **`ReadsProofs!NothingSkipped`**: documents are only added, and one that is
  added moves others to later places, never to earlier ones.  So a document not yet
  shown lies on the page asked for or behind it (`Ahead`), and once that page is
  shown, behind it (`Beyond`); a total counted at the moment of the rows is then
  large enough for the client to turn the page (`More`).

* **`ReadsProofs!StatsStayBracketed`, `StatsNeverFallBack`**: the totals are sums over
  sets of documents, so first of all a sum over a finite set follows its rule one
  element at a time, whatever element is taken (`SumRemove`), is at least that of a
  part of the set (`SumGrows`) and adds up over parts (`SumUnion`).  These would take
  an induction theorem that has an operator for a parameter; `SetInduction` has the
  set of the subsets that satisfy the claim instead, and takes a minimal one outside
  it (`WellFoundedInduction`).  The supply is the coins of the mints less those of the
  redeems and the backing the dollars (`SupplyIs`, `SupplyBetween`), on BSC cut off at
  0 (`NotNegativeGrows`).  The invariant `StatsInv` then says of a running
  request that each query that has returned did so from documents between those at
  the request's start and those now (`RunningClient`), and of an entry of the cache
  or one shown, that it is the answer to such a request (`Computed`).  For the
  figures not to fall back it takes `OneByOne`: where requests never overlapped there
  is one at most, and what it began with is not behind what was shown at its URL.  Both
  go by URL: nothing is said of the two URLs of BNB together.  Holders and the
  operation pool are one query each, and are not compared.
* **`ReadsProofs!ChartsAreWhole`**: the months of the calendar do not overlap
  (`MonthsApart`), each begins where the last ends (`NextMonth`), and every day is in
  exactly one (`CalendarIs`), by the order of months.  A year is 365 days or 366
  (`NextYear`), from which the chart's start follows, with the 29th to the 31st cut to
  the length of an earlier month (`MonthBefore`, `YearBefore`).  A candle covers just
  the moments of its group (`CandleCovers`), since the parts of a moment determine
  its day, and a day's hours.

Only model-checked: liveness (`EventuallyIndexed`, `EventuallyRecorded`,
`EventuallyLogged`, `Drains`, `EventuallySynced`), which is out of the proof system's
reach.  Every invariant of the passing runs, `StatsForward` and the three refinements
are theorems.

## Assumptions about the surroundings

* One process.  `getPastEvents` answers for the chain `getBlockNumber` spoke of.
  A reorganisation is one block deep; the code has no answer to a deeper one.
* `addBulk` puts all its jobs on the queue or none.  Redis loses nothing; Bull
  does not give a job to two live handlers (its lock is renewed).
* `to_lt` of the TON API is exclusive.  BscScan lists a block's transactions all
  at once, and its list only grows.  Its refusals have a message for a result, and the
  decoder may put up with the message's characters.
* The account pays a deal out in one message.  To the poller toncenter may
  list a sender as a holder or not, whatever happened on chain.
* `enabledNoti` does not change while a job or a swap is handled.
* Codes are fresh: that two six-digit codes coincide is left out.  Addresses are
  in the lower case to which the handlers bring them.
* TON addresses come in the raw form, which is the form the list of holders has
  them in.  The list's order is fixed, and it never shrinks.
* A browser sends back the cookie it was given; a client turns pages until it has
  had the total, and sends no negative limit.  MongoDB keeps to a sort order except
  among documents that sort alike.
* `formatUnits` divides both jettons by the same 10^6, and all events stored are of
  one contract.  The server's clock runs in UTC.
* An error of a database, an API or Mailgun takes place at most `MaxFaults` times;
  a write that fails has not happened.

## How it was built, and what is left

The order was: the three indexers with `ChainIndex`, the job queue, the wallet
profile and the subscribers; then the messages behind the TON poller's swaps
(`ParseTransaction`), the wallets of TON owners with the sync and the logins
(`TonProof`, `TonWallets`), the read side (`Listings`, `Statistics`, `TokenPrice`),
and proofs for the queue, the subscribers, the TON wallets, the wallet profile, the
walk through a list, and what `EventScan` and `TonSubscription` promise besides; then
`TonDeals`, and the proofs about deals, statistics and charts.

Worth adding:

1. A rollback of Redis to its last snapshot in `EventScan`: queue and watermark
   fall back together, the collection does not.
2. The scanner with the real queue of `EventJobs` for its consumer; now each
   module reduces the other to one or two actions.

## Not modelled

* E-mail templates, the ABI (`web3.ts`), formatting, logging: text and data.
* Configuration, module wiring, sessions and `CacheService`: no state of the
  program's own.
* The merchants' endpoints hand requests on to another service and stream its
  answer back; nothing is kept.
* Hashes, signatures and tokens are ideal; chain clients are external and appear by
  their answers.
* `decodeHexBigNumberInput` and the ABI decoding of the transaction log's input:
  data the properties do not tell apart.
* The CMS flag that `getWalletDetail` caches for five minutes: it is handed to the
  client, and nothing is decided by it.
* `seed`, `sendEmail`, `generateKeyForMerchant`: called by nobody.
* A reorganisation deeper than one block, one that takes back a block the transaction
  log has stored, and a Redis that loses data: the code has no answer to any of them.
* That a code expires after five minutes is in the model (`ValidOtp`), but no property
  is about the limit.
