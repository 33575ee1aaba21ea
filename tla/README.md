# ln-sync: models, model checking and proofs

ln-sync is a library for programs that run beside a Lightning (LND) node. It
keeps a local database in step with what LND reports, watches forwards and
pending channels, funds and broadcasts transactions, and works out balances and
liquidity. This directory holds TLA+ models of it, the TLC configurations that
check them, and theorems that TLAPS checks.

`PROJECT.json` maps every definition that models code to its lines, and lists
the runs, the mutants, the hazards, the findings and the theorems.

## 1. Inventory

### The data the library keeps, and who writes it

The library owns no process and no durable state of its own. It writes to a
database that its caller gives it (`getItem`, `putItem`, `updateItem`): tables
of nodes, channels, policies, local channels, peers, blocks and HTLCs. `putItem`
refuses a key that is there; `updateItem` refuses a row whose `_rev` is not the
one expected. These two refusals are the only concurrency control.
JavaScript runs one callback at a time, so the handlers interleave exactly where
they wait for LND or the database.

```
LND --subscriptions--> subscribeToChanges --(new generation after an error)--+
                             |                                               |
                       syncFromDataEvents <-----------------------------------+
        node_updated |  channel_updated / channel_closed |  forward (HTLCs)
        eventNodeUpdated  eventCreateChannel  eventPaymentHtlc, eventReceiveHtlc
                          eventPolicyUpdated  eventForwardHtlc
                          eventChannelClosed  eventChannelActive
             |                 |                     |
          syncNode <----- syncChannel           updatePaymentHtlc, ...
             |                 |                     |
             +-------- database: getItem, putItem, updateItem
```

| Component | State | Operations | What is hard | What makes it correct |
|---|---|---|---|---|
| Node sync (`sync_node`, `event_node_updated`) | nodes table | read the row, ask LND, create or update; announce; retry up to 1000 times | runs for one node overlap, from four kinds of handler; replies are lost | an older announcement never replaces a newer one; no revision announced twice; the last change arrives |
| Channel sync (`sync_channel`, `mark_channel_closed`, `event_create_channel`, `event_channel_closed`) | channels table | create after its nodes, fill in the capacity, mark closed | two handlers write one row; closing does not move `_rev`; an abandoned attempt's update still lands | nothing recorded is lost; announced once; nodes first; closings recorded |
| HTLC sync (`update_*_htlc`, `event_*_htlc`) | three HTLC tables | create or update from one report | handlers of two reports of an HTLC overlap; forwards have no retry and no guard | the table ends with the last report; each outcome announced once |
| Change subscription (`subscribe_to_changes`, `sync_from_data_events`, `subscribe_to_forwards`, `emit_error`) | generations of subscriptions, restart timers | subscribe, fail, restart in 5 s, stop when nobody listens | three subscriptions and a lookup can all fail in one generation | always a generation that works while somebody listens; no more duplicates than failures explain |
| Policy sync (`sync_channel_policy`, `policy_update`, `event_policy_updated`) | policies table | sync both nodes, then one policy | races like those of nodes; the first sight of a policy | the table follows the graph |
| Local channel and peer sync | two tables | read, ask LND, create or update | a 90 s wait before reading; absent peers | the table follows LND |
| Current records and blocks (`sync_current_records`, `sync_block`) | the tables; a blocks table | list what LND knows and sync it row after row in four series; store a block | a row fails after its attempts while the other series go on | a success has synced every row listed; a block is told of once |
| Forward request rules (`monitor/enforce_forward_request_rules`) | pending HTLCs, chain height, key cache, in memory | accept or reject a request | the decision waits for lookups while blocks and forwards come in | limits hold under concurrent requests |
| Pending channels (`monitor/subscribe_to_pending_channels`) | last poll | emit differences between polls | the loop ends on an error | each change is reported once |
| Peer operations (`peers/`) | a listener and a timer each | wait for a peer or a channel, stop HTLCs, update a fee | a timeout races with the answer; channels move between two polls; two updates of one policy; listeners left behind | answered once, nothing left attached; what was asked is kept |
| UTXO locks and funding (`funding/`, `sign_and_fund_psbt`, `get_max_fund_amount`) | LND's output locks | lock, fund, ask, sign, refund, unlock, lock again | one call of several fails; a lock lapses by itself; two calls want one coin | which failure leaves which lock; no coin given to two; a lapsed lock is taken again |
| Broadcast and search (`broadcast_transaction`, `find_confirmed_output`) | subscriptions of blocks and confirmations | wait for the lock time, broadcast each block until confirmed | a broadcast answered after the confirmation; a lock that passes before the subscription | not sent too early; the first answer stands |
| Balances (`nodes/`) | none | add up five lists of LND | the lists are of different moments; versions of one transaction | nothing is left out or counted twice |
| Transaction records (`get_transaction_record`, `transaction_records`) | none | relate a transaction to channels by four lists | a channel moves between the lists; a close's output is spent and spent again | what is told fits the channel, once |
| Liquidity (`peers/*liquidity*`, `percentile`) | none | sum or list what channels can send and receive | two lists of different moments; rates that are zero or not known | adds up to the channels |
| Paging (`transactions/`) | none | read rows page by page until one is too old | rows are added in front meanwhile | all that was there is answered, once |
| Wording, encodings, single lookups | none | formatting, decoding | nothing concurrent | not modelled |

`PROJECT.json` lists every file under its component, with its status, and under
`hazards` the places where the code could go wrong in a way a test would hardly
reach.

## 2. Modules

| Module | Models | State to code |
|---|---|---|
| `Database` | the two guards of the caller's database, as the library uses them | `MayPut`: `putItem`; `MayUpdate`: `updateItem` with `expect {_rev}` |
| `Replica` | the abstract specification of a synchronised table: a copy lags its source, never runs ahead, never goes back | |
| `NodeSync` | `syncNode` under `eventNodeUpdated`, and its quiet callers | `record`: the nodes table; `graph`, `history`: what LND knows and announced; `task[t]`: a run, cut at each wait (`getStored`, `getFresh`, `execute`, `announce`); `events`: what was emitted |
| `NodeSyncProofs` | the theorems about `NodeSync` | |
| `ChannelSync` | `syncChannel` under `eventCreateChannel`, `markChannelClosed` under `eventChannelClosed` | `channel`, `nodes`: the two tables; `stray`: an update sent by an attempt that was given up; `added`, `closed`: what was emitted |
| `ChannelSyncProofs` | the theorems about `ChannelSync` | |
| `HtlcSync` | the three HTLC handlers and tables | `script`: what LND reports of an HTLC; `record`: its row; `emitted` |
| `HtlcSyncProofs` | the theorems about `HtlcSync` | |
| `LinkSync` | `syncChannelPolicy`, `syncPeer`, `syncLocalChannel`, each under its handler, and the quiet runs of `syncCurrentRecords` | `script`, `now`: what LND knows of a policy, a peer or an own channel, and when; `record`: its row; `emitted`: `policy_enabled`, `reconnected`, `channel_enabled` and their opposites; `born`: was the link up when its row was created |
| `LinkSyncProofs` | the theorems about `LinkSync` | |
| `ChangesSubscription` | the restart loop of `subscribeToChanges` | `generation`: an iteration of the loop with its listeners and its `getWalletInfo`; `timers`: waits of 5 s; `listens`: `emitter.listenerCount('error')` |
| `ChangesSubscriptionProofs` | the theorems about `ChangesSubscription` | |
| `ForwardRules` | `enforceForwardRequestRules` | `request[r]`: a handler and the lookups it waits for; `chain`: the height and the time of the last block; `lookups`: wallet lookups of block handlers; `channelKeys`: the cache; `htlcs`: the pending forwards; `stopped`: the listeners are removed |
| `ForwardRulesProofs` | the theorems about `ForwardRules` | |
| `PeerConnection` | `waitForConnectedPeer`, `connectPeer`, `acceptsChannelOpen` | `linked`: LND's peers; `wait[w]`: a wait with its timer, its listener and the peers told to it (`inbox`); `dial`, `probe`; `proposals`: channels proposed and not cancelled |
| `FeeUpdate` | `updateChannelFee` | `channel`, `policy`: LND's; `update[u]`: a call, what it asks and what it read |
| `ChannelWatch` | `subscribeToPendingChannels`, `stopAllHtlcs`, `waitForPendingOpen` | `life`: of each channel; `monitor`, `told`: the polling monitor, its memory and what it told; `stop`: the loop and its list; `hunt`: the attempts |
| `Broadcast` | `broadcastTransaction`, `findConfirmedOutput` | `height`, `tx`, `deposits`: the chain; `cast`: a broadcast, its stream of blocks and its answers; `find`: a search with its timer |
| `Paging` | `getPayments`, `getAllInvoices`, `getRebalancePayments` | `invoices`, `payments`, `clock`: LND's; `query`: the call; `reader[l]`: its `token` and rows for each node |
| `CurrentRecords` | `syncCurrentRecords`, `syncBlock` under `eventBlockMined` | `lists`: what LND knows; `passes`: the call; `series[k]`: an `asyncEachSeries`; `blocks`, `miner`, `added`: the table, its handlers, what was emitted |
| `Funding` | `fundPsbtDisallowingInputs`, `reserveTransitFunds` with the calls it makes, `getMaxFundAmount`, `signAndFundPsbt`, `maintainUtxoLocks` | `lease`: LND's locks, whose, what for and how long; `spent`; `call[c]`: a call; `keeper`: the loop that keeps locks |
| `NodeFunds` | `getNodeFunds`, `detailedBalances`, `conflictingBalances` | `stage`, `locks`, `chan`: LND's transactions, locks and a channel; `balance`: the call and the lists answered so far |
| `ChainRecords` | `getTransactionRecord`, `transactionRecords` | `life`, `txs`, `ended`: channels and transactions; `record`: the call |
| `Liquidity` | `getPeerLiquidity`, `peerLiquidity`, `getLiquidity`, `liquidityTokens`, `percentile` | `chans`: LND's channels and the payments they hold; `ask`: the call |
| `MCLndCalls` | beside one another: `PeerConnection`, `FeeUpdate`, `ChannelWatch`, `Broadcast`, `Paging`, `CurrentRecords` | `subject`: whose behaviour it is |
| `LndCallsProofs` | the theorems about the modules of `MCLndCalls` | |
| `MCWallet` | beside one another: `Funding`, `NodeFunds`, `ChainRecords`, `Liquidity` | `subject` |
| `WalletProofs` | the theorems about the modules of `MCWallet` | |
| other `MC*` | values of the constants for TLC | |

Conventions. One action per wait: everything between two waits is one step. A
record carries ghost fields only where the comment says so: `NodeSync`'s `asOf`
is the announcement the contents were taken from and is not stored; `overlap`,
`missed` and `lost` record a circumstance a property makes its exception. Bodies
of rows are abstracted to what the properties tell apart: a node has one plain
attribute (`alias`, which stands for the colour and the sockets too) and
`features`, which differs because an empty value does not overwrite; an HTLC's
`mtokens` stands for every field only the first report carries; a channel's
`capacity` for the capacity and the funding outpoint.

Operators under a comment that begins "A mistake:" are not part of any
specification: each is a plausible bug with which a property must fail.

### How the models are cut

* `NodeSync`. `getFresh` depends on `getStored` (`src/sync/sync_node.js:81`), so
  the row is read before the graph: this order is what makes an update that
  passes the `_rev` guard never older than the row. A 404 becomes no fresh
  details. A reply lost after the write is `CallFails` at `announce`; the retry
  then reads its own write and announces nothing. `SyncQuietly` stands for the runs
  of `syncChannel` and `eventPolicyUpdated`, which drop what `syncNode` returns.
  What a node announces may repeat earlier values; `NothingReturns` names
  the histories that change something back, which finding 1 is about.
* `ChannelSync`. `executeUpdate` depends on the update only and `syncNodes` on the
  graph only, so they run side by side: an attempt can fail in `syncNodes` while its
  update is on its way (`stray`). `executeCreate` waits for the nodes. The
  `syncNode` calls are one step each here; what they do to the nodes table is
  `NodeSync`. A call succeeds without a row when LND does not know the node
  (`src/sync/sync_node.js:87-90`), which may be any of `Obscure`: `unseen[c]` keeps
  the nodes for which that happened on behalf of a channel.
* `HtlcSync`. A forward's update lists `_rev` on one side only
  (`src/sync/update_forward_htlc.js:186`), so `changesToRecord` sets it to
  undefined after adding the increment. Whether a database drops the field or
  keeps the old value is its own affair: both are modelled (`NextRevs`).
* `LinkSync`. The three tables have one shape and differ in what an update
  compares: a policy's attributes include its `updated_at`, a peer that is
  not listed is disconnected, a channel that is not listed and a policy without
  details are left alone. What comes before the first read - `syncNode` for a
  policy and a peer, ninety seconds for a channel - only takes time, so a run
  may stay at `getStored` for any while. A peer that tells no features keeps those
  that are stored (`Tells`, `src/sync/peer_update.js:74`). No subscription is wired to
  `eventPeerConnection`; it is modelled as it is written. A row that is new is
  announced by none of the three handlers.
* `ChangesSubscription`. An `error` of one subscription removes the listeners of
  all three. A failed `getWalletInfo` calls the loop back too and removes
  nothing. One that answers after the error still attaches the handlers that
  wait for it (`src/events/sync_from_data_events.js:111`), to subscriptions that
  were given up (`"late"`); whether such a stream still delivers is LND's affair,
  so an event reaches any of them or none. Where the loop comes to its end a second
  time the code throws, as the callback of `asyncDoUntil` may be called once; the model
  counts the ends.
* `ForwardRules`. The handler of a request is cut at each stage that may wait; the
  checks after the last wait (block, limit, age) are one step, because nothing
  comes between them. A stage that has nothing to wait for is a step too, which
  allows a few orders more than the program has. A lookup goes on after another
  one failed and still fills the cache. Time goes by the hour, which is the
  window of the limit; LND notifies of a block within the hour.
* `PeerConnection`, `FeeUpdate`, `ChannelWatch`, `Broadcast`. LND's side - peers,
  channels, policies, blocks - moves between any two steps and tells its
  subscribers in order (`inbox`, `cast.blocks`); a subscription may break. What a
  call knew is forgotten once it is over. LND may store a fee rate that is off by
  one, which `updateChannelFee` takes for done (`FeeRateBuffer`, `IsNear`,
  `src/peers/update_channel_fee.js:166`). A second answer of a broadcast throws
  (`asyncAuto` allows one); the model counts both.
* `Paging`. LND orders rows by when they were added, and gives them a time of its
  clock, which may be set back. A page is what lies before the last row read;
  rows are added, settled and confirmed while it is read.
* `CurrentRecords`. What one sync does to its row is the other modules' matter;
  here it works or fails. An error answers the call at once and stops only its
  own series.
* `Funding`. One table of locks, two calls of any kind and the keeper. A call
  goes through its stages; at each, the call to LND may fail. `failed` remembers
  which, so that what is left behind can be told from it. A call that was
  answered early (a user's refusal, a throw) leaves what the code leaves.
* `NodeFunds`, `ChainRecords`, `Liquidity`. A query is the set of LND's answers it
  still waits for, each taken at a moment of its own, and then the computation;
  `moved` or `still` remembers what happened meanwhile. `getLiquidity` is the call
  of the channels beside that of the wallet, and after the latter, if a maximum is
  given, that of the graph: its policies come in some order and without the channels
  that the graph lacks (`Rates`), and only channels whose peer is there are listed
  (`Offline`). The payments of pending channels are not counted by
  `detailedBalances`: it asks for `is_outgoing`
  (`src/nodes/detailed_balances.js:111`), and what LND lists of a pending channel
  has `is_incoming` alone (`src/chain/get_transaction_record.js:81`).

The modules that share nothing but LND are composed by a variable `subject`,
chosen in the initial state: only its subject moves in a behaviour, which is what a
product of modules that do not interact amounts to.

## 3. Runs

| Run | States | What it shows |
|---|---|---|
| `node_sync` | 293 k | Two runs race on one row through three announcements, one failed call, three attempts and a quiet run. The table never goes back, no revision is announced twice, every revision is announced when nothing failed, and the table follows the graph once the handlers are done and, in the end, whatever happened, unless the node changed something back. `IInv`, the invariant of the proofs, holds; `NodeSync` refines `Replica`. |
| `node_flapping` | violation | A node that changes its alias and changes it back during one run can be stored with the alias in between, with no handler left. |
| `channel_sync` | 467 k | Three handlers of one channel, one failed call, three events: nothing stored is lost, the channel is added once and only after its nodes (or after LND did not know them), the capacity is filled in once, a closing that meets no sync is recorded and announced, an open channel is stored in the end. |
| `channel_close_lost` | violation | A closing that is handled while the create is under way is lost. |
| `htlc_sync` | 208 k | One HTLC of each kind with every sequence of reports, three handlers, a failed call and two repeated reports. |
| `htlc_overlap` | violation | When the handlers of two reports overlap, a settled payment can be set back to in flight for good. |
| `link_sync` | 371 k | A policy, a peer or an own channel through every sequence of three changes, turning, turning back and a peer without features included, two runs, one of them quiet, and a failed call. Once the runs are done the row is as LND has it (`LinkInv`, `TableFollows`): always for a policy, because its time is compared; for the others if no run was under way at the last change. What was announced adds up to the turns of the row. |
| `changes_subscription` | 91 k | Four generations under every order of errors, late and failed `getWalletInfo` calls, timers and listeners. Whenever no timer runs, a consumer that has always listened is served (`ServedUnlessRestarting`), and an event is handled once, and once more at most for each `getWalletInfo` that failed or came late (`DuplicatesAreCounted`). |
| `forward_rules` | 531 k | Two requests under one rule of each kind, over two peers of which one has two channels; a block, an hour, a failed lookup and a stop come between any two steps. Each request is answered once and for good, the lists hold of the peers, no young channel gets through although the known height can be old, and the limit is exceeded by no request but those decided between the answer to another and its event (`rushed`). `RulesInv`, the invariant of the proofs, holds. |
| `forward_first_block` | violation | A request that comes before the first block notification makes an old tip pass for a recent one. |
| `lnd_calls` | 140 k | A wait, a dial and a probe while peers come and go; two fee updates over a channel that opens and closes; the monitor, the stop and the hunt over two channels; a broadcast and a search over four blocks; payments, invoices and rebalances of two nodes; a pass over every combination of rows, and two handlers of one block. Each is answered once, with a reason where it failed; an update that ran alone changed what it was asked, a fee rate within one, and nothing else; a closing that lasts is told; what is paged is whole; what waits ends. |
| `wallet` | 552 k | Two calls of any kind and the keeper over two coins, with every call failing and every lock lapsing; a wallet with a payment and its replacement, a split, a channel's funding and its sweep, asked for its balance; two channels whose closes are spent and spent again, asked for what a transaction was; three channels of two peers, asked for their liquidity. Who is left with which lock (`FundingInv`); the balances come to what the node owns in one outcome of its transactions, less what the code leaves out, an opening channel's anchor and a closing one's payment (`AllIsCounted`); the answers about records, liquidity, the channel and the confirmed coins are true of what LND had meanwhile (`AnswersAreTrue`, the invariants of the three modules in one). |

The four violations are the project's findings. Each is a run of its own whose
property quotes what the source promises. The passing runs state the same
promise with the exception that makes it true (`NothingReturns`, `overlap`),
so what is lost and what is kept stand side by side.

**Bounds, and why they are enough.** Rows of different keys share nothing, so
one node, one channel, one HTLC and one link are enough; keys interact only through
`syncChannel`'s two nodes, which are both there. A lost update needs two
runs; three channel handlers are two syncs and a closing. `MaxTries` stands
for the 1000 attempts of `asyncRetry`: three tries are one more than the
conflicts that one fault and one competing run cause, so that giving up as well as
coming through happen. One fault may hit any call at any step. Three
announcements are the least for a change and its reversal. Four generations
allow a failed lookup, a failed subscription and the restarts of both. Two
requests are the least that exceed a limit of one; a new block and a new hour
are the least that make a height, a tip and a pending forward old. Two
updates are the least that undo each other's field; `Fields` are one that is
compared afterwards and one that is not. Lock times lie before, at and behind
the heights of a run, so that each boundary is met. A page of one row makes two
rows two pages. Two calls and the keeper over two coins are the least in which a
coin is wanted twice and a lock of several fails. The transactions of a `Scene`
are chosen so that each category of a balance occurs, and versions of one
transaction too. One move of the channels during a query of liquidity is the least
that tears it.

**Fairness.** `WF` of each run's next step: LND and the database answer every call
in the end, with a result or an error, and `setTimeout` fires. Nothing is assumed of
new events, faults, the consumer or which run goes first: LND may stop reporting at
any moment. `Quiescent` is the idle subscription, the only state in which nothing
but the environment moves; so a deadlock would be one. The exception is the loop of
`ChangesSubscription`, which goes on by itself only while the bounds allow; its
environment always has a step (`ConsumerTurns`). In `lnd_calls` the fairness is that
of the calls' own steps: streams deliver, timers fire, a poll is answered. The fee
updates, the probes and all queries of `wallet` are given none: they may stop
anywhere. `InputsAreRelocked` needs that time passes (`WF` of `Tick`) and that a
lock that can be taken again and again is not refused for ever (`SF` of `Relock`):
LND may fail it any number of times in between.

## 4. Proofs

Every inductive invariant below, but for one part of the last, was first checked by
TLC on the run of its module; where it is not listed in the run's configuration (a
proof module is not part of a run), the number of states it held in is given. The
steps of a proof follow the shape of the code: one lemma for each action, and under
it one step for each part of the invariant the action can disturb.

### Node sync

`NodeSyncProofs` proves, for every set of nodes, every number of runs, every
history and every bound, from `NodeSyncAssumption` (the bounds are naturals,
histories are functions into details) and `NoRecordAssumption` (the absence of a
row is no row), both evaluated by TLC on every run:

| Theorem | Statement |
|---|---|
| `TypeCorrect` | `Spec => []TypeOK`, the first part of `IInv` |
| `IInvHolds` | `Spec => []IInv` |
| `NeverStale` | `Spec => NoStaleOverwrite` |
| `NeverTwice` | `Spec => []AnnouncedOnce` |
| `InSyncOnceDone` | `Spec => []SyncedAtRest` |
| `NodesTableIsAReplica` | `Spec => ImplementsReplica` |
| `EveryRevisionAnnounced` | `Spec => []AnnouncedAtRest` |

None of these is inductive. Take `NoStaleOverwrite`: an update that passes the
guard could still be older if the run had asked LND before it read the row.
`IInv` says what prevents it, in named parts:

* `RecordsReflect`: a row holds the details of the announcement it was taken
  from (`asOf`), and was revised less often than the node was announced;
* `RunsAreSound`: what a run read was the row at some time (`Earlier`: the same
  revision is the same row), and its fresh details are no older than that row;
* `EventsAreOfRevisions`, `WritersDiffer`: only written revisions are announced,
  and no two runs that wrote hold the same one. Together with the guard they
  give `AnnouncedOnce`;
* `LateIsInHand`: while the row does not show the last announcement, some run will
  still compare it with the latest announcement. With no run in flight the row is
  current: `SyncedAtRest`.

There is one lemma per action (`...Keeps`), one step in it for each part the
action can disturb; lemmas about `Reflects` and `Earlier` are stated once. The
refinement proof shows that each step is a `Publish`, a `Refresh` or a stutter.
`InSyncOnceDone` covers announcements that repeat a value, those that only change
features and those without any; it excepts a node that takes up again what it had
changed (`NothingReturns`), which is finding 1. Because equal values do not tell
announcements apart, `Earlier` says of the features changed between two reads that
they are of an announcement in between.
`EveryRevisionAnnounced` has an invariant of its own, `AnnouncedInv` (248,256 states
of a smaller instance): as long as no call failed and no run was quiet, each
revision of a row is announced or in the hands of a run that wrote it and is about
to announce it. At rest there is no such run.

### Channel sync

`ChannelSyncProofs` proves, for any channels, nodes, handlers, attempts, faults and
events, from `ChannelSyncAssumption` and `NoChannelRecord`:

| Theorem | Statement |
|---|---|
| `ChannelTypeCorrect` | `Spec => []TypeOK` |
| `NothingIsForgotten` | `Spec => NothingForgotten` |
| `ChannelInvHolds` | `Spec => []ChannelInv` |
| `ClosedWhenAloneHolds` | `Spec => []ClosedWhenAlone` |

The invariant has three parts (checked in all 467,082 states of `channel_sync`).
`RowInv` says how what a sync has read relates to the row it writes: the row is
there, not older, and if it is the same one it lacks its capacity still
(`NotNewer`); the same of the update an abandoned attempt left under way
(`StrayIsSound`), without which the update could write over a row that has moved on.
`AddedInv`: while the run that created a row is about to announce it, nobody has,
and it is the only one. `CloseInv`: unless the closing met a sync under way
(`overlap`), no sync comes after it either (`Alone`), so that the row a marking has
read still fits when it writes (`MarkerIsSound`) and the channel is marked or in the
hands of a handler that will mark it (`GoneIsMarked`). The exception is real: with a
sync under way the closing is lost (finding 2).

### HTLC sync

`HtlcSyncProofs` proves, for any HTLCs, reports, handlers, attempts, faults and
repeated reports, from `HtlcSyncAssumption`:

| Theorem | Statement |
|---|---|
| `HtlcTypeCorrect` | `Spec => []TypeOK` |
| `HtlcInvHolds` | `Spec => []HtlcInv` |
| `ReportedWhenSerialHolds` | `Spec => []ReportedWhenSerial` |

The invariant, `HtlcIInv` (1.85 M states, with larger bounds than those of the
run), is stated HTLC by HTLC, because a step concerns one and leaves the others as
they are. `FromReports` ties rows and handlers to reports that were sent;
`CreatedOnce` and `ResolvedOnce` count who may still announce what; `Serial`
follows an HTLC whose handlers never overlapped from one report to the next; and
`Announced` adds, where nothing failed, that what its row says has been announced
unless the handler about to do so is still there. `ResolvedLast`, a part of the
assumption, says of LND that the outcome of an HTLC is its last report and comes
once, and that a received one is reported when it has its outcome; the three
handlers are subscribed to such streams.

### The subscription

`ChangesSubscriptionProofs` proves, for any number of generations and events and
from `ChangesSubscriptionAssumption` alone:

| Theorem | Statement |
|---|---|
| `LoopTypeCorrect` | `Spec => []TypeOK` |
| `NoLoopIsLost` | `Spec => []LoopsAreConserved` |
| `ListenersAreServed` | `Spec => []ServedUnlessRestarting` |
| `DuplicatesAreFew` | `Spec => []DuplicatesAreCounted` |

The invariant is `LoopInv` (in all 90,938 states of the run). Its heart is the
conservation law: subscribed generations, timers and ends are one more than the
failed lookups. An error moves a loop from the first to the second and a restart
moves it back or to the third, which comes down to the cardinality of a set that
loses or gains one element. The law gives both theorems by counting. With no timer and
no end, one more generation is subscribed than lookups have failed, and each
failure is of one generation (`FailuresAreCounted`); so one that is subscribed has
not failed, and it has asked (`SubscribedHasAsked`). And whatever handles an
event is subscribed or was answered late.

### Policies, peers and own channels

`LinkSyncProofs` proves, for any links, histories and numbers of runs, attempts
and faults, from `LinkSyncAssumption` and `NoLinkRecord`:

| Theorem | Statement |
|---|---|
| `InvariantHolds` | `Spec => []LinkInv` |
| `TableIsFollowed` | `Spec => []TableFollows` |
| `PoliciesAreOfTheirTime` | `Spec => []PolicyIsOfItsTime` |
| `EventsAddUp` | `Spec => []EventsFollowTheTable` |

`LinkInv` is `IInv` for rows that can turn back. `Reflects` ties a row to the
state it was taken from (`asOf`); for a policy that state is its `updated_at`,
which is `PolicyIsOfItsTime`. A run that finds nothing to do is where the kinds
part: for a policy an equal row is a row of the same state (`UnchangedSays`), so
it is not late; for a peer or a channel it may be an older row that looks alike,
and only `RunsAreFresh` helps, which says that a run begun after the last change
holds the row that is there unless that row is already right. `overlap` marks the
links for which this is not so. `LateIsInHand` then gives `TableFollows`. A run
that moves without writing is covered by one lemma, `RunMoves`; the two writes
by `RunWrites`.

`EventsAddUp` is about behaviours without failed calls and quiet runs: a lost reply
and a quiet run turn a row and announce nothing. It needs a sum over the runs in
flight: each run that has written a turn of the row and not announced it yet owes
one event. `CountInv` (139,581 states of a smaller instance) says that events and
debts together are the turns of the row since it was created (`Balance`); announcing
moves a debt to the events.

### Forward request rules

`ForwardRulesProofs` proves, for any requests, channels, rules and bounds, from
`ForwardRulesAssumption`:

| Theorem | Statement |
|---|---|
| `ForwardTypeCorrect` | `Spec => []TypeOK` |
| `RulesInvHolds` | `Spec => []RulesInv` |
| `YoungChannelsAlwaysWait` | `Spec => []YoungChannelsWait` |
| `LimitAlwaysHolds` | `Spec => []LimitHolds` |
| `AnswersAlwaysStand` | `Spec => AnswersStand` |
| `ListsAlwaysKept` | `Spec => []ListsAreKept` |

The known height may be set back by a late lookup, so `YoungChannelsWait` rests
on `HeightsAreMined`: whatever handlers and lookups hold, no height is ahead of
the chain. `LimitHolds` rests on `ForwardsAreTimed`, which ties the table of
pending forwards to what LND has: when no accepted forward is unseen, those that
count are a subset of the table, and one more is at most the limit; when one is, the
request that is accepted is among the `rushed`, which the property leaves out.
`AnsweredIsDone` says that a handler with a step left has not answered. What a
step does to handlers is stated once (`HandlersMoveOn`), so that the invariant
needs one lemma per kind of step.

`ListsAlwaysKept` has the invariant `ListsInv` (531,330 states): what a stage of a
handler has found out of its channels still holds at the later ones and in the
answer (`Passed`). It is about peers where the code compares channels and keys, so it
needs one more assumption, `KeysAssumption`: LND orders the two keys of a channel by
their bytes, so that two channels of the same nodes list them alike, and no rule
names the node itself as a peer. The code finds the outgoing key by looking for the
keys of the incoming channel (`InKey`, `OutKey`), which for two channels of one peer
depends on that order; the forward back to its own peer, where it goes wrong, is
left out by the property and told in section 5.

### Calls to LND

`LndCallsProofs` proves, from `LndCallsAssumption` alone, for the specification
`MCSpec` that `MCLndCalls` composes of six modules:

| Theorem | Statement | Inductive invariant |
|---|---|---|
| `ConnectionHolds` | `MCSpec => []ConnectionInv` | `LinkedInv` |
| `FeeChangeKept` | `MCSpec => FeeChangeIsKept` | `FeeInv` |
| `WatchHolds` | `MCSpec => []WatchInv` | `LoopsInv` |
| `BroadcastHolds` | `MCSpec => []BroadcastInv` | `CastingInv` |
| `CurrentHolds` | `MCSpec => []Current!CurrentInv` | `PassInv`, `BlocksInv` |
| `AnswersHold` | `MCSpec => []AnswersAreWhole` | `ReadInv` |

These invariants were checked in all 140,341 states of `lnd_calls`. Each module
has its own part, and its steps leave the variables of the others as they are; what
is composed at the end is therefore short.

* `LinkedInv`: a wait has its timer and its listener exactly while it waits
  (`IsAnsweredOnce`), and one that was told of its peer while the peer is not there
  has an excuse (`IsExcusable`). Only the second makes "missing" mean something: a
  peer that came and went between the event and the check of the list.
* `FeeInv` ties what an update that runs alone read, `before`, to the policy: they
  are equal up to its write, and after it the policy is `before` or `before` with
  the change, the fee rate within one (`KnowsThePolicy`). So the action property
  holds at the one step that answers with success.
* `LoopsInv`: what the monitor has told of a kind of pending it remembers, or the
  channel is past that kind (`MonitorInv`), and as no channel goes back a change is
  told once at most, and never what the first poll has found. Of `stopAllHtlcs` it
  says that an open channel without a block was not open when the list was asked for
  (`StopInv`).
* `CastingInv`: the heights in the stream of blocks, and the one that was asked
  for, have been mined; so a lock time found to be over is over, however late the
  answer of `getHeight` comes.
* `PassInv` and `BlocksInv`: what a series has begun and left behind is among the
  rows, until it fails; a handler of a block that stores it is the only one to
  tell of it.
* `ReadInv` is about pages. Up to the offset of a page, a row that was there at the
  beginning has been read and kept; a row that is not on the page lies ahead,
  or an older row would be in its way (`PageIsRead`), which cannot be while the clock
  is not set back (`IsInOrder`). Rows that come in are newer and never below the
  offset (`MeanwhileKeeps`). A page is a finite set of places put in order
  (`NewestFirst`); that there is such an order is shown by counting, for each place,
  those that are not smaller (`OrderExists`), where sorting would need induction.

The assumptions are those of the modules, all evaluated by TLC. `MaxHeight` and
`MaxTime` are positive because there is a first block and a first time; `Lnds` is
not empty because `getPayments` and `getAllInvoices` ask one node, and refuse a call
without it.

### Calls about the wallet

`WalletProofs` proves, from `WalletAssumption` alone, for any coins, channels,
transactions, calls, amounts, fees and times, for the specification `MCSpec` that
`MCWallet` composes:

| Theorem | Statement | Inductive invariant |
|---|---|---|
| `FundingHolds` | `MCSpec => []FundingInv` | `HeldInv` |
| `RecordsHold` | `MCSpec => []Records!RecordsInv` | `RecordsHeld` |
| `LiquidityHolds` | `MCSpec => []Flows!LiquidityInv` | `FlowsHeld` |
| `BalancesHold` | `MCSpec => []Balances!SafelyCounted` | `FundsHeld` |
| `AnswersHold` | `MCSpec => []AnswersAreTrue` | the three above together |

**Locks.** `FundingInv` says what is left when a call is over; that cannot be kept step by
step without saying what a call holds on its way. `HeldInv` (188,020 states, the part
of `wallet` about locks; 339,473 with locks that last two units of time) says it:
each stage belongs to one kind of call (`IsStaged`); a call's locks are those its
stage accounts for, `MayFund` and `MayBlock`, unless a lock, an unlock, a signature
or a refund has failed (`HasOnly`); the coins of a transaction, and those kept away
while another is funded, are held by the call or spent as long as no lock lapsed
(`HasClaimed`, `HasKeptAway`), so that LND, which chooses among the free ones, gives
none of them to anybody else; and no coin is claimed twice. A step of one call
concerns the others only through the locks, which `CallMoves` says once, and
`KeeperMoves` for the keeper and the chain; then there is one lemma for each action,
and one for all the ways in which the last of several locks is given up
(`OneIsUnlocked`).

`MaximumIsNearlyAll` adds and subtracts the value of a set of coins, which `Total`
computes by recursion over its subsets. Facts about such sums need induction over
the size of the set. The library's induction theorems take an operator and cannot be
used here; `AllNumbers` takes a set of numbers instead and follows from the least
number that is not in it, by `WFMin`, and `AllSubsets` says the same of the subsets
of a finite set. `FoldExists` shows with them that a fold of the subsets is there,
which a recursive function alone does not say.

**The queries.** The other three invariants have one shape: the lists a query holds
were all true of the same moment, that moment is the present one or one move
before it, and the answer is worked out in the step that closes the query.

* *Records.* `AskedInv` keeps the channels as they were when the query began
  (`before`), and `IsView` says of each list that it is of then or of now.
  `TrueRecords` then follows each of the lists that `transactionRecords` builds,
  filters and flattens: each record is true of the transaction and each channel it
  opened or closed has one, if the channel itself stayed in its list. That needs
  what flattening and listing a set return (`SetListed`, `Lists`, `Once`), again by
  `AllNumbers`, and that a search for the first of a list finds the only one.
* *Liquidity.* `AskInv` says that the open channels of a peer are listed as they
  are, but for one that opens between the two questions, and `ListedInv` what
  `getLiquidity` has heard so far. The sums over a function
  are folds (`Tally`, `SumIsFold`); they add up (`SumsAdd`), and so the four sums of
  `peerLiquidity` come to the capacities of the channels, less the payments that
  are settled. `RateIsAsked` is the fold that keeps the lowest fee rate; the top is
  read from a sorted list, and that there is one is shown by counting, for each
  place, those below it (`SortingExists`).
* *Balances.* `Ledger` keeps the books of the channel: what was put into it and has
  not left it (`staked`) is what would be counted of it and what is left out
  (`LeftOut`), in each of its states; the
  lemmas from `ChannelIsFunded` to `ChannelIsResolved` are its entries.
  `Settled`, `FreeIn` and `LockedIn` are the confirmed coins, those that LND lists and
  those that are locked. `NearTo` and `NearChan` say that lists from before and after
  a move, in any mixture, come to what is there but for what moved; each move is
  shown to keep both (`MovedWell`). The sum of a set may be taken apart at any
  element (`AnyOrder`), although the recursion chooses one; from that, `Miscounted`
  bounds what two overlapping sets of coins can be off by. So
  `ChannelsAreCounted` and `ConfirmedAreCounted` hold of every wallet.

The three inductive invariants are `RecordsHeld`, `FlowsHeld` and `FundsHeld`. TLC
checked their parts on all of `wallet` (552,246 states; of `IsPolicies`, which speaks
of any length, the part about each entry): `WorldInv`, `IsQuery` and
`AskedInv`; `ChansInv` and `AskInv`; `FundsInv`, which is `AllThere` and `Ledger`. Only
`QueryInv` it cannot evaluate, which says that there was a moment of which all that
a query of the balances has heard was true: it would have to try every wallet.

The assumptions are: coins and channels are finitely many; the keeper is not
nobody; dust is at least one token (it is 546, `src/chain/get_max_fund_amount.js:13`),
without which the range that `MaximumIsNearlyAll` allows, up to `Dust + Adjustment -
1`, could be empty; amounts are naturals. Of the chain: each coin is created by one
transaction; a closing spends the output of its channel, the outputs and the
closings of two channels differ, and the payment of a closed channel is resolved by a
transaction that follows its closing; the opening and the sweep of a channel are two
transactions and not mined at the beginning. All are evaluated by TLC.

### Only model-checked

* Liveness: `EventuallySynced`, `EventuallyStored`, `EventuallyRecorded`,
  `EventuallyFollows`, `SubscribedAgain`, `EachIsAnswered`, `ClosingIsTold`,
  `CallsEnd`, `InputsAreRelocked`. TLAPS proves nothing about fairness.
* `AllIsCounted` of `wallet`: that the balances, less the conflicts, are those of one
  outcome of the unconfirmed transactions. The code marks a coin as conflicting when
  one listed before it was made of the same coin, which gives an outcome when, as in
  the scenes of the run, versions of a transaction share an input and nothing is built on
  them. It is not true of every wallet: of three transactions of which the second
  conflicts with the other two, the code marks two, and a coin made of a coin of one
  version does not conflict with the other version. So there is no theorem about any
  wallet to prove. What does hold of any wallet is `SafelyCounted`, and that is proved.

## 5. Findings

Findings 1 and 3 contradict `src/events/sync_from_data_events.js:21`, "Keep the local
db using data event streams"; 2 line 93 of that file; 4 line 109 of its own.

1. **A change and its reversal** (`src/sync/sync_node.js:142`). `updated_at` is
   left out of the comparison, so a run that read `a` and then `b` is not
   contradicted by another that found `a` unchanged. The last write is `b`.
2. **A closing lost** (`src/events/event_channel_closed.js:21`). No retry, and
   nothing looks at closed channels again.
3. **A payment in flight for good** (`src/sync/update_payment_htlc.js:144`). The
   time of a report is stored and never compared.
4. **An old tip taken for a new block**
   (`src/monitor/enforce_forward_request_rules.js:110`). The first block is told
   by `latest_block_at` being unset, and a request may have set it.

Noticed while reading, without a run.

* Sync: a stored `updated_at` is that of the first details for good
  (`src/sync/sync_node.js:142`, `src/sync/node_update.js:85`); after a failed
  `getWalletInfo` two generations may be subscribed and handle every event
  (`src/events/subscribe_to_changes.js:69`); `'block'` is documented among the
  events of `subscribeToChanges` and nothing emits it
  (`src/events/subscribe_to_changes.js:26`); `policy_added` is behind the early
  return of an event without updates (`src/events/event_policy_updated.js:40`); a
  payment that is first seen failed is announced as an attempt; after an error the
  other series of `syncCurrentRecords` go on.
* Forwards: one back to its own peer is accepted under `only_disallow` when the
  peer's key sorts before ours (`src/monitor/enforce_forward_request_rules.js:269`);
  requests decided before LND reports the forwards accepted just now exceed the
  limit (line 312; `LimitHolds` says that no others do).
* Funding: the fee of `getMaxFundAmount` subtracts from a list
  (`src/chain/get_max_fund_amount.js:172`); a refund whose fee is above the
  reserved amount throws out of a callback after the coins were locked
  (`src/funding/get_transit_refund.js`, `RefundThrows`); another call's trial lock
  makes a wallet look empty (`src/funding/is_external_funding.js:85`); an input is
  without a lock from its lapse until it is taken again
  (`src/funding/maintain_utxo_locks.js:82`, whose purpose is at line 15, "Keep
  input locks alive"); `signAndFundPsbt` goes on in the background after an early
  error.
* Balances and liquidity: two unconfirmed coins of one transaction count as a
  conflict, and the position in the list of unconfirmed coins is used on the full
  list (`src/nodes/conflicting_balances.js:36`); the anchor of a channel that is
  opening is not counted; nor are the payments of a closing channel, of which a
  comment says "Some in-flight payments will be in on-chain HTLCs"
  (`src/nodes/detailed_balances.js:107`), as LND does not say of these what the
  filter asks for (line 111); a fee rate of zero is taken for none, an unknown rate
  erases a known one, and the lowest rate is kept where a comment says "existing
  higher fee rate" (`src/peers/liquidity_tokens.js:41`).
* Records: a hash is reversed in place at each comparison
  (`src/chain/transaction_records.js:4`), so that only every other row of a list can
  match; the funding transaction of a channel that is closing is told as a spend;
  whether the peer is closing is told by `is_partner_initiated`, so that a channel
  the peer opened and this node closes is told as `peer_force_closing_channel`;
  records without a channel id are told twice.
* Paging: rows behind an older one are lost, which takes a clock set back.

## 6. Plan

In order of importance. Each item brings its run, mutants and map.

1. Done: the modules, runs and findings above.
2. Done: proofs about the sync core (`NodeSync`, `ChannelSync`, `HtlcSync`,
   `LinkSync`, `ChangesSubscription`), about `ForwardRules`, about the calls of
   `lnd_calls` and about those of `wallet`: its locks, records, liquidity and
   balances.
3. Left: the conflicts of `AllIsCounted` for chains of unconfirmed transactions,
   which takes a weaker statement of what is counted then.

## 7. Not modelled

* Wording of log lines, descriptions and number formats: no state, no decision.
* Addresses, encodings, and how a PSBT is taken apart and put together: the work of
  libraries outside the repository. `Funding` has them as one choice, a
  transaction or none.
* `graph/`, `get_graph_node`, `get_graph_pair`, `get_node_peers`, `find_key`,
  `get_network`: lookups whose answers are renamed, matched with a text or sorted
  for display; two read a web service.
* `update_for_node`, which nothing calls.
* The size in vbytes that `getNodeFunds` estimates, the sockets' names and waiting
  times of `connectPeer`, fees and messages of HTLCs.
* Liveness proofs stay with TLC, and so does what a recursive computation returns
  for every input (the installed provers have no induction over data).
