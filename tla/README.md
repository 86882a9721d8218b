# Signet node components: TLA+ models, model checking and proofs

Signet is a rollup whose blocks derive one-to-one from the blocks of a host
chain. The node follows the host through a *host notifier*, executes the rollup
block of every host block above the deploy height, keeps the result in a hot
and a cold store, and serves RPC readers. This directory models that control
flow, checks it with TLC on small instances and proves its main safety
properties with TLAPS for every instance.

## 1. Inventory

| Component (source under `src/crates/`) | State | Operations | What makes it correct |
|---|---|---|---|
| Signet node (`node/src/node.rs`) | hot and cold storage, status channel, chain events, tags | `start`, `start_inner`, `on_notification`, `on_host_revert`, `process_committed_chain`, `update_block_tags` | one linked chain in storage; stores agree; no block lost, repeated or left over; readers see what storage holds |
| Node builder (`node/src/builder.rs`) | genesis in hot and cold | `prebuild`, `build` | both genesis blocks are there before `start`, also after a stop in between |
| Block tags (`rpc/src/config/resolve.rs`) | three atomics | `update_all`, `rewind_to` | tags name stored blocks and are ordered |
| Host notifier contract (`node-types/src`) | none | `set_head`, `next_notification`, `send_finished_height` | notifications in host-chain order |
| RPC host notifier (`host-rpc/src`) | chain view, backfill cursor, last emitted block, cached tags, coalesced header | `drain_backfill`, `walk_chain`, `handle_new_head` | meets the contract although every RPC call races the host |
| Reth host notifier (`host-reth/src`) | database cursor, ExEx stream | `next_notification`, `DbBackfill::next_batch` | meets the contract across the switch from database to stream |
| Chain notifier (`rpc/src/config/chain_notifier.rs`) | broadcast channel, reorg ring buffer | `send_new_block`, `send_reorg`, `reorgs_since` | no reorganisation is lost to a reader |
| Filters (`rpc/src/interest/filters.rs`, `rpc/src/eth/endpoints.rs`) | per filter: next start block, last poll time | install, poll, uninstall, cleaner | a poller that applies what it gets holds the logs of the current chain |
| Subscriptions (`rpc/src/interest/subs.rs`) | per subscription: a token, a receiver, buffered items | subscribe, unsubscribe, the subscription task, the cleaner | the same for pushed events; a cancelled subscription falls silent and is cleaned |
| Blob cacher (`blobber/src`) | LRU cache, request channel | `fetch_blobs`, `signet_block`, retries, raced sources | one serving source suffices; giving up is an error, never an empty block |
| Block processor (`block-processor/src`) | none of its own | `process_block` | a stored block holds what its host block published, aliased by its own state |
| RPC context and endpoints (`rpc/src/config/ctx.rs`, `rpc/src/eth`, `debug`, `trace`, `signet`) | tracing semaphore; several reads per request | tag and block resolution, state reads, tracing | the parts of an answer are of one block; stored blocks are found; permits are returned |
| Gas oracle (`rpc/src/config/gas_oracle.rs`) | tip cache of two atomics | `suggest_tip_cap` | a tip is of the window it is asked for |
| Alias oracles (`host-rpc/src/alias.rs`, `host-reth/src/alias.rs`) | cache of positive answers; a state provider | `create`, `should_alias` | contracts, and only they, are aliased |

How they interact: the node owns the notifier and awaits it; it calls storage,
whose cold half is a background task with a queue; it shares tags and the
broadcast channel with the RPC server's tasks, which run at any time. The hard
behaviours are (a) reorganisations of the host at any moment, (b) stops between
any two awaits, with hot and cold at different heights, (c) readers between two
atomic stores, (d) RPC calls by number while the chain changes, (e) the bounded
view, buffers and channels. `PROJECT.json` lists them as hazards, line by line.

## 2. Modules

| Module | Models |
|---|---|
| `HostChain` | host blocks as hashes with a number and a parent; linked sequences; the pairing of host and rollup heights |
| `BlockTags` | the three tags and each of their stores |
| `SignetNode` | the node with its environment: host, notifier contract, storage, stops |
| `RollupChain` | the abstract promise: one linked chain that is never rewound below its final mark |
| `HostChainProofs` | lemmas about sequences and linked chains that the other proofs share |
| `SignetNodeProofs` | inductive invariants and theorems about what `SignetNode` stores and what its readers see, and the refinement of `RollupChain` |
| `HostFeed` | the abstract promise of a notifier: its receiver holds one linked chain, whose final part stays |
| `RethHostNotifier` | the notifier inside a reth node, with reth as its environment; implements `HostFeed` |
| `RethHostNotifierProofs` | inductive invariant and theorems about `RethHostNotifier` |
| `RpcHostNotifier` | the RPC notifier with its environment: provider, header subscription |
| `RpcHostNotifierProofs` | inductive invariants and theorems about `RpcHostNotifier` |
| `ChainFilters` | polling filters, the reorg ring buffer and the cleaner, with the node and the cold store as far as they see them |
| `ChainFiltersProofs` | inductive invariants and theorems about `ChainFilters` |
| `Subscriptions` | the broadcast channel, subscription tasks, the token table and its cleaner, one client connection |
| `SubscriptionsProofs` | inductive invariant and theorems about `Subscriptions` |
| `BlobCacher` | cache task, fetcher, retries and decoding |
| `AliasOracle` | both oracles, the RPC oracle's cache |
| `BlockProcessor` | `process_block` over `BlobCacher` and `AliasOracle`, under a host that moves |
| `BlockProcessorProofs` | inductive invariant and theorems about `BlockProcessor` with its two components |
| `RpcReaders` | the endpoints that read storage, the tracing semaphore, the gas oracle and its cache |
| `RpcReadersProofs` | inductive invariant and theorems about `RpcReaders` |
| `FeeHistory` | the reward walk of `eth_feeHistory`, against its definition |
| `MC...` | small block trees, transactions and workloads for TLC |

### SignetNode

A rollup block is represented by the host block it derives from, so `hot` and
`cold` are sequences of host blocks. `pc` names the await point or atomic store
the node task has reached; everything between two such points is one action.
`genesis` follows `prebuild`; `Reconcile`/`UnwindCold` are the reconciliation in
`start`; `StartInner` the rest of the start-up; `RevertBelowDeploy`, `DrainHot`,
`DrainCold`, `Rewind*`, `NotifyReorg` are `on_host_revert`; `Extract`,
`SkipBlock`, `ProcessBlock`, `AppendBlock` are `process_committed_chain`;
`FinishNotification`, `Update*`, `SendFinishedHeight` end a notification.
`ColdApply` is the cold store's task. `Stop` ends the process at any point, by
a kill or by any fallible call: memory is lost, storage stays, queued cold
appends are dropped. `seen` is the chain that a subscriber would build from the
events of the session.

The notifier is modelled by its contract (`node-types/src/notifier.rs`): the
first notification of a session starts at the `set_head` number, every later
one moves the delivered chain to a prefix of the canonical one, by a commit, a
revert or a reorg. `ResumeOnCanonical` states the one thing the contract leaves
open: whether the stored blocks are still canonical when a session resumes. The
code passes a number and cannot tell; see the hazards. The contract also takes a
notification's finalized number to be a height of the chain it leads to.
A reth host that is behind on its queue does not ensure that
(`reth_finished_held`); what `SignetNode` shows of the finalized tag, of finished
heights and of `RollupChain`'s final mark rests on it.

### RpcHostNotifier

`pc` is the RPC call awaited: the tip (`backfill`), a batch fetched by number in
any order (`fetch`), the subscription (`await`), the hash walk (`walk`, and
`rewalk` from the latest block after a stale hint). `feed` is the chain its
receiver holds. A walk and the fetches by hash depend on one hash only, so they
are one action; the provider knows the canonical chain and may have forgotten
other blocks. `Continuous`, `BackfillCeiling`, `Overlaps`, `ExtendView` and
`Below` are the code's helper computations. `cachedFin` stands for both cached
tags. A header's number is one above its parent's (`HeaderAssumption`), which the
provider's consensus checks. `Relied` is the lowest height the notifier relies
on: the oldest block of the view, now and after the header in hand, or the block
to resume after when the view is empty or the walk in hand is exhausted and will
empty it. The history variable `spared` says whether every reorganisation so far
has spared that height and a batch being fetched; the code relies on this without
stating it, and the properties that need it say so.

### ChainFilters

One filter, one request at a time. A request is split where the code lets others
in: `NewFilter` reads `latest` and `Install` inserts the filter; a poll takes
the reorganisations and rewinds the cursor under the shard lock (`Snapshot`),
reads `latest` (`ReadLatest`), reads cold storage (`ReadCold`, or `ReadFails`)
and commits cursor and poll time (`Commit`, which is also the early return with
`touch_poll_time`). The node appends, drains, rewinds `latest` and pushes to the
ring buffer in the order of `node.rs`. Every block has one matching log, so sets
of blocks stand for logs; `held` is what a client holds that drops the removed
logs of a poll and then adds the others, and `low` the lowest block it was ever
asked to follow. An `Instant` is the number of reorganisations sent before it:
polls and reorganisations are the only things the code orders by time. Ages are
counted in slots (12 seconds), with at most one reorganisation in each, the rate
the comment at `MAX_REORG_ENTRIES` assumes; `NextSlot` ages the filter and runs
the cleaner every `StaleSlots` slots. `Disturbances` names the events that break
`ClientHoldsChain` or `PollsSeeEveryReorg`, so that each has a run of its own
and the runs without it show that nothing else does.

### RethHostNotifier

`pc` is the phase of `next_notification`: a batch is planned (`NextBatch`), read
block by block (`ReadBlock`) and returned (`EmitBatch`); when none is left the
ExEx stream is pointed at the last block read (`Switch`) and its notifications
are forwarded (`LiveNotification`: commit, revert or reorganisation). The stream
is external: reth queues a notification for what changed since the last one
(`QueueNotification`), all or a first part of the blocks it added, and the
notifier takes it later. `queued` holds the chain each of them leads to; only
those that continue from the stream's head are modelled, as reth skips the
others. The tags are read when a notification is taken, so a receiver that is
behind gets an old branch with a finalized number of the new one, and
`SendFinishedHeight` looks the node's clamped height (`FinishedHeight`,
`node.rs`) up by number on the chain of yet another moment, or finds no header.
`FinishedIsFinal` is what still holds of the block it names; that the receiver
has it, `FinishedIsHeld`, does not (run `reth_finished_held`).
`feed` is what the receiver holds, `backfilled` the last height from the
database, which `HostFeed` takes as final. `ResumeOnCanonical` is the
same assumption as in `SignetNode`; with it `FALSE` and a fork below the resume
block, `ImplementsHostFeed` fails, as `set_head` carries no hash.

### Subscriptions

`events` is everything broadcast; the channel keeps the last `ChannelCapacity`
of it, and a task that is further behind skips (`missed`). A task is at its
select (`select`) or waits for permits (`send`). The branches of the select are
actions: an event, permits for half the channel's capacity, a cancellation, a
closed channel. The client's channel is shared with responses. `got` is what was
sent to the client, `late` counts what was sent after the cancellation.
`announced` is the chain after each event, so that `SubscriberHoldsChain` can
compare what a client holds with the chain its task was told of (`Told`), also
while it is behind.

### BlobCacher, AliasOracle, BlockProcessor

A request is queued, looked up in the LRU cache, tried at the synchronous source
and then raced over the asynchronous ones; a race that all lose is retried up to
`FetchRetries` times. A source answers with the first n blobs of a submission,
and `Lenient` ones with too few: what the beacon source does when the consensus
client has not all of them. `serving` is the set of sources that answer
completely in this behaviour; any other may fail or hang at any attempt.
`BlockProcessor` fetches, opens the oracle, looks up the senders one at a time
and stores the result, while the host extends and reorganises between any two of
these; `results` is what it stored. `BlockProcessorAssumption` says of the host's
transactions what execution guarantees: a contract sends in a block only if it was
deployed on the chain of that block, and no key has a deployed address.

### RpcReaders

A handler is a sequence of sets of reads (`EthBlock`, `DebugTraceBlock`, ...): a
set is a `try_join!`, whose reads happen in any order. A read is an action, and
the node may append, apply to cold, drain, truncate and rewind between any two
of them. An answer is described by the blocks it was read from (`from`), the
block of the state it was executed on (`base`), and ghosts: whether a revert
overlapped it (`rewound`), whether the stores had the block when it was asked
for (`stored`, `settled`), whether a part was empty (`whole`). A handler whose
client leaves is dropped while the task it spawned goes on (`gone`). The tracing
semaphore is a count and a queue of waiters; the tip cache is two variables
written one after the other.

## 3. Runs

| Run | Shows |
|---|---|
| `node_stops` | storage safety and the refinement of `RollupChain`, with one reorganisation and one stop anywhere, and deploy height 2, so that reverts end below, at and above it |
| `node_readers` | events, tags, status and finished height across one reorganisation and one stop anywhere, deploy height 1, host heights up to 3; `CatchesUp` under fairness |
| `rpc_host` | the RPC notifier under any host with two reorganisations: view and feed correspond and reverts reach the tip, always; one linked chain, and the canonical one up to half a buffer when it sleeps, while the host spares what is relied on |
| `rpc_order` | without that, the feed is not in host order (finding) |
| `reth_host` | the reth notifier implements `HostFeed` across the switch from database to stream and reaches the tip, and a finished height names a block that stays, with two reorganisations, up to two notifications in the queue and a batch setting of 0 |
| `reth_finished_held` | with one reorganisation and a receiver that is behind, the block of a finished height is one the receiver never had (finding) |
| `filters_calm` | a poller holds exactly the logs of the current chain if reverts and requests do not overlap, cold storage has what `latest` names and no read fails in a poll with removals to report; a ring buffer with one place per slot of the TTL loses nothing to a filter polled within the TTL; up to three reorganisations |
| `filters_reorg_in_poll` | a reorganisation during a poll breaks `ClientHoldsChain` (finding) |
| `subscriptions` | a subscriber that missed nothing holds the announced chain; cancellation silences and cleans; buffered items are sent; with lag, full and closed channels, disconnection and shutdown in any order |
| `block_processor` | stored blocks hold what was published and alias by their own state, and one serving source is enough for an answer, with failing, hanging and lenient sources and two reorganisations |
| `rpc_readers` | every read endpoint against one revert; two clients at one tracing permit |
| `rewards_at_percentiles` | the reward walk counts a transaction's gas again for the next percentile (finding) |

Conditions in the properties. Several properties name the case in which the code
does not promise them, rather than leave it out of the model:
`SubscriberHoldsChain` is about subscribers that did not lag, `AnswersAgree`
about requests no revert overlapped (their later reads by number may be of
another fork), `StoredAsPublished` about blobs no source returned short,
`AliasesAreTheBlocks` about blocks the host held through the lookups,
`TipIsOfWindow` about a chain without reverts and one client.

Bounds. Host trees have two or three branches, so that reorganisations of
different depth, onto new and onto shorter chains, happen. Heights up to 3 or 4
give rollup chains of two or three blocks: enough for a revert that keeps a
block, drains two, and straddles the deploy height. One stop suffices for every
"stop here, then restart" scenario because a stop resets all memory. The view
capacity (3) is below the chain length, so eviction, exhaustion and the
half-buffer ceiling occur. The queue of the ExEx stream holds two notifications,
so that a receiver has one of each branch before it. The filter runs use two disjoint branches, a TTL of
two slots and a ring buffer of two entries, the proportion of the code's
constants (25 slots, 25 entries); three reorganisations overrun the buffer. The
subscription run has a broadcast channel of two places and a client channel of
four, half of which a task asks for at a time, so both fill. The blob run has a
cache and a queue of one place, three keys and three asynchronous sources:
evictions, full queues and mixed races occur. The reader run gives one client
every operation in turn (one of each group with the same reads), and two clients
one tracing permit; heights up to 3 and windows of 2 let a revert hit a window
in the middle. Deadlock is not checked where a bounded host lets the system come
to rest.

Fairness. `node_readers`: weak fairness of the node task, the cold task and the
notifier. `reth_host`: of the node asking and of reth announcing its chain.
`subscriptions`: of the subscription tasks, the cleaner thread and a client that
reads. `block_processor`: of the cacher, its retries and the serving sources,
not of the others. `rpc_readers`: of each handler, which the runtime polls.
Nothing is assumed of the host, of stops, of restarts, or of clients leaving.

### Observations without a run

What the models show of the code, beyond the findings in `PROJECT.json`:

- `update_all` stores the finalized and safe tags before `latest`
  (`rpc/src/config/resolve.rs:14-18`, `153`), and `drain_above` runs before
  `rewind_to` (`node/src/node.rs:428-432`): readers in between see inverted tags
  or a `latest` that is not stored. `TagsPointAtStoredBlocks` holds outside them.
- `process_committed_chain` announces a block before it is stored, while the doc
  of `NewBlockNotification` calls it "available in storage".
- A backfill batch is fetched by number (`host-rpc/src/notifier.rs:52-53`), so a
  reorganisation in between mixes forks in one segment; `spared` excludes it.
- When the host goes back to a block still in the view, the new head is "already
  seen" and nothing is emitted: the receiver stays ahead of the host until the
  next header. `IdleIsCurrent` allows exactly this.
- A walk that exhausts the view clears it, and the resumed backfill starts after
  the last emitted block. A reorganisation between the header and that walk can
  take this block away although the view's oldest block survives; with the view
  empty, the next block is then emitted without a parent check. This was found
  when the proof of `FeedInHostOrderIfSpared` failed, and is what the second case
  of `Relied` excludes.
- In `ChainFilters`, other `Disturbances` than the run's: `read_failure` (a poll
  that fails after its cursor was rewound loses the removals,
  `interest/filters.rs:102-104`), `cold_lag` (a poll that reads cold storage
  before it has what `latest` names moves past it), `late_poll` (a filter polled
  between one and two TTLs may have missed more than the buffer keeps: the
  cleaner's interval is the TTL too).
- A subscription whose client channel closes before its connection is cancelled
  ends without cancelling its token, so its table entry stays until then. A
  `notification_capacity` of 1 makes half of it zero permits; the assumption
  excludes it.
- Too few blobs from a lenient source do not decode, which `signet_block` turns
  into an empty block. The RPC oracle keeps positive answers of forks that are
  gone.
- The tracing permit is held by the handler's future, not by the task it
  spawned: when a client leaves, its trace runs on without a permit.
  `TracingBounded` counts handlers that are still there.
- The snapshot of a state read is opened before the tag is read, so account
  state may be older than the tag, the opposite of what the comment at
  `rpc/src/eth/helpers.rs:116-118` says; `AnswersAgree` allows it for accounts.
- The tip cache is keyed by a number, so it survives a reorganisation to the
  same height, and two writers can pair one's block with the other's tip. A
  `gas_oracle_block_count` of 0 would underflow the window.
- The timeout of `callBundle` is looked at before the simulation only, which
  does not yield. The validation of reward percentiles looks at the first of
  each pair, so a last or only percentile above 100 passes.

## 4. Proofs

`SignetNodeProofs` proves, for every host tree, deploy height and bound:

- `TypeCorrect`, `StoresAlwaysAgree`, `HandlersNeverFail`: from the assumptions
  on the constants only;
- `RollupAlwaysLinked`, `StoreFollowsHost`: with the hypothesis
  `ResumeOnCanonical`, because a session that resumes on another fork stores it
  on top of the old one.

The argument. `StoresAgree` is not inductive: during an append cold lags behind
hot by exactly the queued blocks, and between the halves of an unwind cold is
longer than hot. `StorePart` records both: cold
agrees with hot where both hold a block, every queued append is the hot block of
the height it will land on, and outside the two unwinds hot is exactly as high
as cold and the queue together. `NeverFails` needs to know at every control point how the
heights of storage, of the delivered chain and of the notification relate;
`HeightPart` says it, one conjunct per phase (settled, reverting, draining,
extracting, committing, appending). Together with the shape of the delivered
chain (`ChainPart`) and the state of the session (`SessionPart`) they form
`SafeInv`, which every action preserves (`SafeInvariance`). `ContentPart` adds
which blocks storage holds, `CanonInv`, from which the last two theorems follow.

It also proves what the readers of the node see:

- `EventsAlwaysTellTheChain`, `TagsAlwaysPointAtStoredBlocks`,
  `ReportsAlwaysCurrent`, `FinishedBlocksAlwaysStay`: from the assumptions on
  the constants only;
- `NodeImplementsRollupChain`, the refinement of `RollupChain`, with
  `ResumeOnCanonical`.

The argument. `ReaderInv` adds to `SafeInv` one part for each reader.
`EventsPart` follows a subscriber through the steps in which its chain is not the
stored one: one block ahead between the NewBlock event and the append, behind
between the drain and the Reorg event. `TagsPart` does the same for the tags,
`ReportsPart` for the status channel and the latest tag. That a revert never
goes below the finalized tag or the finished height is not visible in the node's
own state: it holds because the host never reorganises its finalized block.
`FinalityPart` says that the delivered chain up to that height is the host's, and
`MarkPart` that the tag and the finished height are below every height from
which a later revert can start. Both are needed for `FinishedBlocksAlwaysStay`
and for the rewind step of the refinement.

`RethHostNotifierProofs` proves, for every block tree, resume height, set of
batch settings, number of reorganisations and length of the queue:

- `TypeCorrect` and `FinishedAlwaysFinal`, from the assumptions on the constants:
  no batch exceeds its size, and a finished block stays on reth's chain;
- `RethImplementsHostFeed`, the refinement of `HostFeed`, with the hypothesis
  `ResumeOnCanonical`.

The argument. `IsChain(feed)` is not inductive: a batch is read by number while
reth moves. `CursorPart` and `BatchPart` say that the receiver holds the host's
chain below the cursor and that all that was read since the resume height is at
or below the finalized block, which no reorganisation crosses. At the switch the
stream is given the header below the cursor, so `streamed = feed` (`LivePart`),
and from there both move from one queued chain to the next. `QueuePart` says that
every chain in the queue, whatever branch it is on, shares with reth's chain all
that was read from the database: it was queued after those blocks were final, and
`FinalPart` keeps them so. The common ancestor of a notification is therefore
never below `backfilled`, which is the step of the refinement (`LiveFacts`). The
lemmas `HostMoves` and `HostKeeps` say what reth keeps when it moves.
`FinishedAlwaysFinal` needs none of this, and no `ResumeOnCanonical`:
`FinishedInv` says that a notification's finalized number is at most reth's, so
that the hash found for a height below it is of a final block (`ReportFacts`).

`RpcHostNotifierProofs` proves, for every block tree, buffer capacity, backfill
batch and set of reorganisations:

- `TypeCorrect`, `ViewAlwaysMirrorsFeed`, `RevertsAlwaysReachTheTip`, whatever
  the host does;
- `FeedAlwaysInHostOrder` and `IdleAlwaysCurrent`, which say what they say while
  `spared` holds; `MCRpcFeedInHostOrder` shows that the first one fails without it.

The argument. `SafeInv` holds under every host: `HostPart` (the host's chain is
linked), `ControlPart` (what each control point has in its local variables) and
`ViewPart` (the view is the end of the receiver's chain). A walk follows parent
hashes down to the first block that is in the view, a recursion whose result
(`Path`) is characterised by well-founded induction on heights. `SparedPart` holds the
rest: the receiver's chain is linked (`FeedPart`), the oldest block of the view
is on the host's chain and on the chain of the unread header (`AnchorPart`), and
what a walk or a backfill has collected so far continues the receiver's chain
when it is sent (`WalkPart`). `IdlePart` says how far a notifier may be from the
host's tip when it sleeps.

`BlockProcessorProofs` proves, for every chain, set of transactions, cache size
and number of retries:

- `TypeCorrect`, `AlwaysStoredAsPublished`, `AliasesAlwaysTheBlocks`: from the
  assumptions on the constants only.

The argument. `ProcessorInv` follows a blob from its sources to the stored block:
`RequestPart` and `SubmissionPart` relate the request in flight to the block that
is being processed, `BlobPart` says that what is cached or answered for a
transaction is complete unless some source was short of it, `LookupPart` that an
oracle's lookup and its cache are about the block's own chain, and `StoredPart`
that the stored blocks were made from these. Every race of the sources, every
retry and every eviction is one step of one of these parts.

`ChainFiltersProofs` proves, for every ring buffer size, TTL and chain:

- `TypeCorrect`, under every disturbance;
- `PollsAlwaysSeeEveryReorg`, if no poll comes after the TTL and the buffer has a
  place for every slot of it (`StaleSlots <= MaxReorgEntries`, the relation the
  comment at `MAX_REORG_ENTRIES` claims: 25 slots and 25 entries);
- `ClientAlwaysHoldsChain`, with no disturbance and the same relation.

The argument. `SafeInv` says that the ring holds the last reorganisations that
were sent, in order (`RingPart`), that the filter's cursor and the chain fit
(`ChainPart`) and that no more reorganisations were sent since the last poll than
the filter's age in slots (`AgePart`). `ClientHoldsChain` speaks of the state
after a poll, and between polls the client lags behind by every reorganisation
since. `HoldPart` says by how much: below the lowest ancestor among the pending
reorganisations and the one in flight, the client holds the chain; above it, it
holds exactly the blocks that the next poll reports as removed. `PollPart` carries this
through the steps of a poll, `QuietPart` says which steps cannot overlap one.

`SubscriptionsProofs` proves, for every chain, filter, capacity of both channels
and number of subscriptions:

- `TypeCorrect`, `SubscriberAlwaysHoldsChain`, `CancelledAlwaysSilent`,
  `EntriesAlwaysHaveTasks`: from the assumptions on the constants only.

The argument. `ChainPart` says that the events are the history of the announced
chain, so that the event a task receives next takes the chain it was told of to
the following one. `HoldPart` follows a client through it: a logs client holds
exactly the matching logs; a newHeads client, which is not told of
reorganisations, holds the chain up to its height and stale headers above, until
the next header replaces them. `LogsFollow` and `HeadsFollow` are the two steps.
`ChannelPart` says that permits and unread messages together fit in the client's
channel and that only a task about to send holds permits, at most half the
channel; with `SilencePart` that bounds what a cancelled subscription still
sends. `TablePart` needs that the table is empty once the senders are gone.

`RpcReadersProofs` proves, for every set of clients, workload, chain, window,
range and number of reverts and permits:

- `TypeCorrect`, `AnswersAlwaysAgree`, `OneReaderAlwaysOneBlock`,
  `StoredAlwaysFound`, `TracingAlwaysBounded`, `TipAlwaysOfWindow`: from the
  assumptions on the constants only. Besides types these are that the clients
  are finitely many, that they call operations of `Program`, and `OncePerChain`:
  no chain includes a transaction twice, as nonces ensure.

The argument. None of the properties, which are about answers, is inductive: they
depend on what a handler has read and on what it is still going to read. The
reads are therefore put in stages (`Stage`), and `IsPlan` says that what is left
of a handler goes up through them, also inside the loops of `traceFilter` and
`feeHistory`; `BeginsBlock` to `BeginsCallBundle` show it of every entry of
`Program`. `NeedsInv` says what the reads to come rely on: a height or a
snapshot is there once the read that gets it is past, and before that nothing
has been read. On top of it `PartsInv` says which blocks the parts read so far
are of, `StoredInv` that a block both stores had when the request came is still
within reach of every read left, `SnapInv` that a snapshot is part of hot storage
until a revert, `FromOneReader` what an answer from one reader is of. Each of
these is conditional on `rewound`, so that the node's steps only have to extend
the stores (`ActiveKept`) or mark the request (`ActiveRewound`). `StoresInv`
relates hot and cold through the three steps of a revert. `SemaphoreInv` counts:
free permits and holders are `MaxTracing` together, and `PermitInv` makes every
tracing handler past the semaphore a holder. For the cache `FeeInv` follows the
one client that asks for fees: between the two stores of `set` the cached block
is below the height the new tip is of, so that no `get` pairs them.
One lemma per action (`StepResolveBlockId`, ..., `StepDrainHot`) carries the
invariant through; `NextIInv` puts them together.

`HostChainProofs` has the lemmas all of these cite: prefixes and concatenations
of linked sequences, the common ancestor of two of them, least and greatest
elements of sets of heights. Where a proof needs an induction it takes the least
counterexample of a set of heights.

Every invariant, action property and refinement of the passing runs is a theorem.
Only model-checked, because it is outside the proof system, is liveness under
fairness (`CatchesUp`, `ReachesTip`, `BufferedIsSent`, `CancelledIsCleaned`,
`AnsweredDespiteHangs`, `RequestsAreAnswered`), and what the recursive walk of
`FeeHistory` computes.

## 5. Not modelled

- EVM execution, inspectors, block, receipt and blob contents, serialization:
  pure computation over library types; the models say which block and state they
  run on.
- Endpoints that forward a transaction or an order (`send_raw_transaction`,
  `send_order`), or return a constant or one tag (`chainId`, `syncing`, `uncle`
  ...), and `trace_get`, which filters the result of `trace_transaction`.
- Server set-up, configuration parsing, genesis data, metrics, the test harness:
  no protocol state. `sync_status` in `BlockTags` is written by no code.
- Receipts fetched beside a backfilled block: the same window as between two
  blocks of a batch.
- A panic counts as a stop.
