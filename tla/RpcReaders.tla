----------------------------- MODULE RpcReaders -----------------------------
(***************************************************************************)
(* The read endpoints of the eth, debug, trace and signet namespaces.  A   *)
(* handler is a sequence of reads of the block tags, of hot storage (one   *)
(* snapshot per reader it opens) and of cold storage, and the node appends *)
(* and reverts blocks between any two of them.  Tracing handlers share a   *)
(* semaphore, gas price handlers a cache.                                  *)
(*                                                                         *)
(* The data of a block is the block: an answer is described by the blocks  *)
(* its parts were read from.  Height 1 stands for genesis.                 *)
(***************************************************************************)
EXTENDS HostChain, FiniteSetsExt, SequencesExt

CONSTANTS
  Client,
  Tx, TxIn,             \* transactions; the blocks each is in, one per fork
  BehindMagic,          \* those with a magic-signature transaction before them
  MaxTracing,           \* max_tracing_requests
  MaxRange,             \* max_trace_filter_blocks, max_blocks_per_filter
  OracleBlocks,         \* gas_oracle_block_count; blocks of a fee history
  RlpHeights,           \* heights of the blocks a client supplies itself
  Workloads,            \* what the clients may call, from the initial state on
  MaxReorgs             \* bound: reverts

ASSUME RpcReadersAssumption ==
  /\ TxIn \in [Tx -> SUBSET Block] /\ BehindMagic \subseteq Tx
  /\ MaxTracing \in Nat \ {0} /\ MaxRange \in Nat \ {0}
  /\ OracleBlocks \in Nat \ {0} /\ MaxReorgs \in Nat
  /\ RlpHeights \subseteq Nat \ {0}
  /\ IsFiniteSet(Client)

Heights == {num[b] : b \in Block}

\* No chain includes a transaction twice.
ASSUME OncePerChain ==
  \A t \in Tx, k \in Heights : \A s \in [1..k -> Block] :
    IsChain(s) => \A i, j \in 1..k : s[i] \in TxIn[t] /\ s[j] \in TxIn[t] => i = j

VARIABLES
  chain, cold, latest,     \* hot storage, cold storage, the latest tag
  npc, target, reorgs,     \* node: control point, revert height, reverts
  req,                     \* per client: the request in flight
  permits, queue,          \* tracing_semaphore: free permits, waiting clients
  cacheBlock, cacheTip,    \* GasOracleCache; 0 is the sentinel
  mayCall                  \* the workload

nodeVars == <<chain, cold, latest, npc, target, reorgs>>
cacheVars == <<cacheBlock, cacheTip>>
vars == <<nodeVars, req, permits, queue, cacheVars, mayCall>>

(***************************************************************************)
(* The handlers: the reads each makes, in order, those of a join in a set. *)
(***************************************************************************)
EthBlock == <<{"resolve"}, {"coldHeader", "coldTxs"}>>
EthBlockTxCount == <<{"resolve"}, {"coldTxs"}>>
EthBlockReceipts == <<{"resolve"}, {"coldHeader", "coldTxs", "coldReceipts"}>>
EthHeaderBy == <<{"open"}, {"snapHeader"}>>
EthTransactionByHash == <<{"coldTxByHash"}, {"coldHeaderOpt"}>>
EthRawTransactionByHash == <<{"coldTxByHash"}>>
EthTransactionByIndex == <<{"resolve"}, {"coldTxByIndex"}, {"coldHeaderOpt"}>>
EthRawTransactionByIndex == <<{"resolve"}, {"coldTxByIndex"}>>
EthTransactionReceipt == <<{"coldReceiptByHash"}, {"coldTxAgain", "coldHeaderOpt"}>>
EthAccount == <<{"open"}, {"account"}>>
EthRunCall == <<{"open"}, {"evm"}>>
EthEstimateGas == <<{"open"}, {"evm"}>>
EthCreateAccessList == <<{"open"}, {"evm"}>>
EthGetLogs == <<{"fromTag"}, {"toTag"}, {"coldLogs"}>>
EthFeeHistory == <<{"resolve"}, {"history"}, {"historyLoop"}>>
EthMaxPriorityFee ==
  <<{"latest"}, {"cacheGet"}, {"window"}, {"windowLoop"}, {"setTip"}, {"setBlock"}>>
EthGasPrice ==
  <<{"latest"}, {"cacheGet"}, {"window"}, {"windowLoop"}, {"setTip"}, {"setBlock"},
    {"coldHeaderOpt"}>>

DebugTraceBlock ==
  <<{"permit"}, {"resolve"}, {"hotHeader"}, {"coldTxs"}, {"stateBefore"}>>
DebugTraceTransaction ==
  <<{"permit"}, {"coldTxByHash"}, {"hotHeader"}, {"coldTxs"}, {"stateBefore"}, {"traceTx"}>>
DebugTraceBlockRlp == <<{"permit"}, {"resolve"}, {"stateBefore"}>>
DebugRawBlock == <<{"resolve"}, {"hotHeader"}, {"coldTxs"}>>
DebugRawReceipts == <<{"resolve"}, {"coldReceipts"}>>
DebugRawHeader == <<{"resolve"}, {"hotHeader"}>>
DebugTraceCall == <<{"permit"}, {"open"}, {"evm"}>>
DebugRawTransaction == <<{"coldTxByHash"}>>

TraceBlock ==
  <<{"permit"}, {"resolve"}, {"hotHeader"}, {"coldTxs"}, {"stateBefore"}>>
TraceTransaction ==
  <<{"permit"}, {"coldTxByHash"}, {"hotHeader"}, {"coldTxs"}, {"stateBefore"}, {"traceTx"}>>
TraceReplayBlock ==
  <<{"permit"}, {"resolve"}, {"hotHeader"}, {"coldTxs"}, {"stateBefore"}>>
TraceReplayTransaction ==
  <<{"permit"}, {"coldTxByHash"}, {"hotHeader"}, {"coldTxs"}, {"stateBefore"}, {"traceTx"}>>
TraceCall == <<{"permit"}, {"open"}, {"evm"}>>
TraceCallMany == <<{"permit"}, {"open"}, {"evm"}>>
TraceRawTransaction == <<{"permit"}, {"open"}, {"evm"}>>
TraceFilter == <<{"permit"}, {"filterRange"}, {"filterLoop"}>>
SignetCallBundle == <<{"start"}, {"open"}, {"evm"}>>

Program == [
  block |-> EthBlock, blockTxCount |-> EthBlockTxCount,
  blockReceipts |-> EthBlockReceipts, headerBy |-> EthHeaderBy,
  txByHash |-> EthTransactionByHash, rawTxByHash |-> EthRawTransactionByHash,
  txByIndex |-> EthTransactionByIndex, rawTxByIndex |-> EthRawTransactionByIndex,
  receipt |-> EthTransactionReceipt, account |-> EthAccount,
  runCall |-> EthRunCall, estimateGas |-> EthEstimateGas,
  createAccessList |-> EthCreateAccessList, getLogs |-> EthGetLogs,
  feeHistory |-> EthFeeHistory, gasPrice |-> EthGasPrice,
  maxPriorityFee |-> EthMaxPriorityFee,
  debugTraceBlock |-> DebugTraceBlock, debugTraceTx |-> DebugTraceTransaction,
  debugTraceRlp |-> DebugTraceBlockRlp, rawBlock |-> DebugRawBlock,
  rawReceipts |-> DebugRawReceipts, rawHeader |-> DebugRawHeader,
  debugTraceCall |-> DebugTraceCall, rawTx |-> DebugRawTransaction,
  traceBlock |-> TraceBlock, traceTx |-> TraceTransaction,
  replayBlock |-> TraceReplayBlock, replayTx |-> TraceReplayTransaction,
  traceCall |-> TraceCall, traceCallMany |-> TraceCallMany,
  traceRawTx |-> TraceRawTransaction, traceFilter |-> TraceFilter,
  callBundle |-> SignetCallBundle]

Op == DOMAIN Program

ASSUME WorkloadAssumption == Workloads \subseteq [Client -> SUBSET Op]

ByTx == {"txByHash", "rawTxByHash", "receipt", "debugTraceTx", "rawTx", "traceTx", "replayTx"}
ByRange == {"getLogs", "traceFilter"}
Fees == {"gasPrice", "maxPriorityFee"}
NotByHash == {"feeHistory", "traceBlock", "replayBlock"}

\* The operations that read everything through one hot storage reader.
OneReader == {op \in Op : {"open"} \in Range(Program[op])}

\* What a request asks for.  In a range, 0 is a bound left open.
Ids(op) ==
  CASE op \in ByTx -> {<<"tx", t>> : t \in Tx}
    [] op \in ByRange -> {<<"range", lo, hi>> : lo \in Heights \cup {0}, hi \in Heights \cup {0}}
    [] op \in Fees -> {<<"latest">>}
    [] op = "debugTraceRlp" -> {<<"number", n>> : n \in RlpHeights}
    [] op \in NotByHash -> {<<"latest">>} \cup {<<"number", n>> : n \in Heights}
    [] OTHER -> {<<"latest">>} \cup {<<"number", n>> : n \in Heights}
                               \cup {<<"hash", b>> : b \in Block}

Outcomes == {"none", "ok", "absent", "error"}

NoRequest == [
  op |-> "none", id |-> <<"none">>,
  todo |-> <<>>,            \* the reads to come
  out |-> "none",           \* absent: null, or an error that says not found
  n |-> 0, hi |-> 0,        \* the height to read, the cursor or end of a range
  snap |-> <<>>,            \* the snapshot of the hot storage reader
  from |-> {},              \* the blocks the answer was read from
  base |-> {},              \* the block whose state it was executed on
  body |-> {},              \* the block whose transactions were read last
  whole |-> TRUE,           \* no part of the answer came back empty
  settled |-> FALSE,        \* cold storage has had the block since n was resolved
  stored |-> FALSE,         \* both stores have had it since the request came
  holds |-> FALSE,          \* a tracing permit
  gone |-> FALSE,           \* the handler was dropped, its task runs on
  rewound |-> FALSE]        \* the node reverted blocks meanwhile

\* Genesis is always stored and every client waits for a permit at most once.
TypeOK ==
  /\ chain \in Seq(Block) /\ cold \in Seq(Block) /\ latest \in Nat \ {0}
  /\ npc \in {"idle", "commit", "truncate", "rewind"}
  /\ target \in Nat /\ reorgs \in 0..MaxReorgs
  /\ \A c \in Client :
       LET r == req[c]
       IN /\ DOMAIN r = DOMAIN NoRequest
          /\ r.op \in Op \cup {"none"} /\ r.out \in Outcomes
          /\ r.n \in Nat /\ r.hi \in Nat /\ r.snap \in Seq(Block)
          /\ r.from \cup r.base \cup r.body \subseteq Block
  /\ permits \in 0..MaxTracing
  /\ queue \in Seq(Client) /\ Cardinality(Range(queue)) = Len(queue)
  /\ cacheBlock \in Nat /\ cacheTip \subseteq Block
  /\ mayCall \in Workloads

\* Genesis is stored and published.
Init ==
  /\ \E b \in Block : num[b] = 1 /\ chain = <<b>>
  /\ cold = chain /\ latest = 1
  /\ npc = "idle" /\ target = 0 /\ reorgs = 0
  /\ req = [c \in Client |-> NoRequest] /\ permits = MaxTracing /\ queue = <<>>
  /\ cacheBlock = 0 /\ cacheTip = {}
  /\ mayCall \in Workloads

(***************************************************************************)
(* The node: process_committed_chain, on_host_revert, update_block_tags.   *)
(***************************************************************************)
AppendBlock ==
  /\ npc \in {"idle", "commit"}
  /\ \E b \in Block : /\ num[b] = Len(chain) + 1
                      /\ parent[b] = Last(chain)
                      /\ chain' = Append(chain, b)
  /\ npc' = "commit"
  /\ UNCHANGED <<cold, latest, target, reorgs, req, permits, queue, cacheVars, mayCall>>

ColdApply ==
  /\ npc # "truncate" /\ Len(cold) < Len(chain)
  /\ cold' = Append(cold, chain[Len(cold) + 1])
  /\ UNCHANGED <<chain, latest, npc, target, reorgs, req, permits, queue, cacheVars, mayCall>>

UpdateLatest ==
  /\ npc = "commit"
  /\ latest' = Len(chain)
  /\ npc' = "idle"
  /\ UNCHANGED <<chain, cold, target, reorgs, req, permits, queue, cacheVars, mayCall>>

\* drain_above: hot storage first, then cold.
DrainHot ==
  /\ npc = "idle" /\ reorgs < MaxReorgs
  /\ \E k \in 1..(Len(chain) - 1) : target' = k /\ chain' = Prefix(chain, k)
  /\ reorgs' = reorgs + 1
  /\ req' = [c \in Client |->
               IF req[c].op = "none" THEN req[c]
               ELSE [req[c] EXCEPT !.rewound = TRUE, !.settled = FALSE, !.stored = FALSE]]
  /\ npc' = "truncate"
  /\ UNCHANGED <<cold, latest, permits, queue, cacheVars, mayCall>>

TruncateCold ==
  /\ npc = "truncate"
  /\ cold' = Prefix(cold, Min({target, Len(cold)}))
  /\ npc' = "rewind"
  /\ UNCHANGED <<chain, latest, target, reorgs, req, permits, queue, cacheVars, mayCall>>

\* Mutant: one block too far.
RewoundOneLess(n) == Min({n, target - 1})

\* rewind_to
Rewound(n) == Min({n, target})

RewindLatest ==
  /\ npc = "rewind"
  /\ latest' = Rewound(latest)
  /\ npc' = "commit" /\ target' = 0
  /\ UNCHANGED <<chain, cold, reorgs, req, permits, queue, cacheVars, mayCall>>

Reverting == npc \in {"truncate", "rewind"}

(***************************************************************************)
(* Requests.                                                               *)
(***************************************************************************)
FindTx(t) == {b \in TxIn[t] : b \in Range(cold)}

\* The block a request names is in both stores.
Stored(id) ==
  CASE id[1] = "number" -> id[2] <= Len(cold)
    [] id[1] = "hash" -> id[2] \in Range(cold)
    [] id[1] = "tx" -> FindTx(id[2]) # {}
    [] OTHER -> FALSE

Call(c) ==
  /\ req[c].op = "none"
  /\ \E op \in mayCall[c] : \E id \in Ids(op) :
       req' = [req EXCEPT ![c] =
                 [NoRequest EXCEPT !.op = op, !.id = id, !.todo = Program[op],
                                   !.stored = Stored(id) /\ ~Reverting,
                                   !.rewound = Reverting]]
  /\ UNCHANGED <<nodeVars, permits, queue, cacheVars, mayCall>>

Reads(c, s) == req[c].todo # <<>> /\ s \in Head(req[c].todo)

\* The handler returns and drops its permit; a failure has no content.
Ends(r, out) ==
  IF out = "ok"
    THEN [r EXCEPT !.todo = <<>>, !.out = out, !.snap = <<>>, !.body = {}, !.hi = 0,
                   !.holds = FALSE]
    ELSE [NoRequest EXCEPT !.op = r.op, !.id = r.id, !.out = out,
                           !.stored = r.stored, !.rewound = r.rewound]

\* Read s is done; the last one completes the answer.
Advance(r, s) ==
  LET join == Head(r.todo) \ {s}
      rest == IF join = {} THEN Tail(r.todo) ELSE <<join>> \o Tail(r.todo)
  IN IF rest = <<>> THEN Ends(r, "ok") ELSE [r EXCEPT !.todo = rest]

\* Mutant: an early return keeps the permit.
ReturnedWithAnswer(old, new) == old.holds /\ ~new.holds /\ new.out = "ok"

\* The permit is dropped on every way out of the handler.
Returned(old, new) == old.holds /\ ~new.holds

Becomes(c, r) ==
  /\ req' = [req EXCEPT ![c] = r]
  /\ permits' = IF Returned(req[c], r) THEN permits + 1 ELSE permits
  /\ UNCHANGED <<nodeVars, queue, cacheVars, mayCall>>

\* A storage read fails, or the task panics.
Fails(c) == req[c].todo # <<>> /\ c \notin Range(queue) /\ Becomes(c, Ends(req[c], "error"))

\* The client has its answer.
Return(c) == req[c].out # "none" /\ Becomes(c, NoRequest)

(***************************************************************************)
(* The tracing semaphore, which is fair.                                   *)
(***************************************************************************)
NeedsPermit(op) == op # "none" /\ {"permit"} \in Range(Program[op])

AcquirePermit(c) ==
  /\ Reads(c, "permit") /\ c \notin Range(queue)
  /\ queue' = Append(queue, c)
  /\ UNCHANGED <<nodeVars, req, permits, cacheVars, mayCall>>

\* Mutant: the permit is not bound to a variable and dropped at once.
GrantedAndDropped(r) == Advance(r, "permit")

Granted(r) == Advance([r EXCEPT !.holds = TRUE], "permit")

GrantPermit(c) ==
  /\ queue # <<>> /\ c = Head(queue) /\ permits > 0
  /\ req' = [req EXCEPT ![c] = Granted(@)]
  /\ permits' = IF req'[c].holds THEN permits - 1 ELSE permits
  /\ queue' = Tail(queue)
  /\ UNCHANGED <<nodeVars, cacheVars, mayCall>>

\* The client of a tracing request disconnects and the handler is dropped,
\* with its permit; the task it spawned runs on.  A waiting handler has
\* spawned nothing yet.
Disconnect(c) ==
  /\ NeedsPermit(req[c].op) /\ req[c].todo # <<>> /\ ~req[c].gone
  /\ queue' = RemoveFirst(queue, c)
  /\ req' = [req EXCEPT ![c] = IF Reads(c, "permit") THEN NoRequest
                               ELSE [@ EXCEPT !.gone = TRUE, !.holds = FALSE]]
  /\ permits' = IF Returned(req[c], req'[c]) THEN permits + 1 ELSE permits
  /\ UNCHANGED <<nodeVars, cacheVars, mayCall>>

(***************************************************************************)
(* resolve_block_id and the reads of hot storage.                          *)
(***************************************************************************)
\* resolve_block_tag; pending is latest, a safe or finalized tag some number.
ResolveBlockTag(id) == IF id[1] = "latest" THEN latest ELSE id[2]

\* The height of an id in a snapshot; 0 if the hash is not in it.
HeightIn(id, snap) ==
  IF id[1] # "hash" THEN ResolveBlockTag(id)
  ELSE IF id[2] \in Range(snap) THEN num[id[2]] ELSE 0

\* n is set; whether cold storage has that block is noted.
At(r, n) == [r EXCEPT !.n = n, !.settled = n <= Len(cold) /\ ~r.rewound]

ResolveBlockId(c) ==
  /\ Reads(c, "resolve")
  /\ LET r == req[c]  n == HeightIn(r.id, chain)
     IN Becomes(c, IF n = 0 THEN Ends(r, "absent") ELSE Advance(At(r, n), "resolve"))

\* hot_reader
OpenReader(c) ==
  /\ Reads(c, "open")
  /\ Becomes(c, Advance([req[c] EXCEPT !.snap = chain], "open"))

\* resolve_header
ResolveHeader(c) ==
  /\ Reads(c, "snapHeader")
  /\ LET r == req[c]  n == HeightIn(r.id, r.snap)
     IN Becomes(c, IF n \notin 1..Len(r.snap) THEN Ends(r, "absent")
                   ELSE Advance([At(r, n) EXCEPT !.from = {r.snap[n]}], "snapHeader"))

\* Mutant: the state comes from a reader of its own.
EvmStateReopened(r, n) == chain[Min({n, Len(chain)})]

\* RevmRead::at_height on the reader that gave the header.
EvmState(r, n) == r.snap[n]

\* resolve_evm_block, and the execution on the header and the state.
ResolveEvmBlock(c) ==
  /\ Reads(c, "evm")
  /\ LET r == req[c]  n == HeightIn(r.id, r.snap)
     IN Becomes(c, IF n \notin 1..Len(r.snap) THEN Ends(r, "absent")
                   ELSE Advance([At(r, n) EXCEPT !.from = {r.snap[n], EvmState(r, n)}], "evm"))

\* hot_reader_at_block, and the account read at that height.  Above the tip
\* of the snapshot the state at its tip is found.
ReadAccount(c) ==
  /\ Reads(c, "account")
  /\ LET r == req[c]  n == HeightIn(r.id, r.snap)
     IN Becomes(c, IF n = 0 THEN Ends(r, "absent")
                   ELSE Advance([At(r, n) EXCEPT !.from = {r.snap[Min({n, Len(r.snap)})]}],
                                "account"))

\* resolve_header of a number, in a handler that has resolved it before.
ReadHotHeader(c) ==
  /\ Reads(c, "hotHeader")
  /\ LET r == req[c]
     IN Becomes(c, IF r.n > Len(chain) THEN Ends(r, "absent")
                   ELSE Advance([r EXCEPT !.from = @ \cup {chain[r.n]}], "hotHeader"))

\* Mutant: the state after the block.
BeforeInclusive(n) == n

\* saturating_sub(1)
Before(n) == Max({n - 1, 1})

\* revm_state_at_height(n - 1), and the replay of the block on it.
ReadStateBefore(c) ==
  /\ Reads(c, "stateBefore")
  /\ LET r == req[c]
     IN Becomes(c, IF Before(r.n) > Len(chain) THEN Ends(r, "error")
                   ELSE Advance([r EXCEPT !.base = @ \cup {chain[Before(r.n)]}], "stateBefore"))

\* The transaction is looked for among those of the block.
FindAndTrace(c) ==
  /\ Reads(c, "traceTx")
  /\ LET r == req[c]  t == r.id[2]
     IN Becomes(c, IF r.body # {} /\ r.body \subseteq TxIn[t] /\ t \notin BehindMagic
                     THEN Advance(r, "traceTx") ELSE Ends(r, "absent"))

\* The simulation of a bundle does not yield: its timeout is looked at only
\* before it begins.
BundleTimeout(c) ==
  /\ Reads(c, "start")
  /\ \E r \in {Advance(req[c], "start"), Ends(req[c], "error")} : Becomes(c, r)

(***************************************************************************)
(* Reads of cold storage, by number unless a transaction is asked for.     *)
(***************************************************************************)
\* Mutant: the last block is left out.
InColdBelowTip(n) == n < Len(cold)

InCold(n) == n <= Len(cold)

\* The part comes from block n, or is empty.
PartOf(r, n) ==
  IF InCold(n) THEN [r EXCEPT !.from = @ \cup {cold[n]}] ELSE [r EXCEPT !.whole = FALSE]

\* get_header_by_number, for an answer that is null without the header.
ReadColdHeader(c) ==
  /\ Reads(c, "coldHeader")
  /\ LET r == req[c]
     IN Becomes(c, IF InCold(r.n) THEN Advance(PartOf(r, r.n), "coldHeader")
                   ELSE Ends(r, "absent"))

\* The same for the base fee, which may be missing.
ReadBaseFee(c) ==
  /\ Reads(c, "coldHeaderOpt")
  /\ Becomes(c, Advance(PartOf(req[c], req[c].n), "coldHeaderOpt"))

\* get_transactions_in_block
ReadColdTxs(c) ==
  /\ Reads(c, "coldTxs")
  /\ LET r == req[c]
     IN Becomes(c, Advance([PartOf(r, r.n) EXCEPT
                              !.body = IF InCold(r.n) THEN {cold[r.n]} ELSE {}], "coldTxs"))

\* get_receipts_in_block
ReadColdReceipts(c) ==
  /\ Reads(c, "coldReceipts")
  /\ Becomes(c, Advance(PartOf(req[c], req[c].n), "coldReceipts"))

\* get_tx_by_hash, get_receipt: the block number comes with it.
ReadColdTx(c) ==
  \E s \in {"coldTxByHash", "coldReceiptByHash"} :
    /\ Reads(c, s)
    /\ LET r == req[c]  found == FindTx(r.id[2])
       IN Becomes(c, IF found = {} THEN Ends(r, "absent")
                     ELSE LET b == CHOOSE b \in found : TRUE
                          IN Advance([At(r, num[b]) EXCEPT !.from = {b}], s))

\* transaction_receipt, once it has the receipt.
ReadTxOfReceipt(c) ==
  /\ Reads(c, "coldTxAgain")
  /\ LET r == req[c]  found == FindTx(r.id[2])
     IN Becomes(c, IF found = {} THEN Ends(r, "error")
                   ELSE Advance([r EXCEPT !.from = @ \cup found], "coldTxAgain"))

\* get_tx_by_block_and_index
ReadTxByIndex(c) ==
  /\ Reads(c, "coldTxByIndex")
  /\ LET r == req[c]
     IN Becomes(c, IF InCold(r.n) THEN Advance(PartOf(r, r.n), "coldTxByIndex")
                   ELSE Ends(r, "absent"))

(***************************************************************************)
(* Ranges: get_logs, trace_filter, fee_history.                            *)
(***************************************************************************)
OrLatest(n) == IF n = 0 THEN latest ELSE n

ResolveFrom(c) ==
  /\ Reads(c, "fromTag")
  /\ Becomes(c, Advance([req[c] EXCEPT !.n = OrLatest(req[c].id[2])], "fromTag"))

ResolveTo(c) ==
  /\ Reads(c, "toTag")
  /\ LET r == req[c]  to == OrLatest(r.id[3])
     IN Becomes(c, IF r.n > to \/ to - r.n >= MaxRange THEN Ends(r, "error")
                   ELSE Advance([r EXCEPT !.hi = to, !.settled = InCold(to) /\ ~r.rewound], "toTag"))

\* stream_logs, collected.
ReadLogs(c) ==
  /\ Reads(c, "coldLogs")
  /\ LET r == req[c]
     IN Becomes(c, Advance([r EXCEPT !.from = {cold[i] : i \in r.n..Min({r.hi, Len(cold)})},
                                     !.whole = InCold(r.hi)], "coldLogs"))

TraceFilterRange(c) ==
  /\ Reads(c, "filterRange")
  /\ LET r == req[c]
         start == IF r.id[2] = 0 THEN 1 ELSE r.id[2]
         end == OrLatest(r.id[3])
     IN Becomes(c, IF start > latest \/ end > latest THEN Ends(r, "absent")
                   ELSE IF start > end \/ end - start + 1 > MaxRange THEN Ends(r, "error")
                   ELSE Advance([r EXCEPT !.n = start - 1, !.hi = end,
                                          !.settled = InCold(end) /\ ~r.rewound], "filterRange"))

\* A handler's loop over a range: n moves up to hi.
Iterate(r, s, body) ==
  IF r.n < r.hi THEN [r EXCEPT !.n = @ + 1, !.todo = body \o @] ELSE Advance(r, s)

TraceFilterLoop(c) ==
  /\ Reads(c, "filterLoop")
  /\ Becomes(c, Iterate(req[c], "filterLoop",
                        <<{"filterHeader"}, {"coldTxs"}, {"stateBefore"}>>))

\* A height without a header is skipped.
ReadFilterHeader(c) ==
  /\ Reads(c, "filterHeader")
  /\ LET r == req[c]
     IN Becomes(c, IF r.n > Len(chain)
                     THEN [r EXCEPT !.todo = SubSeq(@, 4, Len(@)), !.whole = FALSE]
                     ELSE Advance([r EXCEPT !.from = @ \cup {chain[r.n]}], "filterHeader"))

\* The first of the last OracleBlocks heights up to n.
WindowStart(n) == Max({1, n - OracleBlocks + 1})

\* get_headers of the whole range; one missing is an error.
ReadHistory(c) ==
  /\ Reads(c, "history")
  /\ LET r == req[c]
     IN Becomes(c, IF ~InCold(r.n) THEN Ends(r, "error")
                   ELSE Advance([r EXCEPT !.from = {cold[i] : i \in WindowStart(r.n)..r.n},
                                          !.hi = r.n, !.n = WindowStart(r.n) - 1], "history"))

FeeHistoryLoop(c) ==
  /\ Reads(c, "historyLoop")
  /\ Becomes(c, Iterate(req[c], "historyLoop", <<{"coldTxs", "coldReceipts"}>>))

(***************************************************************************)
(* suggest_tip_cap and the GasOracleCache.  A tip is described by the      *)
(* blocks whose headers and transactions it was computed from.             *)
(***************************************************************************)
ReadLatest(c) ==
  /\ Reads(c, "latest")
  /\ Becomes(c, Advance(At(req[c], latest), "latest"))

\* Mutant: any cached tip will do.
CacheHitAny(r) == cacheBlock # 0

CacheHit(r) == cacheBlock = r.n

\* GasOracleCache::get: the block, then, on a hit, the tip.
CacheGetBlock(c) ==
  /\ Reads(c, "cacheGet")
  /\ LET r == req[c]
     IN Becomes(c, IF CacheHit(r)
                     THEN [r EXCEPT !.todo = <<{"cacheTip"}>> \o SubSeq(@, 6, Len(@))]
                     ELSE Advance(r, "cacheGet"))

CacheGetTip(c) ==
  /\ Reads(c, "cacheTip")
  /\ Becomes(c, Advance([req[c] EXCEPT !.from = cacheTip], "cacheTip"))

\* get_headers: the blocks cold storage does not have are left out.
ReadWindow(c) ==
  /\ Reads(c, "window")
  /\ LET r == req[c]  last == Min({r.n, Len(cold)})
     IN Becomes(c, Advance([r EXCEPT !.from = {cold[i] : i \in WindowStart(r.n)..last},
                                     !.hi = last], "window"))

\* The transactions of those blocks, here from the last to the first.
ReadWindowTxs(c) ==
  /\ Reads(c, "windowLoop")
  /\ LET r == req[c]
     IN Becomes(c, IF r.hi < WindowStart(r.n) THEN Advance(r, "windowLoop")
                   ELSE [PartOf(r, r.hi) EXCEPT !.hi = @ - 1])

\* GasOracleCache::set: the tip, then the block.
CacheSetTip(c) ==
  /\ Reads(c, "setTip")
  /\ cacheTip' = req[c].from
  /\ req' = [req EXCEPT ![c] = Advance(@, "setTip")]
  /\ UNCHANGED <<nodeVars, permits, queue, cacheBlock, mayCall>>

CacheSetBlock(c) ==
  /\ Reads(c, "setBlock")
  /\ cacheBlock' = req[c].n
  /\ req' = [req EXCEPT ![c] = Advance(@, "setBlock")]
  /\ UNCHANGED <<nodeVars, permits, queue, cacheTip, mayCall>>

NodeStep == \/ AppendBlock \/ ColdApply \/ UpdateLatest
            \/ DrainHot \/ TruncateCold \/ RewindLatest

HotRead(c) == \/ ResolveBlockId(c) \/ OpenReader(c) \/ ResolveHeader(c)
              \/ ResolveEvmBlock(c) \/ ReadAccount(c) \/ ReadHotHeader(c)
              \/ ReadStateBefore(c) \/ FindAndTrace(c) \/ BundleTimeout(c)

ColdRead(c) == \/ ReadColdHeader(c) \/ ReadBaseFee(c) \/ ReadColdTxs(c)
               \/ ReadColdReceipts(c) \/ ReadColdTx(c) \/ ReadTxOfReceipt(c)
               \/ ReadTxByIndex(c)

RangeRead(c) == \/ ResolveFrom(c) \/ ResolveTo(c) \/ ReadLogs(c)
                \/ TraceFilterRange(c) \/ TraceFilterLoop(c) \/ ReadFilterHeader(c)
                \/ ReadHistory(c) \/ FeeHistoryLoop(c)

OracleStep(c) == \/ ReadLatest(c) \/ CacheGetBlock(c) \/ CacheGetTip(c)
                 \/ ReadWindow(c) \/ ReadWindowTxs(c)
                 \/ CacheSetTip(c) \/ CacheSetBlock(c)

\* What a handler and its task do once called.
Progress(c) == \/ AcquirePermit(c) \/ GrantPermit(c) \/ HotRead(c) \/ ColdRead(c)
               \/ RangeRead(c) \/ OracleStep(c) \/ Return(c)

Next == \/ NodeStep
        \/ \E c \in Client : Call(c) \/ Progress(c) \/ Fails(c) \/ Disconnect(c)

Spec == Init /\ [][Next]_vars

\* The runtime polls every handler and every task it spawned.
FairSpec == Spec /\ \A c \in Client : WF_vars(Progress(c))

(***************************************************************************)
(* Properties.                                                             *)
(***************************************************************************)
Answered(r) == r.out = "ok"

OneBlock == Op \ (ByRange \cup Fees \cup {"feeHistory"})

\* Unless the node reverted blocks meanwhile, the parts of an answer, read at
\* different moments from different stores, are of the canonical chain, of
\* one height and executed on the state before it, and none of them is empty
\* if cold storage had the block when its number was resolved.  An account is
\* of that height or, when the tag moved after the reader was opened, below.
AnswersAgree ==
  \A c \in Client :
    LET r == req[c]
    IN Answered(r) /\ ~r.rewound /\ r.op \notin Fees =>
         /\ r.from \cup r.base \subseteq Range(chain)
         /\ r.settled => r.whole
         /\ r.op \in OneBlock =>
              /\ \A b \in r.from : num[b] = r.n \/ (r.op = "account" /\ num[b] < r.n)
              /\ \A b \in r.base : num[b] + 1 = r.n \/ (num[b] = 1 /\ r.n = 1)

\* A handler that reads through one hot storage reader answers with one block,
\* and asked for a hash with the block of that hash, also when a revert
\* happens while it runs.
OneReaderOneBlock ==
  \A c \in Client :
    LET r == req[c]
    IN Answered(r) /\ r.op \in OneReader =>
         /\ Cardinality(r.from) = 1
         /\ r.id[1] = "hash" => r.from = {r.id[2]}

\* A block or transaction that both stores have when it is asked for is not
\* reported as missing, unless a revert happens while the handler runs.
StoredIsFound ==
  \A c \in Client :
    LET r == req[c]
    IN r.stored /\ ("tx" = r.id[1] => r.id[2] \notin BehindMagic) =>
         r.out # "absent"

Traces(c) == NeedsPermit(req[c].op) /\ req[c].todo # <<>> /\ ~Reads(c, "permit")

\* At most max_tracing_requests tracing handlers run past the semaphore.
TracingBounded == Cardinality({c \in Client : Traces(c) /\ ~req[c].gone}) <= MaxTracing

\* While no block was ever reverted and one client asks, a suggested tip is
\* computed from the blocks of the window that ends at the latest block read,
\* cached or not.
TipIsOfWindow ==
  \A c \in Client :
    LET r == req[c]
    IN Answered(r) /\ r.op \in Fees /\ reorgs = 0
       /\ (\A d \in Client \ {c} : mayCall[d] \cap Fees = {}) =>
         r.from \subseteq {chain[i] : i \in WindowStart(r.n)..r.n}

\* Every request is answered, unless its client left, also one that waits for
\* a tracing permit while other handlers return on every path.
RequestsAreAnswered ==
  \A c \in Client : req[c].todo # <<>> ~> (req[c].todo = <<>> \/ req[c].gone)
=============================================================================
