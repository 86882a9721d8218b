---------------------------- MODULE ChainFilters ----------------------------
(***************************************************************************)
(* Polling filters: eth_newFilter, eth_newBlockFilter, eth_getFilterChanges *)
(* and eth_uninstallFilter over the ChainNotifier's reorg ring buffer, with *)
(* the node that appends, reverts and publishes tags, the cold store that  *)
(* lags behind it, and the thread that cleans stale filters.               *)
(*                                                                         *)
(* A block is a rollup block with one matching log, so that a set of       *)
(* blocks stands for the logs a client holds.  The Instants of the code    *)
(* only order polls and reorganisations: an Instant is the number of       *)
(* reorganisations sent before it.  Ages are counted in slots, in each of  *)
(* which at most one reorganisation is sent.                               *)
(***************************************************************************)
EXTENDS HostChain, FiniteSetsExt

CONSTANTS
  MaxReorgEntries,   \* capacity of the ring buffer
  StaleSlots,        \* stale_filter_ttl, in slots: age limit and clean interval
  MaxReorgs,         \* bound: reorganisations sent
  Disturbances       \* which of the events below may happen

\* reorg_in_poll: a revert is under way during a request;  cold_lag: cold is
\* read or drained before it has the published blocks;  read_failure: a cold
\* read fails in a poll with removals to report;  late_poll: a filter is polled when it is stale and not cleaned yet.
ASSUME ChainFiltersAssumption ==
  /\ MaxReorgEntries \in Nat \ {0} /\ StaleSlots \in Nat \ {0}
  /\ MaxReorgs \in Nat
  /\ Disturbances \subseteq
       {"reorg_in_poll", "cold_lag", "read_failure", "late_poll"}

VARIABLES
  chain, cold, latest,        \* hot storage, cold storage, the latest tag
  npc, target, dropped,       \* node: control point, locals of a revert
  ring, sent,                 \* ring buffer, reorganisations sent so far
  slotUsed, cleanIn,          \* one was sent in this slot; slots to the cleaner
  installed, isBlock,         \* the filter and its kind
  next, lastPoll, age,        \* next_start_block, last_poll_time, its age
  ppc, start, removed, upTo, found,   \* the request in flight and its locals
  held, low                   \* what the client holds; lowest start block

nodeVars == <<chain, cold, latest, npc, target, dropped, ring, sent, slotUsed>>
filterVars == <<installed, isBlock, next, lastPoll, age>>
pollVars == <<ppc, start, removed, upTo, found>>
clientVars == <<held, low>>
vars == <<nodeVars, cleanIn, filterVars, pollVars, clientVars>>

Reverting == npc \in {"rewind", "notify"}

ReorgNotification ==
  [at : Nat \ {0}, ancestor : Nat, removed : SUBSET Block]

TypeOK ==
  /\ chain \in Seq(Block) /\ cold \in Seq(Block) /\ latest \in Nat
  /\ npc \in {"idle", "rewind", "notify", "commit"}
  /\ target \in Nat /\ dropped \subseteq Block
  /\ ring \in Seq(ReorgNotification) /\ Len(ring) <= MaxReorgEntries
  /\ sent \in 0..MaxReorgs /\ slotUsed \in BOOLEAN /\ cleanIn \in 1..StaleSlots
  /\ installed \in BOOLEAN /\ isBlock \in BOOLEAN
  /\ next \in Nat \ {0} /\ lastPoll \in 0..sent
  /\ age \in 0..(2 * StaleSlots - 1)
  /\ ppc \in {"none", "install", "latest", "read", "commit"}
  /\ start \in Nat \ {0} /\ upTo \in Nat
  /\ removed \subseteq Block /\ found \subseteq Block
  /\ held \subseteq Block /\ low \in Nat \ {0}

Init ==
  /\ chain = <<>> /\ cold = <<>> /\ latest = 0
  /\ npc = "idle" /\ target = 0 /\ dropped = {}
  /\ ring = <<>> /\ sent = 0 /\ slotUsed = FALSE /\ cleanIn = StaleSlots
  /\ installed = FALSE /\ isBlock = FALSE /\ next = 1 /\ lastPoll = 0 /\ age = 0
  /\ ppc = "none" /\ start = 1 /\ removed = {} /\ upTo = 0 /\ found = {}
  /\ held = {} /\ low = 1

(***************************************************************************)
(* The node, as far as filters can see it: process_committed_chain,        *)
(* on_host_revert and update_block_tags, in this order for a notification. *)
(***************************************************************************)
AppendBlock ==
  /\ npc \in {"idle", "commit"}
  /\ \E b \in Block : /\ num[b] = Len(chain) + 1
                      /\ chain # <<>> => parent[b] = chain[Len(chain)]
                      /\ chain' = Append(chain, b)
  /\ npc' = "commit"
  /\ UNCHANGED <<cold, latest, target, dropped, ring, sent, slotUsed, cleanIn,
                 filterVars, pollVars, clientVars>>

ColdApply ==
  /\ Len(cold) < Len(chain)
  /\ cold' = Append(cold, chain[Len(cold) + 1])
  /\ UNCHANGED <<chain, latest, npc, target, dropped, ring, sent, slotUsed,
                 cleanIn, filterVars, pollVars, clientVars>>

UpdateLatest ==
  /\ npc = "commit"
  /\ latest' = Len(chain)
  /\ npc' = "idle"
  /\ UNCHANGED <<chain, cold, target, dropped, ring, sent, slotUsed, cleanIn,
                 filterVars, pollVars, clientVars>>

\* drain_above: both stores are truncated; only blocks that cold had indexed
\* come with their logs.
DrainAbove ==
  /\ npc = "idle"
  /\ "cold_lag" \in Disturbances \/ cold = chain
  /\ sent < MaxReorgs /\ ~slotUsed
  /\ "reorg_in_poll" \in Disturbances \/ ppc = "none"
  /\ \E n \in 0..(Len(chain) - 1) :
       /\ target' = n
       /\ dropped' = {cold[i] : i \in (n + 1)..Len(cold)}
       /\ chain' = Prefix(chain, n)
       /\ cold' = Prefix(cold, Min({n, Len(cold)}))
  /\ npc' = "rewind"
  /\ UNCHANGED <<latest, ring, sent, slotUsed, cleanIn, filterVars, pollVars,
                 clientVars>>

RewindLatest ==
  /\ npc = "rewind"
  /\ latest' = Min({latest, target})
  /\ npc' = "notify"
  /\ UNCHANGED <<chain, cold, target, dropped, ring, sent, slotUsed, cleanIn,
                 filterVars, pollVars, clientVars>>

\* Mutant: the oldest entry goes when one place is still free.
PushReorgEarly(entry) ==
  Append(IF Len(ring) >= MaxReorgEntries - 1 /\ ring # <<>> THEN Tail(ring) ELSE ring,
         entry)

\* The oldest entry goes when the buffer is full.
PushReorg(entry) ==
  Append(IF Len(ring) >= MaxReorgEntries THEN Tail(ring) ELSE ring, entry)

SendReorg ==
  /\ npc = "notify"
  /\ ring' = PushReorg([at |-> sent + 1, ancestor |-> target,
                        removed |-> dropped])
  /\ sent' = sent + 1 /\ slotUsed' = TRUE
  /\ npc' = "commit" /\ target' = 0 /\ dropped' = {}
  /\ UNCHANGED <<chain, cold, latest, cleanIn, filterVars, pollVars,
                 clientVars>>

(***************************************************************************)
(* Time and the cleaner, which wakes every StaleSlots slots.  A filter     *)
(* polled inside a slot is younger than its age in slots when one begins.  *)
(***************************************************************************)
\* The filter and what its client holds are gone.
Uninstalled ==
  /\ installed' = FALSE /\ isBlock' = FALSE
  /\ next' = 1 /\ lastPoll' = 0 /\ age' = 0
  /\ held' = {} /\ low' = 1

NextSlot ==
  /\ slotUsed' = FALSE
  /\ cleanIn' = IF cleanIn = 1 THEN StaleSlots ELSE cleanIn - 1
  /\ IF ~installed \/ (cleanIn = 1 /\ age + 1 > StaleSlots)
       THEN Uninstalled
       ELSE /\ age' = age + 1
            /\ UNCHANGED <<installed, isBlock, next, lastPoll, clientVars>>
  /\ UNCHANGED <<chain, cold, latest, npc, target, dropped, ring, sent,
                 pollVars>>

(***************************************************************************)
(* new_filter and new_block_filter: latest is read, then the filter is     *)
(* inserted.                                                               *)
(***************************************************************************)
\* The locals of a request are dropped when it returns.
Return ==
  /\ ppc' = "none"
  /\ start' = 1 /\ removed' = {} /\ upTo' = 0 /\ found' = {}

NewFilter ==
  /\ ppc = "none" /\ ~installed
  /\ "reorg_in_poll" \in Disturbances \/ ~Reverting
  /\ upTo' = latest
  /\ ppc' = "install"
  /\ UNCHANGED <<nodeVars, cleanIn, filterVars, start, removed, found,
                 clientVars>>

Install ==
  /\ ppc = "install"
  /\ installed' = TRUE /\ isBlock' \in BOOLEAN
  /\ next' = upTo + 1 /\ lastPoll' = sent /\ age' = 0
  /\ held' = {} /\ low' = upTo + 1
  /\ Return
  /\ UNCHANGED <<nodeVars, cleanIn>>

UninstallFilter ==
  /\ installed
  /\ Uninstalled
  /\ UNCHANGED <<nodeVars, cleanIn, pollVars>>

(***************************************************************************)
(* get_filter_changes.                                                     *)
(***************************************************************************)
\* reorgs_since(last_poll_time).  Entries are ordered by their Instants, also
\* in the ring buffer.
ReorgsSince(since) == {ring[i] : i \in {j \in 1..Len(ring) : ring[j].at > since}}

\* Mutant: the cursor is put on the common ancestor, not after it.
RewoundInclusive(reorgs) == Min({next} \cup {e.ancestor : e \in reorgs})

\* next_start_block after these reorganisations.
Rewound(reorgs) == Min({next} \cup {e.ancestor + 1 : e \in reorgs})

\* Mutant: the snapshot is taken after the rewind.
RemovedLogsLate(reorgs) ==
  UNION {{b \in e.removed : num[b] < Rewound({f \in reorgs : f.at <= e.at})} : e \in reorgs}

\* compute_removed_logs: of each reorganisation, the blocks below the cursor
\* the filter had when it came.
RemovedLogs(reorgs) ==
  UNION {{b \in e.removed : num[b] < Rewound({f \in reorgs : f.at < e.at})} : e \in reorgs}

\* Under the shard lock: the ring buffer is scanned and the cursor rewound.
Snapshot ==
  /\ ppc = "none" /\ installed
  /\ "reorg_in_poll" \in Disturbances \/ ~Reverting
  /\ "late_poll" \in Disturbances \/ age < StaleSlots
  /\ LET reorgs == ReorgsSince(lastPoll)
     IN /\ next' = Rewound(reorgs)
        /\ removed' = IF isBlock THEN {} ELSE RemovedLogs(reorgs)
  /\ start' = next'
  /\ low' = Min({low, next'})
  /\ ppc' = "latest"
  /\ UNCHANGED <<nodeVars, cleanIn, installed, isBlock, lastPoll, age, upTo,
                 found, held>>

ReadLatest ==
  /\ ppc = "latest"
  /\ upTo' = latest
  /\ found' = {}
  /\ ppc' = IF start > latest THEN "commit" ELSE "read"
  /\ UNCHANGED <<nodeVars, cleanIn, filterVars, start, removed, clientVars>>

\* stream_logs or get_headers: the blocks of the range that cold has.
ReadCold ==
  /\ ppc = "read"
  /\ "cold_lag" \in Disturbances \/ upTo <= Len(cold)
  /\ found' = {cold[i] : i \in start..Min({upTo, Len(cold)})}
  /\ ppc' = "commit"
  /\ UNCHANGED <<nodeVars, cleanIn, filterVars, start, removed, upTo, clientVars>>

\* The read fails (deadline, too many logs): the request returns the error.
ReadFails ==
  /\ ppc = "read"
  /\ "read_failure" \in Disturbances \/ removed = {}
  /\ Return
  /\ UNCHANGED <<nodeVars, cleanIn, filterVars, clientVars>>

\* touch_poll_time or mark_polled if the filter is still there; the client
\* drops the removed logs and adds the new ones.
Commit ==
  /\ ppc = "commit"
  /\ IF installed
       THEN /\ next' = IF start > upTo THEN next ELSE upTo + 1
            /\ lastPoll' = sent /\ age' = 0
            /\ held' = (held \ removed) \cup found
       ELSE UNCHANGED <<next, lastPoll, age, held>>
  /\ Return
  /\ UNCHANGED <<nodeVars, cleanIn, installed, isBlock, low>>

NodeStep == \/ AppendBlock \/ ColdApply \/ UpdateLatest
            \/ DrainAbove \/ RewindLatest \/ SendReorg

Request == \/ NewFilter \/ Install \/ UninstallFilter
           \/ Snapshot \/ ReadLatest \/ ReadCold \/ ReadFails \/ Commit

Next == NodeStep \/ NextSlot \/ Request

Spec == Init /\ [][Next]_vars

(***************************************************************************)
(* Properties.                                                             *)
(***************************************************************************)
\* Between polls, when no reorganisation is waiting for it, a client that
\* applies the output of every poll holds exactly the logs of the current
\* chain from its lowest start block up to the cursor; with a block filter,
\* which reports no removals, it holds at least those hashes.
ClientHoldsChain ==
  installed /\ ppc = "none" /\ lastPoll = sent /\ ~Reverting =>
    LET delivered == {chain[i] : i \in low..(next - 1)}
    IN /\ next <= Len(chain) + 1
       /\ delivered \subseteq held
       /\ ~isBlock => held = delivered

\* A poll finds every reorganisation sent since the filter's last poll in the
\* ring buffer, which MAX_REORG_ENTRIES is sized for.
PollsSeeEveryReorg ==
  [][ppc = "none" /\ ppc' = "latest" =>
       \A s \in (lastPoll + 1)..sent : \E i \in 1..Len(ring) : ring[i].at = s]_vars
=============================================================================
