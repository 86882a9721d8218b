------------------------------ MODULE SignetNode ------------------------------
(***************************************************************************)
(* The signet node: it follows a host chain through a HostNotifier, stores *)
(* the rollup block derived from every host block above the deploy height  *)
(* in a hot and a cold store, publishes block tags and chain events to RPC *)
(* readers, and survives being stopped at any point.                       *)
(*                                                                         *)
(* The node is one task: the program counter pc names the await point (or  *)
(* the shared-memory store) it has reached inside start, start_inner,      *)
(* on_notification, on_host_revert, process_committed_chain and            *)
(* update_block_tags.  The host, the notifier, the cold store's background *)
(* task and a stop of the process interleave with it.                      *)
(*                                                                         *)
(* A rollup block is represented by the host block it was derived from:    *)
(* hot[i] and cold[i] are the host blocks behind rollup block i.           *)
(***************************************************************************)
EXTENDS HostChain, BlockTags

CONSTANTS
  MaxReorgs,          \* bound: reorganisations of the host chain
  MaxStops,           \* bound: stops of the node process
  ResumeOnCanonical   \* the first delivery of a session resumes on a host
                      \* chain that still holds the blocks the node stored

ASSUME SignetNodeAssumption ==
  /\ MaxReorgs \in Nat
  /\ MaxStops \in Nat
  /\ ResumeOnCanonical \in BOOLEAN

VARIABLES
  host, hostFin, reorgs,          \* host: canonical chain, finalized height
  delivered, fresh, head,         \* notifier: chain delivered so far, no
                                  \* delivery yet in this session, set_head
  genesis, hot, cold, coldQ,      \* storage; coldQ: appends not yet in cold
  pc, stops,                      \* node: control point, stops so far
  note, todo, lastHeight,         \* notification in hand, blocks left of it
  changed, target, drained,       \* locals of the handlers
  status, finished,               \* status channel, last finished height
  seen                            \* the chain a subscriber has put together
                                  \* from this session's chain events

hostVars == <<host, hostFin, reorgs>>
feedVars == <<delivered, fresh, head>>
storeVars == <<genesis, hot, cold, coldQ>>
localVars == <<note, todo, lastHeight, changed, target, drained>>
outVars == <<status, finished, seen>>
vars == <<hostVars, feedVars, storeVars, pc, stops, localVars, outVars, tags>>

Locations ==
  {"down", "prebuild", "unwind_cold", "start", "idle",
   "revert", "drain_cold", "rewind_finalized", "rewind_safe", "rewind_latest",
   "notify_reorg", "extract", "block", "append",
   "tag_finalized", "tag_safe", "tag_latest", "finished", "failed"}

Booting == {"down", "prebuild", "unwind_cold", "start"}

(***************************************************************************)
(* HostNotification.  A commit has no revert range (first = NoHeight), a   *)
(* revert has no committed chain (new = <<>>), a reorg has both.           *)
(***************************************************************************)
Notification ==
  [first : Nat \cup {NoHeight}, tip : Nat \cup {NoHeight}, new : Seq(Block),
   safe : Nat \cup {NoHeight}, fin : Nat \cup {NoHeight}]

NoNote == [first |-> NoHeight, tip |-> NoHeight, new |-> <<>>,
           safe |-> NoHeight, fin |-> NoHeight]

TypeOK ==
  /\ host \in Seq(Block) /\ hostFin \in Nat /\ reorgs \in 0..MaxReorgs
  /\ delivered \in Seq(Block) /\ fresh \in BOOLEAN /\ head \in Nat
  /\ genesis \in {"none", "hot", "both"}
  /\ hot \in Seq(Block) /\ cold \in Seq(Block) /\ coldQ \in Seq(Block)
  /\ pc \in Locations /\ stops \in 0..MaxStops
  /\ note \in Notification /\ todo \in Seq(Block) /\ lastHeight \in Nat
  /\ changed \in BOOLEAN /\ target \in Nat /\ drained \in Seq(Block)
  /\ status \in Nat \cup {NoHeight} /\ finished \in Nat \cup {NoHeight}
  /\ seen \in Seq(Block)
  /\ TagsTypeOK

Init ==
  /\ host = <<>> /\ hostFin = 0 /\ reorgs = 0
  /\ delivered = <<>> /\ fresh = TRUE /\ head = 0
  /\ genesis = "none" /\ hot = <<>> /\ cold = <<>> /\ coldQ = <<>>
  /\ pc = "down" /\ stops = 0
  /\ note = NoNote /\ todo = <<>> /\ lastHeight = 0
  /\ changed = FALSE /\ target = 0 /\ drained = <<>>
  /\ status = NoHeight /\ finished = NoHeight /\ seen = <<>>
  /\ TagsInit

\* The blocks of s up to height n: what an unwind to n leaves.
Truncate(s, n) == IF n < Len(s) THEN Prefix(s, n) ELSE s

(***************************************************************************)
(* The host chain.  Blocks are added on the tip; a reorganisation drops a  *)
(* suffix that is not finalized, and the new branch is then added to what  *)
(* is left; finality only advances.                                        *)
(***************************************************************************)
HostExtend ==
  /\ \E b \in Block : /\ num[b] = Len(host) + 1
                      /\ host # <<>> => parent[b] = host[Len(host)]
                      /\ host' = Append(host, b)
  /\ UNCHANGED <<hostFin, reorgs, feedVars, storeVars, pc, stops, localVars,
                 outVars, tags>>

HostReorg ==
  /\ reorgs < MaxReorgs
  /\ \E k \in hostFin..(Len(host) - 1) : host' = Prefix(host, k)
  /\ reorgs' = reorgs + 1
  /\ UNCHANGED <<hostFin, feedVars, storeVars, pc, stops, localVars, outVars,
                 tags>>

HostFinalize ==
  /\ hostFin' \in (hostFin + 1)..Len(host)
  /\ UNCHANGED <<host, reorgs, feedVars, storeVars, pc, stops, localVars,
                 outVars, tags>>

(***************************************************************************)
(* What the node may assume of its HostNotifier.  The first notification   *)
(* of a session commits blocks of the canonical chain from the set_head    *)
(* number on.  Every later one moves the delivered chain to a prefix of    *)
(* the canonical chain: it reverts the blocks above the common ancestor    *)
(* and commits canonical blocks on top of it.  Each notification carries   *)
(* the safe and finalized heights known when it was made, if any.          *)
(***************************************************************************)
OnCanonical ==
  \A i \in 1..Len(hot) : /\ DeployHeight + i <= Len(host)
                         /\ host[DeployHeight + i] = hot[i]

SharedUpTo(a) == /\ a <= Len(delivered)
                 /\ a <= Len(host)
                 /\ \A i \in 1..a : delivered[i] = host[i]

CommonAncestor(a) == SharedUpTo(a) /\ ~SharedUpTo(a + 1)

Deliver(first, tip, new) ==
  /\ pc = "idle"
  /\ \E s \in {NoHeight, Len(host)}, f \in {NoHeight, hostFin} :
       note' = [first |-> first, tip |-> tip, new |-> new,
                safe |-> s, fin |-> f]
  /\ fresh' = FALSE
  /\ changed' = FALSE
  /\ pc' = IF first = NoHeight THEN "extract" ELSE "revert"
  /\ UNCHANGED <<hostVars, head, storeVars, stops, todo, lastHeight, target,
                 drained, outVars, tags>>

FirstNotification ==
  /\ fresh
  /\ ResumeOnCanonical => OnCanonical
  /\ \E k \in head..Len(host) :
       /\ delivered' = Prefix(host, k)
       /\ Deliver(NoHeight, NoHeight, SubSeq(host, head, k))

NextNotification ==
  /\ ~fresh
  /\ \E a \in 0..Len(delivered) : \E k \in a..Len(host) :
       /\ CommonAncestor(a)
       /\ delivered' = Prefix(host, k)
       /\ IF a = Len(delivered)
            THEN k > a /\ Deliver(NoHeight, NoHeight, SubSeq(host, a + 1, k))
            ELSE Deliver(a + 1, Len(delivered), SubSeq(host, a + 1, k))

(***************************************************************************)
(* Start-up: SignetNodeBuilder::prebuild, then SignetNode::start.          *)
(***************************************************************************)
Boot ==
  /\ pc = "down" /\ pc' = "prebuild"
  /\ UNCHANGED <<hostVars, feedVars, storeVars, stops, localVars, outVars, tags>>

LoadHotGenesis ==
  /\ pc = "prebuild" /\ genesis = "none"
  /\ genesis' = "hot"
  /\ UNCHANGED <<hostVars, feedVars, hot, cold, coldQ, pc, stops, localVars,
                 outVars, tags>>

LoadColdGenesis ==
  /\ pc = "prebuild" /\ genesis = "hot"
  /\ genesis' = "both"
  /\ UNCHANGED <<hostVars, feedVars, hot, cold, coldQ, pc, stops, localVars,
                 outVars, tags>>

\* Mutants: the heights are not compared; only a hot store that is ahead is.
ReconcileSkipped ==
  /\ pc = "prebuild" /\ genesis = "both"
  /\ pc' = "start"
  /\ UNCHANGED <<hostVars, feedVars, storeVars, stops, localVars, outVars, tags>>

ReconcileHotOnly ==
  /\ pc = "prebuild" /\ genesis = "both"
  /\ hot' = Truncate(hot, Len(cold))
  /\ pc' = "start"
  /\ UNCHANGED <<hostVars, feedVars, genesis, cold, coldQ, stops, localVars,
                 outVars, tags>>

\* hot and cold are brought to the lower of their two heights; the unwind
\* commits hot first and then truncates cold.
Reconcile ==
  /\ pc = "prebuild" /\ genesis = "both"
  /\ target' = AtMost(Len(hot), Len(cold))
  /\ hot' = Truncate(hot, target')
  /\ pc' = IF Len(hot) = Len(cold) THEN "start" ELSE "unwind_cold"
  /\ UNCHANGED <<hostVars, feedVars, genesis, cold, coldQ, stops, note, todo,
                 lastHeight, changed, drained, outVars, tags>>

UnwindCold ==
  /\ pc = "unwind_cold"
  /\ cold' = Truncate(cold, target)
  /\ pc' = "start"
  /\ UNCHANGED <<hostVars, feedVars, genesis, hot, coldQ, stops, localVars,
                 outVars, tags>>

\* The host block of the last stored rollup block, which is delivered again.
ResumeHeight == IF Len(hot) = 0 THEN DeployHeight ELSE HostOfRollup(Len(hot))

\* RPC goes up, the status leaves Booting, and the notifier is told where
\* to resume.
StartInner ==
  /\ pc = "start"
  /\ status' = Len(hot)
  /\ head' = ResumeHeight
  /\ seen' = hot
  /\ pc' = "idle"
  /\ UNCHANGED <<hostVars, delivered, fresh, storeVars, stops, localVars,
                 finished, tags>>

(***************************************************************************)
(* on_host_revert.  Reverts run before commits.                            *)
(***************************************************************************)
\* Mutants: the deploy block itself reaches the drain; the first rollup block
\* is taken for one below the deploy height.
BelowDeployStrict == note.tip < DeployHeight
BelowDeployWide == note.tip <= DeployHeight + 1

BelowDeploy == note.tip <= DeployHeight

RevertBelowDeploy ==
  /\ pc = "revert"
  /\ BelowDeploy
  /\ pc' = "extract"
  /\ UNCHANGED <<hostVars, feedVars, storeVars, stops, localVars, outVars, tags>>

CoversTip == RollupOfHost(note.tip) >= Len(hot)

\* Mutants: no step back, unwind everything.
RevertTargetInclusive == RollupOfHost(note.first)
RevertTargetGenesis == 0

\* One before the first reverted rollup block, saturating at 0.
RevertTarget == IF RollupOfHost(note.first) > 0
                  THEN RollupOfHost(note.first) - 1 ELSE 0

\* drain_above, first half: hot is unwound and its blocks are handed back.
DrainHot ==
  /\ pc = "revert"
  /\ ~BelowDeploy
  /\ target' = RevertTarget
  /\ IF CoversTip
       THEN /\ drained' = SubSeq(hot, target' + 1, Len(hot))
            /\ hot' = Truncate(hot, target')
            /\ pc' = "drain_cold"
       ELSE pc' = "failed" /\ UNCHANGED <<drained, hot>>
  /\ UNCHANGED <<hostVars, feedVars, genesis, cold, coldQ, stops, note, todo,
                 lastHeight, changed, outVars, tags>>

\* drain_above, second half: the cold task reaches the truncation after the
\* appends queued before it.
DrainCold ==
  /\ pc = "drain_cold" /\ coldQ = <<>>
  /\ cold' = Truncate(cold, target)
  /\ pc' = "rewind_finalized"
  /\ UNCHANGED <<hostVars, feedVars, genesis, hot, coldQ, stops, localVars,
                 outVars, tags>>

\* BlockTags::rewind_to(target), one atomic fetch_min at a time.
RewindStep(from, to) ==
  /\ pc = from /\ pc' = to
  /\ UNCHANGED <<hostVars, feedVars, storeVars, stops, localVars, outVars>>

RewindFinalized ==
  RewindStep("rewind_finalized", "rewind_safe") /\ CapFinalized(target)
RewindSafe == RewindStep("rewind_safe", "rewind_latest") /\ CapSafe(target)
RewindLatest == RewindStep("rewind_latest", "notify_reorg") /\ CapLatest(target)

\* Mutants: the event is not sent; the revert is not reported as a change.
NotifyReorgSilent ==
  /\ pc = "notify_reorg"
  /\ changed' = TRUE
  /\ pc' = "extract"
  /\ UNCHANGED <<hostVars, feedVars, storeVars, stops, note, todo, lastHeight,
                 target, drained, outVars, tags>>

NotifyReorgUnchanged ==
  /\ pc = "notify_reorg"
  /\ seen' = Truncate(seen, target)
  /\ pc' = "extract"
  /\ UNCHANGED <<hostVars, feedVars, storeVars, stops, localVars, status,
                 finished, tags>>

NotifyReorg ==
  /\ pc = "notify_reorg"
  /\ seen' = IF drained # <<>> THEN Truncate(seen, target) ELSE seen
  /\ changed' = TRUE
  /\ pc' = "extract"
  /\ UNCHANGED <<hostVars, feedVars, storeVars, stops, note, todo, lastHeight,
                 target, drained, status, finished, tags>>

(***************************************************************************)
(* process_committed_chain.  last_height is read once, before the loop.    *)
(***************************************************************************)
Extract ==
  /\ pc = "extract"
  /\ todo' = note.new
  /\ lastHeight' = Len(hot)
  /\ pc' = "block"
  /\ UNCHANGED <<hostVars, feedVars, storeVars, stops, note, changed, target,
                 drained, outVars, tags>>

\* filter(|e| e.ru_height > last_height)
SkipBlock ==
  /\ pc = "block" /\ todo # <<>>
  /\ RollupOfHost(num[Head(todo)]) <= lastHeight
  /\ todo' = Tail(todo)
  /\ UNCHANGED <<hostVars, feedVars, storeVars, pc, stops, note, lastHeight,
                 changed, target, drained, outVars, tags>>

\* The block is executed on the stored parent, which must be the hot tip, and
\* announced to subscribers before it is stored.
ProcessBlock ==
  /\ pc = "block" /\ todo # <<>>
  /\ RollupOfHost(num[Head(todo)]) > lastHeight
  /\ IF RollupOfHost(num[Head(todo)]) = Len(hot) + 1
       THEN pc' = "append" /\ seen' = Append(seen, Head(todo))
       ELSE pc' = "failed" /\ seen' = seen
  /\ UNCHANGED <<hostVars, feedVars, storeVars, stops, localVars, status,
                 finished, tags>>

\* append_blocks commits to hot and hands the block to the cold task.
AppendBlock ==
  /\ pc = "append"
  /\ hot' = Append(hot, Head(todo))
  /\ coldQ' = Append(coldQ, Head(todo))
  /\ todo' = Tail(todo)
  /\ changed' = TRUE
  /\ pc' = "block"
  /\ UNCHANGED <<hostVars, feedVars, genesis, cold, stops, note, lastHeight,
                 target, drained, outVars, tags>>

\* The cold store's background task applies its queue in order.
ColdApply ==
  /\ coldQ # <<>>
  /\ cold' = Append(cold, Head(coldQ))
  /\ coldQ' = Tail(coldQ)
  /\ UNCHANGED <<hostVars, feedVars, genesis, hot, pc, stops, localVars,
                 outVars, tags>>

(***************************************************************************)
(* The end of a notification: status, tags, finished height.               *)
(***************************************************************************)
FinishNotification ==
  /\ pc = "block" /\ todo = <<>>
  /\ IF changed THEN status' = Len(hot) /\ pc' = "tag_finalized"
                ELSE status' = status /\ pc' = "idle"
  /\ UNCHANGED <<hostVars, feedVars, storeVars, stops, localVars, finished,
                 seen, tags>>

\* Mutants: no clamp to the stored height; no case for heights below the
\* deploy height.
ClampHostHeightMissing(h) == RollupOfHost(h)
ClampHostHeightUnsaturated(h) == AtMost(h - DeployHeight, Len(hot))

\* clamp_host_heights(Len(hot), h).rollup; its host side is HostOfRollup of it.
ClampHostHeight(h) == IF h < DeployHeight THEN 0
                      ELSE AtMost(RollupOfHost(h), Len(hot))

\* BlockTags::update_all, one atomic store at a time.
UpdateStep(from, to) ==
  /\ pc = from /\ pc' = to
  /\ UNCHANGED <<hostVars, feedVars, storeVars, stops, localVars, outVars>>

UpdateFinalized == /\ UpdateStep("tag_finalized", "tag_safe")
                   /\ StoreFinalized(ClampHostHeight(note.fin))
UpdateSafe == /\ UpdateStep("tag_safe", "tag_latest")
              /\ StoreSafe(ClampHostHeight(note.safe))
UpdateLatest == UpdateStep("tag_latest", "finished") /\ StoreLatest(Len(hot))

\* Mutant: the safe height is reported as finished.
SendFinishedHeightOfSafe ==
  /\ pc = "finished"
  /\ finished' = IF ClampHostHeight(note.safe) > 0
                   THEN HostOfRollup(ClampHostHeight(note.safe)) - 1
                   ELSE finished
  /\ pc' = "idle"
  /\ UNCHANGED <<hostVars, feedVars, storeVars, stops, localVars, status, seen,
                 tags>>

SendFinishedHeight ==
  /\ pc = "finished"
  /\ finished' = IF ClampHostHeight(note.fin) > 0
                   THEN HostOfRollup(ClampHostHeight(note.fin)) - 1
                   ELSE finished
  /\ pc' = "idle"
  /\ UNCHANGED <<hostVars, feedVars, storeVars, stops, localVars, status, seen,
                 tags>>

(***************************************************************************)
(* The process stops: it is killed, or a fallible call (blob fetch, EVM,   *)
(* storage, notifier) returns an error and start_inner with it.  Only what *)
(* both stores have committed survives.                                    *)
(***************************************************************************)
Stop ==
  /\ pc # "down"
  /\ stops < MaxStops
  /\ stops' = stops + 1
  /\ pc' = "down"
  /\ coldQ' = <<>>
  /\ delivered' = <<>> /\ fresh' = TRUE /\ head' = 0
  /\ note' = NoNote /\ todo' = <<>> /\ lastHeight' = 0
  /\ changed' = FALSE /\ target' = 0 /\ drained' = <<>>
  /\ status' = NoHeight /\ finished' = NoHeight /\ seen' = <<>>
  /\ TagsReset
  /\ UNCHANGED <<hostVars, genesis, hot, cold>>

HostStep == HostExtend \/ HostReorg \/ HostFinalize

NotifierStep == FirstNotification \/ NextNotification

StartUp == \/ LoadHotGenesis \/ LoadColdGenesis \/ Reconcile \/ UnwindCold
           \/ StartInner

OnHostRevert == \/ RevertBelowDeploy \/ DrainHot \/ DrainCold
                \/ RewindFinalized \/ RewindSafe \/ RewindLatest
                \/ NotifyReorg

ProcessCommittedChain == Extract \/ SkipBlock \/ ProcessBlock \/ AppendBlock

UpdateBlockTags == \/ FinishNotification
                   \/ UpdateFinalized \/ UpdateSafe \/ UpdateLatest
                   \/ SendFinishedHeight

NodeStep == StartUp \/ OnHostRevert \/ ProcessCommittedChain \/ UpdateBlockTags

Next == HostStep \/ NotifierStep \/ Boot \/ NodeStep \/ ColdApply \/ Stop

Spec == Init /\ [][Next]_vars

(***************************************************************************)
(* The node task, the cold task and the notifier are always scheduled.     *)
(* Nothing is assumed of the host, of stops, or of whoever boots the node. *)
(***************************************************************************)
Fairness == /\ WF_vars(NodeStep)
            /\ WF_vars(ColdApply)
            /\ WF_vars(NotifierStep)

FairSpec == Spec /\ Fairness

-------------------------------------------------------------------------------
(***************************************************************************)
(* Properties.                                                             *)
(***************************************************************************)
\* The stored rollup blocks derive from consecutive, hash-linked host blocks
\* starting right above the deploy block, whatever reverts, failures and
\* restarts came between the appends of process_committed_chain.
RollupIsLinked == LinkedFrom(hot, DeployHeight + 1)

\* Hot and cold storage never hold different blocks at the same height: not
\* while cold lags, not between the two halves of an unwind, and not after a
\* stop in either place (start() only compares their heights).
StoresAgree == \A i \in 1..AtMost(Len(hot), Len(cold)) : hot[i] = cold[i]

\* Between notifications storage holds exactly the rollup part of the chain
\* the host has delivered: nothing skipped, applied twice or left over.
FollowsHost == (pc = "idle" /\ ~fresh) =>
                 hot = SubSeq(delivered, DeployHeight + 1, Len(delivered))

\* The consistency errors of the handlers never fire: a revert range always
\* covers the stored tip, a block's parent is always the stored tip, and, as
\* on_host_revert asserts, a revert always drains at least one block.
NeverFails == /\ pc # "failed"
              /\ pc = "notify_reorg" => drained # <<>>

\* A subscriber that applies every NewBlock and Reorg event has the stored
\* chain whenever the node is between notifications, and a Reorg event removes
\* exactly the blocks that left storage.
EventsTellTheChain == /\ pc = "idle" => seen = hot
                      /\ pc = "notify_reorg" => seen = hot \o drained

\* A reader of the tags finds stored blocks, in order: every tag names a stored
\* block outside on_host_revert's window between drain_above and the end of
\* rewind_to, and finalized is not ahead of latest outside the window inside
\* update_all between its first and its last store.
TagsPointAtStoredBlocks ==
  /\ pc \notin {"drain_cold", "rewind_finalized", "rewind_safe", "rewind_latest"} =>
       latest <= Len(hot) /\ safe <= Len(hot) /\ finalized <= Len(hot)
  /\ pc \notin {"tag_safe", "tag_latest"} => finalized <= latest

\* Between notifications the status channel shows the stored height and the
\* latest tag shows it too, or has not been set in this session.
ReportsAreCurrent == pc = "idle" => status = Len(hot) /\ latest \in {0, Len(hot)}

\* A rollup block at or below the finished height sent to the host, which may
\* then prune what came before it, is never unwound in the same session.
FinishedBlocksStay ==
  [][\A i \in 1..Len(hot) : HostOfRollup(i) <= finished =>
       i <= Len(hot') /\ hot'[i] = hot[i]]_vars

\* Once the node stays up, having resumed on the canonical chain, it ends with
\* both stores at the host's tip (start_inner's loop, the cold task).
CatchesUp ==
  <>[](pc # "down" /\ (fresh => OnCanonical)) =>
    <>[](/\ hot = SubSeq(host, DeployHeight + 1, Len(host))
         /\ cold = hot)

-------------------------------------------------------------------------------
(***************************************************************************)
(* The node implements the abstract rollup chain: its hot store is the     *)
(* chain and its finalized tag the mark below which it is not rewound.     *)
(***************************************************************************)
Rollup == INSTANCE RollupChain WITH chain <- hot, final <- finalized

\* Every step of the node, of a stop and of a restart is a step of RollupChain
\* or leaves the chain and the mark alone.
ImplementsRollupChain == Rollup!Spec
==============================================================================
