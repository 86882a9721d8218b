--------------------------- MODULE RpcHostNotifier ---------------------------
(***************************************************************************)
(* signet-host-rpc: a HostNotifier that follows the host chain over RPC.   *)
(* It backfills by block number from the set_head height, then follows the *)
(* newHeads subscription by walking parent hashes back to its chain view,  *)
(* a bounded buffer of the last blocks it has emitted.                     *)
(*                                                                         *)
(* Every RPC call is an await during which the host chain may change:      *)
(* reading the tip, fetching each block of a backfill batch, walking from  *)
(* a header.  What hangs off one hash (a walk, a fetch by hash) cannot     *)
(* change, so a walk is one step, and the provider may only fail to know a *)
(* block that has left the canonical chain.                                *)
(***************************************************************************)
EXTENDS HostChain

CONSTANTS
  NoBlock,          \* an absent hash
  Head0,            \* the set_head height
  Capacity,         \* buffer_capacity
  BatchSize,        \* backfill_batch_size, at least 1
  EpochBlocks,      \* blocks per epoch: the timestamps of the headers
  MaxReorgs         \* bound: reorganisations of the host chain

ASSUME RpcHostNotifierAssumption ==
  /\ NoBlock \notin Block
  /\ Head0 \in Nat \ {0} /\ Capacity \in Nat \ {0} /\ BatchSize \in Nat \ {0}
  /\ EpochBlocks \in Nat \ {0} /\ MaxReorgs \in Nat

\* A header's number is one above its parent's.
ASSUME HeaderAssumption ==
  \A b \in Block : num[b] > 1 => num[parent[b]] = num[b] - 1

VARIABLES
  host, hostFin, reorgs,      \* provider: canonical chain, finalized height
  spared,                     \* every reorganisation spared what is relied on
  header,                     \* latest unread subscription header (Latest)
  view, backfillFrom,         \* chain_view, backfill_from
  lastEmitted,                \* last_emitted
  tagEpoch, cachedFin,        \* last_tag_epoch; cached_finalized, and cached_safe
  pc,                         \* the await the notifier is at
  to, got, done,              \* locals of drain_backfill
  hint, hintEpoch,            \* locals of handle_new_head
  note,                       \* the notification last returned
  feed                        \* the chain its receiver holds from Head0 on

hostVars == <<host, hostFin, reorgs, spared, header>>
tagVars == <<tagEpoch, cachedFin>>
batchVars == <<to, got, done>>
followVars == <<view, backfillFrom, lastEmitted, tagVars, note, feed>>
headVars == <<hint, hintEpoch>>
vars == <<hostVars, followVars, pc, batchVars, headVars>>

NoNote == [first |-> NoHeight, tip |-> NoHeight, new |-> <<>>, fin |-> NoHeight]

TypeOK ==
  /\ host \in Seq(Block) /\ hostFin \in Nat /\ reorgs \in 0..MaxReorgs
  /\ spared \in BOOLEAN
  /\ header \in Block \cup {NoBlock}
  /\ view \in Seq(Block) /\ Len(view) <= Capacity
  /\ backfillFrom \in Nat \cup {NoHeight}
  /\ lastEmitted \in Block \cup {NoBlock}
  /\ tagEpoch \in Nat \cup {NoHeight} /\ cachedFin \in Nat \cup {NoHeight}
  /\ pc \in {"backfill", "fetch", "await", "walk", "rewalk", "failed", "closed"}
  /\ hint \in Block \cup {NoBlock} /\ hintEpoch \in Nat
  /\ to \in Nat /\ done \in BOOLEAN
  /\ got \in [DOMAIN got -> Block] /\ DOMAIN got \subseteq Nat
  /\ note \in [first : Nat \cup {NoHeight}, tip : Nat \cup {NoHeight},
               new : Seq(Block), fin : Nat \cup {NoHeight}]
  /\ feed \in Seq(Block)

\* The chain that ends in b, by parent hashes.
Path[b \in Block] == IF num[b] = 1 THEN <<b>> ELSE Append(Path[parent[b]], b)

\* set_head has been called on a notifier whose subscription is open.
Init ==
  /\ host \in {Path[b] : b \in {c \in Block : num[c] >= Head0}}
  /\ hostFin = 0 /\ reorgs = 0 /\ spared = TRUE /\ header = NoBlock
  /\ view = <<>> /\ backfillFrom = Head0 /\ lastEmitted = NoBlock
  /\ tagEpoch = NoHeight /\ cachedFin = NoHeight
  /\ pc = "backfill" /\ to = 0 /\ got = <<>> /\ done = FALSE
  /\ hint = NoBlock /\ hintEpoch = 0
  /\ note = NoNote /\ feed = <<>>

Tip(s) == s[Len(s)]

(***************************************************************************)
(* walk_chain from block b.  The walk goes down by parent hashes until it  *)
(* meets the view, leaves it at the bottom, or is deeper than the buffer.  *)
(***************************************************************************)
\* view_hash(num[b]) = Some(b): the entry is found by its distance from the
\* front of the view.
InView(b) ==
  /\ view # <<>>
  /\ LET i == num[b] - num[view[1]] + 1
     IN i \in 1..Len(view) /\ view[i] = b

\* The heights at which it may meet the view; it stops at the highest.
Overlaps(b) == {n \in 1..num[b] : InView(Path[b][n]) /\ num[b] - n <= Capacity}

Overlap(b) == CHOOSE n \in Overlaps(b) : \A m \in Overlaps(b) : m <= n

AlreadySeen(b) == InView(b)

Exhausted(b) == view # <<>> /\ Overlaps(b) = {}

(***************************************************************************)
(* The host.  Every change of the canonical tip sends a header; unread     *)
(* headers coalesce to the newest one.                                     *)
(***************************************************************************)
NewTip(s) ==
  \E b \in Block : /\ num[b] = Len(s) + 1
                   /\ s # <<>> => parent[b] = Tip(s)
                   /\ host' = Append(s, b)
                   /\ header' = b

HostExtend ==
  /\ NewTip(host)
  /\ UNCHANGED <<hostFin, reorgs, spared, followVars, pc, batchVars, headVars>>

\* The lowest height the notifier relies on: the block to resume after, when the
\* view is empty or the walk in hand will empty it; else the oldest block of
\* the view, now and once the hint has been handled.
Relied ==
  IF view = <<>> \/ (hint # NoBlock /\ Exhausted(hint))
    THEN IF lastEmitted = NoBlock THEN Head0 ELSE num[lastEmitted]
  ELSE IF hint # NoBlock /\ num[view[1]] <= num[hint] - Capacity
    THEN num[hint] - Capacity + 1
  ELSE num[view[1]]

HostReorg ==
  /\ reorgs < MaxReorgs
  /\ \E k \in (hostFin..(Len(host) - 1)) \ {0} :
       /\ spared' = (spared /\ k >= Relied /\ pc # "fetch")
       /\ NewTip(Prefix(host, k))
       /\ Tip(host') # host[k + 1]
  /\ reorgs' = reorgs + 1
  /\ UNCHANGED <<hostFin, followVars, pc, batchVars, headVars>>

HostFinalize ==
  /\ hostFin' \in (hostFin + 1)..Len(host)
  /\ UNCHANGED <<host, reorgs, spared, header, followVars, pc, batchVars, headVars>>

(***************************************************************************)
(* Helpers.                                                                *)
(***************************************************************************)
\* Mutant: the view grows past its capacity.
ExtendViewNoEviction(v, new) == v \o new

\* extend_view: append, evicting the oldest blocks over capacity.
ExtendView(v, new) ==
  LET s == v \o new
  IN IF Len(s) > Capacity THEN SubSeq(s, Len(s) - Capacity + 1, Len(s)) ELSE s

\* What is left of v when its blocks are popped from the back as long as they
\* are at or above height n: how reorg_view truncates the view, and how a
\* receiver unwinds.
Below(v, n) ==
  Prefix(v, CHOOSE k \in 0..Len(v) :
              /\ \A i \in (k + 1)..Len(v) : num[v[i]] >= n
              /\ k > 0 => num[v[k]] < n)

\* epoch_of a block's timestamp.
EpochOf(b) == num[b] \div EpochBlocks

\* maybe_refresh_tags: the tags are read at most once per epoch.
RefreshTags(epoch) ==
  /\ tagEpoch' = epoch
  /\ cachedFin' = IF tagEpoch = epoch THEN cachedFin ELSE hostFin

\* A notification is returned, and the receiver applies it.
Emit(first, tip, new) ==
  /\ note' = [first |-> first, tip |-> tip, new |-> new, fin |-> cachedFin']
  /\ feed' = (IF first = NoHeight THEN feed ELSE Below(feed, first)) \o new
  /\ lastEmitted' = Tip(new)

(***************************************************************************)
(* drain_backfill.                                                         *)
(***************************************************************************)
\* No backfill is pending: go on to the subscription.
BackfillIdle ==
  /\ pc = "backfill" /\ backfillFrom = NoHeight
  /\ pc' = "await"
  /\ UNCHANGED <<hostVars, followVars, batchVars, headVars>>

\* from = tip + 1: the cursor is cleared and nothing is fetched.
BackfillComplete ==
  /\ pc = "backfill" /\ backfillFrom = Len(host) + 1
  /\ backfillFrom' = NoHeight
  /\ pc' = "await"
  /\ UNCHANGED <<hostVars, view, lastEmitted, tagVars, note, feed, batchVars,
                 headVars>>

\* from > tip + 1: BackfillContinuityBreak.
BackfillPastTip ==
  /\ pc = "backfill" /\ backfillFrom > Len(host) + 1
  /\ pc' = "failed"
  /\ UNCHANGED <<hostVars, followVars, batchVars, headVars>>

\* Mutant: the whole buffer is left to the hash walk.
BackfillCeilingLow(tip) ==
  LET ceiling == IF tip > Capacity THEN tip - Capacity ELSE 0
  IN IF backfillFrom > ceiling THEN tip ELSE ceiling

\* Half the buffer is left to the hash walk, unless the cursor is already in it.
BackfillCeiling(tip) ==
  LET ceiling == IF tip > Capacity \div 2 THEN tip - Capacity \div 2 ELSE 0
  IN IF backfillFrom > ceiling THEN tip ELSE ceiling

BackfillPlan ==
  /\ pc = "backfill" /\ backfillFrom # NoHeight /\ backfillFrom <= Len(host)
  /\ LET ceiling == BackfillCeiling(Len(host))
         last == backfillFrom + BatchSize - 1
     IN /\ to' = IF last < ceiling THEN last ELSE ceiling
        /\ done' = (to' >= ceiling)
  /\ got' = <<>>
  /\ pc' = "fetch"
  /\ UNCHANGED <<hostVars, followVars, headVars>>

\* One of the concurrent fetches by number is answered.
FetchByNumber ==
  /\ pc = "fetch"
  /\ \E n \in (backfillFrom..to) \ DOMAIN got :
       /\ n <= Len(host)
       /\ got' = [m \in DOMAIN got \cup {n} |-> IF m = n THEN host[n] ELSE got[m]]
  /\ UNCHANGED <<hostVars, followVars, pc, to, done, headVars>>

\* MissingBlock: the chain has become shorter than the planned batch.
FetchMissing ==
  /\ pc = "fetch"
  /\ \E n \in (backfillFrom..to) \ DOMAIN got : n > Len(host)
  /\ pc' = "failed"
  /\ UNCHANGED <<hostVars, followVars, batchVars, headVars>>

Fetched == [i \in 1..(to - backfillFrom + 1) |-> got[backfillFrom + i - 1]]

\* Mutant: the batch is not compared with the last emitted block.
ContinuousAlways(blocks) == TRUE

\* The first block's parent is the last block emitted, if there is one.
Continuous(blocks) == \/ lastEmitted = NoBlock
                      \/ parent[blocks[1]] = lastEmitted

BackfillBreak ==
  /\ pc = "fetch" /\ DOMAIN got = backfillFrom..to
  /\ ~Continuous(Fetched)
  /\ pc' = "failed" /\ view' = <<>>
  /\ UNCHANGED <<hostVars, backfillFrom, lastEmitted, tagVars, note, feed,
                 batchVars, headVars>>

BackfillEmit ==
  /\ pc = "fetch" /\ DOMAIN got = backfillFrom..to
  /\ Continuous(Fetched)
  /\ view' = ExtendView(view, Fetched)
  /\ backfillFrom' = IF done THEN NoHeight ELSE to + 1
  /\ RefreshTags(EpochOf(Tip(Fetched)))
  /\ Emit(NoHeight, NoHeight, Fetched)
  /\ pc' = "backfill" /\ got' = <<>>
  /\ UNCHANGED <<hostVars, to, done, headVars>>

(***************************************************************************)
(* handle_new_head: one alternative per result of the walk.                *)
(***************************************************************************)
\* The view is cleared to resume after the last emitted block.
ResetToBackfill ==
  /\ view' = <<>>
  /\ backfillFrom' = IF lastEmitted = NoBlock THEN NoHeight
                     ELSE num[lastEmitted] + 1
  /\ tagEpoch' = NoHeight
  /\ UNCHANGED <<lastEmitted, cachedFin, note, feed>>

\* The view is empty: the walk stops at its first block.
AdvanceFromEmpty(b) ==
  /\ view' = ExtendView(view, <<b>>)
  /\ RefreshTags(hintEpoch)
  /\ Emit(NoHeight, NoHeight, <<b>>)
  /\ UNCHANGED backfillFrom

Advance(b) ==
  LET new == SubSeq(Path[b], Overlap(b) + 1, num[b])
  IN /\ view' = ExtendView(view, new)
     /\ RefreshTags(hintEpoch)
     /\ Emit(NoHeight, NoHeight, new)
     /\ UNCHANGED backfillFrom

\* Mutants: the view keeps the blocks that were reverted; the range ends at
\* the tip of the new chain instead of the old one.
ReorgKeepsView(b) ==
  LET fork == Overlap(b) + 1
      new == SubSeq(Path[b], fork, num[b])
  IN /\ view' = ExtendView(view, new)
     /\ RefreshTags(hintEpoch)
     /\ Emit(fork, num[Tip(view)], new)
     /\ UNCHANGED backfillFrom

ReorgToNewTip(b) ==
  LET fork == Overlap(b) + 1
      new == SubSeq(Path[b], fork, num[b])
  IN /\ view' = ExtendView(Below(view, fork), new)
     /\ RefreshTags(hintEpoch)
     /\ Emit(fork, num[b], new)
     /\ UNCHANGED backfillFrom

Reorg(b) ==
  LET fork == Overlap(b) + 1
      new == SubSeq(Path[b], fork, num[b])
  IN /\ view' = ExtendView(Below(view, fork), new)
     /\ RefreshTags(hintEpoch)
     /\ Emit(fork, num[Tip(view)], new)
     /\ UNCHANGED backfillFrom

\* The newest unread header is taken from the subscription.
TakeHeader ==
  /\ pc = "await" /\ header # NoBlock
  /\ hint' = header /\ hintEpoch' = EpochOf(header)
  /\ header' = NoBlock
  /\ pc' = "walk"
  /\ UNCHANGED <<host, hostFin, reorgs, spared, followVars, batchVars>>

\* A walk and what follows from it.  next_notification comes back to
\* drain_backfill, at once or when it is called again.
HandleNewHead ==
  /\ pc \in {"walk", "rewalk"}
  /\ \/ AlreadySeen(hint) /\ UNCHANGED followVars
     \/ Exhausted(hint) /\ ResetToBackfill
     \/ view = <<>> /\ AdvanceFromEmpty(hint)
     \/ /\ ~AlreadySeen(hint) /\ Overlaps(hint) # {}
        /\ Overlap(hint) = num[Tip(view)]
        /\ Advance(hint)
     \/ /\ ~AlreadySeen(hint) /\ Overlaps(hint) # {}
        /\ Overlap(hint) # num[Tip(view)]
        /\ Reorg(hint)
  /\ pc' = "backfill" /\ hint' = NoBlock /\ hintEpoch' = 0
  /\ UNCHANGED <<hostVars, batchVars>>

\* The provider knows the canonical chain, and may have forgotten the rest.
Canonical(b) == \E i \in 1..Len(host) : host[i] = b

\* MissingBlockByHash: the provider's latest block is walked instead, once.
StaleHint ==
  /\ pc = "walk" /\ ~Canonical(hint)
  /\ view # <<>> => hint # Tip(view)
  /\ hint' = Tip(host)
  /\ pc' = "rewalk"
  /\ UNCHANGED <<hostVars, followVars, batchVars, hintEpoch>>

\* A call to the provider fails; the node stops on the error.
CallFails ==
  /\ pc \in {"backfill", "fetch", "walk", "rewalk"}
  /\ pc = "backfill" => backfillFrom # NoHeight
  /\ pc' = "failed"
  /\ UNCHANGED <<hostVars, followVars, batchVars, headVars>>

\* The subscription ends: next_notification returns None.
HeadersEnd ==
  /\ pc = "await" /\ header = NoBlock
  /\ pc' = "closed"
  /\ UNCHANGED <<hostVars, followVars, batchVars, headVars>>

HostStep == HostExtend \/ HostReorg \/ HostFinalize

DrainBackfill == \/ BackfillIdle \/ BackfillComplete \/ BackfillPastTip
                 \/ BackfillPlan \/ FetchByNumber \/ FetchMissing
                 \/ BackfillBreak \/ BackfillEmit

FollowHead == TakeHeader \/ HandleNewHead \/ StaleHint

Next == HostStep \/ DrainBackfill \/ FollowHead \/ CallFails \/ HeadersEnd

Spec == Init /\ [][Next]_vars

(***************************************************************************)
(* Properties.                                                             *)
(***************************************************************************)
\* The chain view is the end of the chain the receiver holds, block by block,
\* and last_emitted is that chain's tip: what walk_chain takes for a common
\* ancestor has been delivered, and is found at its index (the contiguity that
\* view_hash asserts), whatever the host does.
ViewMirrorsFeed ==
  /\ Len(view) <= Len(feed)
  /\ view = SubSeq(feed, Len(feed) - Len(view) + 1, Len(feed))
  /\ \A i \in 1..(Len(view) - 1) : num[view[i + 1]] = num[view[i]] + 1
  /\ lastEmitted = IF feed = <<>> THEN NoBlock ELSE Tip(feed)

\* A ChainReorged notification reverts up to the last block the receiver
\* holds, which SignetNode::on_host_revert requires of every revert, and
\* delivers its new chain from the first reverted height on.
RevertsReachTheTip ==
  [][note' # note /\ note'.first # NoHeight
       => /\ note'.tip = num[Tip(feed)]
          /\ note'.first <= note'.tip
          /\ num[note'.new[1]] = note'.first]_vars

\* The HostNotifier contract: notifications come in host-chain order.  What
\* the receiver holds, from the set_head height on, is one hash-linked chain.
FeedInHostOrder == LinkedFrom(feed, Head0)

\* The contract as far as the code keeps it: through every walk, exhaustion,
\* stale hint and resumed backfill, the receiver holds one hash-linked chain as
\* long as reorganisations leave the chain view and a batch in flight alone.
FeedInHostOrderIfSpared == spared => FeedInHostOrder

\* When the notifier sleeps with no unread header, its receiver holds the
\* canonical chain up to half a buffer below the tip: no block stays behind
\* unless a later header will fetch it.  It may be ahead only when the host has
\* gone back to a block still in the view, where the next walk will meet it.
IdleIsCurrent ==
  spared /\ pc = "await" /\ header = NoBlock =>
    /\ Len(host) - (Head0 + Len(feed) - 1) <= Capacity \div 2
    /\ \A i \in 1..Len(feed) :
         Head0 + i - 1 <= Len(host) => feed[i] = host[Head0 + i - 1]
    /\ Head0 + Len(feed) - 1 > Len(host) => InView(Tip(host))
==============================================================================
