-------------------------- MODULE RethHostNotifier --------------------------
(***************************************************************************)
(* signet-host-reth: a HostNotifier inside a reth node.  It first reads    *)
(* finalized blocks from reth's database in batches, then points the ExEx  *)
(* stream at the last block read and forwards its notifications, which     *)
(* reth queued earlier.  reth moves on, finalizes and reorganises between  *)
(* any two reads.                                                          *)
(*                                                                         *)
(* feed is the chain the receiver holds: what it had below the set_head    *)
(* height, then what the notifications delivered.                          *)
(***************************************************************************)
EXTENDS HostChain

CONSTANTS
  Head0,              \* the set_head height
  BatchSettings,      \* values of the backfill_max_blocks setting, 0 included
  MaxReorgs,          \* bound: reorganisations of the host chain
  MaxQueued,          \* bound: notifications of the ExEx stream not yet taken
  ResumeOnCanonical   \* until the switch to the stream, the host keeps the
                      \* block the receiver resumes after

ASSUME RethHostNotifierAssumption ==
  /\ Head0 \in Nat \ {0} /\ BatchSettings \subseteq Nat
  /\ MaxReorgs \in Nat /\ MaxQueued \in Nat /\ ResumeOnCanonical \in BOOLEAN

VARIABLES
  host, hostFin, reorgs,    \* reth: canonical chain, finalized block number
  pc,                       \* the phase of next_notification
  batchSize, cursor,        \* DbBackfill
  to, read,                 \* the batch being read
  streamed,                 \* the chain of the last notification taken
  queued,                   \* the chains the ones not yet taken lead to
  fin,                      \* finalized_block_number of the last notification
  feed, backfilled,         \* the receiver's chain; last height from the DB
  finished                  \* the block of the last FinishedHeight event

hostVars == <<host, hostFin, reorgs>>
batchVars == <<batchSize, cursor, to, read>>
streamVars == <<streamed, queued>>
outVars == <<fin, feed, backfilled, finished>>
vars == <<hostVars, pc, batchVars, streamVars, outVars>>

Phases == {"backfill", "read", "switch", "live", "failed", "closed"}

\* A batch of the configured size at most is held in memory.
TypeOK ==
  /\ host \in Seq(Block) /\ hostFin \in Nat \cup {NoHeight}
  /\ reorgs \in 0..MaxReorgs /\ pc \in Phases
  /\ cursor \in Nat \ {0} /\ to \in Nat /\ read \in Seq(Block)
  /\ streamed \in Seq(Block) /\ feed \in Seq(Block)
  /\ queued \in Seq(Seq(Block)) /\ Len(queued) <= MaxQueued
  /\ batchSize \in Nat /\ Len(read) <= batchSize
  /\ fin \in Nat \cup {NoHeight} /\ backfilled \in Nat
  /\ finished \in Seq(Block) /\ Len(finished) <= 1

\* Mutant: the setting is taken as it is.
SetBatchSizeUnchecked(max) == max

\* set_batch_size: at least 1.
SetBatchSize(max) == IF max < 1 THEN 1 ELSE max

\* set_head was called, once, with the block after the receiver's last.
Init ==
  /\ host \in {s \in UNION {[1..n -> Block] : n \in {Head0 - 1, Head0}} : IsChain(s)}
  /\ hostFin \in {NoHeight} \cup 0..Len(host) /\ reorgs = 0
  /\ batchSize \in {SetBatchSize(max) : max \in BatchSettings}
  /\ pc = "backfill" /\ cursor = Head0 /\ to = 0 /\ read = <<>>
  /\ streamed = <<>> /\ queued = <<>> /\ fin = NoHeight
  /\ feed = Prefix(host, Head0 - 1) /\ backfilled = 0 /\ finished = <<>>

(***************************************************************************)
(* reth's chain.  Finalized blocks stay.                                   *)
(***************************************************************************)
HostExtend ==
  /\ \E b \in Block : /\ num[b] = Len(host) + 1
                      /\ host # <<>> => parent[b] = host[Len(host)]
                      /\ host' = Append(host, b)
  /\ UNCHANGED <<hostFin, reorgs, pc, batchVars, streamVars, outVars>>

HostReorg ==
  /\ reorgs < MaxReorgs
  /\ \E k \in 0..(Len(host) - 1) :
       /\ k >= hostFin
       /\ ResumeOnCanonical /\ pc \in {"backfill", "read", "switch"} => k >= Head0 - 1
       /\ host' = Prefix(host, k)
  /\ reorgs' = reorgs + 1
  /\ UNCHANGED <<hostFin, pc, batchVars, streamVars, outVars>>

HostFinalize ==
  /\ \E n \in 0..Len(host) : n > hostFin /\ hostFin' = n
  /\ UNCHANGED <<host, reorgs, pc, batchVars, streamVars, outVars>>

(***************************************************************************)
(* DbBackfill::next_batch.                                                 *)
(***************************************************************************)
\* Mutant: one block too many.
BatchEndOneMore == IF hostFin < cursor + batchSize THEN hostFin ELSE cursor + batchSize

\* Mutant: the batch goes up to the tip of the chain.
BatchEndTip ==
  IF Len(host) < cursor + batchSize - 1 THEN Len(host) ELSE cursor + batchSize - 1

\* The batch ends at the finalized block at the latest.
BatchEnd == IF hostFin < cursor + batchSize - 1 THEN hostFin ELSE cursor + batchSize - 1

NextBatch ==
  /\ pc = "backfill" /\ hostFin # NoHeight /\ cursor <= hostFin
  /\ to' = BatchEnd /\ read' = <<>>
  /\ pc' = "read"
  /\ UNCHANGED <<hostVars, batchSize, cursor, streamVars, outVars>>

\* No finalized block, or the cursor is past it: the backfill is complete.
BackfillDone ==
  /\ pc = "backfill" /\ (hostFin = NoHeight \/ cursor > hostFin)
  /\ pc' = "switch"
  /\ UNCHANGED <<hostVars, batchVars, streamVars, outVars>>

\* read_block_range: one block and its receipts, by number.
ReadBlock ==
  /\ pc = "read" /\ cursor + Len(read) <= to
  /\ IF cursor + Len(read) <= Len(host)
       THEN read' = Append(read, host[cursor + Len(read)]) /\ UNCHANGED pc
       ELSE pc' = "failed" /\ UNCHANGED read     \* MissingBlock
  /\ UNCHANGED <<hostVars, batchSize, cursor, to, streamVars, outVars>>

\* The tags read for a notification; a failed read is None.
ReadTags == fin' \in {NoHeight, hostFin}

\* The batch is returned as ChainCommitted.
EmitBatch ==
  /\ pc = "read" /\ cursor + Len(read) = to + 1
  /\ feed' = feed \o read
  /\ backfilled' = to
  /\ cursor' = to + 1
  /\ ReadTags
  /\ pc' = "backfill" /\ to' = 0 /\ read' = <<>>
  /\ UNCHANGED <<hostVars, batchSize, streamVars, finished>>

(***************************************************************************)
(* next_notification once the backfill has no more batches.                *)
(***************************************************************************)
\* Mutant: the cursor itself is taken for the last block read.
LastBackfilledCursor == cursor

\* cursor.saturating_sub(1)
LastBackfilled == cursor - 1

\* The header of that height is looked up and handed to set_with_head.
Switch ==
  /\ pc = "switch"
  /\ IF LastBackfilled <= Len(host)
       THEN streamed' = Prefix(host, LastBackfilled) /\ pc' = "live"
       ELSE pc' = "failed" /\ UNCHANGED streamed     \* MissingHeader
  /\ UNCHANGED <<hostVars, batchVars, queued, outVars>>

(***************************************************************************)
(* The ExEx stream.  A notification says how reth's chain differs from     *)
(* that of the notification before it, the first one from the stream's     *)
(* head; it stands in the queue as the chain it leads to.                  *)
(***************************************************************************)
Shared(s, t, a) == \A i \in 1..a : i <= Len(s) /\ i <= Len(t) /\ s[i] = t[i]

CommonAncestor(s, t, a) == Shared(s, t, a) /\ ~Shared(s, t, a + 1)

Announced == IF queued = <<>> THEN streamed ELSE queued[Len(queued)]

\* reth announces its chain, or a first part of the blocks it added.
QueueNotification ==
  /\ pc = "live" /\ Len(queued) < MaxQueued
  /\ \E a \in 0..Len(Announced) : \E k \in a..Len(host) :
       /\ CommonAncestor(Announced, host, a)
       /\ a < Len(Announced) \/ a < k
       /\ queued' = Append(queued, Prefix(host, k))
  /\ UNCHANGED <<hostVars, pc, batchVars, streamed, outVars>>

\* Mutant: a reorganisation is forwarded as the commit of its new chain.
AppliedCommitOnly(s, a, new) == s \o new

\* The receiver unwinds to the block before the revert range, then appends.
Applied(s, a, new) == Prefix(s, a) \o new

\* next() returns the oldest one: ChainCommitted, ChainReverted (new is empty)
\* or ChainReorged.  The tags are read afterwards, from the reth of that time.
LiveNotification ==
  /\ pc = "live" /\ queued # <<>>
  /\ \E a \in 0..Len(streamed) :
       LET next == Head(queued)
           new == SubSeq(next, a + 1, Len(next))
       IN /\ CommonAncestor(streamed, next, a)
          /\ feed' = IF a = Len(streamed) THEN feed \o new ELSE Applied(feed, a, new)
  /\ streamed' = Head(queued) /\ queued' = Tail(queued)
  /\ ReadTags
  /\ UNCHANGED <<hostVars, pc, batchVars, backfilled, finished>>

\* A database read or the stream fails.
HostError ==
  /\ pc \in {"backfill", "read", "switch", "live"}
  /\ pc' = "failed"
  /\ UNCHANGED <<hostVars, batchVars, streamVars, outVars>>

\* The ExEx channel is closed: next_notification returns None.
StreamEnds ==
  /\ pc = "live" /\ pc' = "closed"
  /\ UNCHANGED <<hostVars, batchVars, streamVars, outVars>>

(***************************************************************************)
(* The node has processed the last notification and reports a height.      *)
(***************************************************************************)
\* Mutant: the height processed, final or not.
FinishedHeightProcessed == Len(feed) - 1

\* One below the finalized height, clamped to what the node has processed.
FinishedHeight == (IF fin < Len(feed) THEN fin ELSE Len(feed)) - 1

\* Not while that is the rollup's genesis.  sealed_header looks the hash up by
\* number, on reth's chain of this moment.
SendFinishedHeight ==
  /\ pc \in {"backfill", "live"} /\ FinishedHeight >= DeployHeight
  /\ IF FinishedHeight <= Len(host)
       THEN finished' = <<host[FinishedHeight]>> /\ UNCHANGED pc
       ELSE pc' = "failed" /\ UNCHANGED finished     \* MissingHeader
  /\ UNCHANGED <<hostVars, batchVars, streamVars, fin, feed, backfilled>>

HostStep == HostExtend \/ HostReorg \/ HostFinalize

Backfill == NextBatch \/ BackfillDone \/ ReadBlock \/ EmitBatch

Next == \/ HostStep \/ Backfill \/ Switch \/ QueueNotification \/ LiveNotification
        \/ HostError \/ StreamEnds \/ SendFinishedHeight

Spec == Init /\ [][Next]_vars

\* The node keeps asking for notifications, and reth announces its chain.
FairSpec == /\ Spec
            /\ WF_vars(Backfill \/ Switch \/ LiveNotification)
            /\ WF_vars(QueueNotification)

(***************************************************************************)
(* Properties.                                                             *)
(***************************************************************************)
\* The HostNotifier contract, across the switch from database to stream: one
\* linked chain without a gap or a block twice, and no block read from the
\* database is ever reverted.
Feed == INSTANCE HostFeed WITH final <- backfilled

ImplementsHostFeed == Feed!Spec

\* A FinishedHeight event names, by hash, a block that stays on reth's chain,
\* although its number was read with an earlier notification, and reth may have
\* reorganised before the hash was looked up and may reorganise after it.
FinishedIsFinal ==
  finished # <<>> => LET n == num[finished[1]]
                     IN n <= Len(host) /\ host[n] = finished[1]

\* HostNotifier: "Signal that processing is complete up to this host block
\* number."  The block the event names is one the receiver has processed.
FinishedIsHeld ==
  finished # <<>> => LET n == num[finished[1]]
                     IN n <= Len(feed) /\ feed[n] = finished[1]

\* The receiver ends up with reth's chain, whatever the batch size, unless
\* the notifier fails or is closed.
ReachesTip == <>[](feed = host \/ pc \in {"failed", "closed"})
=============================================================================
