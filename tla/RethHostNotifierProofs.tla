------------------------ MODULE RethHostNotifierProofs ------------------------
(***************************************************************************)
(* Safety of RethHostNotifier for every block tree, resume height, batch   *)
(* setting and number of reorganisations.                                  *)
(***************************************************************************)
EXTENDS RethHostNotifier, HostChainProofs

-------------------------------------------------------------------------------
(***************************************************************************)
(* The inductive invariant.                                                *)
(***************************************************************************)
\* The phases in which the database is read.
Reading == {"backfill", "read", "switch"}

\* A batch ends within its size, whatever the host does.
BatchBound ==
  pc = "read" => /\ cursor <= to /\ to <= cursor + batchSize - 1
                 /\ cursor + Len(read) <= to + 1

\* The receiver's chain ends below the cursor, then at the stream's head.
LengthPart == /\ pc \in Reading => Len(feed) = cursor - 1
              /\ pc = "live" => Len(streamed) = Len(feed)

TypeInv == TypeOK /\ batchSize > 0 /\ BatchBound /\ LengthPart

HostPart == IsChain(host) /\ hostFin <= Len(host)

\* The receiver holds the host's chain up to n.
Agree(n) == \A i \in 1..n : i <= Len(feed) /\ i <= Len(host) /\ feed[i] = host[i]

\* While the database is read the receiver holds the host's chain below the
\* cursor, and all of it is final, but for what it resumed with.
CursorPart ==
  pc \in Reading => /\ Agree(cursor - 1)
                    /\ cursor = Head0 \/ cursor - 1 <= hostFin

\* What was read of a batch is final too.
BatchPart ==
  pc = "read" => /\ to <= hostFin
                 /\ \A i \in 1..Len(read) : read[i] = host[cursor + i - 1]

\* The stream and the receiver start from one chain and move together.
LivePart == pc = "live" => streamed = feed

\* Every notification not yet taken leads to a chain with all that was read from
\* the database, which is final, whatever branch it goes on with.
QueuePart ==
  /\ pc \in Reading => queued = <<>>
  /\ pc = "live" => \A i \in 1..Len(queued) : /\ IsChain(queued[i])
                                              /\ Shared(queued[i], host, backfilled)

FinalPart == (backfilled = 0 \/ backfilled <= hostFin) /\ Agree(backfilled)

FeedInv == /\ TypeInv /\ HostPart /\ IsChain(feed) /\ CursorPart
           /\ BatchPart /\ LivePart /\ QueuePart /\ FinalPart

\* What a notification called final, and the block reported, are final for reth.
FinishedPart ==
  /\ fin <= hostFin
  /\ finished # <<>> => LET n == num[finished[1]]
                        IN n <= hostFin /\ host[n] = finished[1]

FinishedInv == TypeInv /\ HostPart /\ FinishedPart

-------------------------------------------------------------------------------
(***************************************************************************)
(* Sequences.                                                              *)
(***************************************************************************)
\* Splitting a chain at a and taking what follows up to k gives its first k.
LEMMA SpliceFacts ==
  ASSUME NEW s \in Seq(Block), NEW t \in Seq(Block),
         NEW a \in Nat, NEW k \in Nat, a <= k, k <= Len(t), Len(s) = a,
         \A i \in 1..a : s[i] = t[i]
  PROVE  s \o SubSeq(t, a + 1, k) = Prefix(t, k)
<1> DEFINE u == SubSeq(t, a + 1, k)
<1>1. /\ u \in Seq(Block) /\ Len(u) = k - a
      /\ \A i \in 1..(k - a) : u[i] = t[a + i]
  <2>1. a + 1 \in Nat \ {0} /\ a + 1 <= k + 1 /\ k - (a + 1) + 1 = k - a
    OBVIOUS
  <2>2. /\ u \in Seq(Block) /\ Len(u) = k - (a + 1) + 1
        /\ \A i \in 1..(k - (a + 1) + 1) : u[i] = t[(a + 1) + i - 1]
    BY <2>1, SegmentFacts
  <2>3. ASSUME NEW i \in 1..(k - a) PROVE (a + 1) + i - 1 = a + i
    OBVIOUS
  <2> QED BY <2>1, <2>2, <2>3
<1> HIDE DEF u
<1>2. /\ s \o u \in Seq(Block) /\ Len(s \o u) = k
      /\ \A i \in 1..a : (s \o u)[i] = s[i]
      /\ \A i \in 1..(k - a) : (s \o u)[a + i] = u[i]
  <2>1. a + (k - a) = k /\ s \in Seq(Block) /\ u \in Seq(Block)
    BY <1>1
  <2>2. /\ s \o u \in Seq(Block) /\ Len(s \o u) = Len(s) + Len(u)
        /\ \A i \in 1..Len(s) : (s \o u)[i] = s[i]
        /\ \A i \in 1..Len(u) : (s \o u)[Len(s) + i] = u[i]
    BY ONLY <2>1, ConcatFacts
  <2> QED BY <1>1, <2>1, <2>2
<1>3. ASSUME NEW i \in 1..k PROVE (s \o u)[i] = t[i]
  <2>1. CASE i <= a
    BY <2>1, <1>2
  <2>2. CASE i > a
    <3>1. i - a \in 1..(k - a) /\ a + (i - a) = i
      BY <2>2
    <3> QED BY <3>1, <1>1, <1>2
  <2>3. i <= a \/ i > a
    OBVIOUS
  <2> QED BY ONLY <2>1, <2>2, <2>3
<1>4. /\ Prefix(t, k) \in Seq(Block) /\ Len(Prefix(t, k)) = k
      /\ \A i \in 1..k : Prefix(t, k)[i] = t[i]
  BY PrefixFacts
<1> DEFINE v == s \o u
           w == Prefix(t, k)
<1>5. /\ v \in Seq(Block) /\ w \in Seq(Block) /\ Len(v) = Len(w)
      /\ \A i \in 1..Len(v) : v[i] = w[i]
  BY <1>2, <1>3, <1>4
<1> HIDE DEF v, w
<1>6. v = w
  BY ONLY <1>5
<1> QED BY <1>6 DEF u, v, w

-------------------------------------------------------------------------------
(***************************************************************************)
(* Types and batch sizes.                                                  *)
(***************************************************************************)
\* set_batch_size makes every setting at least 1.
LEMMA BatchSizeFacts == ASSUME NEW max \in Nat PROVE SetBatchSize(max) \in Nat \ {0}
  BY DEF SetBatchSize

\* The types of single variables, as the proofs below use them.
LEMMA TypeFacts ==
  ASSUME TypeOK
  PROVE  /\ host \in Seq(Block) /\ feed \in Seq(Block) /\ read \in Seq(Block)
         /\ finished \in Seq(Block) /\ streamed \in Seq(Block)
         /\ queued \in Seq(Seq(Block)) /\ Len(queued) \in Nat
         /\ Len(host) \in Nat /\ Len(feed) \in Nat /\ Len(read) \in Nat
         /\ cursor \in Nat \ {0} /\ to \in Nat /\ backfilled \in Nat
         /\ hostFin \in Int /\ fin \in Int
<1>1. /\ host \in Seq(Block) /\ feed \in Seq(Block) /\ read \in Seq(Block)
      /\ finished \in Seq(Block) /\ streamed \in Seq(Block)
      /\ queued \in Seq(Seq(Block)) /\ Len(queued) \in Nat
  BY DEF TypeOK
<1>2. cursor \in Nat \ {0} /\ to \in Nat /\ backfilled \in Nat
  BY DEF TypeOK
<1>3. hostFin \in Int /\ fin \in Int
  BY DEF TypeOK, NoHeight
<1> QED BY <1>1, <1>2, <1>3

\* The host a session starts with is a chain as long as the resume height or
\* one shorter.
LEMMA InitFacts ==
  ASSUME Init
  PROVE  /\ host \in Seq(Block) /\ IsChain(host)
         /\ Head0 - 1 \in Nat /\ Head0 - 1 <= Len(host)
         /\ hostFin \in Nat \cup {NoHeight} /\ hostFin <= Len(host)
         /\ feed \in Seq(Block) /\ Len(feed) = Head0 - 1
         /\ \A i \in 1..Len(feed) : feed[i] = host[i]
<1>1. Head0 \in Nat \ {0}
  BY RethHostNotifierAssumption
<1>2. PICK n \in {Head0 - 1, Head0} : host \in [1..n -> Block]
  BY DEF Init
<1>3. n \in Nat /\ host \in Seq(Block) /\ Len(host) = n
  BY <1>1, <1>2
<1>4. hostFin \in {NoHeight} \cup 0..Len(host)
  BY DEF Init
<1>5. hostFin \in Nat \cup {NoHeight} /\ hostFin <= Len(host)
  BY <1>3, <1>4 DEF NoHeight
<1>6. Head0 - 1 \in Nat /\ Head0 - 1 <= Len(host)
  BY <1>1, <1>2, <1>3
<1>7. feed = Prefix(host, Head0 - 1) /\ IsChain(host)
  BY DEF Init
<1> QED BY <1>3, <1>5, <1>6, <1>7, PrefixFacts

\* set_head leaves state of the right types.
LEMMA TypeInit == Init => TypeInv
<1> SUFFICES ASSUME Init PROVE TypeInv
  OBVIOUS
<1>1. /\ Head0 \in Nat \ {0} /\ MaxReorgs \in Nat /\ MaxQueued \in Nat
      /\ BatchSettings \subseteq Nat
  BY RethHostNotifierAssumption
<1>2. batchSize \in Nat \ {0}
  <2>1. PICK max \in BatchSettings : batchSize = SetBatchSize(max)
    BY DEF Init
  <2> QED BY <1>1, <2>1, BatchSizeFacts
<1>3. /\ host \in Seq(Block) /\ hostFin \in Nat \cup {NoHeight}
      /\ feed \in Seq(Block) /\ Len(feed) = Head0 - 1
  BY InitFacts
<1>4. /\ reorgs = 0 /\ pc = "backfill" /\ cursor = Head0 /\ to = 0 /\ read = <<>>
      /\ streamed = <<>> /\ queued = <<>> /\ fin = NoHeight /\ backfilled = 0 /\ finished = <<>>
  BY DEF Init
<1> QED BY <1>1, <1>2, <1>3, <1>4 DEF TypeInv, TypeOK, BatchBound, LengthPart, Phases

\* A batch the cursor has not passed ends at or after it and within its size.
LEMMA BatchEndFacts ==
  ASSUME TypeOK, batchSize > 0, hostFin # NoHeight, cursor <= hostFin
  PROVE  /\ BatchEnd \in Nat /\ cursor <= BatchEnd /\ BatchEnd <= hostFin
         /\ BatchEnd <= cursor + batchSize - 1
  BY DEF TypeOK, BatchEnd, NoHeight

\* A height is reported only after the rollup's genesis and not above the
\* finalized one of the last notification; its header is one of reth's chain.
LEMMA ReportFacts ==
  ASSUME TypeOK, SendFinishedHeight
  PROVE  /\ FinishedHeight \in Nat \ {0} /\ FinishedHeight <= fin
         /\ \/ /\ FinishedHeight \in 1..Len(host)
               /\ finished' = <<host[FinishedHeight]>> /\ pc' = pc
               /\ host[FinishedHeight] \in Block
            \/ finished' = finished /\ pc' = "failed"
<1>1. /\ host \in Seq(Block) /\ Len(host) \in Nat /\ Len(feed) \in Nat /\ fin \in Int
  BY TypeFacts
<1>2. DeployHeight \in Nat \ {0} /\ FinishedHeight >= DeployHeight
  BY HostChainAssumption DEF SendFinishedHeight
<1>3. FinishedHeight \in Int /\ FinishedHeight <= fin
  BY <1>1 DEF FinishedHeight
<1>4. FinishedHeight \in Nat \ {0}
  BY <1>2, <1>3
<1>5. CASE FinishedHeight <= Len(host)
  <2>1. FinishedHeight \in 1..Len(host)
    BY <1>1, <1>4, <1>5
  <2> QED BY <1>1, <1>3, <1>4, <1>5, <2>1 DEF SendFinishedHeight
<1>6. CASE ~(FinishedHeight <= Len(host))
  BY <1>3, <1>4, <1>6 DEF SendFinishedHeight
<1> QED BY <1>5, <1>6

\* Every step keeps the types and the bound on a batch.
LEMMA TypeStep ==
  ASSUME TypeInv, [Next]_vars
  PROVE  TypeInv'
<1> USE DEF TypeInv, TypeOK, BatchBound, LengthPart, Reading, hostVars,
            batchVars, streamVars, outVars, Phases
<1>1. CASE HostExtend
  <2>1. PICK b \in Block : host' = Append(host, b)
    BY <1>1 DEF HostExtend
  <2>2. host' \in Seq(Block)
    BY <2>1, AppendFacts
  <2> QED BY <1>1, <2>2 DEF HostExtend
<1>2. CASE HostReorg
  <2>1. PICK k \in 0..(Len(host) - 1) : host' = Prefix(host, k)
    BY <1>2 DEF HostReorg
  <2>2. host' \in Seq(Block)
    <3>1. k \in Nat /\ k <= Len(host)
      OBVIOUS
    <3> QED BY <2>1, <3>1, PrefixFacts
  <2>3. reorgs' \in 0..MaxReorgs
    BY <1>2, RethHostNotifierAssumption DEF HostReorg
  <2> QED BY <1>2, <2>2, <2>3 DEF HostReorg
<1>3. CASE HostFinalize
  BY <1>3 DEF HostFinalize
<1>4. CASE NextBatch
  <2>1. /\ to' \in Nat /\ cursor <= to' /\ to' <= cursor + batchSize - 1
    BY <1>4, BatchEndFacts DEF NextBatch
  <2> QED BY <1>4, <2>1 DEF NextBatch
<1>5. CASE BackfillDone
  BY <1>5 DEF BackfillDone
<1>6. CASE ReadBlock
  <2>1. CASE cursor + Len(read) <= Len(host)
    <3>1. host[cursor + Len(read)] \in Block
      BY <2>1
    <3>2. read' = Append(read, host[cursor + Len(read)]) /\ pc' = "read"
      BY <1>6, <2>1 DEF ReadBlock
    <3>4. read' \in Seq(Block) /\ Len(read') = Len(read) + 1
      BY <3>1, <3>2, AppendFacts
    <3>3. cursor + Len(read') <= to + 1 /\ Len(read') <= batchSize
      BY <1>6, <3>4 DEF ReadBlock
    <3> QED BY <1>6, <3>2, <3>3, <3>4 DEF ReadBlock
  <2>2. CASE ~(cursor + Len(read) <= Len(host))
    BY <1>6, <2>2 DEF ReadBlock
  <2> QED BY <2>1, <2>2
<1>7. CASE EmitBatch
  <2>1. feed' \in Seq(Block) /\ Len(feed') = Len(feed) + Len(read)
    BY <1>7, ConcatFacts DEF EmitBatch
  <2>2. /\ cursor' = to + 1 /\ backfilled' = to /\ to \in Nat
        /\ pc' = "backfill" /\ to' = 0 /\ read' = <<>>
    BY <1>7 DEF EmitBatch
  <2>3. /\ pc = "read" /\ cursor + Len(read) = to + 1 /\ cursor \in Nat \ {0}
        /\ Len(read) \in Nat /\ Len(feed) = cursor - 1
    BY <1>7 DEF EmitBatch
  <2>4. Len(feed') = cursor' - 1
    BY ONLY <2>1, <2>2, <2>3
  <2>5. fin' \in Nat \cup {NoHeight}
    BY <1>7 DEF EmitBatch, ReadTags
  <2> QED BY <1>7, <2>1, <2>4, <2>5, <2>2 DEF EmitBatch
<1>8. CASE Switch
  <2>1. streamed' \in Seq(Block) /\ (pc' = "live" => Len(streamed') = cursor - 1)
    <3>1. cursor - 1 \in Nat
      OBVIOUS
    <3>2. CASE cursor - 1 <= Len(host)
      <4>1. streamed' = Prefix(host, cursor - 1) /\ host \in Seq(Block)
        BY <1>8, <3>2 DEF Switch, LastBackfilled
      <4> QED BY ONLY <3>1, <3>2, <4>1, PrefixFacts
    <3>3. CASE ~(cursor - 1 <= Len(host))
      BY <1>8, <3>3 DEF Switch, LastBackfilled
    <3> QED BY <3>2, <3>3
  <2> QED BY <1>8, <2>1 DEF Switch
<1>9. CASE LiveNotification
  <2>1. /\ queued # <<>> /\ queued \in Seq(Seq(Block)) /\ pc = "live"
        /\ streamed' = Head(queued) /\ queued' = Tail(queued)
        /\ UNCHANGED <<hostVars, pc, batchVars, backfilled, finished>>
        /\ Len(streamed) = Len(feed) /\ Len(feed) \in Nat /\ feed \in Seq(Block)
        /\ fin' \in {NoHeight, hostFin}
    BY <1>9 DEF LiveNotification, ReadTags
  <2>2. PICK next \in Seq(Block) : next = Head(queued)
    BY ONLY <2>1, QueueFacts
  <2>3. /\ queued' \in Seq(Seq(Block)) /\ Len(queued') = Len(queued) - 1
        /\ Len(queued) \in Nat /\ streamed' = next
    BY ONLY <2>1, <2>2, QueueFacts
  <2>4. PICK a \in 0..Len(streamed) :
          /\ CommonAncestor(streamed, next, a)
          /\ feed' = IF a = Len(streamed) THEN feed \o SubSeq(next, a + 1, Len(next))
                     ELSE Applied(feed, a, SubSeq(next, a + 1, Len(next)))
    BY <1>9, <2>2 DEF LiveNotification
  <2>5. feed' \in Seq(Block) /\ Len(feed') = Len(next)
    <3> DEFINE new == SubSeq(next, a + 1, Len(next))
    <3>1. a \in Nat /\ a <= Len(feed) /\ a <= Len(next)
      <4>1. a = 0 \/ a \in 1..a
        OBVIOUS
      <4>2. a \in Nat /\ Len(next) \in Nat
        OBVIOUS
      <4>3. a = 0 \/ a <= Len(next)
        BY <2>4, <4>1 DEF CommonAncestor, Shared
      <4> QED BY <2>1, <4>2, <4>3
    <3>2. new \in Seq(Block) /\ Len(new) = Len(next) - a
      BY ONLY <3>1, SuffixFacts, next \in Seq(Block)
    <3>3. Prefix(feed, a) \in Seq(Block) /\ Len(Prefix(feed, a)) = a
      BY <2>1, <3>1, PrefixFacts
    <3> HIDE DEF new
    <3>4. CASE a = Len(streamed)
      <4>1. feed' = feed \o new /\ Len(feed) = a
        BY <2>1, <2>4, <3>4 DEF new
      <4>2. feed \in Seq(Block)
        BY <2>1
      <4>3. Len(next) \in Nat
        OBVIOUS
      <4> QED BY ONLY <3>1, <3>2, <4>1, <4>2, <4>3, ConcatFacts
    <3>5. CASE a # Len(streamed)
      <4>1. feed' = Prefix(feed, a) \o new
        BY <2>4, <3>5 DEF new, Applied
      <4>2. a + (Len(next) - a) = Len(next)
        BY ONLY <3>1, Len(next) \in Nat
      <4> DEFINE kept == Prefix(feed, a)
      <4>3. kept \in Seq(Block) /\ Len(kept) = a /\ feed' = kept \o new
        BY ONLY <3>3, <4>1
      <4> HIDE DEF kept
      <4>4. feed' \in Seq(Block) /\ Len(feed') = Len(kept) + Len(new)
        BY ONLY <3>2, <4>3, ConcatFacts
      <4> QED BY ONLY <3>2, <4>2, <4>3, <4>4
    <3> QED BY <3>4, <3>5
  <2>6. Len(queued') <= MaxQueued
    <3>1. MaxQueued \in Nat /\ Len(queued) <= MaxQueued
      BY RethHostNotifierAssumption
    <3> QED BY ONLY <2>3, <3>1
  <2>7. UNCHANGED <<host, hostFin, reorgs, batchSize, cursor, to, read>> /\ streamed' \in Seq(Block)
    BY <2>1, <2>3
  <2>8. pc' = "live" /\ Len(streamed') = Len(feed') /\ UNCHANGED <<backfilled, finished>>
    BY <2>1, <2>3, <2>5
  <2>9. fin' \in Nat \cup {NoHeight} /\ hostFin' \in Nat \cup {NoHeight}
    BY <2>1, <2>7
  <2>10. TypeOK'
    BY <2>3, <2>5, <2>6, <2>7, <2>8, <2>9
  <2> QED BY <2>7, <2>8, <2>10
<1>10. CASE HostError \/ StreamEnds
  BY <1>10 DEF HostError, StreamEnds
<1>11. CASE SendFinishedHeight
  <2>1. finished' \in Seq(Block) /\ Len(finished') <= 1
    <3>1. TypeOK /\ finished \in Seq(Block) /\ Len(finished) <= 1
      OBVIOUS
    <3>2. \/ \E b \in Block : finished' = <<b>>
          \/ finished' = finished
      BY ONLY <1>11, <3>1, ReportFacts
    <3>3. ASSUME NEW b \in Block, finished' = <<b>>
          PROVE  finished' \in Seq(Block) /\ Len(finished') <= 1
      <4>1. <<b>> \in Seq(Block) /\ Len(<<b>>) = 1
        OBVIOUS
      <4> QED BY ONLY <3>3, <4>1
    <3>4. CASE finished' = finished
      BY ONLY <3>1, <3>4
    <3> QED BY ONLY <3>2, <3>3, <3>4
  <2> QED BY <1>11, <2>1 DEF SendFinishedHeight
<1>12. CASE QueueNotification
  <2>1. PICK k \in 0..Len(host) : queued' = Append(queued, Prefix(host, k))
    BY <1>12 DEF QueueNotification
  <2>2. k \in Nat /\ k <= Len(host) /\ host \in Seq(Block) /\ queued \in Seq(Seq(Block))
    OBVIOUS
  <2>3. Prefix(host, k) \in Seq(Block)
    BY ONLY <2>2, PrefixFacts
  <2>4. queued' \in Seq(Seq(Block)) /\ Len(queued') = Len(queued) + 1
    BY ONLY <2>1, <2>2, <2>3, AppendFacts
  <2>5. Len(queued) < MaxQueued /\ MaxQueued \in Nat /\ Len(queued) \in Nat
    BY <1>12, RethHostNotifierAssumption DEF QueueNotification
  <2> QED BY <1>12, <2>4, <2>5 DEF QueueNotification
<1>13. CASE UNCHANGED vars
  BY <1>13 DEF vars
<1> QED BY <1>1, <1>2, <1>3, <1>4, <1>5, <1>6, <1>7, <1>8, <1>9, <1>10, <1>11,
           <1>12, <1>13 DEF Next, HostStep, Backfill

-------------------------------------------------------------------------------
(***************************************************************************)
(* The host moves: it keeps its blocks up to some k that is not below what *)
(* is final, nor below the cursor while the database is read.              *)
(***************************************************************************)
LEMMA HostMoves ==
  ASSUME FeedInv, TypeInv', NEW k \in Nat,
         k <= Len(host), k <= Len(host'), \A i \in 1..k : host'[i] = host[i],
         hostFin <= k, hostFin <= hostFin', hostFin' <= Len(host'), IsChain(host'),
         pc \in Reading => cursor - 1 <= k,
         UNCHANGED <<pc, batchVars, streamVars, outVars>>
  PROVE  FeedInv'
<1> USE DEF batchVars, streamVars, outVars
<1>1. /\ host \in Seq(Block) /\ host' \in Seq(Block) /\ feed \in Seq(Block)
      /\ hostFin \in Int /\ hostFin' \in Int /\ cursor \in Nat \ {0}
      /\ backfilled \in Nat /\ to \in Nat /\ read \in Seq(Block)
      /\ Len(feed) \in Nat /\ Len(read) \in Nat
      /\ Len(host) \in Nat /\ Len(host') \in Nat
  <2>1. TypeOK /\ TypeOK'
    BY DEF FeedInv, TypeInv
  <2>2. host' \in Seq(Block) /\ hostFin' \in Nat \cup {NoHeight}
    BY ONLY <2>1 DEF TypeOK
  <2>3. hostFin' \in Int /\ Len(host') \in Nat
    BY ONLY <2>2 DEF NoHeight
  <2> QED BY <2>1, <2>2, <2>3, TypeFacts
<1>2. HostPart' /\ IsChain(feed)' /\ LivePart'
  BY <1>1 DEF FeedInv, HostPart, LivePart, IsChain, LinkedFrom
<1>3. CursorPart'
  <2> SUFFICES ASSUME pc \in Reading
               PROVE  Agree(cursor - 1)' /\ (cursor = Head0 \/ cursor - 1 <= hostFin')
    BY DEF CursorPart
  <2>1. Agree(cursor - 1) /\ (cursor = Head0 \/ cursor - 1 <= hostFin)
    BY DEF FeedInv, CursorPart
  <2>2. cursor - 1 \in Nat
    BY <1>1
  <2>3. (Agree(cursor - 1))'
    BY <1>1, <2>1, <2>2 DEF Agree
  <2> QED BY <1>1, <2>1, <2>3
<1>4. BatchPart'
  <2> SUFFICES ASSUME pc = "read"
               PROVE  /\ to <= hostFin'
                      /\ \A i \in 1..Len(read) : read[i] = host'[cursor + i - 1]
    BY DEF BatchPart
  <2>1. /\ to <= hostFin /\ cursor + Len(read) <= to + 1
        /\ \A i \in 1..Len(read) : read[i] = host[cursor + i - 1]
    BY DEF FeedInv, BatchPart, TypeInv, BatchBound
  <2>2. ASSUME NEW i \in 1..Len(read) PROVE read[i] = host'[cursor + i - 1]
    <3>1. cursor + i - 1 \in 1..k
      BY <1>1, <2>1
    <3> QED BY <2>1, <3>1
  <2>3. to <= hostFin'
    BY <1>1, <2>1
  <2> QED BY <2>2, <2>3
<1>5. backfilled = 0 \/ backfilled <= k
  BY <1>1 DEF FeedInv, FinalPart
<1>6. FinalPart'
  <2>1. (backfilled = 0 \/ backfilled <= hostFin) /\ Agree(backfilled)
    BY DEF FeedInv, FinalPart
  <2>2. Agree(backfilled)'
    BY <1>1, <1>5, <2>1 DEF Agree
  <2> QED BY <1>1, <2>1, <2>2 DEF FinalPart
<1>7. QueuePart'
  <2> SUFFICES ASSUME pc = "live", NEW i \in 1..Len(queued)
               PROVE  /\ \A j \in 1..Len(queued[i]) :
                           /\ num[queued[i][j]] = 1 + j - 1
                           /\ j > 1 => parent[queued[i][j]] = queued[i][j - 1]
                      /\ \A j \in 1..backfilled : /\ j <= Len(queued[i]) /\ j <= Len(host')
                                                  /\ queued[i][j] = host'[j]
    BY DEF FeedInv, QueuePart, Shared, IsChain, LinkedFrom
  <2>1. /\ IsChain(queued[i])
        /\ \A j \in 1..backfilled : /\ j <= Len(queued[i]) /\ j <= Len(host)
                                    /\ queued[i][j] = host[j]
    BY DEF FeedInv, QueuePart, Shared
  <2>2. \A j \in 1..backfilled : j \in 1..k /\ j <= Len(host')
    BY <1>1, <1>5
  <2> QED BY <2>1, <2>2 DEF IsChain, LinkedFrom
<1> QED BY <1>2, <1>3, <1>4, <1>6, <1>7 DEF FeedInv

\* Every step of reth's chain keeps it up to some k, not below what is final.
LEMMA HostKeeps ==
  ASSUME TypeInv, HostPart, TypeInv', HostStep
  PROVE  \E k \in Nat :
           /\ k <= Len(host) /\ k <= Len(host') /\ \A i \in 1..k : host'[i] = host[i]
           /\ hostFin <= k /\ hostFin <= hostFin' /\ hostFin' <= Len(host') /\ IsChain(host')
           /\ k = Len(host) \/ (ResumeOnCanonical /\ pc \in Reading => k >= Head0 - 1)
           /\ UNCHANGED <<pc, batchVars, streamVars, outVars>>
<1>1. /\ host \in Seq(Block) /\ host' \in Seq(Block) /\ Len(host) \in Nat
      /\ hostFin \in Int /\ hostFin' \in Int
      /\ IsChain(host) /\ hostFin <= Len(host)
  <2>1. host \in Seq(Block) /\ Len(host) \in Nat /\ hostFin \in Int
    BY TypeFacts DEF TypeInv
  <2>2. host' \in Seq(Block) /\ hostFin' \in Int
    <3>1. TypeOK'
      BY DEF TypeInv
    <3>2. host' \in Seq(Block) /\ hostFin' \in Nat \cup {NoHeight}
      BY ONLY <3>1 DEF TypeOK
    <3> QED BY ONLY <3>2 DEF NoHeight
  <2>3. IsChain(host) /\ hostFin <= Len(host)
    BY DEF HostPart
  <2> QED BY <2>1, <2>2, <2>3
<1>2. CASE HostExtend
  <2>1. PICK b \in Block : /\ num[b] = Len(host) + 1
                           /\ host # <<>> => parent[b] = host[Len(host)]
                           /\ host' = Append(host, b)
    BY <1>2 DEF HostExtend
  <2>2. Len(host') = Len(host) + 1 /\ \A i \in 1..Len(host) : host'[i] = host[i]
    BY <1>1, <2>1, AppendFacts
  <2>3. IsChain(host')
    <3>1. num[b] = 1 + Len(host) /\ LinkedFrom(host, 1) /\ 1 \in Nat
      BY <1>1, <2>1 DEF IsChain
    <3> QED BY <1>1, <2>1, <3>1, LinkAppend DEF IsChain
  <2>4. hostFin' = hostFin /\ UNCHANGED <<pc, batchVars, streamVars, outVars>>
    BY <1>2 DEF HostExtend
  <2>5. /\ Len(host) <= Len(host) /\ Len(host) <= Len(host') /\ hostFin <= hostFin'
        /\ hostFin' <= Len(host')
    BY <1>1, <2>2, <2>4
  <2> WITNESS Len(host) \in Nat
  <2> QED BY <1>1, <2>2, <2>3, <2>4, <2>5
<1>3. CASE HostReorg
  <2>1. PICK k \in 0..(Len(host) - 1) :
          /\ k >= hostFin
          /\ ResumeOnCanonical /\ pc \in Reading => k >= Head0 - 1
          /\ host' = Prefix(host, k)
    BY <1>3 DEF HostReorg, Reading
  <2>2. k \in Nat /\ k <= Len(host)
    BY <1>1
  <2>3. Len(host') = k /\ \A i \in 1..k : host'[i] = host[i]
    BY <1>1, <2>1, <2>2, PrefixFacts
  <2>4. IsChain(host')
    BY <1>1, <2>2, <2>3, CopyIsChain
  <2>5. hostFin' = hostFin /\ UNCHANGED <<pc, batchVars, streamVars, outVars>>
    BY <1>3 DEF HostReorg
  <2>6. k <= Len(host') /\ hostFin <= k /\ hostFin <= hostFin' /\ hostFin' <= Len(host')
    BY <1>1, <2>1, <2>2, <2>3, <2>5
  <2> WITNESS k \in Nat
  <2> QED BY <2>1, <2>2, <2>3, <2>4, <2>5, <2>6
<1>4. CASE HostFinalize
  <2>1. /\ host' = host /\ hostFin <= hostFin' /\ hostFin' <= Len(host)
        /\ UNCHANGED <<pc, batchVars, streamVars, outVars>>
    BY <1>1, <1>4 DEF HostFinalize
  <2>2. /\ Len(host) <= Len(host) /\ Len(host) <= Len(host') /\ hostFin' <= Len(host')
        /\ IsChain(host') /\ \A i \in 1..Len(host) : host'[i] = host[i]
    BY <1>1, <2>1
  <2> WITNESS Len(host) \in Nat
  <2> QED BY <1>1, <2>1, <2>2
<1> QED BY <1>2, <1>3, <1>4 DEF HostStep

\* Every step of reth's chain keeps the invariant.
LEMMA HostInductive ==
  ASSUME ResumeOnCanonical, FeedInv, TypeInv', HostStep
  PROVE  FeedInv'
<1>1. PICK k \in Nat :
        /\ k <= Len(host) /\ k <= Len(host') /\ \A i \in 1..k : host'[i] = host[i]
        /\ hostFin <= k /\ hostFin <= hostFin' /\ hostFin' <= Len(host') /\ IsChain(host')
        /\ k = Len(host) \/ (ResumeOnCanonical /\ pc \in Reading => k >= Head0 - 1)
        /\ UNCHANGED <<pc, batchVars, streamVars, outVars>>
  BY HostKeeps DEF FeedInv
<1>2. /\ Len(host) \in Nat /\ hostFin \in Int /\ cursor \in Nat \ {0} /\ Len(feed) \in Nat
  BY TypeFacts DEF FeedInv, TypeInv
<1>3. ASSUME pc \in Reading PROVE cursor - 1 <= k
  <2>1. Agree(cursor - 1) /\ (cursor = Head0 \/ cursor - 1 <= hostFin)
    BY <1>3 DEF FeedInv, CursorPart
  <2>2. cursor = 1 \/ cursor - 1 \in 1..(cursor - 1)
    BY <1>2
  <2>3. cursor - 1 <= Len(host)
    BY <1>2, <2>1, <2>2 DEF Agree
  <2>4. k = Len(host) \/ k >= Head0 - 1
    BY <1>1, <1>3
  <2> QED BY <1>1, <1>2, <2>1, <2>3, <2>4
<1> QED BY <1>1, <1>3, HostMoves

\* The receiver ends up with the chain of the notification.
LEMMA LiveFacts ==
  ASSUME FeedInv, LiveNotification
  PROVE  feed' = Head(queued)
<1>1. /\ queued # <<>> /\ queued \in Seq(Seq(Block)) /\ pc = "live"
      /\ feed \in Seq(Block) /\ Len(feed) \in Nat
  BY TypeFacts DEF LiveNotification, FeedInv, TypeInv
<1>2. streamed = feed
  BY <1>1 DEF FeedInv, LivePart
<1>3. PICK next \in Seq(Block) : next = Head(queued)
  BY ONLY <1>1, QueueFacts
<1>4. PICK a \in 0..Len(feed) :
        /\ CommonAncestor(feed, next, a)
        /\ feed' = IF a = Len(feed) THEN feed \o SubSeq(next, a + 1, Len(next))
                   ELSE Applied(feed, a, SubSeq(next, a + 1, Len(next)))
  BY <1>2, <1>3 DEF LiveNotification
<1>5. \A i \in 1..a : i <= Len(next) /\ feed[i] = next[i]
  BY <1>4 DEF CommonAncestor, Shared
<1>6. a \in Nat /\ a <= Len(feed) /\ Len(next) \in Nat /\ a <= Len(next)
  <2>1. a \in Nat /\ a <= Len(feed) /\ Len(next) \in Nat
    BY <1>1
  <2>2. a = 0 \/ a \in 1..a
    BY <2>1
  <2> QED BY <1>5, <2>1, <2>2
<1>7. Prefix(next, Len(next)) = next
  BY PrefixAll
<1>8. CASE a = Len(feed)
  <2>1. feed' = feed \o SubSeq(next, a + 1, Len(next))
    BY <1>4, <1>8
  <2>2. feed \o SubSeq(next, a + 1, Len(next)) = Prefix(next, Len(next))
    <3>1. Len(next) <= Len(next) /\ Len(feed) = a /\ next \in Seq(Block)
      BY <1>6, <1>8
    <3> QED BY ONLY <1>1, <1>5, <1>6, <3>1, SpliceFacts
  <2> QED BY <1>3, <1>7, <2>1, <2>2
<1>9. CASE a # Len(feed)
  <2> DEFINE old == Prefix(feed, a)
  <2>1. feed' = old \o SubSeq(next, a + 1, Len(next))
    BY <1>4, <1>9 DEF Applied
  <2>2. old \in Seq(Block) /\ Len(old) = a /\ \A i \in 1..a : old[i] = feed[i]
    BY <1>1, <1>6, PrefixFacts
  <2> HIDE DEF old
  <2>3. old \o SubSeq(next, a + 1, Len(next)) = Prefix(next, Len(next))
    <3>1. Len(next) <= Len(next) /\ next \in Seq(Block) /\ \A i \in 1..a : old[i] = next[i]
      BY <1>5, <1>6, <2>2
    <3> QED BY ONLY <1>6, <2>2, <3>1, SpliceFacts
  <2> QED BY <1>3, <1>7, <2>1, <2>3
<1> QED BY <1>8, <1>9

\* What reth announces goes on from all that was read from the database.
LEMMA QueueInductive ==
  ASSUME FeedInv, TypeInv', QueueNotification
  PROVE  FeedInv'
<1>1. /\ host \in Seq(Block) /\ Len(host) \in Nat /\ feed \in Seq(Block)
      /\ queued \in Seq(Seq(Block)) /\ Len(queued) \in Nat /\ backfilled \in Nat
  BY TypeFacts DEF FeedInv, TypeInv
<1>2. /\ pc = "live" /\ IsChain(host) /\ streamed = feed
      /\ \A i \in 1..Len(queued) : IsChain(queued[i]) /\ Shared(queued[i], host, backfilled)
      /\ Agree(backfilled)
  BY DEF QueueNotification, FeedInv, HostPart, LivePart, QueuePart, FinalPart
<1>3. /\ UNCHANGED <<hostVars, pc, batchVars, streamed, outVars>>
  BY DEF QueueNotification
<1>4. PICK a \in 0..Len(Announced), k \in 0..Len(host) :
        /\ a <= k /\ CommonAncestor(Announced, host, a)
        /\ queued' = Append(queued, Prefix(host, k))
  BY DEF QueueNotification
<1>5. Announced \in Seq(Block) /\ Shared(Announced, host, backfilled)
  <2>1. CASE queued = <<>>
    BY <1>1, <1>2, <2>1 DEF Announced, Shared, Agree
  <2>2. CASE queued # <<>>
    <3>1. Len(queued) \in 1..Len(queued)
      BY <1>1, <2>2
    <3>2. Announced = queued[Len(queued)]
      BY <2>2 DEF Announced
    <3>3. queued[Len(queued)] \in Seq(Block)
      BY ONLY <1>1, <3>1
    <3> QED BY <1>2, <3>1, <3>2, <3>3
  <2> QED BY <2>1, <2>2
<1>6. /\ a \in Nat /\ k \in Nat /\ k <= Len(host)
      /\ Prefix(host, k) \in Seq(Block) /\ Len(Prefix(host, k)) = k
      /\ \A i \in 1..k : Prefix(host, k)[i] = host[i]
  <2>1. Len(Announced) \in Nat
    BY <1>5
  <2>2. a \in Nat /\ k \in Nat /\ k <= Len(host)
    BY <1>1, <2>1
  <2> QED BY ONLY <1>1, <2>2, PrefixFacts
<1>7. backfilled <= a
  <2> SUFFICES ASSUME a < backfilled PROVE FALSE
    BY <1>1, <1>6
  <2>1. ASSUME NEW i \in 1..(a + 1) PROVE i \in 1..backfilled
    BY <1>1, <1>6
  <2>2. Shared(Announced, host, a + 1)
    BY <1>5, <2>1 DEF Shared
  <2> QED BY <1>4, <2>2 DEF CommonAncestor
<1>8. IsChain(Prefix(host, k)) /\ Shared(Prefix(host, k), host, backfilled)
  <2>1. IsChain(Prefix(host, k))
    BY <1>1, <1>2, <1>6, PrefixIsChain
  <2>2. ASSUME NEW i \in 1..backfilled PROVE i \in 1..k /\ i <= Len(host)
    BY <1>1, <1>4, <1>6, <1>7
  <2> QED BY <1>6, <2>1, <2>2 DEF Shared
<1>9. QueuePart'
  <2> DEFINE c == Prefix(host, k)
  <2>1. c \in Seq(Block) /\ IsChain(c) /\ Shared(c, host, backfilled) /\ queued' = Append(queued, c)
    BY <1>4, <1>6, <1>8
  <2> HIDE DEF c
  <2>2. /\ Len(queued') = Len(queued) + 1 /\ queued'[Len(queued) + 1] = c
        /\ \A i \in 1..Len(queued) : queued'[i] = queued[i]
    BY ONLY <1>1, <2>1, AppendFacts
  <2>3. ASSUME NEW i \in 1..Len(queued')
        PROVE  IsChain(queued'[i]) /\ Shared(queued'[i], host, backfilled)
    <3>1. i \in 1..Len(queued) \/ i = Len(queued) + 1
      BY <1>1, <2>2
    <3> QED BY <1>2, <2>1, <2>2, <3>1
  <2>4. host' = host /\ backfilled' = backfilled
    BY <1>3 DEF hostVars, outVars
  <2>5. pc' = "live"
    BY <1>2, <1>3
  <2> QED BY <2>3, <2>4, <2>5 DEF QueuePart, Shared, IsChain, LinkedFrom, Reading
<1> QED BY <1>3, <1>9 DEF hostVars, batchVars, outVars, FeedInv, HostPart, CursorPart,
           Agree, BatchPart, LivePart, FinalPart, IsChain, LinkedFrom

\* Every step of the notifier keeps the invariant.
LEMMA NotifierInductive ==
  ASSUME FeedInv, TypeInv', Backfill \/ Switch \/ LiveNotification
  PROVE  FeedInv'
<1> USE DEF hostVars, batchVars, streamVars, outVars, Reading
<1>1. TypeOK /\ TypeOK' /\ batchSize > 0
  BY DEF FeedInv, TypeInv
<1>2. /\ host \in Seq(Block) /\ feed \in Seq(Block) /\ read \in Seq(Block)
      /\ Len(host) \in Nat /\ Len(feed) \in Nat /\ Len(read) \in Nat
      /\ cursor \in Nat \ {0} /\ to \in Nat /\ hostFin \in Int
  BY <1>1, TypeFacts
<1>3. CASE NextBatch
  <2>1. to' <= hostFin /\ read' = <<>> /\ pc' = "read" /\ pc = "backfill"
    BY <1>1, <1>3, BatchEndFacts DEF NextBatch
  <2>2. BatchPart'
    BY <1>3, <2>1 DEF NextBatch, BatchPart
  <2> QED BY <1>3, <2>1, <2>2 DEF NextBatch, FeedInv, HostPart, CursorPart, Agree,
             LivePart, QueuePart, Shared, FinalPart, IsChain, LinkedFrom
<1>4. CASE BackfillDone
  BY <1>4 DEF BackfillDone, FeedInv, HostPart, CursorPart, Agree, BatchPart,
     LivePart, QueuePart, Shared, FinalPart, IsChain, LinkedFrom
<1>5. CASE ReadBlock
  <2>1. BatchPart'
    <3>1. CASE cursor + Len(read) <= Len(host)
      <4>1. /\ read' = Append(read, host[cursor + Len(read)])
            /\ host[cursor + Len(read)] \in Block
        BY <1>2, <1>5, <3>1 DEF ReadBlock
      <4>2. /\ Len(read') = Len(read) + 1
            /\ \A i \in 1..Len(read) : read'[i] = read[i]
            /\ read'[Len(read) + 1] = host[cursor + Len(read)]
        BY <1>2, <4>1, AppendFacts
      <4>3. /\ to <= hostFin
            /\ \A i \in 1..Len(read) : read[i] = host[cursor + i - 1]
        BY <1>5 DEF ReadBlock, FeedInv, BatchPart
      <4>4. ASSUME NEW i \in 1..Len(read') PROVE read'[i] = host[cursor + i - 1]
        <5>1. i \in 1..Len(read) \/ i = Len(read) + 1
          BY <1>2, <4>2
        <5>2. CASE i \in 1..Len(read)
          BY <4>2, <4>3, <5>2
        <5>3. CASE i = Len(read) + 1
          <6>1. cursor + i - 1 = cursor + Len(read)
            BY <1>2, <5>3
          <6> QED BY <4>2, <5>3, <6>1
        <5> QED BY ONLY <5>1, <5>2, <5>3
      <4>5. UNCHANGED <<host, hostFin, cursor, to>>
        BY <1>5 DEF ReadBlock
      <4> QED BY <4>3, <4>4, <4>5 DEF BatchPart
    <3>2. CASE ~(cursor + Len(read) <= Len(host))
      BY <1>5, <3>2 DEF ReadBlock, BatchPart
    <3> QED BY <3>1, <3>2
  <2>2. pc = "read" /\ pc' \in {"read", "failed"}
    BY <1>5 DEF ReadBlock
  <2> QED BY <1>5, <2>1, <2>2 DEF ReadBlock, FeedInv, HostPart, CursorPart, Agree,
             LivePart, QueuePart, Shared, FinalPart, IsChain, LinkedFrom
<1>6. CASE EmitBatch
  <2>1. /\ Len(feed) = cursor - 1 /\ Agree(cursor - 1) /\ to <= hostFin
        /\ \A i \in 1..Len(read) : read[i] = host[cursor + i - 1]
    BY <1>6 DEF EmitBatch, FeedInv, TypeInv, LengthPart, CursorPart, BatchPart
  <2>2. cursor + Len(read) = to + 1 /\ feed' = feed \o read
    BY <1>6 DEF EmitBatch
  <2>3. /\ Len(feed') = Len(feed) + Len(read)
        /\ \A i \in 1..Len(feed) : feed'[i] = feed[i]
        /\ \A i \in 1..Len(read) : feed'[Len(feed) + i] = read[i]
    BY <1>2, <2>2, ConcatFacts
  <2>4. Len(feed') = to /\ to <= Len(host) /\ Len(feed) <= to
    <3>1. hostFin <= Len(host)
      BY DEF FeedInv, HostPart
    <3> QED BY <1>2, <2>1, <2>2, <2>3, <3>1 DEF NoHeight
  <2>5. ASSUME NEW i \in 1..Len(feed') PROVE feed'[i] = host[i]
    <3>1. CASE i <= Len(feed)
      BY <1>2, <2>1, <2>3, <3>1 DEF Agree
    <3>2. CASE i > Len(feed)
      <4>1. /\ i - Len(feed) \in 1..Len(read) /\ Len(feed) + (i - Len(feed)) = i
            /\ cursor + (i - Len(feed)) - 1 = i
        BY <1>2, <2>1, <2>3, <3>2
      <4> QED BY <2>1, <2>3, <4>1
    <3>3. i <= Len(feed) \/ i > Len(feed)
      BY <1>2
    <3> QED BY ONLY <3>1, <3>2, <3>3
  <2>6. IsChain(feed')
    <3>1. feed' \in Seq(Block) /\ host \in Seq(Block) /\ IsChain(host) /\ Len(feed') <= Len(host)
      BY <1>1, <1>2, <2>4 DEF FeedInv, HostPart, TypeOK
    <3> QED BY <2>5, <3>1, CopyIsChain
  <2>7. UNCHANGED <<host, hostFin, queued>> /\ pc = "read"
    BY <1>6 DEF EmitBatch
  <2>8. HostPart' /\ IsChain(feed)'
    BY <2>6, <2>7 DEF FeedInv, HostPart, IsChain, LinkedFrom
  <2>9. /\ backfilled' = to /\ cursor' = to + 1 /\ pc' = "backfill"
        /\ cursor' - 1 = to
    BY <1>2, <1>6 DEF EmitBatch
  <2>10. Agree(backfilled)' /\ Agree(cursor - 1)'
    BY <1>2, <2>4, <2>5, <2>7, <2>9 DEF Agree
  <2>11. FinalPart' /\ CursorPart'
    BY <2>1, <2>7, <2>9, <2>10 DEF FinalPart, CursorPart
  <2>12. BatchPart' /\ LivePart' /\ QueuePart'
    BY <2>7, <2>9 DEF FeedInv, BatchPart, LivePart, QueuePart
  <2> QED BY <2>8, <2>11, <2>12 DEF FeedInv
<1>7. CASE Switch
  <2>1. LivePart'
    <3> SUFFICES ASSUME pc' = "live" PROVE streamed' = feed
      BY <1>7 DEF Switch, LivePart
    <3>1. /\ streamed' = Prefix(host, cursor - 1) /\ cursor - 1 <= Len(host)
          /\ Len(feed) = cursor - 1 /\ Agree(cursor - 1)
      BY <1>7 DEF Switch, LastBackfilled, FeedInv, TypeInv, LengthPart, CursorPart
    <3> DEFINE p == Prefix(host, cursor - 1)
    <3>2. /\ p \in Seq(Block) /\ Len(p) = cursor - 1
          /\ \A i \in 1..(cursor - 1) : p[i] = host[i]
      <4>1. cursor - 1 \in Nat
        BY <1>2
      <4> QED BY ONLY <1>2, <3>1, <4>1, PrefixFacts
    <3> HIDE DEF p
    <3>3. Len(p) = Len(feed) /\ \A i \in 1..Len(feed) : p[i] = feed[i]
      BY <3>1, <3>2 DEF Agree
    <3>4. p \in Seq(Block) /\ feed \in Seq(Block)
      BY <1>2, <3>2
    <3>5. p = feed
      BY ONLY <3>3, <3>4
    <3> QED BY <3>1, <3>5 DEF p
  <2>2. /\ pc' \in {"live", "failed"} /\ pc = "switch"
        /\ UNCHANGED <<hostVars, batchVars, queued, outVars>>
    BY <1>7 DEF Switch
  <2>3. QueuePart'
    BY <2>2 DEF FeedInv, QueuePart
  <2> QED BY <2>1, <2>2, <2>3 DEF FeedInv, HostPart, CursorPart, Agree, BatchPart,
             FinalPart, IsChain, LinkedFrom
<1>8. CASE LiveNotification
  <2>1. /\ queued # <<>> /\ queued \in Seq(Seq(Block)) /\ pc = "live"
        /\ streamed' = Head(queued) /\ queued' = Tail(queued) /\ feed' = Head(queued)
        /\ UNCHANGED <<host, hostFin, pc, backfilled>>
    BY <1>1, <1>8, LiveFacts DEF LiveNotification, TypeOK
  <2>2. /\ Len(queued) \in Nat \ {0} /\ Head(queued) = queued[1]
        /\ Len(queued') = Len(queued) - 1
        /\ \A i \in 1..(Len(queued) - 1) : queued'[i] = queued[i + 1]
    BY ONLY <2>1, QueueFacts
  <2>3. \A i \in 1..Len(queued) : IsChain(queued[i]) /\ Shared(queued[i], host, backfilled)
    BY <2>1 DEF FeedInv, QueuePart
  <2>4. IsChain(feed') /\ Shared(feed', host, backfilled)
    <3>1. 1 \in 1..Len(queued)
      BY <2>2
    <3> QED BY <2>1, <2>2, <2>3, <3>1
  <2>5. \A i \in 1..Len(queued') : IsChain(queued'[i]) /\ Shared(queued'[i], host, backfilled)
    <3>1. ASSUME NEW i \in 1..Len(queued')
          PROVE  i \in 1..(Len(queued) - 1) /\ i + 1 \in 1..Len(queued)
      BY <2>2
    <3> QED BY <2>2, <2>3, <3>1
  <2>6. HostPart' /\ IsChain(feed)' /\ QueuePart' /\ LivePart'
    BY <2>1, <2>4, <2>5 DEF FeedInv, HostPart, QueuePart, LivePart, Shared, IsChain, LinkedFrom
  <2>7. FinalPart' /\ CursorPart' /\ BatchPart'
    BY <2>1, <2>4 DEF FeedInv, FinalPart, Agree, Shared, CursorPart, BatchPart
  <2> QED BY <2>6, <2>7 DEF FeedInv
<1> QED BY <1>3, <1>4, <1>5, <1>6, <1>7, <1>8 DEF Backfill

\* A failure, the end of the stream and a FinishedHeight event keep it too.
LEMMA OtherInductive ==
  ASSUME FeedInv, TypeInv', HostError \/ StreamEnds \/ SendFinishedHeight
  PROVE  FeedInv'
<1>1. /\ pc' \in {"failed", "closed"} \/ pc' = pc
      /\ UNCHANGED <<host, hostFin, cursor, to, read, streamed, queued, feed, backfilled>>
  BY DEF HostError, StreamEnds, SendFinishedHeight, hostVars, batchVars, streamVars, outVars
<1>2. HostPart' /\ IsChain(feed)' /\ FinalPart'
  BY <1>1 DEF FeedInv, HostPart, FinalPart, Agree, IsChain, LinkedFrom
<1>3. CursorPart' /\ BatchPart' /\ LivePart'
  BY <1>1 DEF FeedInv, CursorPart, Agree, BatchPart, LivePart, Reading
<1>4. QueuePart'
  BY <1>1 DEF FeedInv, QueuePart, Shared, IsChain, LinkedFrom, Reading
<1> QED BY <1>2, <1>3, <1>4 DEF FeedInv

\* The receiver resumes with a part of the host's chain.
LEMMA FeedInit == Init => FeedInv
<1> SUFFICES ASSUME Init PROVE FeedInv
  OBVIOUS
<1>1. TypeInv
  BY TypeInit
<1>2. /\ pc = "backfill" /\ cursor = Head0 /\ queued = <<>> /\ backfilled = 0
  BY DEF Init
<1>3. /\ host \in Seq(Block) /\ IsChain(host)
      /\ Head0 - 1 \in Nat /\ Head0 - 1 <= Len(host)
      /\ hostFin \in Nat \cup {NoHeight} /\ hostFin <= Len(host)
      /\ feed \in Seq(Block) /\ Len(feed) = Head0 - 1
      /\ \A i \in 1..Len(feed) : feed[i] = host[i]
  BY InitFacts
<1>4. IsChain(feed)
  BY <1>3, CopyIsChain
<1>5. Agree(cursor - 1)
  BY <1>2, <1>3 DEF Agree
<1>6. Agree(backfilled)
  BY <1>2, <1>3 DEF Agree
<1> QED BY <1>1, <1>2, <1>3, <1>4, <1>5, <1>6
        DEF FeedInv, HostPart, CursorPart, BatchPart, LivePart, QueuePart, FinalPart

\* Every step keeps the invariant.
LEMMA FeedStep == ASSUME ResumeOnCanonical, FeedInv, [Next]_vars PROVE FeedInv'
<1>1. TypeInv'
  BY TypeStep DEF FeedInv
<1>2. CASE Next
  BY <1>1, <1>2, HostInductive, NotifierInductive, QueueInductive, OtherInductive
     DEF Next
<1>3. CASE UNCHANGED vars
  BY <1>3 DEF vars, hostVars, batchVars, streamVars, outVars, FeedInv, TypeInv, TypeOK,
     BatchBound, LengthPart, HostPart, CursorPart, Agree, BatchPart, LivePart,
     QueuePart, Shared, FinalPart, IsChain, LinkedFrom
<1> QED BY <1>2, <1>3

-------------------------------------------------------------------------------
(***************************************************************************)
(* Finished heights.                                                       *)
(***************************************************************************)
\* Nothing was called final or reported yet.
LEMMA FinishedInit == Init => FinishedInv
<1> SUFFICES ASSUME Init PROVE FinishedInv
  OBVIOUS
<1>1. TypeInv
  BY TypeInit
<1>2. IsChain(host) /\ hostFin <= Len(host) /\ hostFin \in Nat \cup {NoHeight}
  BY InitFacts
<1>3. fin = NoHeight /\ finished = <<>>
  BY DEF Init
<1> QED BY <1>1, <1>2, <1>3 DEF FinishedInv, HostPart, FinishedPart, NoHeight

\* Every step leaves what was called final and reported on reth's chain.
LEMMA FinishedStep == ASSUME FinishedInv, [Next]_vars PROVE FinishedInv'
<1>1. TypeInv'
  BY TypeStep DEF FinishedInv
<1>2. /\ host \in Seq(Block) /\ Len(host) \in Nat /\ finished \in Seq(Block)
      /\ hostFin \in Int /\ fin \in Int /\ IsChain(host) /\ hostFin <= Len(host)
      /\ fin <= hostFin
  BY TypeFacts DEF FinishedInv, TypeInv, HostPart, FinishedPart
<1>3. ASSUME finished # <<>>
      PROVE  /\ num[finished[1]] \in Nat \ {0} /\ num[finished[1]] <= hostFin
             /\ host[num[finished[1]]] = finished[1]
  <2>1. finished[1] \in Block
    BY <1>2, <1>3
  <2> QED BY <1>3, <2>1, HostChainAssumption DEF FinishedInv, FinishedPart
<1>4. CASE HostStep
  <2>1. PICK k \in Nat :
          /\ k <= Len(host) /\ k <= Len(host') /\ \A i \in 1..k : host'[i] = host[i]
          /\ hostFin <= k /\ hostFin <= hostFin' /\ hostFin' <= Len(host') /\ IsChain(host')
          /\ k = Len(host) \/ (ResumeOnCanonical /\ pc \in Reading => k >= Head0 - 1)
          /\ UNCHANGED <<pc, batchVars, streamVars, outVars>>
    BY <1>1, <1>4, HostKeeps DEF FinishedInv
  <2>2. hostFin' \in Int
    BY <1>1 DEF TypeInv, TypeOK, NoHeight
  <2>3. ASSUME finished # <<>>
        PROVE  num[finished[1]] <= hostFin' /\ host'[num[finished[1]]] = finished[1]
    BY <1>2, <1>3, <2>1, <2>2, <2>3
  <2>4. fin <= hostFin' /\ UNCHANGED <<fin, finished>>
    BY <1>2, <2>1, <2>2 DEF outVars
  <2> QED BY <1>1, <2>1, <2>3, <2>4 DEF FinishedInv, HostPart, FinishedPart, IsChain, LinkedFrom
<1>5. CASE UNCHANGED <<host, hostFin, finished>>
  <2>1. fin' \in {fin, NoHeight, hostFin}
    <3>1. [Next]_vars
      OBVIOUS
    <3> QED BY <3>1 DEF Next, HostStep, HostExtend, HostReorg, HostFinalize, Backfill, NextBatch,
       BackfillDone, ReadBlock, EmitBatch, Switch, QueueNotification, LiveNotification,
       ReadTags, HostError, StreamEnds, SendFinishedHeight, outVars, vars
  <2>2. fin' <= hostFin
    <3>1. hostFin \in Nat \cup {NoHeight}
      BY DEF FinishedInv, TypeInv, TypeOK
    <3> QED BY <1>2, <2>1, <3>1 DEF NoHeight
  <2> QED BY <1>1, <1>5, <2>2 DEF FinishedInv, HostPart, FinishedPart, IsChain, LinkedFrom
<1>6. CASE SendFinishedHeight
  <2>1. /\ FinishedHeight \in Nat \ {0} /\ FinishedHeight <= fin
        /\ \/ /\ FinishedHeight \in 1..Len(host)
              /\ finished' = <<host[FinishedHeight]>> /\ pc' = pc
              /\ host[FinishedHeight] \in Block
           \/ finished' = finished /\ pc' = "failed"
    BY <1>6, ReportFacts DEF FinishedInv, TypeInv
  <2>2. UNCHANGED <<host, hostFin, fin>>
    BY <1>6 DEF SendFinishedHeight, hostVars
  <2>3. PICK n \in Nat \ {0} : n = FinishedHeight
    BY <2>1
  <2>4. CASE n \in 1..Len(host) /\ finished' = <<host[n]>>
    <3>1. num[host[n]] = n
      BY <1>2, <2>4 DEF IsChain, LinkedFrom
    <3>2. finished'[1] = host[n] /\ n <= hostFin
      BY <1>2, <2>1, <2>3, <2>4
    <3> QED BY <1>1, <1>2, <2>2, <3>1, <3>2
            DEF FinishedInv, HostPart, FinishedPart, IsChain, LinkedFrom
  <2>5. CASE finished' = finished
    BY <1>5, <2>2, <2>5
  <2> QED BY <2>1, <2>3, <2>4, <2>5
<1>7. HostStep \/ UNCHANGED <<host, hostFin, finished>> \/ SendFinishedHeight
  BY DEF Next, Backfill, NextBatch, BackfillDone, ReadBlock, EmitBatch, Switch,
     QueueNotification, LiveNotification, HostError, StreamEnds, hostVars, outVars, vars
<1> QED BY <1>4, <1>5, <1>6, <1>7

-------------------------------------------------------------------------------
(***************************************************************************)
(* The theorems.                                                           *)
(***************************************************************************)
\* next_notification holds at most a batch of the configured size in memory,
\* and all its state keeps its type, whatever reth does.
THEOREM TypeCorrect == Spec => []TypeOK
<1>1. TypeInv /\ [Next]_vars => TypeInv'
  BY TypeStep
<1>2. TypeInv => TypeOK
  BY DEF TypeInv
<1> QED BY <1>1, <1>2, TypeInit, PTL DEF Spec

\* The inductive invariant, for a host that keeps the block the receiver
\* resumes after.
LEMMA FeedInvariance == ASSUME ResumeOnCanonical PROVE Spec => []FeedInv
<1>1. FeedInv /\ [Next]_vars => FeedInv'
  BY FeedStep
<1> QED BY <1>1, FeedInit, PTL DEF Spec

\* send_finished_height names a block that stays on reth's chain, though its
\* number comes from an earlier notification and reth reorganises before and
\* after the lookup, whichever chain the receiver resumed on.
THEOREM FinishedAlwaysFinal == Spec => []FinishedIsFinal
<1>1. FinishedInv /\ [Next]_vars => FinishedInv'
  BY FinishedStep
<1>2. FinishedInv => FinishedIsFinal
  <2> SUFFICES ASSUME FinishedInv, finished # <<>>
               PROVE  /\ num[finished[1]] <= Len(host)
                      /\ host[num[finished[1]]] = finished[1]
    BY DEF FinishedIsFinal
  <2>1. num[finished[1]] <= hostFin /\ host[num[finished[1]]] = finished[1]
    BY DEF FinishedInv, FinishedPart
  <2>2. /\ hostFin \in Int /\ Len(host) \in Nat /\ hostFin <= Len(host)
        /\ finished \in Seq(Block)
    BY TypeFacts DEF FinishedInv, TypeInv, HostPart
  <2>3. num[finished[1]] \in Nat
    <3>1. finished[1] \in Block
      BY <2>2
    <3> QED BY <3>1, HostChainAssumption
  <2> QED BY <2>1, <2>2, <2>3
<1> QED BY <1>1, <1>2, FinishedInit, PTL DEF Spec

\* The notifier keeps the HostNotifier contract across the switch from the
\* database to the stream: every step of it is a delivery of HostFeed or leaves
\* the receiver alone.
THEOREM RethImplementsHostFeed ==
  ASSUME ResumeOnCanonical
  PROVE  Spec => ImplementsHostFeed
<1>1. Init => Feed!Init
  <2> SUFFICES ASSUME Init PROVE Feed!Init
    OBVIOUS
  <2>1. IsChain(feed)
    BY FeedInit DEF FeedInv
  <2>2. backfilled = 0
    BY DEF Init
  <2> QED BY <2>1, <2>2 DEF Feed!Init, Feed!IsChain, Feed!LinkedFrom, IsChain, LinkedFrom
<1>2. FeedInv /\ FeedInv' /\ [Next]_vars => [Feed!Deliver]_<<feed, backfilled>>
  <2> SUFFICES ASSUME FeedInv, FeedInv', [Next]_vars
               PROVE  Feed!Deliver \/ UNCHANGED <<feed, backfilled>>
    OBVIOUS
  <2>1. CASE UNCHANGED <<feed, backfilled>>
    BY <2>1
  <2>2. CASE EmitBatch \/ LiveNotification
    <3>1. /\ feed \in Seq(Block) /\ feed' \in Seq(Block)
          /\ backfilled \in Nat /\ backfilled' \in Nat
      BY DEF FeedInv, TypeInv, TypeOK
    <3>2. IsChain(feed)' /\ Agree(backfilled) /\ Agree(backfilled)'
      BY DEF FeedInv, FinalPart
    <3>3. UNCHANGED <<host, hostFin>>
      BY <2>2 DEF EmitBatch, LiveNotification, hostVars
    <3>4. backfilled <= backfilled'
      <4>1. CASE EmitBatch
        <5>1. /\ Len(feed) = cursor - 1 /\ cursor + Len(read) = to + 1 /\ backfilled' = to
          BY <4>1 DEF EmitBatch, FeedInv, TypeInv, LengthPart, Reading
        <5>2. /\ cursor \in Nat \ {0} /\ to \in Nat /\ Len(feed) \in Nat
              /\ Len(read) \in Nat
          BY TypeFacts DEF FeedInv, TypeInv
        <5>3. backfilled = 0 \/ backfilled <= Len(feed)
          BY <3>1, <3>2 DEF Agree
        <5> QED BY <3>1, <5>1, <5>2, <5>3
      <4>2. CASE LiveNotification
        BY <3>1, <4>2 DEF LiveNotification
      <4> QED BY <2>2, <4>1, <4>2
    <3>5. /\ \A i \in 1..backfilled : i <= Len(feed) /\ feed[i] = host[i]
          /\ \A i \in 1..backfilled' : i <= Len(feed') /\ feed'[i] = host[i]
      BY <3>2, <3>3 DEF Agree
    <3>6. \A i \in 1..backfilled : feed'[i] = feed[i]
      BY <3>1, <3>4, <3>5
    <3>7. backfilled <= Len(feed) /\ backfilled <= Len(feed') /\ backfilled' <= Len(feed')
      BY <3>1, <3>4, <3>5
    <3>8. Feed!Prefix(feed', backfilled) = Feed!Prefix(feed, backfilled)
      <4> DEFINE p == SubSeq(feed, 1, backfilled)
                 q == SubSeq(feed', 1, backfilled)
      <4>1. /\ p \in Seq(Block) /\ Len(p) = backfilled
            /\ \A i \in 1..backfilled : p[i] = feed[i]
        BY <3>1, <3>7, PrefixFacts DEF Prefix
      <4>2. /\ q \in Seq(Block) /\ Len(q) = backfilled
            /\ \A i \in 1..backfilled : q[i] = feed'[i]
        BY <3>1, <3>7, PrefixFacts DEF Prefix
      <4> HIDE DEF p, q
      <4>3. p = q
        BY <3>1, <3>6, <4>1, <4>2
      <4> QED BY <4>3 DEF p, q, Feed!Prefix
    <3> QED BY <3>1, <3>2, <3>4, <3>7, <3>8 DEF Feed!Deliver, Feed!IsChain, Feed!LinkedFrom,
               IsChain, LinkedFrom
  <2>3. EmitBatch \/ LiveNotification \/ UNCHANGED <<feed, backfilled>>
    BY DEF Next, HostStep, HostExtend, HostReorg, HostFinalize, Backfill, NextBatch,
       BackfillDone, ReadBlock, Switch, QueueNotification, HostError, StreamEnds, SendFinishedHeight,
       outVars, vars
  <2> QED BY <2>1, <2>2, <2>3
<1> QED BY <1>1, <1>2, FeedInvariance, PTL DEF Spec, ImplementsHostFeed, Feed!Spec
===============================================================================
