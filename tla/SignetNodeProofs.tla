--------------------------- MODULE SignetNodeProofs ---------------------------
(***************************************************************************)
(* Safety of SignetNode for every host chain, deploy height and number of  *)
(* reorganisations and stops: what it stores and what its readers see.     *)
(***************************************************************************)
EXTENDS SignetNode, HostChainProofs

-------------------------------------------------------------------------------
(***************************************************************************)
(* The inductive invariant.                                                *)
(***************************************************************************)
Draining == {"drain_cold", "rewind_finalized", "rewind_safe", "rewind_latest",
             "notify_reorg"}

Committing == {"block", "append"}

Settled == {"idle", "tag_finalized", "tag_safe", "tag_latest", "finished"}

\* The host and the delivered chain are chains.
ChainPart == IsChain(host) /\ IsChain(delivered)

\* Deliveries happen only after start-up, in the order set_head, first
\* notification.
SessionPart ==
  /\ pc \in Booting => fresh
  /\ fresh => pc \in Booting \cup {"idle"}
  /\ (fresh /\ pc = "idle") => head = DeployHeight + Len(hot)
  /\ pc # "failed"

\* What is in cold followed by what is queued for it is what is in hot, but
\* for the tail an unwind has not yet reached.
ColdAgrees == \A i \in 1..Len(hot) : i <= Len(cold) => hot[i] = cold[i]

QueueAgrees == \A i \in 1..Len(coldQ) :
                 Len(cold) + i <= Len(hot) => hot[Len(cold) + i] = coldQ[i]

StoreHeights ==
  /\ pc \notin {"down", "prebuild", "unwind_cold", "drain_cold"} =>
       Len(hot) = Len(cold) + Len(coldQ)
  /\ pc = "drain_cold" => Len(hot) <= Len(cold) + Len(coldQ)
  /\ pc = "unwind_cold" => Len(hot) = target /\ target <= Len(cold)
  /\ pc \in Booting => coldQ = <<>>

StorePart == ColdAgrees /\ QueueAgrees /\ StoreHeights

\* s is the tail of the delivered chain.
IsTail(s) == /\ Len(s) <= Len(delivered)
             /\ \A j \in 1..Len(s) :
                  s[j] = delivered[Len(delivered) - Len(s) + j]

\* The heights of hot storage and of the delivered chain through a handler:
\* hot has at least the rollup blocks before the tail s still to be
\* processed, and none past the end of it.
Between(s) == /\ RollupOfHost(Len(delivered) - Len(s)) <= Len(hot)
              /\ Len(hot) <= RollupOfHost(Len(delivered))

SettledHeights ==
  (~fresh /\ pc \in Settled) => Len(hot) = RollupOfHost(Len(delivered))

RevertRange == /\ 1 <= note.first /\ note.first <= note.tip
               /\ note.first - 1 = Len(delivered) - Len(note.new)
               /\ IsTail(note.new)

RevertHeights == pc = "revert" => RevertRange /\ Len(hot) = RollupOfHost(note.tip)

DrainHeights ==
  pc \in Draining => /\ RevertRange
                     /\ target = RevertTarget /\ Len(hot) = target
                     /\ note.tip > DeployHeight /\ drained # <<>>

ExtractHeights == pc = "extract" => IsTail(note.new) /\ Between(note.new)

CommitHeights ==
  pc \in Committing =>
    /\ IsTail(todo) /\ Between(todo)
    /\ lastHeight <= Len(hot)
    /\ Len(hot) > lastHeight =>
         Len(hot) = RollupOfHost(Len(delivered) - Len(todo))

AppendHeights ==
  pc = "append" =>
    /\ todo # <<>>
    /\ RollupOfHost(Len(delivered) - Len(todo) + 1) = Len(hot) + 1

HeightPart == /\ SettledHeights /\ RevertHeights /\ DrainHeights
              /\ ExtractHeights /\ CommitHeights /\ AppendHeights

\* Hot storage is the rollup part of the delivered chain, but for the blocks
\* a revert in hand is about to remove.
HotFollows ==
  ~fresh => \A i \in 1..Len(hot) :
              (pc = "revert" => DeployHeight + i < note.first) =>
                hot[i] = delivered[DeployHeight + i]

ContentPart == LinkedFrom(hot, DeployHeight + 1) /\ HotFollows

SafeInv == TypeOK /\ ChainPart /\ SessionPart /\ StorePart /\ HeightPart

CanonInv == SafeInv /\ ContentPart

-------------------------------------------------------------------------------
(***************************************************************************)
(* Facts about sequences.                                                  *)
(***************************************************************************)
\* Truncate is what unwind_above and drain_above leave of a store.
LEMMA TruncateFacts ==
  ASSUME NEW S, NEW s \in Seq(S), NEW n \in Nat
  PROVE  /\ Truncate(s, n) \in Seq(S)
         /\ Len(Truncate(s, n)) = AtMost(n, Len(s))
         /\ \A i \in 1..Len(Truncate(s, n)) : Truncate(s, n)[i] = s[i]
  BY PrefixFacts DEF Truncate, AtMost

-------------------------------------------------------------------------------
(***************************************************************************)
(* Type correctness.                                                       *)
(***************************************************************************)
USE DEF NoHeight

\* The pairing of host and rollup heights stays within the natural numbers.
LEMMA HeightFacts ==
  /\ \A h \in Int : RollupOfHost(h) \in Nat
  /\ \A n \in Nat : HostOfRollup(n) \in Nat \ {0}
  /\ \A n \in Nat, cap \in Nat : AtMost(n, cap) \in Nat
  BY HostChainAssumption DEF RollupOfHost, HostOfRollup, AtMost

\* The rollup height is monotone in the host height and grows by one with
\* every host block above the deploy block.
LEMMA RollupFacts ==
  /\ \A h \in Nat : RollupOfHost(h + 1) > 0 =>
                       RollupOfHost(h + 1) = RollupOfHost(h) + 1
  /\ \A h \in Nat, g \in Nat : h <= g => RollupOfHost(h) <= RollupOfHost(g)
  /\ \A h \in Int : RollupOfHost(h) > 0 => h = DeployHeight + RollupOfHost(h)
  BY HostChainAssumption DEF RollupOfHost

\* Every step of the host and of the notifier keeps the types.
LEMMA TypeFeed ==
  ASSUME TypeOK, SessionPart, HostStep \/ NotifierStep
  PROVE  TypeOK'
<1> USE DEF TypeOK, TagsTypeOK, hostVars, feedVars, storeVars, localVars,
            outVars, tags
<1>1. CASE HostExtend
  BY <1>1, AppendFacts DEF HostExtend
<1>2. CASE HostReorg
  <2>1. PICK k \in hostFin..(Len(host) - 1) : host' = Prefix(host, k)
    BY <1>2 DEF HostReorg
  <2>2. k \in Nat /\ k <= Len(host)
    OBVIOUS
  <2>3. host' \in Seq(Block)
    BY <2>1, <2>2, PrefixFacts
  <2> QED BY <1>2, <2>3, SignetNodeAssumption DEF HostReorg
<1>3. CASE HostFinalize
  BY <1>3 DEF HostFinalize
<1>4. ASSUME NEW first \in Nat \cup {NoHeight}, NEW tip \in Nat \cup {NoHeight},
             NEW new \in Seq(Block), delivered' \in Seq(Block),
             Deliver(first, tip, new)
      PROVE  TypeOK'
  <2>1. note' \in Notification
    BY <1>4 DEF Deliver, Notification
  <2> QED BY <1>4, <2>1 DEF Deliver, Locations
<1>5. CASE FirstNotification
  <2>1. PICK k \in head..Len(host) :
          /\ delivered' = Prefix(host, k)
          /\ Deliver(NoHeight, NoHeight, SubSeq(host, head, k))
    BY <1>5 DEF FirstNotification
  <2>2. head \in Nat \ {0}
    BY <1>5, <2>1, HostChainAssumption
    DEF FirstNotification, Deliver, SessionPart
  <2>3. delivered' \in Seq(Block)
    BY <2>1, <2>2, PrefixFacts
  <2>4. SubSeq(host, head, k) \in Seq(Block)
    BY <2>1, <2>2, SegmentFacts
  <2> QED BY <1>4, <2>1, <2>3, <2>4
<1>6. CASE NextNotification
  <2>1. PICK a \in 0..Len(delivered) : \E k \in a..Len(host) :
          /\ CommonAncestor(a)
          /\ delivered' = Prefix(host, k)
          /\ IF a = Len(delivered)
               THEN k > a /\ Deliver(NoHeight, NoHeight, SubSeq(host, a + 1, k))
               ELSE Deliver(a + 1, Len(delivered), SubSeq(host, a + 1, k))
    BY <1>6 DEF NextNotification
  <2>2. PICK k \in a..Len(host) :
          /\ CommonAncestor(a)
          /\ delivered' = Prefix(host, k)
          /\ IF a = Len(delivered)
               THEN k > a /\ Deliver(NoHeight, NoHeight, SubSeq(host, a + 1, k))
               ELSE Deliver(a + 1, Len(delivered), SubSeq(host, a + 1, k))
    BY <2>1
  <2> k \in Nat /\ k <= Len(host)
    OBVIOUS
  <2>3. delivered' \in Seq(Block)
    BY <2>2, PrefixFacts
  <2>4. SubSeq(host, a + 1, k) \in Seq(Block)
    BY <2>2, SegmentFacts
  <2>5. CASE a = Len(delivered)
    BY <1>4, <2>2, <2>3, <2>4, <2>5
  <2>6. CASE a # Len(delivered)
    <3>1. a + 1 \in Nat \cup {NoHeight} /\ Len(delivered) \in Nat \cup {NoHeight}
      OBVIOUS
    <3> QED BY <1>4, <2>2, <2>3, <2>4, <2>6, <3>1
  <2> QED BY <2>5, <2>6
<1> QED BY <1>1, <1>2, <1>3, <1>5, <1>6 DEF HostStep, NotifierStep

\* Every step of the node, of the cold task and of a stop keeps the types.
LEMMA TypeNode ==
  ASSUME TypeOK, HeightPart, Boot \/ NodeStep \/ ColdApply \/ Stop
  PROVE  TypeOK'
<1> USE DEF TypeOK, TagsTypeOK, hostVars, feedVars, storeVars, localVars,
            outVars, tags, Locations
<1>1. CASE Boot
  BY <1>1 DEF Boot
<1>2. CASE LoadHotGenesis \/ LoadColdGenesis
  BY <1>2 DEF LoadHotGenesis, LoadColdGenesis
<1>3. CASE Reconcile
  <2>1. target' \in Nat
    BY <1>3, HeightFacts DEF Reconcile
  <2>2. hot' \in Seq(Block)
    BY <1>3, <2>1, TruncateFacts DEF Reconcile
  <2> QED BY <1>3, <2>1, <2>2 DEF Reconcile
<1>4. CASE UnwindCold
  BY <1>4, TruncateFacts DEF UnwindCold
<1>5. CASE StartInner
  <2>1. ResumeHeight \in Nat
    BY HeightFacts, HostChainAssumption DEF ResumeHeight
  <2> QED BY <1>5, <2>1 DEF StartInner
<1>6. CASE RevertBelowDeploy
  BY <1>6 DEF RevertBelowDeploy
<1>7. CASE DrainHot
  <2>1. RevertTarget \in Nat
    <3>1. note.first \in Int
      BY DEF Notification
    <3>2. RollupOfHost(note.first) \in Nat
      BY <3>1, HeightFacts
    <3> QED BY <3>2 DEF RevertTarget
  <2>2. CASE CoversTip
    <3>1. Truncate(hot, RevertTarget) \in Seq(Block)
      BY <2>1, TruncateFacts
    <3>2. SubSeq(hot, RevertTarget + 1, Len(hot)) \in Seq(Block)
      BY <2>1
    <3> QED BY <1>7, <2>1, <2>2, <3>1, <3>2 DEF DrainHot
  <2>3. CASE ~CoversTip
    BY <1>7, <2>1, <2>3 DEF DrainHot
  <2> QED BY <2>2, <2>3
<1>8. CASE DrainCold
  BY <1>8, TruncateFacts DEF DrainCold
<1>9. CASE RewindFinalized \/ RewindSafe \/ RewindLatest
  <2>1. /\ AtMost(finalized, target) \in Nat
        /\ AtMost(safe, target) \in Nat
        /\ AtMost(latest, target) \in Nat
    BY HeightFacts
  <2> QED BY <1>9, <2>1
      DEF RewindFinalized, RewindSafe, RewindLatest, RewindStep, CapFinalized,
          CapSafe, CapLatest, StoreFinalized, StoreSafe, StoreLatest
<1>10. CASE NotifyReorg
  <2>1. Truncate(seen, target) \in Seq(Block)
    BY TruncateFacts
  <2> QED BY <1>10, <2>1 DEF NotifyReorg
<1>11. CASE Extract
  BY <1>11 DEF Extract, Notification
<1>12. CASE SkipBlock
  BY <1>12, QueueFacts DEF SkipBlock
<1>13. CASE ProcessBlock
  <2>1. Append(seen, Head(todo)) \in Seq(Block)
    BY <1>13, QueueFacts, AppendFacts DEF ProcessBlock
  <2> QED BY <1>13, <2>1 DEF ProcessBlock
<1>14. CASE AppendBlock
  <2>1. Head(todo) \in Block /\ Tail(todo) \in Seq(Block)
    BY <1>14, QueueFacts DEF AppendBlock, HeightPart, AppendHeights
  <2>2. Append(hot, Head(todo)) \in Seq(Block) /\ Append(coldQ, Head(todo)) \in Seq(Block)
    BY <2>1, AppendFacts
  <2> QED BY <1>14, <2>1, <2>2 DEF AppendBlock
<1>15. CASE FinishNotification
  BY <1>15 DEF FinishNotification
<1>16. \A h \in Nat \cup {NoHeight} : ClampHostHeight(h) \in Nat
  BY HostChainAssumption DEF ClampHostHeight, RollupOfHost, AtMost
<1>21. ClampHostHeight(note.fin) \in Nat /\ ClampHostHeight(note.safe) \in Nat
  <2>1. note.fin \in Nat \cup {NoHeight} /\ note.safe \in Nat \cup {NoHeight}
    BY DEF Notification
  <2> QED BY <1>16, <2>1
<1>17. CASE UpdateFinalized \/ UpdateSafe \/ UpdateLatest
  <2>1. latest' \in Nat /\ safe' \in Nat /\ finalized' \in Nat
    BY <1>21, <1>17
    DEF UpdateFinalized, UpdateSafe, UpdateLatest, StoreFinalized, StoreSafe,
        StoreLatest
  <2> QED BY <1>17, <2>1
      DEF UpdateFinalized, UpdateSafe, UpdateLatest, UpdateStep
<1>18. CASE SendFinishedHeight
  <2>1. HostOfRollup(ClampHostHeight(note.fin)) - 1 \in Nat
    BY <1>21, HostChainAssumption DEF HostOfRollup
  <2> QED BY <1>18, <2>1 DEF SendFinishedHeight
<1>19. CASE ColdApply
  <2>1. Append(cold, Head(coldQ)) \in Seq(Block) /\ Tail(coldQ) \in Seq(Block)
    BY <1>19, QueueFacts, AppendFacts DEF ColdApply
  <2> QED BY <1>19, <2>1 DEF ColdApply
<1>20. CASE Stop
  <2>1. NoNote \in Notification
    BY DEF NoNote, Notification
  <2>2. note' \in Notification /\ stops' \in 0..MaxStops
    BY <1>20, <2>1, SignetNodeAssumption DEF Stop
  <2>3. fresh' \in BOOLEAN /\ changed' \in BOOLEAN
    BY <1>20 DEF Stop
  <2> QED BY <1>20, <2>2, <2>3 DEF Stop, TagsReset
<1> QED
  BY <1>1, <1>2, <1>3, <1>4, <1>5, <1>6, <1>7, <1>8, <1>9, <1>10, <1>11, <1>12,
     <1>13, <1>14, <1>15, <1>17, <1>18, <1>19, <1>20
  DEF NodeStep, StartUp, OnHostRevert, ProcessCommittedChain, UpdateBlockTags

-------------------------------------------------------------------------------
(***************************************************************************)
(* The chains and the session.                                             *)
(***************************************************************************)
\* The host only has chains, and the notifier only delivers prefixes of them.
LEMMA ChainInductive ==
  ASSUME TypeOK, SessionPart, ChainPart, Next
  PROVE  ChainPart'
<1>1. host \in Seq(Block) /\ delivered \in Seq(Block)
  BY DEF TypeOK
<1>2. ASSUME NEW n \in Nat, n <= Len(host), delivered' = Prefix(host, n),
             UNCHANGED hostVars
      PROVE  ChainPart'
  BY <1>1, <1>2, PrefixIsChain DEF ChainPart, hostVars
<1>3. CASE HostExtend
  <2>1. PICK b \in Block : /\ num[b] = Len(host) + 1
                           /\ host # <<>> => parent[b] = host[Len(host)]
                           /\ host' = Append(host, b)
    BY <1>3 DEF HostExtend
  <2>2. /\ Len(host') = Len(host) + 1
        /\ \A i \in 1..Len(host) : host'[i] = host[i]
        /\ host'[Len(host) + 1] = b
    BY <1>1, <2>1, AppendFacts
  <2>3. IsChain(host')
    BY <1>1, <2>1, <2>2 DEF ChainPart, IsChain, LinkedFrom
  <2> QED BY <1>3, <2>3 DEF HostExtend, ChainPart, feedVars
<1>4. CASE HostReorg
  <2>1. PICK k \in hostFin..(Len(host) - 1) : host' = Prefix(host, k)
    BY <1>4 DEF HostReorg
  <2>2. k \in Nat /\ k <= Len(host)
    BY <1>1 DEF TypeOK
  <2>3. IsChain(host')
    BY <1>1, <2>1, <2>2, PrefixIsChain DEF ChainPart
  <2> QED BY <1>4, <2>3 DEF HostReorg, ChainPart, feedVars
<1>5. CASE FirstNotification
  <2>1. PICK k \in head..Len(host) :
          /\ delivered' = Prefix(host, k)
          /\ Deliver(NoHeight, NoHeight, SubSeq(host, head, k))
    BY <1>5 DEF FirstNotification
  <2>2. k \in Nat /\ k <= Len(host)
    BY <1>1 DEF TypeOK
  <2> QED BY <1>2, <2>1, <2>2 DEF Deliver
<1>6. CASE NextNotification
  <2>1. PICK k \in 0..Len(host) : delivered' = Prefix(host, k)
                                 /\ UNCHANGED hostVars
    BY <1>1, <1>6 DEF NextNotification, Deliver
  <2>2. k \in Nat /\ k <= Len(host)
    BY <1>1
  <2> QED BY <1>2, <2>1, <2>2
<1>7. CASE Stop
  <2>1. IsChain(<<>>)
    BY DEF IsChain, LinkedFrom
  <2> QED BY <1>7, <2>1 DEF Stop, ChainPart, hostVars
<1>8. CASE HostFinalize \/ Boot \/ NodeStep \/ ColdApply
  <2>1. UNCHANGED <<host, delivered>>
    BY <1>8
    DEF HostFinalize, Boot, NodeStep, ColdApply, StartUp, OnHostRevert,
        ProcessCommittedChain, UpdateBlockTags, LoadHotGenesis,
        LoadColdGenesis, Reconcile, UnwindCold, StartInner, RevertBelowDeploy,
        DrainHot, DrainCold, RewindFinalized, RewindSafe, RewindLatest,
        RewindStep, NotifyReorg, Extract, SkipBlock, ProcessBlock, AppendBlock,
        FinishNotification, UpdateFinalized, UpdateSafe, UpdateLatest,
        UpdateStep, SendFinishedHeight, hostVars, feedVars
  <2> QED BY <2>1 DEF ChainPart
<1> QED BY <1>3, <1>4, <1>5, <1>6, <1>7, <1>8 DEF Next, HostStep, NotifierStep

\* A session's first delivery follows set_head, and no handler fails.
LEMMA SessionInductive ==
  ASSUME TypeOK, SessionPart, ChainPart, HeightPart, Next
  PROVE  SessionPart'
<1> USE DEF hostVars, feedVars, storeVars, localVars, outVars, Booting
<1>1. CASE HostStep \/ ColdApply
  BY <1>1 DEF HostStep, HostExtend, HostReorg, HostFinalize, ColdApply,
              SessionPart
<1>2. CASE NotifierStep
  <2>1. fresh' = FALSE /\ pc' \in {"extract", "revert"}
    BY <1>2 DEF NotifierStep, FirstNotification, NextNotification, Deliver
  <2> QED BY <2>1 DEF SessionPart
<1>3. CASE Stop
  BY <1>3 DEF Stop, SessionPart
<1>4. CASE Boot \/ LoadHotGenesis \/ LoadColdGenesis \/ Reconcile \/ UnwindCold
  BY <1>4 DEF Boot, LoadHotGenesis, LoadColdGenesis, Reconcile, UnwindCold,
              SessionPart
<1>5. CASE StartInner
  <2>1. Len(hot) \in Nat
    BY DEF TypeOK
  <2>2. ResumeHeight = DeployHeight + Len(hot)
    BY <2>1, HostChainAssumption DEF ResumeHeight, HostOfRollup
  <2> QED BY <1>5, <2>2 DEF StartInner, SessionPart
<1>6. CASE DrainHot
  <2>1. CoversTip
    BY <1>6, HostChainAssumption
    DEF DrainHot, CoversTip, HeightPart, RevertHeights, RevertRange, TypeOK, Notification, RollupOfHost
  <2> QED BY <1>6, <2>1 DEF DrainHot, SessionPart
<1>7. CASE ProcessBlock
  <2>1. RollupOfHost(num[Head(todo)]) = Len(hot) + 1
    <3>1. /\ todo \in Seq(Block) /\ delivered \in Seq(Block)
          /\ hot \in Seq(Block) /\ lastHeight \in Nat
      BY DEF TypeOK
    <3>2. Len(todo) \in Nat \ {0} /\ Head(todo) = todo[1]
      BY <1>7, <3>1, QueueFacts DEF ProcessBlock
    <3> DEFINE base == Len(delivered) - Len(todo)
    <3>3. IsTail(todo) /\ Between(todo)
      BY <1>7 DEF ProcessBlock, HeightPart, CommitHeights, Committing
    <3>4. base \in Nat /\ base + 1 <= Len(delivered)
      BY <3>1, <3>2, <3>3 DEF IsTail
    <3>5. todo[1] = delivered[base + 1]
      BY <3>1, <3>2, <3>3 DEF IsTail
    <3>6. num[delivered[base + 1]] = base + 1
      BY <3>1, <3>4 DEF ChainPart, IsChain, LinkedFrom
    <3>7. /\ lastHeight <= Len(hot)
          /\ Len(hot) > lastHeight => Len(hot) = RollupOfHost(base)
          /\ RollupOfHost(base + 1) > lastHeight
      BY <1>7, <3>2, <3>5, <3>6 DEF ProcessBlock, HeightPart, CommitHeights, Committing
    <3>8. RollupOfHost(base) <= Len(hot)
      BY <3>3 DEF Between
    <3> HIDE DEF base
    <3>9. RollupOfHost(base) \in Nat /\ RollupOfHost(base + 1) \in Nat
      <4>1. base \in Int /\ base + 1 \in Int
        BY <3>4
      <4> QED BY <4>1, HeightFacts
    <3>10. RollupOfHost(base + 1) = RollupOfHost(base) + 1
      BY <3>1, <3>4, <3>7, <3>9, RollupFacts
    <3>11. RollupOfHost(base + 1) = Len(hot) + 1
      BY <3>1, <3>7, <3>8, <3>9, <3>10
    <3> QED BY <3>2, <3>5, <3>6, <3>11
  <2> QED BY <1>7, <2>1 DEF ProcessBlock, SessionPart
<1>8. CASE \/ RevertBelowDeploy \/ DrainCold \/ RewindFinalized \/ RewindSafe
           \/ RewindLatest \/ NotifyReorg \/ Extract \/ SkipBlock
  BY <1>8
  DEF RevertBelowDeploy, DrainCold, RewindFinalized, RewindSafe, RewindLatest,
      RewindStep, NotifyReorg, Extract, SkipBlock, SessionPart
<1>9. CASE AppendBlock \/ UpdateBlockTags
  BY <1>9
  DEF AppendBlock, UpdateBlockTags, FinishNotification, UpdateFinalized,
      UpdateSafe, UpdateLatest, UpdateStep, SendFinishedHeight, SessionPart
<1> QED
  BY <1>1, <1>2, <1>3, <1>4, <1>5, <1>6, <1>7, <1>8, <1>9
  DEF Next, NodeStep, StartUp, OnHostRevert, ProcessCommittedChain

-------------------------------------------------------------------------------
(***************************************************************************)
(* The two stores.                                                         *)
(***************************************************************************)
\* Appends, the cold task, unwinds and stops keep the stores in step.
LEMMA StoreInductive ==
  ASSUME TypeOK, SessionPart, SessionPart', HeightPart, StorePart, Next
  PROVE  StorePart'
<1> USE DEF hostVars, feedVars, storeVars, localVars, outVars, Booting
<1>1. /\ hot \in Seq(Block) /\ cold \in Seq(Block) /\ coldQ \in Seq(Block)
      /\ Len(hot) \in Nat /\ Len(cold) \in Nat /\ Len(coldQ) \in Nat
      /\ target \in Nat
  BY DEF TypeOK
<1>2. CASE HostStep
  BY <1>2 DEF HostStep, HostExtend, HostReorg, HostFinalize, StorePart, ColdAgrees, QueueAgrees,
      StoreHeights
<1>3. CASE NotifierStep
  <2>1. pc = "idle" /\ pc' \in {"extract", "revert"} /\ UNCHANGED storeVars
    BY <1>3 DEF NotifierStep, FirstNotification, NextNotification, Deliver
  <2> QED BY <2>1 DEF StorePart, ColdAgrees, QueueAgrees, StoreHeights
<1>4. CASE Boot \/ LoadHotGenesis \/ LoadColdGenesis
  BY <1>4 DEF Boot, LoadHotGenesis, LoadColdGenesis, StorePart, ColdAgrees, QueueAgrees,
      StoreHeights
<1>5. CASE Reconcile
  <2>1. /\ target' = AtMost(Len(hot), Len(cold)) /\ target' \in Nat
        /\ hot' = Truncate(hot, target')
        /\ UNCHANGED <<cold, coldQ>> /\ pc' \in {"start", "unwind_cold"}
        /\ pc' = "start" => Len(hot) = Len(cold)
        /\ pc = "prebuild"
    BY <1>1, <1>5, HeightFacts DEF Reconcile
  <2>2. /\ Len(hot') = AtMost(target', Len(hot))
        /\ \A i \in 1..Len(hot') : hot'[i] = hot[i]
    BY <1>1, <2>1, TruncateFacts
  <2>3. Len(hot') = target' /\ target' <= Len(cold) /\ target' <= Len(hot)
    BY <1>1, <2>1, <2>2 DEF AtMost
  <2>4. coldQ = <<>>
    BY <2>1 DEF StorePart, ColdAgrees, QueueAgrees, StoreHeights
  <2>5. \A i \in 1..Len(hot') : i <= Len(cold) => hot'[i] = cold[i]
    BY <1>1, <2>1, <2>2, <2>3 DEF StorePart, ColdAgrees, QueueAgrees, StoreHeights
  <2>6. pc' = "start" => Len(hot') = Len(cold)
    BY <1>1, <2>1, <2>3 DEF AtMost
  <2> QED BY <1>1, <2>1, <2>3, <2>4, <2>5, <2>6 DEF StorePart, ColdAgrees, QueueAgrees, StoreHeights
<1>6. CASE UnwindCold
  <2>1. /\ cold' = Truncate(cold, target) /\ UNCHANGED <<hot, coldQ>>
        /\ pc = "unwind_cold" /\ pc' = "start"
    BY <1>6 DEF UnwindCold
  <2>2. /\ Len(cold') = AtMost(target, Len(cold))
        /\ \A i \in 1..Len(cold') : cold'[i] = cold[i]
    BY <1>1, <2>1, TruncateFacts
  <2>3. Len(hot) = target /\ Len(cold') = target /\ coldQ = <<>>
    BY <1>1, <2>1, <2>2 DEF StorePart, ColdAgrees, QueueAgrees, StoreHeights, AtMost
  <2>4. \A i \in 1..Len(hot) : hot[i] = cold'[i]
    BY <1>1, <2>1, <2>2, <2>3 DEF StorePart, ColdAgrees, QueueAgrees, StoreHeights
  <2> QED BY <1>1, <2>1, <2>3, <2>4 DEF StorePart, ColdAgrees, QueueAgrees, StoreHeights
<1>7. CASE StartInner
  BY <1>7 DEF StartInner, StorePart, ColdAgrees, QueueAgrees,
      StoreHeights
<1>8. CASE DrainHot
  <2>1. /\ pc = "revert" /\ pc' = "drain_cold"
        /\ hot' = Truncate(hot, target') /\ UNCHANGED <<cold, coldQ>>
    BY <1>8 DEF DrainHot, SessionPart
  <2>2. target' \in Nat
    BY <1>8, TypeNode DEF NodeStep, OnHostRevert, TypeOK
  <2>3. /\ Len(hot') = AtMost(target', Len(hot))
        /\ \A i \in 1..Len(hot') : hot'[i] = hot[i]
    BY <1>1, <2>1, <2>2, TruncateFacts
  <2>4. Len(hot') \in Nat /\ Len(hot') <= Len(hot)
    BY <1>1, <2>2, <2>3 DEF AtMost
  <2>5. ColdAgrees'
    BY <1>1, <2>1, <2>3, <2>4 DEF StorePart, ColdAgrees
  <2>6. QueueAgrees'
    <3> SUFFICES ASSUME NEW i \in 1..Len(coldQ), Len(cold) + i <= Len(hot')
                 PROVE  hot'[Len(cold) + i] = coldQ[i]
      BY <2>1 DEF QueueAgrees
    <3>1. /\ Len(cold) + i \in 1..Len(hot') /\ Len(cold) + i <= Len(hot)
      BY <1>1, <2>4
    <3> QED BY <2>3, <3>1 DEF StorePart, QueueAgrees
  <2>7. StoreHeights'
    BY <1>1, <2>1, <2>4 DEF StorePart, StoreHeights
  <2> QED BY <2>5, <2>6, <2>7 DEF StorePart
<1>9. CASE DrainCold
  <2>1. /\ cold' = Truncate(cold, target) /\ UNCHANGED <<hot, coldQ>>
        /\ pc = "drain_cold" /\ pc' = "rewind_finalized" /\ coldQ = <<>>
    BY <1>9 DEF DrainCold
  <2>2. /\ Len(cold') = AtMost(target, Len(cold))
        /\ \A i \in 1..Len(cold') : cold'[i] = cold[i]
    BY <1>1, <2>1, TruncateFacts
  <2>3. Len(hot) = target /\ Len(cold') = target
    BY <1>1, <2>1, <2>2 DEF StorePart, ColdAgrees, QueueAgrees, StoreHeights, AtMost, HeightPart, DrainHeights, Draining
  <2>4. \A i \in 1..Len(hot) : hot[i] = cold'[i]
    BY <1>1, <2>1, <2>2, <2>3 DEF StorePart, ColdAgrees, QueueAgrees, StoreHeights, AtMost
  <2> QED BY <1>1, <2>1, <2>3, <2>4 DEF StorePart, ColdAgrees, QueueAgrees, StoreHeights
<1>10. CASE AppendBlock
  <2>1. /\ todo # <<>> /\ pc = "append" /\ pc' = "block"
        /\ hot' = Append(hot, Head(todo)) /\ coldQ' = Append(coldQ, Head(todo))
        /\ cold' = cold
    BY <1>10 DEF AppendBlock, HeightPart, AppendHeights
  <2>2. Head(todo) \in Block
    BY <2>1, QueueFacts DEF TypeOK
  <2>3. /\ Len(hot') = Len(hot) + 1 /\ hot'[Len(hot) + 1] = Head(todo)
        /\ \A i \in 1..Len(hot) : hot'[i] = hot[i]
    BY <1>1, <2>1, <2>2, AppendFacts
  <2>4. /\ Len(coldQ') = Len(coldQ) + 1 /\ coldQ'[Len(coldQ) + 1] = Head(todo)
        /\ \A i \in 1..Len(coldQ) : coldQ'[i] = coldQ[i]
    BY <1>1, <2>1, <2>2, AppendFacts
  <2>5. Len(hot) = Len(cold) + Len(coldQ)
    BY <2>1 DEF StorePart, ColdAgrees, QueueAgrees, StoreHeights
  <2>6. ColdAgrees'
    BY <1>1, <2>1, <2>3, <2>5 DEF StorePart, ColdAgrees
  <2>7. QueueAgrees'
    <3> SUFFICES ASSUME NEW i \in 1..Len(coldQ')
                 PROVE  hot'[Len(cold) + i] = coldQ'[i]
      BY <2>1 DEF QueueAgrees
    <3>1. CASE i = Len(coldQ) + 1
      BY <1>1, <2>3, <2>4, <2>5, <3>1
    <3>2. CASE i \in 1..Len(coldQ)
      <4>1. Len(cold) + i \in 1..Len(hot) /\ Len(cold) + i <= Len(hot)
        BY <1>1, <2>5, <3>2
      <4>2. hot[Len(cold) + i] = coldQ[i]
        BY <3>2, <4>1 DEF StorePart, QueueAgrees
      <4> QED BY <2>3, <2>4, <3>2, <4>1, <4>2
    <3> QED BY <1>1, <2>4, <3>1, <3>2
  <2>8. StoreHeights'
    BY <1>1, <2>1, <2>3, <2>4, <2>5 DEF StoreHeights
  <2> QED BY <2>6, <2>7, <2>8 DEF StorePart
<1>11. CASE ColdApply
  <2>1. /\ coldQ # <<>> /\ cold' = Append(cold, Head(coldQ))
        /\ coldQ' = Tail(coldQ) /\ UNCHANGED <<hot, pc, target>>
    BY <1>11 DEF ColdApply
  <2>2. /\ Head(coldQ) \in Block /\ Head(coldQ) = coldQ[1]
        /\ Len(coldQ) \in Nat \ {0} /\ Len(coldQ') = Len(coldQ) - 1
        /\ \A i \in 1..(Len(coldQ) - 1) : coldQ'[i] = coldQ[i + 1]
    BY <1>1, <2>1, QueueFacts
  <2>3. /\ Len(cold') = Len(cold) + 1 /\ cold'[Len(cold) + 1] = coldQ[1]
        /\ \A i \in 1..Len(cold) : cold'[i] = cold[i]
    BY <1>1, <2>1, <2>2, AppendFacts
  <2>4. ColdAgrees'
    <3> SUFFICES ASSUME NEW i \in 1..Len(hot), i <= Len(cold')
                 PROVE  hot[i] = cold'[i]
      BY <2>1 DEF ColdAgrees
    <3>1. CASE i = Len(cold) + 1
      BY <1>1, <2>2, <2>3, <3>1 DEF StorePart, QueueAgrees
    <3>2. CASE i <= Len(cold)
      BY <1>1, <2>3, <3>2 DEF StorePart, ColdAgrees
    <3> QED BY <1>1, <2>3, <3>1, <3>2
  <2>5. QueueAgrees'
    <3> SUFFICES ASSUME NEW i \in 1..Len(coldQ'), Len(cold') + i <= Len(hot)
                 PROVE  hot[Len(cold') + i] = coldQ'[i]
      BY <2>1 DEF QueueAgrees
    <3>1. /\ i + 1 \in 1..Len(coldQ) /\ Len(cold) + (i + 1) <= Len(hot)
          /\ Len(cold') + i = Len(cold) + (i + 1)
      BY <1>1, <2>2, <2>3
    <3>2. hot[Len(cold) + (i + 1)] = coldQ[i + 1]
      BY <3>1 DEF StorePart, QueueAgrees
    <3> QED BY <1>1, <2>2, <3>1, <3>2
  <2>6. StoreHeights'
    <3>1. pc \notin Booting /\ pc # "unwind_cold"
      BY <2>1 DEF StorePart, StoreHeights
    <3>2. Len(cold') + Len(coldQ') = Len(cold) + Len(coldQ)
      BY <1>1, <2>2, <2>3
    <3>3. Len(hot') = Len(hot) /\ pc' = pc
      BY <2>1
    <3> QED BY <3>1, <3>2, <3>3 DEF StorePart, StoreHeights
  <2> QED BY <2>4, <2>5, <2>6 DEF StorePart
<1>12. CASE Stop
  BY <1>12 DEF Stop, StorePart, ColdAgrees, QueueAgrees,
      StoreHeights
<1>13. CASE \/ RevertBelowDeploy \/ RewindFinalized \/ RewindSafe
            \/ RewindLatest \/ NotifyReorg \/ Extract \/ SkipBlock
            \/ ProcessBlock \/ UpdateBlockTags
  <2>1. UNCHANGED storeVars /\ pc \notin Booting \cup {"drain_cold"}
                          /\ pc' \notin Booting \cup {"drain_cold"}
    BY <1>13
    DEF RevertBelowDeploy, RewindFinalized, RewindSafe, RewindLatest,
        RewindStep, NotifyReorg, Extract, SkipBlock, ProcessBlock,
        UpdateBlockTags, FinishNotification, UpdateFinalized, UpdateSafe,
        UpdateLatest, UpdateStep, SendFinishedHeight
  <2> QED BY <2>1 DEF StorePart, ColdAgrees, QueueAgrees, StoreHeights
<1> QED
  BY <1>2, <1>3, <1>4, <1>5, <1>6, <1>7, <1>8, <1>9, <1>10, <1>11, <1>12, <1>13
  DEF Next, NodeStep, StartUp, OnHostRevert, ProcessCommittedChain

-------------------------------------------------------------------------------
(***************************************************************************)
(* The heights.                                                            *)
(***************************************************************************)
\* Every notification continues where the stored chain stands, and the
\* handlers process exactly the tail it brings.
LEMMA HeightInductive ==
  ASSUME TypeOK, TypeOK', SessionPart, SessionPart', ChainPart, HeightPart, Next
  PROVE  HeightPart'
<1> USE DEF hostVars, feedVars, storeVars, localVars, outVars, Booting, Settled,
            Draining, Committing
<1>1. /\ hot \in Seq(Block) /\ Len(hot) \in Nat
      /\ delivered \in Seq(Block) /\ Len(delivered) \in Nat
      /\ host \in Seq(Block) /\ Len(host) \in Nat
      /\ todo \in Seq(Block) /\ Len(todo) \in Nat
      /\ note.new \in Seq(Block) /\ Len(note.new) \in Nat
      /\ note.first \in Int /\ note.tip \in Int
      /\ lastHeight \in Nat /\ DeployHeight \in Nat \ {0}
  <2>1. note \in Notification
    BY DEF TypeOK
  <2>2. /\ note.new \in Seq(Block)
        /\ note.first \in Nat \cup {NoHeight} /\ note.tip \in Nat \cup {NoHeight}
    BY <2>1 DEF Notification
  <2>3. note.first \in Int /\ note.tip \in Int /\ Len(note.new) \in Nat
    BY <2>2
  <2>4. /\ hot \in Seq(Block) /\ delivered \in Seq(Block) /\ host \in Seq(Block)
        /\ todo \in Seq(Block) /\ lastHeight \in Nat
    BY DEF TypeOK
  <2> QED BY <2>2, <2>3, <2>4, HostChainAssumption
<1>2. CASE HostStep \/ ColdApply
  BY <1>2 DEF HostStep, HostExtend, HostReorg, HostFinalize, ColdApply,
     HeightPart, SettledHeights, RevertHeights, DrainHeights, ExtractHeights,
     CommitHeights, AppendHeights, RevertRange, IsTail, Between, RevertTarget
<1>3. CASE Stop \/ Boot \/ LoadHotGenesis \/ LoadColdGenesis \/ Reconcile
           \/ UnwindCold \/ StartInner
  <2>1. /\ pc' \notin {"revert", "extract"} \cup Draining \cup Committing
        /\ pc' \in Settled => fresh'
    BY <1>3 DEF Stop, Boot, LoadHotGenesis, LoadColdGenesis, Reconcile,
       UnwindCold, StartInner, SessionPart
  <2> QED BY <2>1
      DEF HeightPart, SettledHeights, RevertHeights, DrainHeights,
          ExtractHeights, CommitHeights, AppendHeights
<1>4. ASSUME pc' = "extract", IsTail(note.new)', Between(note.new)'
      PROVE  HeightPart'
  BY <1>4 DEF HeightPart, SettledHeights, RevertHeights, DrainHeights,
              ExtractHeights, CommitHeights, AppendHeights
<1>5. ASSUME NEW m \in Nat \ {0}, NEW k \in Nat, m <= k + 1, k <= Len(host),
             delivered' = Prefix(host, k), note'.new = SubSeq(host, m, k)
      PROVE  /\ IsTail(note.new)'
             /\ Len(delivered') = k /\ Len(note'.new) = k - m + 1
  <2>1. /\ Len(delivered') = k
        /\ \A i \in 1..k : delivered'[i] = host[i]
    BY <1>1, <1>5, PrefixFacts
  <2>2. /\ Len(note'.new) = k - m + 1
        /\ \A i \in 1..(k - m + 1) : note'.new[i] = host[m + i - 1]
    BY <1>1, <1>5, SegmentFacts
  <2>3. ASSUME NEW j \in 1..Len(note'.new)
        PROVE  note'.new[j] = delivered'[Len(delivered') - Len(note'.new) + j]
    <3>1. /\ m + j - 1 \in 1..k /\ j \in 1..(k - m + 1)
          /\ Len(delivered') - Len(note'.new) + j = m + j - 1
      BY <1>5, <2>1, <2>2
    <3> QED BY <2>1, <2>2, <3>1
  <2> QED BY <1>5, <2>1, <2>2, <2>3 DEF IsTail
<1>6. CASE FirstNotification
  <2>1. PICK k \in head..Len(host) :
          /\ delivered' = Prefix(host, k)
          /\ Deliver(NoHeight, NoHeight, SubSeq(host, head, k))
    BY <1>6 DEF FirstNotification
  <2>2. /\ note'.new = SubSeq(host, head, k)
        /\ pc = "idle" /\ pc' = "extract" /\ hot' = hot
    <3>1. note'.new = SubSeq(host, head, k)
      <4>1. PICK s \in {NoHeight, Len(host)}, f \in {NoHeight, hostFin} :
              note' = [first |-> NoHeight, tip |-> NoHeight,
                       new |-> SubSeq(host, head, k), safe |-> s, fin |-> f]
        BY <2>1 DEF Deliver
      <4> QED BY <4>1
    <3>2. pc = "idle" /\ pc' = "extract" /\ hot' = hot
      BY <2>1 DEF Deliver
    <3> QED BY <3>1, <3>2
  <2>3. head = DeployHeight + Len(hot)
    BY <1>6, <2>2 DEF FirstNotification, SessionPart
  <2>4. head \in Nat \ {0} /\ k \in Nat /\ head <= k /\ k <= Len(host)
    BY <1>1, <2>3
  <2>5. /\ IsTail(note.new)'
        /\ Len(delivered') = k /\ Len(note'.new) = k - head + 1
    BY <1>5, <2>1, <2>2, <2>4
  <2>6. Between(note.new)'
    <3>1. Len(delivered') - Len(note'.new) = head - 1
      BY <2>4, <2>5
    <3>2. RollupOfHost(head - 1) <= Len(hot) /\ Len(hot) <= RollupOfHost(k)
      BY <1>1, <2>3, <2>4 DEF RollupOfHost
    <3> QED BY <2>2, <2>5, <3>1, <3>2 DEF Between
  <2> QED BY <1>4, <2>2, <2>5, <2>6
<1>7. CASE NextNotification
  <2>1. PICK a \in 0..Len(delivered) : \E k \in a..Len(host) :
          /\ delivered' = Prefix(host, k)
          /\ IF a = Len(delivered)
               THEN k > a /\ Deliver(NoHeight, NoHeight, SubSeq(host, a + 1, k))
               ELSE Deliver(a + 1, Len(delivered), SubSeq(host, a + 1, k))
    BY <1>7 DEF NextNotification
  <2>2. PICK k \in a..Len(host) :
          /\ delivered' = Prefix(host, k)
          /\ IF a = Len(delivered)
               THEN k > a /\ Deliver(NoHeight, NoHeight, SubSeq(host, a + 1, k))
               ELSE Deliver(a + 1, Len(delivered), SubSeq(host, a + 1, k))
    BY <2>1
  <2>3. /\ a \in Nat /\ a + 1 \in Nat \ {0} /\ a <= Len(delivered)
        /\ k \in Nat /\ a + 1 <= k + 1 /\ k <= Len(host)
    BY <1>1
  <2>4. note'.new = SubSeq(host, a + 1, k) /\ pc = "idle" /\ hot' = hot
    BY <2>2 DEF Deliver
  <2>5. /\ IsTail(note.new)'
        /\ Len(delivered') = k /\ Len(note'.new) = k - a
    <3>1. k - (a + 1) + 1 = k - a
      BY <2>3
    <3> QED BY <1>5, <2>2, <2>3, <2>4, <3>1
  <2>6. Len(hot) = RollupOfHost(Len(delivered))
    BY <1>7, <2>4 DEF NextNotification, HeightPart, SettledHeights
  <2>7. Len(delivered') - Len(note'.new) = a
    BY <2>3, <2>5
  <2>8. CASE a = Len(delivered)
    <3>1. pc' = "extract" /\ k > a
      BY <2>2, <2>8 DEF Deliver
    <3>2. RollupOfHost(a) <= Len(hot) /\ Len(hot) <= RollupOfHost(k)
      BY <1>1, <2>3, <2>6, <2>8, <3>1 DEF RollupOfHost
    <3>3. Between(note.new)'
      BY <2>4, <2>5, <2>7, <3>2 DEF Between
    <3> QED BY <1>4, <2>5, <3>1, <3>3
  <2>9. CASE a # Len(delivered)
    <3>1. /\ pc' = "revert" /\ note'.first = a + 1
          /\ note'.tip = Len(delivered)
      BY <2>2, <2>3, <2>9 DEF Deliver
    <3>2. RevertRange'
      BY <1>1, <2>3, <2>5, <2>7, <2>9, <3>1 DEF RevertRange
    <3>3. RevertHeights'
      BY <2>4, <2>6, <3>1, <3>2 DEF RevertHeights
    <3> QED BY <3>1, <3>3
        DEF HeightPart, SettledHeights, DrainHeights, ExtractHeights,
            CommitHeights, AppendHeights
  <2> QED BY <2>8, <2>9
<1>8. CASE RevertBelowDeploy
  <2>1. /\ pc = "revert" /\ pc' = "extract" /\ note.tip <= DeployHeight
        /\ UNCHANGED <<hot, delivered, note>>
    BY <1>8 DEF RevertBelowDeploy, BelowDeploy
  <2>2. RevertRange /\ Len(hot) = RollupOfHost(note.tip)
    BY <2>1 DEF HeightPart, RevertHeights
  <2>3. Between(note.new)
    <3>1. /\ Len(delivered) - Len(note.new) = note.first - 1
          /\ note.first \in Nat \ {0} /\ note.first <= note.tip
      BY <1>1, <2>2 DEF RevertRange
    <3>2. Len(hot) = 0 /\ RollupOfHost(note.first - 1) = 0
      BY <1>1, <2>1, <2>2, <3>1 DEF RollupOfHost
    <3>3. RollupOfHost(Len(delivered)) \in Nat
      BY <1>1, HeightFacts
    <3> QED BY <3>1, <3>2, <3>3 DEF Between
  <2>4. IsTail(note.new)' /\ Between(note.new)'
    BY <2>1, <2>2, <2>3 DEF RevertRange, IsTail, Between
  <2> QED BY <1>4, <2>1, <2>4
<1>9. CASE DrainHot
  <2>1. /\ pc = "revert" /\ pc' = "drain_cold" /\ note.tip > DeployHeight
        /\ target' = RevertTarget /\ hot' = Truncate(hot, target')
        /\ drained' = SubSeq(hot, target' + 1, Len(hot))
        /\ UNCHANGED <<delivered, note>>
    BY <1>1, <1>9 DEF DrainHot, BelowDeploy, SessionPart
  <2>2. RevertRange /\ Len(hot) = RollupOfHost(note.tip)
    BY <2>1 DEF HeightPart, RevertHeights
  <2>3. RevertTarget \in Nat /\ RevertTarget < Len(hot)
    <3>1. /\ note.first \in Nat \ {0} /\ note.tip \in Nat
          /\ note.first <= note.tip
      BY <1>1, <2>2 DEF RevertRange
    <3>2. RollupOfHost(note.first) \in Nat /\ RollupOfHost(note.tip) \in Nat \ {0}
      BY <1>1, <2>1, <3>1 DEF RollupOfHost
    <3>3. RollupOfHost(note.first) <= RollupOfHost(note.tip)
      BY <3>1, RollupFacts
    <3> QED BY <2>2, <3>2, <3>3 DEF RevertTarget
  <2>4. Len(hot') = target'
    <3>1. Len(hot') = AtMost(RevertTarget, Len(hot))
      BY <1>1, <2>1, <2>3, TruncateFacts
    <3> QED BY <1>1, <2>1, <2>3, <3>1 DEF AtMost
  <2>5. drained' # <<>>
    <3>1. Len(drained') = Len(hot) - (RevertTarget + 1) + 1
      BY <1>1, <2>1, <2>3, SegmentFacts
    <3> QED BY <1>1, <2>3, <3>1
  <2>6. RevertRange' /\ RevertTarget' = RevertTarget
    BY <2>1, <2>2 DEF RevertRange, IsTail, RevertTarget
  <2>7. DrainHeights'
    BY <2>1, <2>4, <2>5, <2>6 DEF DrainHeights
  <2> QED BY <2>1, <2>7
      DEF HeightPart, SettledHeights, RevertHeights, ExtractHeights,
          CommitHeights, AppendHeights
<1>10. CASE DrainCold \/ RewindFinalized \/ RewindSafe \/ RewindLatest
  <2>1. /\ pc \in Draining /\ pc' \in Draining
        /\ UNCHANGED <<hot, delivered, note, target, drained>>
    BY <1>10 DEF DrainCold, RewindFinalized, RewindSafe, RewindLatest,
                 RewindStep
  <2>2. DrainHeights'
    BY <2>1 DEF HeightPart, DrainHeights, RevertRange, IsTail, RevertTarget
  <2> QED BY <2>1, <2>2
      DEF HeightPart, SettledHeights, RevertHeights, ExtractHeights,
          CommitHeights, AppendHeights
<1>11. CASE NotifyReorg
  <2>1. /\ pc = "notify_reorg" /\ pc' = "extract"
        /\ UNCHANGED <<hot, delivered, note>>
    BY <1>11 DEF NotifyReorg
  <2>2. RevertRange /\ Len(hot) = RevertTarget /\ note.tip > DeployHeight
    BY <2>1 DEF HeightPart, DrainHeights
  <2>3. Between(note.new)
    <3>1. /\ Len(delivered) - Len(note.new) = note.first - 1
          /\ note.first \in Nat \ {0} /\ note.first - 1 <= Len(delivered)
      BY <1>1, <2>2 DEF RevertRange
    <3>2. RollupOfHost(note.first - 1) = Len(hot)
      BY <1>1, <2>2, <3>1 DEF RollupOfHost, RevertTarget
    <3>3. RollupOfHost(note.first - 1) <= RollupOfHost(Len(delivered))
      BY <1>1, <3>1 DEF RollupOfHost
    <3> QED BY <1>1, <3>1, <3>2, <3>3 DEF Between
  <2>4. IsTail(note.new)' /\ Between(note.new)'
    BY <2>1, <2>2, <2>3 DEF RevertRange, IsTail, Between
  <2> QED BY <1>4, <2>1, <2>4
<1>12. ASSUME pc' = "block", CommitHeights'
       PROVE  HeightPart'
  BY <1>12 DEF HeightPart, SettledHeights, RevertHeights, DrainHeights,
               ExtractHeights, AppendHeights
<1>13. CASE Extract
  <2>1. /\ pc = "extract" /\ pc' = "block" /\ todo' = note.new
        /\ lastHeight' = Len(hot) /\ UNCHANGED <<hot, delivered>>
    BY <1>13 DEF Extract
  <2>2. IsTail(note.new) /\ Between(note.new)
    BY <2>1 DEF HeightPart, ExtractHeights
  <2>3. IsTail(todo)' /\ Between(todo)'
    BY <2>1, <2>2 DEF IsTail, Between
  <2>4. CommitHeights'
    BY <1>1, <2>1, <2>3 DEF CommitHeights
  <2> QED BY <1>12, <2>1, <2>4
<1>14. ASSUME pc \in Committing, todo # <<>>, todo' = Tail(todo),
              delivered' = delivered
       PROVE  /\ IsTail(todo)' /\ Len(todo) <= Len(delivered)
              /\ Len(todo) \in Nat \ {0}
              /\ Len(delivered') - Len(todo') = Len(delivered) - Len(todo) + 1
              /\ num[Head(todo)] = Len(delivered) - Len(todo) + 1
  <2>1. /\ Len(todo) \in Nat \ {0} /\ Len(todo') = Len(todo) - 1
        /\ \A i \in 1..(Len(todo) - 1) : todo'[i] = todo[i + 1]
        /\ Head(todo) = todo[1]
    BY <1>1, <1>14, QueueFacts
  <2>2. IsTail(todo)
    BY <1>14 DEF HeightPart, CommitHeights
  <2>3. Len(delivered') - Len(todo') = Len(delivered) - Len(todo) + 1
    BY <1>1, <1>14, <2>1
  <2>4. ASSUME NEW j \in 1..Len(todo')
        PROVE  todo'[j] = delivered'[Len(delivered') - Len(todo') + j]
    <3>1. /\ j \in 1..(Len(todo) - 1) /\ j + 1 \in 1..Len(todo)
          /\ Len(delivered') - Len(todo') + j = Len(delivered) - Len(todo) + (j + 1)
      <4>1. j \in Nat \ {0} /\ j <= Len(todo) - 1
        BY <1>1, <2>1
      <4>2. j + 1 \in 1..Len(todo)
        BY <1>1, <2>1, <4>1
      <4>3. (Len(delivered) - Len(todo) + 1) + j = Len(delivered) - Len(todo) + (j + 1)
        BY <1>1, <2>1, <4>1
      <4> QED BY <2>1, <2>3, <4>1, <4>2, <4>3
    <3>2. todo[j + 1] = delivered[Len(delivered) - Len(todo) + (j + 1)]
      BY <2>2, <3>1 DEF IsTail
    <3> QED BY <1>14, <2>1, <3>1, <3>2
  <2>5. Len(todo') <= Len(delivered') /\ Len(todo) <= Len(delivered)
    BY <1>1, <1>14, <2>1, <2>2 DEF IsTail
  <2>6. todo[1] = delivered[Len(delivered) - Len(todo) + 1]
    BY <2>1, <2>2 DEF IsTail
  <2>7. Len(delivered) - Len(todo) + 1 \in 1..Len(delivered)
    BY <1>1, <2>1, <2>5
  <2>8. num[delivered[Len(delivered) - Len(todo) + 1]] = Len(delivered) - Len(todo) + 1
    <3> DEFINE n == Len(delivered) - Len(todo) + 1
    <3> HIDE DEF n
    <3>1. n \in 1..Len(delivered)
      BY <2>7 DEF n
    <3>2. num[delivered[n]] = n
      BY <1>1, <3>1 DEF ChainPart, IsChain, LinkedFrom
    <3> QED BY <3>2 DEF n
  <2> QED BY <2>1, <2>3, <2>4, <2>5, <2>6, <2>8 DEF IsTail
<1>15. CASE SkipBlock
  <2> DEFINE base == Len(delivered) - Len(todo)
  <2>1. /\ pc = "block" /\ pc' = "block" /\ todo # <<>> /\ todo' = Tail(todo)
        /\ RollupOfHost(num[Head(todo)]) <= lastHeight
        /\ UNCHANGED <<hot, delivered, lastHeight>>
    BY <1>15 DEF SkipBlock
  <2>2. /\ IsTail(todo)' /\ base \in Nat
        /\ Len(delivered') - Len(todo') = base + 1 /\ num[Head(todo)] = base + 1
    BY <1>1, <1>14, <2>1
  <2>3. /\ Between(todo) /\ lastHeight <= Len(hot)
        /\ Len(hot) > lastHeight => Len(hot) = RollupOfHost(base)
    BY <2>1 DEF HeightPart, CommitHeights
  <2> HIDE DEF base
  <2>4. RollupOfHost(base) \in Nat /\ RollupOfHost(base + 1) \in Nat
    BY <2>2, HostChainAssumption DEF RollupOfHost
  <2>5. RollupOfHost(base) <= RollupOfHost(base + 1)
    BY <2>2, HostChainAssumption DEF RollupOfHost
  <2>6. RollupOfHost(base + 1) <= lastHeight
    BY <2>1, <2>2
  <2>7. RollupOfHost(base + 1) <= Len(hot) /\ ~(Len(hot) > lastHeight)
    BY <1>1, <2>3, <2>4, <2>5, <2>6
  <2>8. Len(hot) <= RollupOfHost(Len(delivered))
    BY <2>3 DEF Between
  <2>9. Between(todo)'
    BY <2>1, <2>2, <2>7, <2>8 DEF Between
  <2>10. CommitHeights'
    BY <2>1, <2>2, <2>3, <2>7, <2>9 DEF CommitHeights
  <2> QED BY <1>12, <2>1, <2>10
<1>16. CASE ProcessBlock
  <2> DEFINE base == Len(delivered) - Len(todo)
  <2>1. /\ pc = "block" /\ pc' = "append" /\ todo # <<>>
        /\ RollupOfHost(num[Head(todo)]) = Len(hot) + 1
        /\ UNCHANGED <<hot, delivered, todo, lastHeight>>
    BY <1>16 DEF ProcessBlock, SessionPart
  <2>2. num[Head(todo)] = base + 1
    <3>1. Len(todo) \in Nat \ {0} /\ Head(todo) = todo[1]
      BY <1>1, <2>1, QueueFacts
    <3>2. IsTail(todo)
      BY <2>1 DEF HeightPart, CommitHeights
    <3>3. todo[1] = delivered[base + 1] /\ base + 1 \in 1..Len(delivered)
      BY <1>1, <3>1, <3>2 DEF IsTail
    <3> HIDE DEF base
    <3>4. num[delivered[base + 1]] = base + 1
      BY <1>1, <3>3 DEF ChainPart, IsChain, LinkedFrom
    <3> QED BY <3>1, <3>3, <3>4
  <2>3. CommitHeights
    BY DEF HeightPart
  <2>4. CommitHeights' /\ AppendHeights'
    BY <2>1, <2>2, <2>3
    DEF CommitHeights, AppendHeights, IsTail, Between
  <2> QED BY <2>1, <2>4
      DEF HeightPart, SettledHeights, RevertHeights, DrainHeights,
          ExtractHeights
<1>17. CASE AppendBlock
  <2> DEFINE base == Len(delivered) - Len(todo)
  <2>1. /\ pc = "append" /\ pc' = "block" /\ todo' = Tail(todo)
        /\ hot' = Append(hot, Head(todo))
        /\ UNCHANGED <<delivered, lastHeight>>
    BY <1>17 DEF AppendBlock
  <2>2. todo # <<>> /\ RollupOfHost(base + 1) = Len(hot) + 1
    BY <2>1 DEF HeightPart, AppendHeights
  <2>3. /\ IsTail(todo)' /\ base \in Nat /\ base + 1 <= Len(delivered)
        /\ Len(delivered') - Len(todo') = base + 1
    BY <1>1, <1>14, <2>1, <2>2
  <2>4. Len(hot') = Len(hot) + 1
    <3>1. Head(todo) \in Block
      BY <1>1, <2>2, QueueFacts
    <3> QED BY <1>1, <2>1, <3>1, AppendFacts
  <2>5. lastHeight <= Len(hot)
    BY <2>1 DEF HeightPart, CommitHeights
  <2> HIDE DEF base
  <2>6. RollupOfHost(base + 1) <= RollupOfHost(Len(delivered))
    BY <1>1, <2>3, HostChainAssumption DEF RollupOfHost
  <2>7. Between(todo)'
    BY <1>1, <2>1, <2>2, <2>3, <2>4, <2>6 DEF Between
  <2>8. CommitHeights'
    BY <1>1, <2>1, <2>2, <2>3, <2>4, <2>5, <2>7 DEF CommitHeights
  <2> QED BY <1>12, <2>1, <2>8
<1>18. CASE FinishNotification
  <2>1. /\ pc = "block" /\ pc' \in {"idle", "tag_finalized"} /\ todo = <<>>
        /\ UNCHANGED <<hot, delivered>>
    BY <1>18 DEF FinishNotification
  <2>2. Between(todo) /\ Len(todo) = 0
    BY <2>1 DEF HeightPart, CommitHeights
  <2>3. Len(delivered) - Len(todo) = Len(delivered)
    BY <1>1, <2>2
  <2>4. RollupOfHost(Len(delivered)) \in Nat
    BY <1>1, HostChainAssumption DEF RollupOfHost
  <2>5. Len(hot) = RollupOfHost(Len(delivered))
    BY <1>1, <2>2, <2>3, <2>4 DEF Between
  <2>6. SettledHeights'
    BY <2>1, <2>5 DEF SettledHeights
  <2> QED BY <2>1, <2>6
      DEF HeightPart, RevertHeights, DrainHeights, ExtractHeights,
          CommitHeights, AppendHeights
<1>19. CASE UpdateFinalized \/ UpdateSafe \/ UpdateLatest \/ SendFinishedHeight
  <2>1. /\ pc \in Settled /\ pc' \in Settled
        /\ UNCHANGED <<hot, delivered, fresh>>
    BY <1>19 DEF UpdateFinalized, UpdateSafe, UpdateLatest, UpdateStep,
                 SendFinishedHeight
  <2>2. SettledHeights'
    BY <2>1 DEF HeightPart, SettledHeights
  <2> QED BY <2>1, <2>2
      DEF HeightPart, RevertHeights, DrainHeights, ExtractHeights,
          CommitHeights, AppendHeights
<1> QED
  BY <1>2, <1>3, <1>6, <1>7, <1>8, <1>9, <1>10, <1>11, <1>13, <1>15, <1>16,
     <1>17, <1>18, <1>19
  DEF Next, NodeStep, StartUp, OnHostRevert, ProcessCommittedChain,
      UpdateBlockTags, NotifierStep

-------------------------------------------------------------------------------
(***************************************************************************)
(* Safety that needs nothing of the blocks a session resumes on.           *)
(***************************************************************************)
\* The initial state satisfies the invariant.
LEMMA SafeInit == Init => SafeInv
<1> SUFFICES ASSUME Init PROVE SafeInv
  OBVIOUS
<1>1. NoNote \in Notification
  BY DEF NoNote, Notification
<1>2. TypeOK
  <2>1. /\ hostFin \in Nat /\ reorgs \in 0..MaxReorgs /\ head \in Nat
        /\ stops \in 0..MaxStops /\ lastHeight \in Nat /\ target \in Nat
    BY SignetNodeAssumption DEF Init
  <2>2. /\ host \in Seq(Block) /\ delivered \in Seq(Block)
        /\ hot \in Seq(Block) /\ cold \in Seq(Block) /\ coldQ \in Seq(Block)
        /\ todo \in Seq(Block) /\ drained \in Seq(Block) /\ seen \in Seq(Block)
    BY DEF Init
  <2>3. fresh \in BOOLEAN /\ changed \in BOOLEAN
    BY DEF Init
  <2>4. /\ note \in Notification /\ pc \in Locations
        /\ genesis \in {"none", "hot", "both"}
        /\ status \in Nat \cup {NoHeight} /\ finished \in Nat \cup {NoHeight}
        /\ TagsTypeOK
    BY <1>1 DEF Init, Locations, TagsInit, TagsTypeOK
  <2> QED BY <2>1, <2>2, <2>3, <2>4 DEF TypeOK
<1>3. ChainPart /\ SessionPart
  BY DEF Init, ChainPart, IsChain, LinkedFrom, SessionPart, Booting
<1>4. StorePart
  BY DEF Init, StorePart, ColdAgrees, QueueAgrees, StoreHeights
<1>5. HeightPart
  BY DEF Init, HeightPart, SettledHeights, RevertHeights, DrainHeights,
         ExtractHeights, CommitHeights, AppendHeights, Settled, Draining,
         Committing
<1> QED BY <1>2, <1>3, <1>4, <1>5 DEF SafeInv

\* Every step preserves it.
LEMMA SafeStep == SafeInv /\ [Next]_vars => SafeInv'
<1> SUFFICES ASSUME SafeInv, [Next]_vars PROVE SafeInv'
  OBVIOUS
<1> USE DEF SafeInv
<1>1. CASE Next
  <2>1. TypeOK'
    BY <1>1, TypeFeed, TypeNode DEF Next
  <2>2. ChainPart'
    BY <1>1, ChainInductive
  <2>3. SessionPart'
    BY <1>1, SessionInductive
  <2>4. StorePart'
    BY <1>1, <2>3, StoreInductive
  <2>5. HeightPart'
    BY <1>1, <2>1, <2>3, HeightInductive
  <2> QED BY <2>1, <2>2, <2>3, <2>4, <2>5
<1>2. CASE UNCHANGED vars
  <2> USE <1>2 DEF vars, hostVars, feedVars, storeVars, localVars, outVars, tags
  <2>1. TypeOK'
    BY DEF TypeOK, TagsTypeOK
  <2>2. ChainPart' /\ SessionPart'
    BY DEF ChainPart, SessionPart
  <2>3. StorePart'
    BY DEF StorePart, ColdAgrees, QueueAgrees, StoreHeights
  <2>4. HeightPart'
    BY DEF HeightPart, SettledHeights, RevertHeights, DrainHeights,
           ExtractHeights, CommitHeights, AppendHeights, RevertRange, IsTail,
           Between, RevertTarget
  <2> QED BY <2>1, <2>2, <2>3, <2>4
<1> QED BY <1>1, <1>2

\* The inductive invariant holds throughout.
THEOREM SafeInvariance == Spec => []SafeInv
  BY SafeInit, SafeStep, PTL DEF Spec

\* Every variable of the node, its stores and its tags keeps its type: no
\* handler appends a missing block or saturates below zero.
THEOREM TypeCorrect == Spec => []TypeOK
<1>1. SafeInv => TypeOK
  BY DEF SafeInv
<1> QED BY <1>1, SafeInvariance, PTL

\* Hot and cold storage never hold different blocks at one height, for any
\* interleaving of appends, the cold task, unwinds and stops.
THEOREM StoresAlwaysAgree == Spec => []StoresAgree
<1>1. SafeInv => StoresAgree
  <2> SUFFICES ASSUME SafeInv, NEW i \in 1..AtMost(Len(hot), Len(cold))
               PROVE  hot[i] = cold[i]
    BY DEF StoresAgree
  <2>1. Len(hot) \in Nat /\ Len(cold) \in Nat
    BY DEF SafeInv, TypeOK
  <2>2. i \in 1..Len(hot) /\ i <= Len(cold)
    BY <2>1 DEF AtMost
  <2> QED BY <2>2 DEF SafeInv, StorePart, ColdAgrees
<1> QED BY <1>1, SafeInvariance, PTL

\* The consistency errors of on_host_revert and of the block processor and the
\* assertion on drained blocks never fire, even when a session resumes on a
\* host chain that has replaced stored blocks.
THEOREM HandlersNeverFail == Spec => []NeverFails
<1>1. SafeInv => NeverFails
  BY DEF SafeInv, SessionPart, HeightPart, DrainHeights, Draining, NeverFails
<1> QED BY <1>1, SafeInvariance, PTL

-------------------------------------------------------------------------------
(***************************************************************************)
(* What is stored, when every session resumes on the canonical chain.      *)
(***************************************************************************)
\* What is stored is the linked rollup part of what was delivered.
LEMMA ContentStep ==
  ASSUME ResumeOnCanonical, SafeInv, SafeInv', ContentPart, [Next]_vars
  PROVE  ContentPart'
<1> USE DEF hostVars, feedVars, storeVars, localVars, outVars
<1>1. /\ hot \in Seq(Block) /\ Len(hot) \in Nat
      /\ delivered \in Seq(Block) /\ Len(delivered) \in Nat
      /\ host \in Seq(Block) /\ Len(host) \in Nat
      /\ DeployHeight \in Nat \ {0} /\ target \in Nat /\ target' \in Nat
  <2>1. /\ hot \in Seq(Block) /\ delivered \in Seq(Block) /\ host \in Seq(Block)
        /\ target \in Nat /\ target' \in Nat
    BY DEF SafeInv, TypeOK
  <2> QED BY <2>1, HostChainAssumption
<1>2. ASSUME hot' = hot, fresh' \/ (UNCHANGED <<fresh, delivered>> /\ pc # "revert")
      PROVE  ContentPart'
  BY <1>2 DEF ContentPart, HotFollows, LinkedFrom
<1>3. ASSUME UNCHANGED <<hot, delivered, fresh, pc, note>>
      PROVE  ContentPart'
  BY <1>3 DEF ContentPart, HotFollows, LinkedFrom
<1>4. ASSUME NEW n \in Nat, hot' = Truncate(hot, n)
      PROVE  /\ LinkedFrom(hot', DeployHeight + 1)
             /\ Len(hot') = AtMost(n, Len(hot))
             /\ \A i \in 1..Len(hot') : i \in 1..Len(hot) /\ hot'[i] = hot[i]
  <2>1. /\ Len(hot') = AtMost(n, Len(hot))
        /\ \A i \in 1..Len(hot') : hot'[i] = hot[i]
    BY <1>1, <1>4, TruncateFacts
  <2>2. Len(hot') \in Nat /\ Len(hot') <= Len(hot)
    BY <1>1, <2>1 DEF AtMost
  <2>3. ASSUME NEW i \in 1..Len(hot')
        PROVE  /\ num[hot'[i]] = (DeployHeight + 1) + i - 1
               /\ i > 1 => parent[hot'[i]] = hot'[i - 1]
    <3>1. i \in 1..Len(hot) /\ hot'[i] = hot[i]
      BY <1>1, <2>1, <2>2
    <3>2. i > 1 => hot'[i - 1] = hot[i - 1]
      BY <2>1, <2>2
    <3> QED BY <3>1, <3>2 DEF ContentPart, LinkedFrom
  <2> QED BY <1>1, <2>1, <2>2, <2>3 DEF LinkedFrom
<1>5. CASE HostStep \/ ColdApply \/ UNCHANGED vars
  BY <1>3, <1>5 DEF HostStep, HostExtend, HostReorg, HostFinalize, ColdApply, vars
<1>6. CASE Stop \/ Boot \/ LoadHotGenesis \/ LoadColdGenesis \/ UnwindCold
           \/ StartInner
  <2>1. hot' = hot /\ fresh'
    BY <1>6 DEF Stop, Boot, LoadHotGenesis, LoadColdGenesis, UnwindCold,
                StartInner, SafeInv, SessionPart, Booting
  <2> QED BY <1>2, <2>1
<1>7. CASE Reconcile
  <2>1. hot' = Truncate(hot, target') /\ fresh'
    BY <1>7 DEF Reconcile, SafeInv, SessionPart, Booting
  <2> QED BY <1>1, <1>4, <2>1 DEF ContentPart, HotFollows
<1>8. ASSUME NEW k \in Nat, k <= Len(host), delivered' = Prefix(host, k), hot' = hot,
             \A i \in 1..Len(hot) :
               (pc' = "revert" => DeployHeight + i < note'.first) =>
                 DeployHeight + i <= k /\ hot[i] = host[DeployHeight + i]
      PROVE  ContentPart'
  <2>1. \A j \in 1..k : delivered'[j] = host[j]
    BY <1>1, <1>8, PrefixFacts
  <2>2. ASSUME NEW i \in 1..Len(hot),
               pc' = "revert" => DeployHeight + i < note'.first
        PROVE  hot[i] = delivered'[DeployHeight + i]
    <3>1. DeployHeight + i \in 1..k /\ hot[i] = host[DeployHeight + i]
      BY <1>1, <1>8, <2>2
    <3> QED BY <2>1, <3>1
  <2> QED BY <1>8, <2>2 DEF ContentPart, HotFollows, LinkedFrom
<1>9. CASE FirstNotification
  <2>1. PICK k \in head..Len(host) :
          /\ delivered' = Prefix(host, k)
          /\ Deliver(NoHeight, NoHeight, SubSeq(host, head, k))
    BY <1>9 DEF FirstNotification
  <2>2. OnCanonical /\ fresh
    BY <1>9 DEF FirstNotification
  <2>3. pc = "idle" /\ hot' = hot
    BY <2>1 DEF Deliver
  <2>4. head = DeployHeight + Len(hot)
    BY <2>2, <2>3 DEF SafeInv, SessionPart
  <2>5. k \in Nat /\ k <= Len(host) /\ DeployHeight + Len(hot) <= k
    BY <1>1, <2>4
  <2>6. \A i \in 1..Len(hot) :
          DeployHeight + i <= k /\ hot[i] = host[DeployHeight + i]
    BY <1>1, <2>2, <2>5 DEF OnCanonical
  <2> QED BY <1>8, <2>1, <2>3, <2>5, <2>6
<1>10. CASE NextNotification
  <2>1. PICK a \in 0..Len(delivered) : \E k \in a..Len(host) :
          /\ CommonAncestor(a)
          /\ delivered' = Prefix(host, k)
          /\ IF a = Len(delivered)
               THEN k > a /\ Deliver(NoHeight, NoHeight, SubSeq(host, a + 1, k))
               ELSE Deliver(a + 1, Len(delivered), SubSeq(host, a + 1, k))
    BY <1>10 DEF NextNotification
  <2>2. PICK k \in a..Len(host) :
          /\ CommonAncestor(a)
          /\ delivered' = Prefix(host, k)
          /\ IF a = Len(delivered)
               THEN k > a /\ Deliver(NoHeight, NoHeight, SubSeq(host, a + 1, k))
               ELSE Deliver(a + 1, Len(delivered), SubSeq(host, a + 1, k))
    BY <2>1
  <2>3. /\ a \in Nat /\ a <= Len(delivered)
        /\ k \in Nat /\ a <= k /\ k <= Len(host)
    BY <1>1
  <2>4. pc = "idle" /\ hot' = hot /\ ~fresh
    BY <1>10, <2>2 DEF NextNotification, Deliver
  <2>5. Len(hot) = RollupOfHost(Len(delivered))
    BY <2>4 DEF SafeInv, HeightPart, SettledHeights, Settled
  <2>6. \A j \in 1..a : delivered[j] = host[j]
    BY <2>2 DEF CommonAncestor, SharedUpTo
  <2>7. \A i \in 1..Len(hot) : hot[i] = delivered[DeployHeight + i]
    BY <2>4 DEF ContentPart, HotFollows
  <2>8. ASSUME NEW i \in 1..Len(hot),
               pc' = "revert" => DeployHeight + i < note'.first
        PROVE  DeployHeight + i <= k /\ hot[i] = host[DeployHeight + i]
    <3>1. DeployHeight + i <= a
      <4>1. CASE a = Len(delivered)
        BY <1>1, <2>5, <4>1 DEF RollupOfHost
      <4>2. CASE a # Len(delivered)
        <5>1. pc' = "revert" /\ note'.first = a + 1
          BY <2>2, <2>3, <4>2 DEF Deliver
        <5> QED BY <1>1, <2>3, <2>8, <5>1
      <4> QED BY <4>1, <4>2
    <3>2. DeployHeight + i \in 1..a /\ DeployHeight + i <= k
      BY <1>1, <2>3, <3>1
    <3> QED BY <2>6, <2>7, <3>2
  <2> QED BY <1>8, <2>2, <2>3, <2>4, <2>8
<1>11. CASE RevertBelowDeploy
  <2>1. hot' = hot /\ note.tip <= DeployHeight /\ pc = "revert"
    BY <1>11 DEF RevertBelowDeploy, BelowDeploy
  <2>2. Len(hot) = RollupOfHost(note.tip) /\ note.tip \in Int
    BY <2>1 DEF SafeInv, HeightPart, RevertHeights, TypeOK, Notification
  <2>3. Len(hot) = 0
    BY <1>1, <2>1, <2>2 DEF RollupOfHost
  <2> QED BY <2>1, <2>3 DEF ContentPart, HotFollows, LinkedFrom
<1>12. CASE DrainHot
  <2>1. /\ pc = "revert" /\ pc' = "drain_cold" /\ target' = RevertTarget
        /\ hot' = Truncate(hot, target')
        /\ UNCHANGED <<fresh, delivered, note>>
    BY <1>12 DEF DrainHot, SafeInv, SessionPart
  <2>2. /\ LinkedFrom(hot', DeployHeight + 1)
        /\ Len(hot') = AtMost(RevertTarget, Len(hot))
        /\ \A i \in 1..Len(hot') : i \in 1..Len(hot) /\ hot'[i] = hot[i]
    BY <1>1, <1>4, <2>1
  <2>3. ~fresh
    BY <2>1 DEF SafeInv, SessionPart, Booting
  <2>4. note.first \in Nat
    BY <2>1 DEF SafeInv, HeightPart, RevertHeights, RevertRange, TypeOK,
                Notification
  <2>5. ASSUME NEW i \in 1..Len(hot')
        PROVE  hot'[i] = delivered'[DeployHeight + i]
    <3>1. i \in Nat \ {0} /\ i <= RevertTarget
      BY <1>1, <2>1, <2>2 DEF AtMost
    <3>2. DeployHeight + i < note.first
      BY <1>1, <2>4, <3>1 DEF RevertTarget, RollupOfHost
    <3> QED BY <2>1, <2>2, <2>3, <3>2 DEF ContentPart, HotFollows
  <2> QED BY <2>2, <2>5 DEF ContentPart, HotFollows
<1>13. CASE \/ DrainCold \/ RewindFinalized \/ RewindSafe \/ RewindLatest
            \/ NotifyReorg \/ Extract \/ SkipBlock \/ ProcessBlock
            \/ UpdateBlockTags
  <2>1. hot' = hot /\ UNCHANGED <<fresh, delivered>> /\ pc # "revert"
    BY <1>13
    DEF DrainCold, RewindFinalized, RewindSafe, RewindLatest, RewindStep,
        NotifyReorg, Extract, SkipBlock, ProcessBlock, UpdateBlockTags,
        FinishNotification, UpdateFinalized, UpdateSafe, UpdateLatest,
        UpdateStep, SendFinishedHeight
  <2> QED BY <1>2, <2>1
<1>14. CASE AppendBlock
  <2> DEFINE n == Len(hot) + 1
  <2>1. /\ pc = "append" /\ pc' = "block" /\ hot' = Append(hot, Head(todo))
        /\ UNCHANGED <<fresh, delivered>>
    BY <1>14 DEF AppendBlock
  <2>2. /\ todo # <<>> /\ IsTail(todo) /\ todo \in Seq(Block)
        /\ RollupOfHost(Len(delivered) - Len(todo) + 1) = n
    BY <2>1 DEF SafeInv, HeightPart, CommitHeights, AppendHeights, Committing,
                TypeOK
  <2>3. /\ Len(todo) \in Nat \ {0} /\ Head(todo) \in Block
        /\ Head(todo) = todo[1]
    BY <2>2, QueueFacts
  <2>4. Head(todo) = delivered[Len(delivered) - Len(todo) + 1]
    BY <2>2, <2>3 DEF IsTail
  <2>5. Len(delivered) - Len(todo) + 1 = DeployHeight + n
    <3>1. Len(delivered) - Len(todo) + 1 \in Int
      BY <1>1, <2>3
    <3>2. n > 0
      BY <1>1
    <3> QED BY <2>2, <3>1, <3>2, RollupFacts
  <2>6. DeployHeight + n \in 1..Len(delivered) /\ DeployHeight + n > 1
    BY <1>1, <2>3, <2>5
  <2>7. Head(todo) = delivered[DeployHeight + n]
    BY <2>4, <2>5
  <2>8. \A i \in 1..Len(hot) : hot[i] = delivered[DeployHeight + i]
    BY <2>1 DEF SafeInv, SessionPart, Booting, ContentPart, HotFollows
  <2>9. /\ Len(hot') = n /\ hot'[n] = Head(todo)
        /\ \A i \in 1..Len(hot) : hot'[i] = hot[i]
    BY <1>1, <2>1, <2>3, AppendFacts
  <2>10. num[Head(todo)] = DeployHeight + n
    BY <2>6, <2>7 DEF SafeInv, ChainPart, IsChain, LinkedFrom
  <2>11. parent[Head(todo)] = delivered[DeployHeight + n - 1]
    <3>1. \A j \in 1..Len(delivered) :
            j > 1 => parent[delivered[j]] = delivered[j - 1]
      BY DEF SafeInv, ChainPart, IsChain, LinkedFrom
    <3> DEFINE m == DeployHeight + n
    <3>2. m \in 1..Len(delivered) /\ m > 1 /\ Head(todo) = delivered[m]
      BY <2>6, <2>7
    <3> HIDE DEF m
    <3>3. parent[delivered[m]] = delivered[m - 1]
      BY <3>1, <3>2
    <3>4. parent[Head(todo)] = delivered[m - 1]
      BY <3>2, <3>3
    <3>5. m - 1 = DeployHeight + n - 1
      BY <1>1 DEF m
    <3> QED BY <3>4, <3>5
  <2>12. ASSUME NEW i \in 1..n
         PROVE  /\ num[hot'[i]] = (DeployHeight + 1) + i - 1
                /\ i > 1 => parent[hot'[i]] = hot'[i - 1]
                /\ hot'[i] = delivered[DeployHeight + i]
    <3>1. CASE i \in 1..Len(hot)
      <4>1. i > 1 => hot'[i - 1] = hot[i - 1]
        BY <1>1, <2>9, <3>1
      <4> QED BY <2>8, <2>9, <3>1, <4>1 DEF ContentPart, LinkedFrom
    <3>2. CASE i = n
      <4>1. i > 1 => /\ hot'[i - 1] = delivered[DeployHeight + (i - 1)]
                     /\ DeployHeight + (i - 1) = DeployHeight + n - 1
        BY <1>1, <2>8, <2>9, <3>2
      <4>2. DeployHeight + n = (DeployHeight + 1) + i - 1
        BY <1>1, <3>2
      <4> QED BY <2>7, <2>9, <2>10, <2>11, <3>2, <4>1, <4>2
    <3> QED BY <1>1, <3>1, <3>2
  <2>13. LinkedFrom(hot', DeployHeight + 1)
    BY <2>9, <2>12 DEF LinkedFrom
  <2> QED BY <2>1, <2>9, <2>12, <2>13 DEF ContentPart, HotFollows
<1> QED
  BY <1>5, <1>6, <1>7, <1>9, <1>10, <1>11, <1>12, <1>13, <1>14
  DEF Next, NodeStep, StartUp, OnHostRevert, ProcessCommittedChain, NotifierStep

\* The invariant with the contents of the store.
LEMMA CanonInvariance ==
  ASSUME ResumeOnCanonical
  PROVE  Spec => []CanonInv
<1>1. Init => CanonInv
  BY SafeInit DEF CanonInv, ContentPart, HotFollows, LinkedFrom, Init
<1>2. CanonInv /\ [Next]_vars => CanonInv'
  BY SafeStep, ContentStep DEF CanonInv
<1> QED BY <1>1, <1>2, PTL DEF Spec

\* The stored rollup derives from one hash-linked run of host blocks, starting
\* right above the deploy block.
THEOREM RollupAlwaysLinked ==
  ASSUME ResumeOnCanonical
  PROVE  Spec => []RollupIsLinked
<1>1. CanonInv => RollupIsLinked
  BY DEF CanonInv, ContentPart, RollupIsLinked
<1> QED BY <1>1, CanonInvariance, PTL

\* Between notifications the store is exactly the rollup part of the delivered
\* chain, through every revert, reorganisation, failure and restart.
THEOREM StoreFollowsHost ==
  ASSUME ResumeOnCanonical
  PROVE  Spec => []FollowsHost
<1>1. CanonInv => FollowsHost
  <2> SUFFICES ASSUME CanonInv, pc = "idle", ~fresh
               PROVE  hot = SubSeq(delivered, DeployHeight + 1, Len(delivered))
    BY DEF FollowsHost
  <2> DEFINE part == SubSeq(delivered, DeployHeight + 1, Len(delivered))
  <2>1. /\ hot \in Seq(Block) /\ Len(hot) \in Nat
        /\ delivered \in Seq(Block) /\ Len(delivered) \in Nat
        /\ DeployHeight \in Nat \ {0}
    <3>1. hot \in Seq(Block) /\ delivered \in Seq(Block)
      BY DEF CanonInv, SafeInv, TypeOK
    <3> QED BY <3>1, HostChainAssumption
  <2>2. Len(hot) = RollupOfHost(Len(delivered))
    BY DEF CanonInv, SafeInv, HeightPart, SettledHeights, Settled
  <2>3. \A i \in 1..Len(hot) : hot[i] = delivered[DeployHeight + i]
    BY DEF CanonInv, ContentPart, HotFollows
  <2>4. CASE DeployHeight <= Len(delivered)
    <3>1. /\ part \in Seq(Block)
          /\ Len(part) = Len(delivered) - (DeployHeight + 1) + 1
          /\ \A i \in 1..(Len(delivered) - (DeployHeight + 1) + 1) :
               part[i] = delivered[(DeployHeight + 1) + i - 1]
      BY <2>1, <2>4, SegmentFacts
    <3>2. Len(part) = Len(hot)
      BY <2>1, <2>2, <2>4, <3>1 DEF RollupOfHost
    <3> HIDE DEF part
    <3>3. ASSUME NEW i \in 1..Len(hot)
          PROVE  part[i] = hot[i]
      <4>1. (DeployHeight + 1) + i - 1 = DeployHeight + i
        BY <2>1
      <4> QED BY <2>3, <3>1, <3>2, <4>1
    <3>4. part = hot
      BY <2>1, <3>1, <3>2, <3>3
    <3> QED BY <3>4 DEF part
  <2>5. CASE DeployHeight > Len(delivered)
    <3>1. Len(hot) = 0
      BY <2>1, <2>2, <2>5 DEF RollupOfHost
    <3>2. hot = <<>>
      BY <2>1, <3>1
    <3>3. part = <<>>
      BY <2>1, <2>5
    <3> QED BY <3>2, <3>3
  <2> QED BY <2>1, <2>4, <2>5
<1> QED BY <1>1, CanonInvariance, PTL

-------------------------------------------------------------------------------
(***************************************************************************)
(* What the readers of the node see (its chain events, its block tags, its *)
(* status channel and the finished height it reports), and that the node   *)
(* implements the abstract rollup chain.                                   *)
(***************************************************************************)
-------------------------------------------------------------------------------
(***************************************************************************)
(* The inductive invariant, on top of SafeInv.                             *)
(***************************************************************************)
Unwinding == {"drain_cold", "rewind_finalized", "rewind_safe", "rewind_latest"}

\* What a subscriber has put together: the stored chain, one block ahead of it
\* between the NewBlock event and the append, and behind by the drained blocks
\* between drain_above and the Reorg event.
EventsPart ==
  /\ pc \in Settled \cup {"revert", "extract", "block"} => seen = hot
  /\ pc = "append" => seen = Append(hot, Head(todo))
  /\ pc \in Draining => seen = hot \o drained

\* The tags through start-up, a revert and an update.
TagsPart ==
  /\ pc \in Booting => latest = 0 /\ safe = 0 /\ finalized = 0
  /\ pc \notin Unwinding => latest <= Len(hot) /\ safe <= Len(hot)
  /\ pc = "rewind_latest" => safe <= Len(hot)
  /\ finalized <= Len(hot)
  /\ pc \notin {"tag_safe", "tag_latest"} => finalized <= latest

\* The status channel and the latest tag agree with storage, but while a
\* handler that has changed storage is still to report it.
ReportsPart ==
  /\ pc \in Settled => status = Len(hot)
  /\ pc \in {"idle", "finished"} => latest \in {0, Len(hot)}
  /\ (pc \in {"revert", "extract", "block", "append"} /\ ~changed) =>
       status = Len(hot) /\ latest \in {0, Len(hot)}

\* The host never reorganises a finalized block, so the blocks of the
\* delivered chain up to the notification's finalized height are host blocks.
FinalityPart ==
  /\ hostFin <= Len(host)
  /\ ~fresh => /\ note.fin <= hostFin
               /\ \A j \in 1..Len(delivered) :
                    j <= note.fin => delivered[j] = host[j]

\* Host height m is below every height a later revert can start from.
Held(m) ==
  m > DeployHeight =>
    /\ m <= Len(delivered) /\ m <= hostFin
    /\ \A j \in 1..m : delivered[j] = host[j]
    /\ pc \in {"revert"} \cup Draining => m < note.first

\* The finalized tag and the finished height are held.
MarkPart ==
  /\ fresh => finalized = 0 /\ finished = NoHeight
  /\ Held(DeployHeight + finalized)
  /\ Held(finished)

ReaderInv == EventsPart /\ TagsPart /\ ReportsPart /\ FinalityPart /\ MarkPart

-------------------------------------------------------------------------------
(***************************************************************************)
(* Facts about chains cut in two.                                          *)
(***************************************************************************)
\* A chain cut at n, as drain_above cuts the hot store: the part it keeps
\* followed by the part it hands back is the chain.
LEMMA CutFacts ==
  ASSUME NEW S, NEW s \in Seq(S), NEW n \in Nat, n <= Len(s)
  PROVE  s = Truncate(s, n) \o SubSeq(s, n + 1, Len(s))
<1> DEFINE kept == Truncate(s, n)
           cut == SubSeq(s, n + 1, Len(s))
           both == kept \o cut
<1>1. kept \in Seq(S) /\ Len(kept) = n /\ \A i \in 1..n : kept[i] = s[i]
  BY TruncateFacts DEF AtMost
<1>2. /\ cut \in Seq(S) /\ Len(cut) = Len(s) - n
      /\ \A i \in 1..(Len(s) - n) : cut[i] = s[n + i]
  <2>1. n + 1 \in Nat \ {0} /\ Len(s) \in Nat /\ n + 1 <= Len(s) + 1
    OBVIOUS
  <2>2. /\ cut \in Seq(S) /\ Len(cut) = Len(s) - (n + 1) + 1
        /\ \A i \in 1..(Len(s) - (n + 1) + 1) : cut[i] = s[(n + 1) + i - 1]
    BY <2>1, SegmentFacts
  <2>3. Len(s) - (n + 1) + 1 = Len(s) - n
    OBVIOUS
  <2>4. \A i \in 1..(Len(s) - n) : (n + 1) + i - 1 = n + i
    OBVIOUS
  <2> QED BY <2>2, <2>3, <2>4
<1> HIDE DEF kept, cut
<1>3. /\ both \in Seq(S) /\ Len(both) = Len(s)
      /\ \A i \in 1..Len(s) :
           both[i] = IF i <= n THEN kept[i] ELSE cut[i - n]
  BY <1>1, <1>2
<1> HIDE DEF both
<1>4. ASSUME NEW i \in 1..Len(s) PROVE both[i] = s[i]
  <2>1. CASE i <= n
    BY <1>1, <1>3, <2>1
  <2>2. CASE i > n
    <3>1. i - n \in 1..(Len(s) - n) /\ n + (i - n) = i /\ ~(i <= n)
      BY <2>2
    <3> QED BY <1>2, <1>3, <3>1
  <2> QED BY <2>1, <2>2
<1>5. both = s
  BY ONLY <1>3, <1>4, s \in Seq(S)
<1> QED BY <1>5 DEF both, kept, cut

\* A subscriber drops the blocks of a Reorg event.
LEMMA DropFacts ==
  ASSUME NEW S, NEW s \in Seq(S), NEW t \in Seq(S)
  PROVE  Truncate(s \o t, Len(s)) = s
<1> DEFINE both == s \o t
           kept == Truncate(both, Len(s))
<1>1. /\ both \in Seq(S) /\ Len(both) = Len(s) + Len(t)
      /\ \A i \in 1..Len(s) : both[i] = s[i]
  OBVIOUS
<1> HIDE DEF both
<1>2. Len(s) \in Nat /\ Len(s) <= Len(both)
  BY <1>1
<1>3. /\ kept \in Seq(S) /\ Len(kept) = Len(s)
      /\ \A i \in 1..Len(s) : kept[i] = s[i]
  BY <1>1, <1>2, TruncateFacts DEF AtMost
<1> HIDE DEF kept
<1>4. kept = s
  BY ONLY <1>3, s \in Seq(S)
<1> QED BY <1>4 DEF kept, both

-------------------------------------------------------------------------------
(***************************************************************************)
(* Chain events.                                                           *)
(***************************************************************************)
\* Every event a handler sends moves the subscriber with the store.
LEMMA EventsStep ==
  ASSUME SafeInv, SafeInv', EventsPart, [Next]_vars
  PROVE  EventsPart'
<1> USE DEF hostVars, feedVars, storeVars, localVars, outVars, Settled, Draining
<1>1. /\ hot \in Seq(Block) /\ Len(hot) \in Nat /\ todo \in Seq(Block)
      /\ drained \in Seq(Block) /\ seen \in Seq(Block) /\ target \in Nat
  BY DEF SafeInv, TypeOK
<1>2. CASE HostStep \/ ColdApply
  BY <1>2 DEF HostStep, HostExtend, HostReorg, HostFinalize, ColdApply, EventsPart
<1>3. CASE NotifierStep
  <2>1. pc = "idle" /\ pc' \in {"extract", "revert"} /\ UNCHANGED <<hot, seen>>
    BY <1>3 DEF NotifierStep, FirstNotification, NextNotification, Deliver
  <2> QED BY <2>1 DEF EventsPart
<1>4. CASE Stop \/ Boot \/ LoadHotGenesis \/ LoadColdGenesis \/ Reconcile
           \/ UnwindCold
  <2>1. pc' \in Booting
    BY <1>4 DEF Stop, Boot, LoadHotGenesis, LoadColdGenesis, Reconcile,
                UnwindCold, Booting
  <2> QED BY <2>1 DEF EventsPart, Booting
<1>5. CASE StartInner
  BY <1>5 DEF StartInner, EventsPart
<1>6. CASE RevertBelowDeploy \/ Extract \/ SkipBlock
  BY <1>6 DEF RevertBelowDeploy, Extract, SkipBlock, EventsPart
<1>7. CASE DrainHot
  <2>1. /\ pc = "revert" /\ pc' = "drain_cold" /\ UNCHANGED seen
        /\ drained' = SubSeq(hot, target' + 1, Len(hot))
        /\ hot' = Truncate(hot, target')
    BY <1>7 DEF DrainHot, SafeInv, SessionPart
  <2>2. target' \in Nat /\ Len(hot') = target'
    BY <2>1 DEF SafeInv, TypeOK, HeightPart, DrainHeights
  <2>3. target' <= Len(hot)
    BY <1>1, <2>1, <2>2, TruncateFacts DEF AtMost
  <2>4. hot = hot' \o drained'
    BY <1>1, <2>1, <2>2, <2>3, CutFacts
  <2> QED BY <2>1, <2>4 DEF EventsPart
<1>8. CASE DrainCold \/ RewindFinalized \/ RewindSafe \/ RewindLatest
  BY <1>8 DEF DrainCold, RewindFinalized, RewindSafe, RewindLatest, RewindStep,
              EventsPart
<1>9. CASE NotifyReorg
  <2>1. /\ pc = "notify_reorg" /\ pc' = "extract" /\ UNCHANGED hot
        /\ seen' = IF drained # <<>> THEN Truncate(seen, target) ELSE seen
    BY <1>9 DEF NotifyReorg
  <2>2. drained # <<>> /\ Len(hot) = target
    BY <2>1 DEF SafeInv, HeightPart, DrainHeights
  <2>3. seen = hot \o drained
    BY <2>1 DEF EventsPart
  <2>4. seen' = hot
    BY <1>1, <2>1, <2>2, <2>3, DropFacts
  <2> QED BY <2>1, <2>4 DEF EventsPart
<1>10. CASE ProcessBlock
  <2>1. /\ pc = "block" /\ pc' = "append" /\ UNCHANGED <<hot, todo>>
        /\ seen' = Append(seen, Head(todo))
    BY <1>10 DEF ProcessBlock, SafeInv, SessionPart
  <2> QED BY <2>1 DEF EventsPart
<1>11. CASE AppendBlock
  BY <1>11 DEF AppendBlock, EventsPart
<1>12. CASE UpdateBlockTags
  BY <1>12 DEF UpdateBlockTags, FinishNotification, UpdateFinalized, UpdateSafe,
               UpdateLatest, UpdateStep, SendFinishedHeight, EventsPart
<1>13. CASE UNCHANGED vars
  BY <1>13 DEF vars, EventsPart
<1> QED
  BY <1>2, <1>3, <1>4, <1>5, <1>6, <1>7, <1>8, <1>9, <1>10, <1>11, <1>12, <1>13
  DEF Next, NodeStep, StartUp, OnHostRevert, ProcessCommittedChain

-------------------------------------------------------------------------------
(***************************************************************************)
(* Block tags and the status channel.                                      *)
(***************************************************************************)
USE DEF NoHeight

\* clamp_host_heights never answers with a height that is not stored.
LEMMA ClampFacts ==
  ASSUME NEW n \in Nat, Len(hot) = n, NEW h \in Nat \cup {NoHeight}
  PROVE  /\ ClampHostHeight(h) \in Nat /\ ClampHostHeight(h) <= n
         /\ ClampHostHeight(h) > 0 => DeployHeight + ClampHostHeight(h) <= h
  BY HostChainAssumption DEF ClampHostHeight, RollupOfHost, AtMost

\* A revert unwinds nothing at or below a held height.
LEMMA RevertKeepsHeld ==
  ASSUME NEW n \in Nat, note.first \in Nat, n > 0 => DeployHeight + n < note.first
  PROVE  n <= RevertTarget
  BY HostChainAssumption DEF RevertTarget, RollupOfHost

\* Every tag names a stored block outside a revert, and the finalized tag
\* always does.
LEMMA TagsStep ==
  ASSUME SafeInv, SafeInv', TagsPart, MarkPart, [Next]_vars
  PROVE  TagsPart'
<1> USE DEF hostVars, feedVars, storeVars, localVars, outVars, Unwinding, Booting
<1>1. /\ hot \in Seq(Block) /\ Len(hot) \in Nat /\ Len(hot') \in Nat
      /\ latest \in Nat /\ safe \in Nat /\ finalized \in Nat
      /\ target \in Nat /\ todo \in Seq(Block) /\ DeployHeight \in Nat
  <2>1. /\ hot \in Seq(Block) /\ hot' \in Seq(Block) /\ todo \in Seq(Block)
        /\ latest \in Nat /\ safe \in Nat /\ finalized \in Nat /\ target \in Nat
    BY DEF SafeInv, TypeOK, TagsTypeOK
  <2> QED BY <2>1, HostChainAssumption
<1>2. note.fin \in Nat \cup {NoHeight} /\ note.safe \in Nat \cup {NoHeight}
  BY DEF SafeInv, TypeOK, Notification
<1>3. CASE HostStep \/ ColdApply \/ UNCHANGED vars
  BY <1>3 DEF HostStep, HostExtend, HostReorg, HostFinalize, ColdApply, vars,
              tags, TagsPart
<1>4. CASE NotifierStep
  <2>1. /\ pc = "idle" /\ pc' \in {"extract", "revert"}
        /\ UNCHANGED <<hot, latest, safe, finalized>>
    BY <1>4 DEF NotifierStep, FirstNotification, NextNotification, Deliver, tags
  <2> QED BY <2>1 DEF TagsPart
<1>5. CASE Stop
  BY <1>1, <1>5 DEF Stop, TagsReset, TagsPart
<1>6. CASE Boot \/ LoadHotGenesis \/ LoadColdGenesis \/ Reconcile \/ UnwindCold
           \/ StartInner
  <2>1. pc \in Booting /\ UNCHANGED <<latest, safe, finalized>>
    BY <1>6 DEF Boot, LoadHotGenesis, LoadColdGenesis, Reconcile, UnwindCold,
                StartInner, tags
  <2>2. latest' = 0 /\ safe' = 0 /\ finalized' = 0
    BY <2>1 DEF TagsPart
  <2>3. 0 <= Len(hot') /\ 0 <= 0
    BY <1>1
  <2> QED BY <2>2, <2>3 DEF TagsPart
<1>7. CASE DrainHot
  <2>1. /\ pc = "revert" /\ pc' = "drain_cold" /\ target' = RevertTarget
        /\ UNCHANGED <<latest, safe, finalized>>
    BY <1>7 DEF DrainHot, SafeInv, SessionPart, tags
  <2>2. Len(hot') = RevertTarget
    BY <2>1 DEF SafeInv, HeightPart, DrainHeights, Draining
  <2>3. note.first \in Nat
    BY <2>1 DEF SafeInv, HeightPart, RevertHeights, RevertRange, TypeOK,
                Notification
  <2>4. finalized > 0 => DeployHeight + finalized < note.first
    <3>1. Held(DeployHeight + finalized)
      BY DEF MarkPart
    <3>2. finalized > 0 => DeployHeight + finalized > DeployHeight
      BY <1>1
    <3> QED BY <2>1, <3>1, <3>2 DEF Held
  <2>5. finalized <= RevertTarget
    BY <1>1, <2>3, <2>4, RevertKeepsHeld
  <2> QED BY <1>1, <2>1, <2>2, <2>5 DEF TagsPart
<1>8. CASE RewindFinalized \/ RewindSafe \/ RewindLatest
  <2>1. Len(hot) = target
    BY <1>8 DEF RewindFinalized, RewindSafe, RewindLatest, RewindStep, SafeInv,
                HeightPart, DrainHeights, Draining
  <2>2. /\ UNCHANGED hot /\ pc \in Unwinding
        /\ \/ /\ pc' = "rewind_safe" /\ finalized' = AtMost(finalized, target)
              /\ UNCHANGED <<latest, safe>>
           \/ /\ pc' = "rewind_latest" /\ safe' = AtMost(safe, target)
              /\ UNCHANGED <<latest, finalized>>
           \/ /\ pc = "rewind_latest" /\ pc' = "notify_reorg"
              /\ latest' = AtMost(latest, target) /\ UNCHANGED <<safe, finalized>>
    BY <1>8 DEF RewindFinalized, RewindSafe, RewindLatest, RewindStep,
                CapFinalized, CapSafe, CapLatest, StoreFinalized, StoreSafe,
                StoreLatest
  <2>3. \A n \in Nat : AtMost(n, target) <= n /\ AtMost(n, target) <= target
                       /\ AtMost(n, target) \in {n, target}
    BY <1>1 DEF AtMost
  <2> QED BY <1>1, <2>1, <2>2, <2>3 DEF TagsPart
<1>9. CASE DrainCold \/ NotifyReorg \/ RevertBelowDeploy \/ Extract \/ SkipBlock
           \/ ProcessBlock
  BY <1>9 DEF DrainCold, NotifyReorg, RevertBelowDeploy, Extract, SkipBlock,
              ProcessBlock, tags, TagsPart
<1>10. CASE AppendBlock
  <2>1. /\ pc = "append" /\ pc' = "block" /\ hot' = Append(hot, Head(todo))
        /\ UNCHANGED <<latest, safe, finalized>>
    BY <1>10 DEF AppendBlock, tags
  <2>2. todo # <<>>
    BY <2>1 DEF SafeInv, HeightPart, AppendHeights
  <2>3. Len(hot') = Len(hot) + 1
    BY <1>1, <2>1, <2>2, QueueFacts, AppendFacts
  <2> QED BY <1>1, <2>1, <2>3 DEF TagsPart
<1>11. CASE FinishNotification \/ SendFinishedHeight
  BY <1>11 DEF FinishNotification, SendFinishedHeight, tags, TagsPart
<1>12. CASE UpdateFinalized \/ UpdateSafe \/ UpdateLatest
  <2>1. /\ UNCHANGED hot /\ pc \notin Unwinding \cup Booting
        /\ \/ /\ pc' = "tag_safe" /\ finalized' = ClampHostHeight(note.fin)
              /\ UNCHANGED <<latest, safe>>
           \/ /\ pc' = "tag_latest" /\ safe' = ClampHostHeight(note.safe)
              /\ UNCHANGED <<latest, finalized>>
           \/ /\ pc' = "finished" /\ latest' = Len(hot)
              /\ UNCHANGED <<safe, finalized>>
    BY <1>12 DEF UpdateFinalized, UpdateSafe, UpdateLatest, UpdateStep,
                 StoreFinalized, StoreSafe, StoreLatest
  <2>2. /\ ClampHostHeight(note.fin) <= Len(hot)
        /\ ClampHostHeight(note.safe) <= Len(hot)
    BY <1>1, <1>2, ClampFacts
  <2> QED BY <1>1, <2>1, <2>2 DEF TagsPart
<1> QED
  BY <1>3, <1>4, <1>5, <1>6, <1>7, <1>8, <1>9, <1>10, <1>11, <1>12
  DEF Next, NodeStep, StartUp, OnHostRevert, ProcessCommittedChain,
      UpdateBlockTags

\* The status and the latest tag are current once a handler has reported.
LEMMA ReportsStep ==
  ASSUME SafeInv, SafeInv', TagsPart, ReportsPart, [Next]_vars
  PROVE  ReportsPart'
<1> USE DEF hostVars, feedVars, storeVars, localVars, outVars, Settled
<1>1. CASE HostStep \/ ColdApply \/ UNCHANGED vars
  BY <1>1 DEF HostStep, HostExtend, HostReorg, HostFinalize, ColdApply, vars,
              tags, ReportsPart
<1>2. CASE NotifierStep
  <2>1. /\ pc = "idle" /\ pc' \in {"extract", "revert"}
        /\ UNCHANGED <<hot, status, latest>>
    BY <1>2 DEF NotifierStep, FirstNotification, NextNotification, Deliver, tags
  <2> QED BY <2>1 DEF ReportsPart
<1>3. CASE Stop \/ Boot \/ LoadHotGenesis \/ LoadColdGenesis \/ Reconcile
           \/ UnwindCold
  <2>1. pc' \in Booting
    BY <1>3 DEF Stop, Boot, LoadHotGenesis, LoadColdGenesis, Reconcile,
                UnwindCold, Booting
  <2> QED BY <2>1 DEF ReportsPart, Booting
<1>4. CASE StartInner
  BY <1>4 DEF StartInner, TagsPart, ReportsPart, Booting, tags
<1>5. CASE RevertBelowDeploy \/ Extract \/ SkipBlock
  BY <1>5 DEF RevertBelowDeploy, Extract, SkipBlock, ReportsPart, tags
<1>6. CASE DrainHot \/ DrainCold \/ RewindFinalized \/ RewindSafe \/ RewindLatest
  <2>1. pc' \in Draining
    BY <1>6 DEF DrainHot, DrainCold, RewindFinalized, RewindSafe, RewindLatest,
                RewindStep, Draining, SafeInv, SessionPart
  <2> QED BY <2>1 DEF ReportsPart, Draining
<1>7. CASE NotifyReorg \/ AppendBlock
  BY <1>7 DEF NotifyReorg, AppendBlock, ReportsPart
<1>8. CASE ProcessBlock
  <2>1. pc = "block" /\ pc' = "append" /\ UNCHANGED <<hot, changed, status, latest>>
    BY <1>8 DEF ProcessBlock, SafeInv, SessionPart, tags
  <2> QED BY <2>1 DEF ReportsPart
<1>9. CASE UpdateBlockTags
  BY <1>9 DEF UpdateBlockTags, FinishNotification, UpdateFinalized, UpdateSafe,
              UpdateLatest, UpdateStep, StoreLatest, StoreSafe, StoreFinalized,
              SendFinishedHeight, tags, ReportsPart
<1> QED
  BY <1>1, <1>2, <1>3, <1>4, <1>5, <1>6, <1>7, <1>8, <1>9
  DEF Next, NodeStep, StartUp, OnHostRevert, ProcessCommittedChain

-------------------------------------------------------------------------------
(***************************************************************************)
(* Finality.                                                               *)
(***************************************************************************)
\* A step of the host keeps its finalized blocks, and a held height held.
LEMMA HostKeepsFinal ==
  ASSUME SafeInv, FinalityPart, HostStep
  PROVE  /\ hostFin <= hostFin' /\ hostFin' <= Len(host')
         /\ \A j \in 1..hostFin : host'[j] = host[j]
<1>1. host \in Seq(Block) /\ Len(host) \in Nat /\ hostFin \in Nat
  BY DEF SafeInv, TypeOK
<1>2. hostFin <= Len(host)
  BY DEF FinalityPart
<1>3. CASE HostExtend
  <2>1. PICK b \in Block : host' = Append(host, b)
    BY <1>3 DEF HostExtend
  <2>2. /\ Len(host') = Len(host) + 1
        /\ \A i \in 1..Len(host) : host'[i] = host[i]
    BY <1>1, <2>1, AppendFacts
  <2>3. hostFin' = hostFin
    BY <1>3 DEF HostExtend
  <2> QED BY <1>1, <1>2, <2>2, <2>3
<1>4. CASE HostReorg
  <2>1. PICK k \in hostFin..(Len(host) - 1) : host' = Prefix(host, k)
    BY <1>4 DEF HostReorg
  <2>2. k \in Nat /\ hostFin <= k /\ k <= Len(host)
    BY <1>1
  <2>3. Len(host') = k /\ \A i \in 1..k : host'[i] = host[i]
    BY <1>1, <2>1, <2>2, PrefixFacts
  <2>4. hostFin' = hostFin
    BY <1>4 DEF HostReorg
  <2> QED BY <1>1, <2>2, <2>3, <2>4
<1>5. CASE HostFinalize
  BY <1>1, <1>5 DEF HostFinalize
<1> QED BY <1>3, <1>4, <1>5 DEF HostStep

\* The steps of the node and of the cold task leave the host, the notifier and
\* the notification in hand alone.
LEMMA NodeLeavesFeed ==
  ASSUME Boot \/ NodeStep \/ ColdApply \/ UNCHANGED vars
  PROVE  UNCHANGED <<host, hostFin, delivered, fresh, note>>
  BY DEF Boot, NodeStep, ColdApply, StartUp, OnHostRevert,
         ProcessCommittedChain, UpdateBlockTags, LoadHotGenesis,
         LoadColdGenesis, Reconcile, UnwindCold, StartInner, RevertBelowDeploy,
         DrainHot, DrainCold, RewindFinalized, RewindSafe, RewindLatest,
         RewindStep, NotifyReorg, Extract, SkipBlock, ProcessBlock, AppendBlock,
         FinishNotification, UpdateFinalized, UpdateSafe, UpdateLatest,
         UpdateStep, SendFinishedHeight, hostVars, feedVars, localVars, vars

\* A notification moves the delivered chain to a prefix of the host chain, and
\* a revert in it starts right above the common ancestor.
LEMMA DeliveryFacts ==
  ASSUME SafeInv, NotifierStep
  PROVE  \E k \in 0..Len(host), a \in 0..Len(delivered) :
           /\ delivered' = Prefix(host, k)
           /\ note'.fin \in {NoHeight, hostFin}
           /\ pc = "idle" /\ pc' \in {"extract", "revert"} /\ ~fresh'
           /\ UNCHANGED <<host, hostFin, finished, hot, latest, safe, finalized>>
           /\ ~fresh => /\ CommonAncestor(a) /\ a <= k
                        /\ pc' = "revert" => note'.first = a + 1
           /\ fresh => pc' = "extract"
<1>1. /\ Len(host) \in Nat /\ Len(delivered) \in Nat /\ head \in Nat
  BY DEF SafeInv, TypeOK
<1>2. ASSUME NEW first, NEW tip, NEW new, Deliver(first, tip, new)
      PROVE  /\ note'.fin \in {NoHeight, hostFin} /\ note'.first = first
             /\ pc = "idle" /\ pc' = (IF first = NoHeight THEN "extract" ELSE "revert")
             /\ ~fresh'
             /\ UNCHANGED <<host, hostFin, finished, hot, latest, safe, finalized>>
  BY <1>2 DEF Deliver, hostVars, storeVars, outVars, tags
<1>3. CASE FirstNotification
  <2>1. PICK k \in head..Len(host) :
          /\ delivered' = Prefix(host, k)
          /\ Deliver(NoHeight, NoHeight, SubSeq(host, head, k))
    BY <1>3 DEF FirstNotification
  <2>2. k \in 0..Len(host) /\ 0 \in 0..Len(delivered)
    BY <1>1
  <2>3. fresh
    BY <1>3 DEF FirstNotification
  <2>4. /\ note'.fin \in {NoHeight, hostFin} /\ pc = "idle" /\ pc' = "extract"
        /\ ~fresh'
        /\ UNCHANGED <<host, hostFin, finished, hot, latest, safe, finalized>>
    BY <1>2, <2>1
  <2> QED BY <2>1, <2>2, <2>3, <2>4
<1>4. CASE NextNotification
  <2>1. PICK a \in 0..Len(delivered) : \E k \in a..Len(host) :
          /\ CommonAncestor(a)
          /\ delivered' = Prefix(host, k)
          /\ IF a = Len(delivered)
               THEN k > a /\ Deliver(NoHeight, NoHeight, SubSeq(host, a + 1, k))
               ELSE Deliver(a + 1, Len(delivered), SubSeq(host, a + 1, k))
    BY <1>4 DEF NextNotification
  <2>2. PICK k \in a..Len(host) :
          /\ CommonAncestor(a)
          /\ delivered' = Prefix(host, k)
          /\ IF a = Len(delivered)
               THEN k > a /\ Deliver(NoHeight, NoHeight, SubSeq(host, a + 1, k))
               ELSE Deliver(a + 1, Len(delivered), SubSeq(host, a + 1, k))
    BY <2>1
  <2>3. k \in 0..Len(host) /\ a <= k /\ a + 1 # NoHeight
    BY <1>1
  <2>4. ~fresh
    BY <1>4 DEF NextNotification
  <2>5. CASE a = Len(delivered)
    <3>1. Deliver(NoHeight, NoHeight, SubSeq(host, a + 1, k))
      BY <2>2, <2>5
    <3>2. /\ note'.fin \in {NoHeight, hostFin} /\ pc = "idle" /\ pc' = "extract"
          /\ ~fresh'
          /\ UNCHANGED <<host, hostFin, finished, hot, latest, safe, finalized>>
      BY <1>2, <3>1
    <3> QED BY <2>2, <2>3, <2>4, <3>2
  <2>6. CASE a # Len(delivered)
    <3>1. Deliver(a + 1, Len(delivered), SubSeq(host, a + 1, k))
      BY <2>2, <2>6
    <3>2. /\ note'.fin \in {NoHeight, hostFin} /\ note'.first = a + 1
          /\ pc = "idle" /\ pc' = "revert" /\ ~fresh'
          /\ UNCHANGED <<host, hostFin, finished, hot, latest, safe, finalized>>
      BY <1>2, <2>3, <3>1
    <3> QED BY <2>2, <2>3, <2>4, <3>2
  <2> QED BY <2>5, <2>6
<1> QED BY <1>3, <1>4 DEF NotifierStep

\* Up to the notification's finalized height the delivered chain stays the
\* host chain, whatever the host does above it.
LEMMA FinalityStep ==
  ASSUME SafeInv, SafeInv', FinalityPart, [Next]_vars
  PROVE  FinalityPart'
<1>1. /\ host \in Seq(Block) /\ Len(host) \in Nat /\ hostFin \in Nat
      /\ delivered \in Seq(Block) /\ Len(delivered) \in Nat
  <2>1. host \in Seq(Block) /\ hostFin \in Nat /\ delivered \in Seq(Block)
    BY DEF SafeInv, TypeOK
  <2> QED BY <2>1
<1>2. note.fin \in Int
  BY DEF SafeInv, TypeOK, Notification
<1>3. CASE HostStep
  <2>1. /\ hostFin <= hostFin' /\ hostFin' <= Len(host')
        /\ \A j \in 1..hostFin : host'[j] = host[j]
    BY <1>3, HostKeepsFinal
  <2>2. UNCHANGED <<fresh, delivered, note>>
    BY <1>3 DEF HostStep, HostExtend, HostReorg, HostFinalize, feedVars, localVars
  <2>3. hostFin' \in Nat
    BY DEF SafeInv, TypeOK
  <2> QED BY <1>1, <1>2, <2>1, <2>2, <2>3 DEF FinalityPart
<1>4. CASE NotifierStep
  <2>1. PICK k \in 0..Len(host) : /\ delivered' = Prefix(host, k)
                                  /\ note'.fin \in {NoHeight, hostFin}
                                  /\ UNCHANGED <<host, hostFin>>
    BY <1>4, DeliveryFacts
  <2>2. /\ Len(delivered') = k
        /\ \A i \in 1..k : delivered'[i] = host[i]
    BY <1>1, <2>1, PrefixFacts
  <2>3. note'.fin <= hostFin
    BY <1>1, <2>1
  <2> QED BY <2>1, <2>2, <2>3 DEF FinalityPart
<1>5. CASE Stop
  BY <1>5 DEF Stop, hostVars, FinalityPart
<1>6. CASE Boot \/ NodeStep \/ ColdApply \/ UNCHANGED vars
  BY <1>6, NodeLeavesFeed DEF FinalityPart
<1> QED BY <1>3, <1>4, <1>5, <1>6 DEF Next

\* A held height stays held: the host keeps the block, the common ancestor of
\* a later notification is not below it, and so no revert reaches it.
LEMMA HeldStays ==
  ASSUME SafeInv, SafeInv', FinalityPart, NEW m \in Int, Held(m),
         m > DeployHeight, ~fresh, [Next]_vars, ~Stop
  PROVE  /\ m <= Len(delivered') /\ m <= hostFin'
         /\ \A j \in 1..m : delivered'[j] = host'[j]
         /\ pc' \in {"revert"} \cup Draining => m < note'.first
<1>1. /\ host \in Seq(Block) /\ Len(host) \in Nat /\ hostFin \in Nat
      /\ delivered \in Seq(Block) /\ Len(delivered) \in Nat
      /\ hostFin' \in Nat /\ DeployHeight \in Nat
  <2>1. /\ host \in Seq(Block) /\ hostFin \in Nat /\ delivered \in Seq(Block)
        /\ hostFin' \in Nat
    BY DEF SafeInv, TypeOK
  <2> QED BY <2>1, HostChainAssumption
<1>2. /\ m \in Nat /\ m <= Len(delivered) /\ m <= hostFin
      /\ \A j \in 1..m : delivered[j] = host[j]
      /\ pc \in {"revert"} \cup Draining => m < note.first
  BY <1>1 DEF Held
<1>3. hostFin <= Len(host)
  BY DEF FinalityPart
<1>4. CASE HostStep
  <2>1. /\ hostFin <= hostFin'
        /\ \A j \in 1..hostFin : host'[j] = host[j]
    BY <1>4, HostKeepsFinal
  <2>2. UNCHANGED <<delivered, note, pc>>
    BY <1>4 DEF HostStep, HostExtend, HostReorg, HostFinalize, feedVars, localVars
  <2>3. m <= hostFin'
    BY <1>1, <1>2, <2>1
  <2>4. \A j \in 1..m : j \in 1..hostFin
    BY <1>1, <1>2
  <2> QED BY <1>2, <2>1, <2>2, <2>3, <2>4
<1>5. CASE NotifierStep
  <2>1. PICK k \in 0..Len(host), a \in 0..Len(delivered) :
          /\ delivered' = Prefix(host, k) /\ UNCHANGED <<host, hostFin>>
          /\ pc' \in {"extract", "revert"}
          /\ CommonAncestor(a) /\ a <= k
          /\ pc' = "revert" => note'.first = a + 1
    BY <1>5, DeliveryFacts
  <2>2. m <= a
    <3> SUFFICES ASSUME a < m PROVE FALSE
      BY <1>2
    <3>1. a + 1 \in 1..m /\ a + 1 <= Len(delivered) /\ a + 1 <= Len(host)
      BY <1>1, <1>2, <1>3
    <3>2. \A i \in 1..(a + 1) : i \in 1..m
      BY <1>2, <3>1
    <3>3. SharedUpTo(a + 1)
      BY <1>2, <3>1, <3>2 DEF SharedUpTo
    <3> QED BY <2>1, <3>3 DEF CommonAncestor
  <2>3. Len(delivered') = k /\ \A i \in 1..k : delivered'[i] = host[i]
    <3>1. k \in Nat /\ k <= Len(host)
      BY <1>1
    <3> QED BY <1>1, <2>1, <3>1, PrefixFacts
  <2>4. m <= k /\ \A j \in 1..m : j \in 1..k
    BY <1>1, <1>2, <2>1, <2>2
  <2>5. pc' \in {"revert"} \cup Draining => m < note'.first
    BY <1>2, <2>1, <2>2 DEF Draining
  <2> QED BY <1>2, <2>1, <2>3, <2>4, <2>5
<1>6. CASE Boot \/ NodeStep \/ ColdApply \/ UNCHANGED vars
  <2>1. UNCHANGED <<host, hostFin, delivered, fresh, note>>
    BY <1>6, NodeLeavesFeed
  <2>2. pc' \in {"revert"} \cup Draining => pc \in {"revert"} \cup Draining
    BY <1>6
    DEF Boot, NodeStep, ColdApply, StartUp, OnHostRevert,
        ProcessCommittedChain, UpdateBlockTags, LoadHotGenesis,
        LoadColdGenesis, Reconcile, UnwindCold, StartInner, RevertBelowDeploy,
        DrainHot, DrainCold, RewindFinalized, RewindSafe, RewindLatest,
        RewindStep, NotifyReorg, Extract, SkipBlock, ProcessBlock, AppendBlock,
        FinishNotification, UpdateFinalized, UpdateSafe, UpdateLatest,
        UpdateStep, SendFinishedHeight, vars, Draining
  <2> QED BY <1>2, <2>1, <2>2
<1> QED BY <1>4, <1>5, <1>6 DEF Next

\* The finalized height a settled handler publishes is a held one.
LEMMA ClampHeld ==
  ASSUME SafeInv, FinalityPart, ~fresh, pc \in Settled, NEW m \in Int,
         m > DeployHeight, m <= DeployHeight + ClampHostHeight(note.fin)
  PROVE  /\ m <= Len(delivered) /\ m <= hostFin
         /\ \A j \in 1..m : delivered[j] = host[j]
<1> DEFINE c == ClampHostHeight(note.fin)
<1>1. /\ Len(hot) \in Nat /\ hostFin \in Nat /\ Len(delivered) \in Nat
      /\ DeployHeight \in Nat
  <2>1. hot \in Seq(Block) /\ hostFin \in Nat /\ delivered \in Seq(Block)
    BY DEF SafeInv, TypeOK
  <2> QED BY <2>1, HostChainAssumption
<1>2. note.fin \in Nat \cup {NoHeight}
  BY DEF SafeInv, TypeOK, Notification
<1>3. c \in Nat /\ c <= Len(hot) /\ (c > 0 => DeployHeight + c <= note.fin)
  BY <1>1, <1>2, ClampFacts
<1>4. Len(hot) = RollupOfHost(Len(delivered))
  BY DEF SafeInv, HeightPart, SettledHeights
<1> HIDE DEF c
<1>5. /\ note.fin <= hostFin
      /\ \A j \in 1..Len(delivered) : j <= note.fin => delivered[j] = host[j]
  BY DEF FinalityPart
<1>6. m <= DeployHeight + c
  BY DEF c
<1>7. c > 0 /\ m <= note.fin
  BY <1>1, <1>2, <1>3, <1>6
<1>8. m <= Len(delivered)
  BY <1>1, <1>3, <1>4, <1>6, <1>7 DEF RollupOfHost
<1> QED BY <1>1, <1>2, <1>5, <1>7, <1>8

\* The finalized tag and the finished height are held by every step.
LEMMA MarkStep ==
  ASSUME SafeInv, SafeInv', TagsPart, FinalityPart, MarkPart, [Next]_vars
  PROVE  MarkPart'
<1> USE DEF hostVars, feedVars, storeVars, localVars, outVars
<1>1. /\ finalized \in Nat /\ target \in Nat /\ DeployHeight \in Nat
      /\ finished \in Nat \cup {NoHeight}
  <2>1. finalized \in Nat /\ target \in Nat /\ finished \in Nat \cup {NoHeight}
    BY DEF SafeInv, TypeOK, TagsTypeOK
  <2> QED BY <2>1, HostChainAssumption
<1>2. ASSUME NEW m \in Int, Held(m), ~fresh, ~Stop
      PROVE  m > DeployHeight =>
               /\ m <= Len(delivered') /\ m <= hostFin'
               /\ \A j \in 1..m : delivered'[j] = host'[j]
               /\ pc' \in {"revert"} \cup Draining => m < note'.first
  BY <1>2, HeldStays
<1>3. /\ fresh => finalized = 0 /\ finished = NoHeight
      /\ Held(DeployHeight + finalized) /\ Held(finished)
  BY DEF MarkPart
<1>4. CASE Stop
  BY <1>1, <1>4 DEF Stop, TagsReset, MarkPart, Held
<1>5. ASSUME ~Stop, UNCHANGED <<finalized, finished>>, fresh' => fresh
      PROVE  MarkPart'
  <2>1. CASE fresh
    <3>1. finalized' = 0 /\ finished' = NoHeight
      BY <1>3, <1>5, <2>1
    <3> QED BY <1>1, <3>1 DEF MarkPart, Held
  <2>2. CASE ~fresh
    <3>1. DeployHeight + finalized \in Int /\ finished \in Int
      BY <1>1
    <3> QED BY <1>2, <1>3, <1>5, <2>2, <3>1 DEF MarkPart, Held
  <2> QED BY <2>1, <2>2
<1>6. CASE HostStep \/ NotifierStep \/ ColdApply \/ Boot \/ UNCHANGED vars
  <2>1. ~Stop /\ UNCHANGED <<finalized, finished>> /\ (fresh' => fresh)
    <3>1. CASE NotifierStep
      BY <3>1, DeliveryFacts DEF Stop
    <3>2. CASE HostStep \/ ColdApply \/ Boot \/ UNCHANGED vars
      <4>1. UNCHANGED <<stops, finalized, finished, fresh>>
        BY <3>2 DEF HostStep, HostExtend, HostReorg, HostFinalize, ColdApply,
                    Boot, tags, vars
      <4>2. stops \in Nat
        BY SignetNodeAssumption DEF SafeInv, TypeOK
      <4> QED BY <4>1, <4>2 DEF Stop
    <3> QED BY <1>6, <3>1, <3>2
  <2> QED BY <1>5, <2>1
<1>7. CASE NodeStep
  <2>1. ~Stop /\ UNCHANGED fresh
    <3>1. UNCHANGED <<stops, fresh>>
      BY <1>7
      DEF NodeStep, StartUp, OnHostRevert, ProcessCommittedChain,
          UpdateBlockTags, LoadHotGenesis, LoadColdGenesis, Reconcile,
          UnwindCold, StartInner, RevertBelowDeploy, DrainHot, DrainCold,
          RewindFinalized, RewindSafe, RewindLatest, RewindStep, NotifyReorg,
          Extract, SkipBlock, ProcessBlock, AppendBlock, FinishNotification,
          UpdateFinalized, UpdateSafe, UpdateLatest, UpdateStep,
          SendFinishedHeight
    <3>2. stops \in Nat
      BY SignetNodeAssumption DEF SafeInv, TypeOK
    <3> QED BY <3>1, <3>2 DEF Stop
  <2>2. CASE RewindFinalized
    <3>1. /\ pc = "rewind_finalized" /\ finalized' = AtMost(finalized, target)
          /\ UNCHANGED finished
      BY <2>2 DEF RewindFinalized, RewindStep, CapFinalized, StoreFinalized
    <3>2. finalized <= target
      BY <3>1 DEF TagsPart, SafeInv, HeightPart, DrainHeights, Draining
    <3>3. finalized' = finalized
      BY <3>1, <3>2 DEF AtMost
    <3> QED BY <1>5, <2>1, <3>1, <3>3
  <2>3. CASE UpdateFinalized
    <3> DEFINE m == DeployHeight + ClampHostHeight(note.fin)
    <3>1. /\ pc = "tag_finalized" /\ pc' = "tag_safe"
          /\ finalized' = ClampHostHeight(note.fin)
          /\ UNCHANGED <<host, hostFin, delivered, note, finished>>
      BY <2>3 DEF UpdateFinalized, UpdateStep, StoreFinalized
    <3>2. ~fresh
      BY <3>1 DEF SafeInv, SessionPart, Booting
    <3>3. finalized' \in Nat
      BY DEF SafeInv, TypeOK, TagsTypeOK
    <3>4. m \in Int /\ m <= m
      BY <1>1, <3>1, <3>3
    <3>5. m > DeployHeight => /\ m <= Len(delivered) /\ m <= hostFin
                              /\ \A j \in 1..m : delivered[j] = host[j]
      BY <3>1, <3>2, <3>4, ClampHeld DEF Settled
    <3>6. Held(DeployHeight + finalized)'
      BY <3>1, <3>5 DEF Held, Draining
    <3>7. Held(finished)'
      BY <1>3, <3>1 DEF Held, Draining
    <3> QED BY <2>1, <3>2, <3>6, <3>7 DEF MarkPart
  <2>4. CASE SendFinishedHeight
    <3> DEFINE c == ClampHostHeight(note.fin)
    <3>1. /\ pc = "finished" /\ pc' = "idle"
          /\ finished' = IF c > 0 THEN HostOfRollup(c) - 1 ELSE finished
          /\ UNCHANGED <<host, hostFin, delivered, note, finalized>>
      BY <2>4 DEF SendFinishedHeight, tags
    <3>2. ~fresh
      BY <3>1 DEF SafeInv, SessionPart, Booting
    <3>3. CASE c > 0
      <4>1. c \in Nat
        <5>1. note.fin \in Nat \cup {NoHeight} /\ Len(hot) \in Nat
          BY DEF SafeInv, TypeOK, Notification
        <5> QED BY <5>1, ClampFacts
      <4> DEFINE m == DeployHeight + c - 1
      <4>2. m \in Int /\ m <= DeployHeight + c
        BY <1>1, <4>1
      <4>3. m > DeployHeight => /\ m <= Len(delivered) /\ m <= hostFin
                                /\ \A j \in 1..m : delivered[j] = host[j]
        BY <3>1, <3>2, <4>2, ClampHeld DEF Settled
      <4>4. finished' = m
        BY <1>1, <3>1, <3>3, <4>1 DEF HostOfRollup
      <4>5. Held(finished)'
        BY <3>1, <4>3, <4>4 DEF Held, Draining
      <4> QED BY <1>3, <2>1, <3>1, <3>2, <4>5 DEF MarkPart, Held, Draining
    <3>4. CASE ~(c > 0)
      BY <1>5, <2>1, <3>1, <3>4
    <3> QED BY <3>3, <3>4
  <2>5. CASE ~(RewindFinalized \/ UpdateFinalized \/ SendFinishedHeight)
    <3>1. UNCHANGED <<finalized, finished>>
      BY <1>7, <2>5
      DEF NodeStep, StartUp, OnHostRevert, ProcessCommittedChain,
          UpdateBlockTags, LoadHotGenesis, LoadColdGenesis, Reconcile,
          UnwindCold, StartInner, RevertBelowDeploy, DrainHot, DrainCold,
          RewindSafe, RewindLatest, RewindStep, CapSafe, CapLatest, StoreSafe,
          StoreLatest, NotifyReorg, Extract, SkipBlock, ProcessBlock,
          AppendBlock, FinishNotification, UpdateSafe, UpdateLatest, UpdateStep,
          tags
    <3> QED BY <1>5, <2>1, <3>1
  <2> QED BY <2>2, <2>3, <2>4, <2>5
<1> QED BY <1>4, <1>6, <1>7 DEF Next

-------------------------------------------------------------------------------
(***************************************************************************)
(* The theorems.                                                           *)
(***************************************************************************)
\* The steps that change the hot store.
LEMMA StoreSteps ==
  ASSUME [Next]_vars
  PROVE  UNCHANGED hot \/ AppendBlock \/ DrainHot \/ Reconcile
  BY DEF Next, HostStep, NotifierStep, HostExtend, HostReorg, HostFinalize,
         FirstNotification, NextNotification, Deliver, Stop, Boot, NodeStep,
         ColdApply, StartUp, OnHostRevert, ProcessCommittedChain,
         UpdateBlockTags, LoadHotGenesis, LoadColdGenesis, UnwindCold,
         StartInner, RevertBelowDeploy, DrainCold, RewindFinalized,
         RewindSafe, RewindLatest, RewindStep, NotifyReorg, Extract,
         SkipBlock, ProcessBlock, FinishNotification, UpdateFinalized,
         UpdateSafe, UpdateLatest, UpdateStep, SendFinishedHeight, vars,
         storeVars

\* The initial state satisfies the readers' invariant.
LEMMA ReaderInit == Init => ReaderInv
<1> SUFFICES ASSUME Init PROVE ReaderInv
  OBVIOUS
<1>1. EventsPart /\ ReportsPart
  BY DEF Init, EventsPart, ReportsPart, Settled, Draining
<1>2. TagsPart
  BY DEF Init, TagsInit, TagsPart, Unwinding
<1>3. FinalityPart
  BY DEF Init, FinalityPart
<1>4. MarkPart
  BY HostChainAssumption DEF Init, TagsInit, MarkPart, Held
<1> QED BY <1>1, <1>2, <1>3, <1>4 DEF ReaderInv

\* Every step of the host, the notifier, the node, the cold task and a stop
\* preserves it.
LEMMA ReaderStep ==
  ASSUME SafeInv, ReaderInv, [Next]_vars
  PROVE  ReaderInv'
<1>1. SafeInv'
  BY SafeStep
<1> QED
  BY <1>1, EventsStep, TagsStep, ReportsStep, FinalityStep, MarkStep DEF ReaderInv

\* The readers' invariant holds throughout.
THEOREM ReaderInvariance == Spec => []ReaderInv
<1>1. SafeInv /\ ReaderInv /\ [Next]_vars => ReaderInv'
  BY ReaderStep
<1> QED BY <1>1, ReaderInit, SafeInvariance, PTL DEF Spec

\* A subscriber that applies every event holds the stored chain whenever the
\* node is between notifications, and a Reorg event removes exactly the blocks
\* drain_above took, for any host and however sessions resume.
THEOREM EventsAlwaysTellTheChain == Spec => []EventsTellTheChain
<1>1. ReaderInv => EventsTellTheChain
  BY DEF ReaderInv, EventsPart, EventsTellTheChain, Settled, Draining
<1> QED BY <1>1, ReaderInvariance, PTL

\* Outside a revert every block tag names a stored block, and outside an
\* update the finalized tag is not ahead of the latest one.
THEOREM TagsAlwaysPointAtStoredBlocks == Spec => []TagsPointAtStoredBlocks
<1>1. ReaderInv => TagsPointAtStoredBlocks
  BY DEF ReaderInv, TagsPart, TagsPointAtStoredBlocks, Unwinding
<1> QED BY <1>1, ReaderInvariance, PTL

\* Between notifications the status channel and the latest tag are current.
THEOREM ReportsAlwaysCurrent == Spec => []ReportsAreCurrent
<1>1. ReaderInv => ReportsAreCurrent
  BY DEF ReaderInv, ReportsPart, ReportsAreCurrent, Settled
<1> QED BY <1>1, ReaderInvariance, PTL

\* No step unwinds a rollup block at or below the finished height reported to
\* the host in this session, which it may have pruned.
THEOREM FinishedBlocksAlwaysStay == Spec => FinishedBlocksStay
<1>1. SafeInv /\ SafeInv' /\ ReaderInv /\ [Next]_vars =>
        [\A i \in 1..Len(hot) : HostOfRollup(i) <= finished =>
           i <= Len(hot') /\ hot'[i] = hot[i]]_vars
  <2> SUFFICES ASSUME SafeInv, SafeInv', ReaderInv, Next, NEW i \in 1..Len(hot),
                      HostOfRollup(i) <= finished
               PROVE  i <= Len(hot') /\ hot'[i] = hot[i]
    OBVIOUS
  <2> USE DEF hostVars, feedVars, storeVars, localVars, outVars
  <2>1. /\ hot \in Seq(Block) /\ Len(hot) \in Nat /\ todo \in Seq(Block)
        /\ finished \in Int /\ DeployHeight \in Nat \ {0}
    <3>1. /\ hot \in Seq(Block) /\ todo \in Seq(Block)
          /\ finished \in Nat \cup {NoHeight}
      BY DEF SafeInv, TypeOK
    <3> QED BY <3>1, HostChainAssumption
  <2>2. i \in Nat \ {0} /\ i <= Len(hot) /\ finished >= DeployHeight + i
    BY <2>1 DEF HostOfRollup
  <2>3. Held(finished) /\ ~fresh
    BY <2>1, <2>2 DEF ReaderInv, MarkPart
  <2>4. CASE UNCHANGED hot
    BY <2>1, <2>2, <2>4
  <2>5. CASE AppendBlock
    <3>1. todo # <<>> /\ hot' = Append(hot, Head(todo))
      BY <2>5 DEF AppendBlock, SafeInv, HeightPart, AppendHeights
    <3>2. Len(hot') = Len(hot) + 1 /\ \A j \in 1..Len(hot) : hot'[j] = hot[j]
      BY <2>1, <3>1, QueueFacts, AppendFacts
    <3> QED BY <2>1, <2>2, <3>2
  <2>6. CASE DrainHot
    <3>1. /\ pc = "revert" /\ pc' = "drain_cold" /\ target' = RevertTarget
          /\ hot' = Truncate(hot, target')
      BY <2>6 DEF DrainHot, SafeInv, SessionPart
    <3>2. Len(hot') = RevertTarget /\ target' \in Nat
      BY <3>1 DEF SafeInv, TypeOK, HeightPart, DrainHeights, Draining
    <3>3. note.first \in Nat
      BY <3>1 DEF SafeInv, HeightPart, RevertHeights, RevertRange, TypeOK,
                  Notification
    <3>4. finished < note.first
      BY <2>1, <2>2, <2>3, <3>1 DEF Held
    <3>5. DeployHeight + i < note.first
      BY <2>1, <2>2, <3>3, <3>4
    <3>6. i <= RevertTarget
      BY <2>2, <3>3, <3>5, RevertKeepsHeld
    <3>7. \A j \in 1..Len(hot') : hot'[j] = hot[j]
      BY <2>1, <3>1, <3>2, TruncateFacts
    <3> QED BY <2>2, <3>1, <3>2, <3>6, <3>7
  <2>7. CASE Reconcile
    BY <2>3, <2>7 DEF Reconcile, SafeInv, SessionPart, Booting
  <2> QED BY <2>4, <2>5, <2>6, <2>7, StoreSteps
<1> QED BY <1>1, SafeInvariance, ReaderInvariance, PTL DEF Spec, FinishedBlocksStay

-------------------------------------------------------------------------------
(***************************************************************************)
(* The refinement of RollupChain.                                          *)
(***************************************************************************)
\* Unwinding the store to a height not below the finalized tag is a rewind of
\* the abstract chain.
LEMMA UnwindRewinds ==
  ASSUME hot \in Seq(Block), finalized \in Nat, NEW n \in Nat,
         hot' = Truncate(hot, n), finalized' = finalized, finalized <= Len(hot),
         finalized <= n
  PROVE  Rollup!Rewind \/ UNCHANGED <<hot, finalized>>
<1>1. CASE n < Len(hot)
  <2>1. hot' = Prefix(hot, n) /\ n \in finalized..Len(hot)
    BY <1>1 DEF Truncate
  <2> QED BY <2>1 DEF Rollup!Rewind, Rollup!Prefix, Prefix
<1>2. CASE ~(n < Len(hot))
  BY <1>2 DEF Truncate
<1> QED BY <1>1, <1>2

\* An append to the store extends the abstract chain by the block that follows
\* its last one.
LEMMA AppendExtends ==
  ASSUME SafeInv, ContentPart, AppendBlock
  PROVE  Rollup!Extend
<1> DEFINE n == Len(hot) + 1
           m == DeployHeight + n
<1>1. /\ hot \in Seq(Block) /\ todo \in Seq(Block) /\ delivered \in Seq(Block)
      /\ Len(hot) \in Nat /\ Len(delivered) \in Nat /\ DeployHeight \in Nat \ {0}
  <2>1. hot \in Seq(Block) /\ todo \in Seq(Block) /\ delivered \in Seq(Block)
    BY DEF SafeInv, TypeOK
  <2> QED BY <2>1, HostChainAssumption
<1>2. /\ pc = "append" /\ hot' = Append(hot, Head(todo))
      /\ UNCHANGED finalized
  BY DEF AppendBlock, tags
<1>3. /\ todo # <<>> /\ IsTail(todo)
      /\ RollupOfHost(Len(delivered) - Len(todo) + 1) = n
  BY <1>2 DEF SafeInv, HeightPart, CommitHeights, AppendHeights, Committing
<1>4. Len(todo) \in Nat \ {0} /\ Head(todo) \in Block /\ Head(todo) = todo[1]
  BY <1>1, <1>3, QueueFacts
<1>5. Len(delivered) - Len(todo) + 1 = m
  <2>1. Len(delivered) - Len(todo) + 1 \in Int /\ n > 0
    BY <1>1, <1>4
  <2> QED BY <1>3, <2>1, RollupFacts
<1>6. Head(todo) = delivered[m] /\ m \in 1..Len(delivered) /\ m > 1
  <2>1. Head(todo) = delivered[Len(delivered) - Len(todo) + 1]
    BY <1>3, <1>4 DEF IsTail
  <2> QED BY <1>1, <1>4, <1>5, <2>1
<1>7. ~fresh
  BY <1>2 DEF SafeInv, SessionPart, Booting
<1>8. m - 1 = DeployHeight + Len(hot) /\ m = DeployHeight + Len(hot) + 1
  BY <1>1
<1> HIDE DEF m
<1>9. num[delivered[m]] = m /\ parent[delivered[m]] = delivered[m - 1]
  <2>1. \A j \in 1..Len(delivered) :
          /\ num[delivered[j]] = 1 + j - 1
          /\ j > 1 => parent[delivered[j]] = delivered[j - 1]
    BY DEF SafeInv, ChainPart, IsChain, LinkedFrom
  <2>2. m \in Nat /\ 1 + m - 1 = m
    BY <1>6
  <2> QED BY <1>6, <2>1, <2>2
<1>10. hot # <<>> => hot[Len(hot)] = delivered[m - 1]
  <2> SUFFICES ASSUME hot # <<>> PROVE hot[Len(hot)] = delivered[m - 1]
    OBVIOUS
  <2>1. Len(hot) \in 1..Len(hot)
    BY <1>1
  <2> QED BY <1>2, <1>7, <1>8, <2>1 DEF ContentPart, HotFollows
<1>11. Rollup!Follows(Head(todo))
  BY <1>6, <1>8, <1>9, <1>10 DEF Rollup!Follows
<1> QED BY <1>2, <1>4, <1>11 DEF Rollup!Extend

\* The node implements the abstract rollup chain: every step of the host, the
\* notifier, the node, the cold task and a stop extends the chain by the next
\* linked block, rewinds it no further than the finalized tag, moves the tag to
\* a stored height, or leaves both alone.
THEOREM NodeImplementsRollupChain ==
  ASSUME ResumeOnCanonical
  PROVE  Spec => ImplementsRollupChain
<1>1. Init => Rollup!Init
  BY DEF Init, TagsInit, Rollup!Init
<1>2. CanonInv /\ CanonInv' /\ ReaderInv /\ ReaderInv' /\ [Next]_vars =>
        [Rollup!Next]_<<hot, finalized>>
  <2> SUFFICES ASSUME CanonInv, CanonInv', ReaderInv, ReaderInv', [Next]_vars
               PROVE  [Rollup!Next]_<<hot, finalized>>
    OBVIOUS
  <2>1. SafeInv /\ SafeInv' /\ ContentPart
    BY DEF CanonInv
  <2>2. /\ hot \in Seq(Block) /\ Len(hot) \in Nat /\ target' \in Nat
        /\ finalized \in Nat /\ finalized' \in Nat
    BY <2>1 DEF SafeInv, TypeOK, TagsTypeOK
  <2>3. finalized <= Len(hot) /\ finalized' <= Len(hot')
    BY DEF ReaderInv, TagsPart
  <2>4. CASE UNCHANGED hot
    <3>1. finalized' \in 0..Len(hot)
      BY <2>2, <2>3, <2>4
    <3> QED BY <2>4, <3>1 DEF Rollup!Next, Rollup!Mark
  <2>5. CASE AppendBlock
    BY <2>1, <2>5, AppendExtends DEF Rollup!Next
  <2>6. CASE DrainHot
    <3>1. hot' = Truncate(hot, target') /\ pc' = "drain_cold" /\ UNCHANGED finalized
      BY <2>1, <2>6 DEF DrainHot, SafeInv, SessionPart, tags
    <3>2. Len(hot') = target'
      BY <2>1, <3>1 DEF SafeInv, HeightPart, DrainHeights, Draining
    <3>3. finalized <= target'
      BY <2>3, <3>1, <3>2
    <3> QED BY <2>2, <2>3, <3>1, <3>3, UnwindRewinds DEF Rollup!Next
  <2>7. CASE Reconcile
    <3>1. hot' = Truncate(hot, target') /\ pc = "prebuild" /\ UNCHANGED finalized
      BY <2>7 DEF Reconcile, tags
    <3>2. finalized <= target'
      BY <2>2, <3>1 DEF ReaderInv, TagsPart, Booting
    <3> QED BY <2>2, <2>3, <3>1, <3>2, UnwindRewinds DEF Rollup!Next
  <2> QED BY <2>4, <2>5, <2>6, <2>7, StoreSteps
<1> QED
  BY <1>1, <1>2, CanonInvariance, ReaderInvariance, PTL
  DEF Spec, ImplementsRollupChain, Rollup!Spec
===============================================================================
