------------------------- MODULE ChainFiltersProofs -------------------------
(***************************************************************************)
(* Inductive invariants of the polling filters.  SafeInv holds under every *)
(* disturbance: the ring buffer keeps the last reorganisations sent, and a *)
(* filter is missing at most one of them per slot of its age.  FilterInv   *)
(* adds, without disturbances, what the client will hold once it has been  *)
(* told of the reorganisations it is still owed.                           *)
(***************************************************************************)
EXTENDS ChainFilters, HostChainProofs

(***************************************************************************)
(* Facts about cursors and removals.                                       *)
(***************************************************************************)
\* A nonempty set of naturals has a minimum.
LEMMA MinFacts ==
  ASSUME NEW T \in SUBSET Nat, T # {}
  PROVE  Min(T) \in T /\ \A y \in T : Min(T) <= y
<1>1. PICK x \in T : \A y \in T : x <= y
  BY Least
<1> QED BY <1>1 DEF Min

\* A cursor n after the reorganisations R.
Cut(n, R) == Min({n} \cup {e.ancestor + 1 : e \in R})

\* The blocks that a filter with cursor n is told to remove for R.
Taken(n, R) ==
  UNION {{b \in e.removed : num[b] < Cut(n, {f \in R : f.at < e.at})} : e \in R}

\* A cursor is moved to the lowest common ancestor, if that is below it.
LEMMA CutFacts ==
  ASSUME NEW n \in Nat \ {0}, NEW R \in SUBSET ReorgNotification
  PROVE  /\ Cut(n, R) \in Nat \ {0} /\ Cut(n, R) <= n
         /\ \A e \in R : Cut(n, R) <= e.ancestor + 1
         /\ Cut(n, R) = n \/ \E e \in R : Cut(n, R) = e.ancestor + 1
<1> DEFINE T == {n} \cup {e.ancestor + 1 : e \in R}
<1>1. \A e \in R : e.ancestor \in Nat
  BY DEF ReorgNotification
<1>2. T \in SUBSET Nat /\ T # {} /\ n \in T /\ \A e \in R : e.ancestor + 1 \in T
  BY <1>1
<1>3. Min(T) \in T /\ \A y \in T : Min(T) <= y
  BY <1>2, MinFacts
<1>4. \A y \in T : y = n \/ \E e \in R : y = e.ancestor + 1
  OBVIOUS
<1> HIDE DEF T
<1>5. Min(T) \in Nat \ {0}
  BY <1>1, <1>3, <1>4
<1> QED BY <1>2, <1>3, <1>4, <1>5 DEF Cut, T

\* Without reorganisations the cursor stays and nothing is removed.
LEMMA CutNone ==
  ASSUME NEW n \in Nat \ {0}
  PROVE  Cut(n, {}) = n /\ Taken(n, {}) = {}
<1>1. {} \in SUBSET ReorgNotification
  OBVIOUS
<1>2. Cut(n, {}) = n
  BY <1>1, CutFacts
<1> QED BY <1>2 DEF Taken

\* Reorganisations above the cursor change nothing for it.
LEMMA CutAbove ==
  ASSUME NEW n \in Nat \ {0}, NEW R \in SUBSET ReorgNotification,
         \A e \in R : n <= e.ancestor + 1 /\ \A b \in e.removed : num[b] > e.ancestor
  PROVE  Cut(n, R) = n /\ Taken(n, R) = {}
<1>1. Cut(n, R) = n
  BY CutFacts
<1>2. ASSUME NEW e \in R, NEW b \in e.removed, num[b] < Cut(n, {f \in R : f.at < e.at})
      PROVE  FALSE
  <2>1. PICK c \in Nat : c = Cut(n, {f \in R : f.at < e.at}) /\ c <= n
    BY CutFacts
  <2>2. b \in Block /\ num[b] \in Nat /\ e.ancestor \in Nat
    BY HostChainAssumption DEF ReorgNotification
  <2> QED BY <1>2, <2>1, <2>2
<1> QED BY <1>1, <1>2 DEF Taken

\* One more reorganisation, after all others.
LEMMA CutMore ==
  ASSUME NEW n \in Nat \ {0}, NEW R \in SUBSET ReorgNotification,
         NEW e \in ReorgNotification, \A f \in R : f.at < e.at
  PROVE  /\ Cut(n, R \cup {e}) <= Cut(n, R) /\ Cut(n, R \cup {e}) <= e.ancestor + 1
         /\ Cut(n, R \cup {e}) = Cut(n, R) \/ Cut(n, R \cup {e}) = e.ancestor + 1
         /\ Taken(n, R \cup {e}) = Taken(n, R) \cup {b \in e.removed : num[b] < Cut(n, R)}
<1>1. R \cup {e} \in SUBSET ReorgNotification
  OBVIOUS
<1>2. \A f \in R \cup {e} : f.at \in Nat /\ f.ancestor \in Nat
  BY DEF ReorgNotification
<1>3. PICK c \in Nat \ {0} : c = Cut(n, R)
  BY CutFacts
<1>4. PICK d \in Nat \ {0} : d = Cut(n, R \cup {e})
  BY <1>1, CutFacts
<1>5. /\ c <= n /\ \A f \in R : c <= f.ancestor + 1
      /\ c = n \/ \E f \in R : c = f.ancestor + 1
  BY <1>3, CutFacts
<1>6. /\ d <= n /\ \A f \in R \cup {e} : d <= f.ancestor + 1
      /\ d = n \/ \E f \in R \cup {e} : d = f.ancestor + 1
  BY <1>1, <1>4, CutFacts
<1>7. d <= c /\ d <= e.ancestor + 1 /\ (d = c \/ d = e.ancestor + 1)
  BY <1>2, <1>5, <1>6
<1>8. {f \in R \cup {e} : f.at < e.at} = R
  BY <1>2, \A f \in R : f.at < e.at, ~(e.at < e.at)
<1>9. ASSUME NEW g \in R
      PROVE  {f \in R \cup {e} : f.at < g.at} = {f \in R : f.at < g.at}
  BY <1>2
<1> DEFINE Of(g, P) == {b \in g.removed : num[b] < Cut(n, {f \in P : f.at < g.at})}
<1>10. Of(e, R \cup {e}) = {b \in e.removed : num[b] < Cut(n, R)}
  BY <1>8
<1>11. \A g \in R : Of(g, R \cup {e}) = Of(g, R)
  BY <1>9
<1>12. \A P, b : b \in Taken(n, P) <=> \E g \in P : b \in Of(g, P)
  BY DEF Taken
<1> HIDE DEF Of
<1>13. \A b : b \in Taken(n, R \cup {e}) <=> b \in Taken(n, R) \/ b \in Of(e, R \cup {e})
  BY <1>11, <1>12
<1>14. Taken(n, R \cup {e}) = Taken(n, R) \cup Of(e, R \cup {e})
  BY <1>13
<1>15. Taken(n, R \cup {e}) = Taken(n, R) \cup {b \in e.removed : num[b] < Cut(n, R)}
  BY <1>10, <1>14, Zenon
<1> QED BY <1>3, <1>4, <1>7, <1>15
(***************************************************************************)
(* What a client holds of a chain s, from height lo to below n.            *)
(***************************************************************************)
Shown(s, lo, n) == {s[i] : i \in lo..(n - 1)}

\* Once it has dropped the blocks in gone, a client that holds h has the chain
\* s up to the cursor n; a block filter is not told what to drop.
Agree(s, lo, h, blk, n, gone) ==
  /\ n <= Len(s) + 1
  /\ Shown(s, lo, n) \subseteq h
  /\ ~blk => h \ gone = Shown(s, lo, n)

\* Blocks above the cursor do not matter.
LEMMA AgreeSame ==
  ASSUME NEW s \in Seq(Block), NEW t \in Seq(Block), NEW lo \in Nat \ {0}, NEW h,
         NEW blk, NEW n \in Nat \ {0}, NEW gone, Agree(s, lo, h, blk, n, gone),
         n <= Len(t) + 1, \A i \in 1..(n - 1) : t[i] = s[i]
  PROVE  Agree(t, lo, h, blk, n, gone)
<1>1. \A i \in lo..(n - 1) : t[i] = s[i]
  OBVIOUS
<1>2. Shown(s, lo, n) = Shown(t, lo, n)
  BY <1>1 DEF Shown
<1> QED BY <1>2 DEF Agree

\* A client that follows nothing yet agrees with every chain.
LEMMA AgreeEmpty ==
  ASSUME NEW s \in Seq(Block), NEW n \in Nat \ {0}, NEW blk, NEW gone, n <= Len(s) + 1
  PROVE  Agree(s, n, {}, blk, n, gone)
  BY DEF Agree, Shown

\* The lowest start block follows the cursor down.
LEMMA AgreeLow ==
  ASSUME NEW s \in Seq(Block), NEW lo \in Nat \ {0}, NEW h, NEW blk,
         NEW n \in Nat \ {0}, NEW gone, Agree(s, lo, h, blk, n, gone),
         NEW l \in Nat \ {0}, l = lo \/ l = n, l <= lo, l <= n
  PROVE  Agree(s, l, h, blk, n, gone)
<1>1. Shown(s, lo, n) = Shown(s, l, n)
  BY DEF Shown
<1> QED BY <1>1 DEF Agree

\* A revert to height k drops what lies above it: the cursor goes down to
\* k + 1 if it is higher, and the client is told of the blocks below it.
LEMMA AgreeCut ==
  ASSUME NEW s \in Seq(Block), \A i \in 1..Len(s) : num[s[i]] = i,
         NEW lo \in Nat \ {0}, NEW h, NEW blk, NEW n \in Nat \ {0}, NEW gone,
         Agree(s, lo, h, blk, n, gone),
         NEW k \in Nat, k < Len(s), NEW m \in Nat \ {0}, m <= n, m <= k + 1,
         m = n \/ m = k + 1,
         NEW drop, drop = {b \in {s[i] : i \in (k + 1)..Len(s)} : num[b] < n}
  PROVE  Agree(Prefix(s, k), lo, h, blk, m, gone \cup drop)
<1> DEFINE p == Prefix(s, k)
<1>1. p \in Seq(Block) /\ Len(p) = k /\ \A i \in 1..k : p[i] = s[i]
  BY PrefixFacts
<1> HIDE DEF p
<1>2. Shown(p, lo, m) = Shown(s, lo, m)
  BY <1>1 DEF Shown
<1>3. n - 1 <= Len(s) /\ Len(s) \in Nat
  BY DEF Agree
<1>4. \A b : b \in drop <=> \E i \in (k + 1)..(n - 1) : b = s[i]
  BY <1>3
<1>5. ASSUME NEW b \in Shown(s, lo, n)
      PROVE  b \notin drop <=> b \in Shown(s, lo, m)
  <2>1. PICK i \in lo..(n - 1) : b = s[i]
    BY DEF Shown
  <2>2. i \in 1..Len(s) /\ num[b] = i
    BY <1>3, <2>1
  <2>3. \A j \in 1..(n - 1) : b = s[j] => j = i
    <3>1. ASSUME NEW j \in 1..(n - 1), b = s[j] PROVE j = i
      <4>1. j \in 1..Len(s)
        BY <1>3
      <4> QED BY <2>2, <3>1, <4>1
    <3> QED BY <3>1
  <2>4. b \in drop <=> i \in (k + 1)..(n - 1)
    BY <1>4, <2>1, <2>3
  <2>5. b \in Shown(s, lo, m) <=> i \in lo..(m - 1)
    <3>1. ASSUME NEW j \in lo..(m - 1), b = s[j] PROVE i \in lo..(m - 1)
      <4>1. j \in 1..(n - 1)
        OBVIOUS
      <4> QED BY <2>3, <3>1, <4>1
    <3> QED BY <2>1, <3>1 DEF Shown
  <2> QED BY <2>4, <2>5
<1>6. Shown(s, lo, m) \subseteq Shown(s, lo, n)
  BY DEF Shown
<1>7. Shown(s, lo, n) \ drop = Shown(s, lo, m)
  BY <1>5, <1>6
<1>8. ~blk => h \ (gone \cup drop) = Shown(s, lo, m)
  BY <1>7 DEF Agree
<1> QED BY <1>1, <1>2, <1>6, <1>8 DEF Agree, p

\* A poll adds the blocks from the cursor to m.
LEMMA AgreeRead ==
  ASSUME NEW s \in Seq(Block), NEW lo \in Nat \ {0}, NEW h, NEW blk,
         NEW n \in Nat \ {0}, NEW gone, Agree(s, lo, h, blk, n, gone), lo <= n,
         blk => gone = {}, blk \in BOOLEAN, NEW m \in Nat, m <= Len(s), n <= m + 1
  PROVE  Agree(s, lo, (h \ gone) \cup {s[i] : i \in n..m}, blk, m + 1, {})
<1> DEFINE f == {s[i] : i \in n..m}
<1>1. Shown(s, lo, m + 1) = Shown(s, lo, n) \cup f
  BY DEF Shown
<1> HIDE DEF f
<1>2. Shown(s, lo, n) \subseteq h \ gone
  BY DEF Agree
<1>3. ~blk => h \ gone = Shown(s, lo, n)
  BY DEF Agree
<1>4. m + 1 <= Len(s) + 1
  OBVIOUS
<1>5. Agree(s, lo, (h \ gone) \cup f, blk, m + 1, {})
  BY <1>1, <1>2, <1>3, <1>4 DEF Agree
<1> QED BY <1>5 DEF f
(***************************************************************************)
(* What holds under every disturbance.                                     *)
(***************************************************************************)
\* The ring buffer has the last reorganisations sent, as many as it can hold.
RingPart ==
  /\ Len(ring) = IF sent < MaxReorgEntries THEN sent ELSE MaxReorgEntries
  /\ \A i \in 1..Len(ring) :
       /\ ring[i].at = sent - Len(ring) + i
       /\ \A b \in ring[i].removed : num[b] > ring[i].ancestor

\* Cold storage has a first part of the chain, whose heights are positions.
ChainPart ==
  /\ \A i \in 1..Len(chain) : num[chain[i]] = i
  /\ Len(cold) <= Len(chain) /\ \A i \in 1..Len(cold) : cold[i] = chain[i]
  /\ npc # "rewind" => latest <= Len(chain)
  /\ Reverting => /\ target = Len(chain)
                  /\ \A b \in dropped : num[b] > target
                  /\ ~slotUsed /\ sent < MaxReorgs

\* The cleaner comes within two TTLs, and a filter misses at most one
\* reorganisation for each slot of its age and one in the current slot.
AgePart ==
  /\ installed => /\ age + cleanIn <= 2 * StaleSlots
                  /\ sent - lastPoll <= age + (IF slotUsed THEN 1 ELSE 0)
  /\ ~installed => age = 0

SafeInv == TypeOK /\ RingPart /\ ChainPart /\ AgePart

\* Initially nothing is stored, sent or installed.
LEMMA SafeInit == Init => SafeInv
<1> SUFFICES ASSUME Init PROVE SafeInv
  OBVIOUS
<1> USE ChainFiltersAssumption DEF Init
<1>1. TypeOK
  <2>1. chain \in Seq(Block) /\ cold \in Seq(Block) /\ ring \in Seq(ReorgNotification)
    OBVIOUS
  <2>2. /\ latest \in Nat /\ target \in Nat /\ Len(ring) <= MaxReorgEntries
        /\ sent \in 0..MaxReorgs /\ cleanIn \in 1..StaleSlots /\ next \in Nat \ {0}
        /\ lastPoll \in 0..sent /\ age \in 0..(2 * StaleSlots - 1)
        /\ start \in Nat \ {0} /\ upTo \in Nat /\ low \in Nat \ {0}
    OBVIOUS
  <2>3. slotUsed \in BOOLEAN /\ installed \in BOOLEAN /\ isBlock \in BOOLEAN
    BY Zenon
  <2>4. /\ npc \in {"idle", "rewind", "notify", "commit"}
        /\ ppc \in {"none", "install", "latest", "read", "commit"}
        /\ dropped \subseteq Block /\ removed \subseteq Block /\ found \subseteq Block
        /\ held \subseteq Block
    OBVIOUS
  <2> QED BY <2>1, <2>2, <2>3, <2>4, Zenon DEF TypeOK
<1>2. RingPart
  BY DEF RingPart
<1>3. ChainPart
  BY DEF ChainPart, Reverting
<1>4. AgePart
  BY DEF AgePart
<1> QED BY <1>1, <1>2, <1>3, <1>4 DEF SafeInv

\* A step that leaves the node's state alone leaves its parts.
LEMMA NodeFrame ==
  ASSUME RingPart, ChainPart, UNCHANGED nodeVars
  PROVE  RingPart' /\ ChainPart'
  BY DEF RingPart, ChainPart, Reverting, nodeVars

\* The node appends a block.
LEMMA AppendSafe ==
  ASSUME SafeInv, AppendBlock
  PROVE  SafeInv'
<1>1. PICK b \in Block : num[b] = Len(chain) + 1 /\ chain' = Append(chain, b)
  BY DEF AppendBlock
<1>2. /\ chain' \in Seq(Block) /\ Len(chain') = Len(chain) + 1 /\ Len(chain) \in Nat
      /\ \A i \in 1..Len(chain) : chain'[i] = chain[i]
      /\ chain'[Len(chain) + 1] = b
  BY <1>1, AppendFacts DEF SafeInv, TypeOK
<1> USE DEF AppendBlock, filterVars, pollVars, clientVars
<1>3. TypeOK'
  BY <1>2 DEF SafeInv, TypeOK
<1>4. RingPart'
  BY DEF SafeInv, RingPart
<1>5. ChainPart'
  <2>1. \A i \in 1..Len(chain') : num[chain'[i]] = i
    BY <1>1, <1>2 DEF SafeInv, ChainPart
  <2>2. Len(cold') <= Len(chain') /\ \A i \in 1..Len(cold') : cold'[i] = chain'[i]
    BY <1>2 DEF SafeInv, ChainPart, TypeOK
  <2>3. latest' <= Len(chain')
    BY <1>2 DEF SafeInv, ChainPart, TypeOK
  <2> QED BY <2>1, <2>2, <2>3 DEF ChainPart, Reverting
<1>6. AgePart'
  BY DEF SafeInv, AgePart
<1> QED BY <1>3, <1>4, <1>5, <1>6 DEF SafeInv

\* Cold storage applies a queued append.
LEMMA ColdSafe ==
  ASSUME SafeInv, ColdApply
  PROVE  SafeInv'
<1>1. /\ Len(cold) \in Nat /\ Len(chain) \in Nat /\ Len(cold) + 1 \in 1..Len(chain)
      /\ chain[Len(cold) + 1] \in Block
  BY DEF SafeInv, TypeOK, ColdApply
<1>2. /\ cold' \in Seq(Block) /\ Len(cold') = Len(cold) + 1
      /\ \A i \in 1..Len(cold) : cold'[i] = cold[i]
      /\ cold'[Len(cold) + 1] = chain[Len(cold) + 1]
  BY <1>1, AppendFacts DEF SafeInv, TypeOK, ColdApply
<1> USE DEF ColdApply, filterVars, pollVars, clientVars
<1>3. TypeOK'
  BY <1>2 DEF SafeInv, TypeOK
<1>4. RingPart'
  BY DEF SafeInv, RingPart
<1>5. ChainPart'
  BY <1>1, <1>2 DEF SafeInv, ChainPart, Reverting
<1>6. AgePart'
  BY DEF SafeInv, AgePart
<1> QED BY <1>3, <1>4, <1>5, <1>6 DEF SafeInv

\* drain_above, the tag's rewind and update.
LEMMA DrainSafe ==
  ASSUME SafeInv, DrainAbove
  PROVE  SafeInv'
<1>1. PICK n \in 0..(Len(chain) - 1) :
        /\ target' = n
        /\ dropped' = {cold[i] : i \in (n + 1)..Len(cold)}
        /\ chain' = Prefix(chain, n)
        /\ cold' = Prefix(cold, Min({n, Len(cold)}))
  BY DEF DrainAbove
<1>2. /\ chain \in Seq(Block) /\ Len(chain) \in Nat /\ cold \in Seq(Block)
      /\ Len(cold) \in Nat /\ n \in Nat /\ n < Len(chain)
  BY DEF SafeInv, TypeOK
<1>3. chain' \in Seq(Block) /\ Len(chain') = n /\ \A i \in 1..n : chain'[i] = chain[i]
  <2>1. n <= Len(chain) /\ chain' = Prefix(chain, n)
    BY <1>1, <1>2
  <2> QED BY ONLY <1>2, <2>1, PrefixFacts
<1>4. PICK m \in Nat : m = Min({n, Len(cold)}) /\ m <= n /\ m <= Len(cold)
  <2>1. {n, Len(cold)} \in SUBSET Nat /\ {n, Len(cold)} # {}
    BY <1>2
  <2> QED BY <1>2, <2>1, MinFacts
<1>5. cold' \in Seq(Block) /\ Len(cold') = m /\ \A i \in 1..m : cold'[i] = cold[i]
  BY <1>1, <1>2, <1>4, PrefixFacts
<1>6. dropped' \subseteq Block /\ \A b \in dropped' : num[b] > n
  <2>1. ASSUME NEW i \in (n + 1)..Len(cold)
        PROVE  cold[i] \in Block /\ num[cold[i]] > n
    <3>1. i \in 1..Len(cold) /\ i \in 1..Len(chain) /\ cold[i] = chain[i]
      BY <1>2 DEF SafeInv, ChainPart
    <3> QED BY <1>2, <3>1 DEF SafeInv, ChainPart
  <2> QED BY <1>1, <2>1
<1> USE DEF DrainAbove, filterVars, pollVars, clientVars
<1>7. TypeOK'
  BY <1>1, <1>2, <1>3, <1>5, <1>6 DEF SafeInv, TypeOK
<1>8. RingPart'
  BY DEF SafeInv, RingPart
<1>9. ChainPart'
  <2>1. \A i \in 1..Len(chain') : num[chain'[i]] = i
    BY <1>2, <1>3 DEF SafeInv, ChainPart
  <2>2. Len(cold') <= Len(chain') /\ \A i \in 1..Len(cold') : cold'[i] = chain'[i]
    <3>1. \A i \in 1..Len(cold) : cold[i] = chain[i]
      BY DEF SafeInv, ChainPart
    <3>2. \A i \in 1..m : i \in 1..Len(cold) /\ i \in 1..n
      BY <1>2, <1>4
    <3> QED BY <1>3, <1>4, <1>5, <3>1, <3>2
  <2> QED BY <1>1, <1>3, <1>6, <2>1, <2>2 DEF ChainPart, Reverting
<1>10. AgePart'
  BY DEF SafeInv, AgePart
<1> QED BY <1>7, <1>8, <1>9, <1>10 DEF SafeInv

\* The latest tag is rewound after the drain, and set after the commits.
LEMMA LatestSafe ==
  ASSUME SafeInv, RewindLatest \/ UpdateLatest
  PROVE  SafeInv'
<1> USE DEF RewindLatest, UpdateLatest, filterVars, pollVars, clientVars
<1>1. latest' \in Nat /\ latest' <= Len(chain)
  <2>1. CASE RewindLatest
    <3>1. latest \in Nat /\ target \in Nat /\ target = Len(chain)
      BY <2>1 DEF SafeInv, TypeOK, ChainPart, Reverting
    <3>2. {latest, target} \in SUBSET Nat /\ {latest, target} # {}
      BY <3>1
    <3>3. latest' \in {latest, target} /\ latest' <= target
      BY <2>1, <3>2, MinFacts
    <3> QED BY <3>1, <3>3
  <2>2. CASE UpdateLatest
    BY <2>2 DEF SafeInv, TypeOK
  <2> QED BY <2>1, <2>2
<1>2. TypeOK'
  BY <1>1 DEF SafeInv, TypeOK
<1>3. RingPart'
  BY DEF SafeInv, RingPart
<1>4. ChainPart'
  BY <1>1 DEF SafeInv, ChainPart, Reverting
<1>5. AgePart'
  BY DEF SafeInv, AgePart
<1> QED BY <1>2, <1>3, <1>4, <1>5 DEF SafeInv
\* The ring buffer after a push: the oldest entry made place if it was full.
LEMMA PushFacts ==
  ASSUME SafeInv, NEW e \in ReorgNotification
  PROVE  \E d \in 0..1 :
           /\ d = IF Len(ring) >= MaxReorgEntries THEN 1 ELSE 0
           /\ PushReorg(e) \in Seq(ReorgNotification)
           /\ Len(PushReorg(e)) = Len(ring) - d + 1 /\ Len(ring) - d \in Nat
           /\ \A i \in 1..(Len(ring) - d) : PushReorg(e)[i] = ring[i + d]
           /\ PushReorg(e)[Len(ring) - d + 1] = e
<1>1. /\ ring \in Seq(ReorgNotification) /\ Len(ring) \in Nat
      /\ MaxReorgEntries \in Nat \ {0}
  BY ChainFiltersAssumption DEF SafeInv, TypeOK
<1>2. CASE Len(ring) >= MaxReorgEntries
  <2>1. PICK t \in Seq(ReorgNotification) :
          /\ t = Tail(ring) /\ Len(t) = Len(ring) - 1
          /\ \A i \in 1..(Len(ring) - 1) : t[i] = ring[i + 1]
    <3>1. ring # <<>>
      BY <1>1, <1>2
    <3> QED BY <1>1, <3>1, QueueFacts
  <2>2. /\ Append(t, e) \in Seq(ReorgNotification) /\ Len(Append(t, e)) = Len(t) + 1
        /\ \A i \in 1..Len(t) : Append(t, e)[i] = t[i]
        /\ Append(t, e)[Len(t) + 1] = e
    BY AppendFacts
  <2>3. PushReorg(e) = Append(t, e)
    BY <1>2, <2>1 DEF PushReorg
  <2> WITNESS 1 \in 0..1
  <2> QED BY <1>1, <1>2, <2>1, <2>2, <2>3
<1>3. CASE ~(Len(ring) >= MaxReorgEntries)
  <2>1. /\ Append(ring, e) \in Seq(ReorgNotification) /\ Len(Append(ring, e)) = Len(ring) + 1
        /\ \A i \in 1..Len(ring) : Append(ring, e)[i] = ring[i]
        /\ Append(ring, e)[Len(ring) + 1] = e
    BY <1>1, AppendFacts
  <2>2. PushReorg(e) = Append(ring, e)
    BY <1>3 DEF PushReorg
  <2> WITNESS 0 \in 0..1
  <2> QED BY <1>1, <1>3, <2>1, <2>2
<1> QED BY <1>2, <1>3

\* The reorganisation the node is about to send.
InFlight == [at |-> sent + 1, ancestor |-> target, removed |-> dropped]

\* It is a notification of its type.
LEMMA InFlightType ==
  ASSUME TypeOK
  PROVE  InFlight \in ReorgNotification
  BY DEF TypeOK, InFlight, ReorgNotification

\* The reorganisation is sent.
LEMMA SendSafe ==
  ASSUME SafeInv, SendReorg
  PROVE  SafeInv'
<1>1. InFlight \in ReorgNotification /\ ring' = PushReorg(InFlight)
  BY InFlightType DEF SafeInv, SendReorg, InFlight
<1>2. PICK d \in 0..1 :
        /\ d = IF Len(ring) >= MaxReorgEntries THEN 1 ELSE 0
        /\ ring' \in Seq(ReorgNotification)
        /\ Len(ring') = Len(ring) - d + 1 /\ Len(ring) - d \in Nat
        /\ \A i \in 1..(Len(ring) - d) : ring'[i] = ring[i + d]
        /\ ring'[Len(ring) - d + 1] = InFlight
  BY <1>1, PushFacts
<1>3. /\ Reverting /\ sent \in Nat /\ sent < MaxReorgs /\ MaxReorgs \in Nat
      /\ Len(ring) \in Nat /\ MaxReorgEntries \in Nat \ {0}
      /\ Len(ring) = IF sent < MaxReorgEntries THEN sent ELSE MaxReorgEntries
  BY ChainFiltersAssumption DEF SafeInv, TypeOK, ChainPart, RingPart, SendReorg, Reverting
<1>4. sent' = sent + 1
  BY DEF SendReorg
<1>5. Len(ring') = IF sent' < MaxReorgEntries THEN sent' ELSE MaxReorgEntries
  BY <1>2, <1>3, <1>4
<1>6. ASSUME NEW i \in 1..Len(ring')
      PROVE  /\ ring'[i].at = sent' - Len(ring') + i
             /\ \A b \in ring'[i].removed : num[b] > ring'[i].ancestor
  <2>1. CASE i = Len(ring) - d + 1
    <3>1. ring'[i] = InFlight
      BY <1>2, <2>1
    <3>2. \A b \in dropped : num[b] > target
      BY <1>3 DEF SafeInv, ChainPart
    <3>3. InFlight.at = sent + 1 /\ InFlight.removed = dropped /\ InFlight.ancestor = target
      BY DEF InFlight
    <3>4. sent' - Len(ring') + i = sent + 1
      BY <1>2, <1>3, <1>4, <2>1
    <3> QED BY <3>1, <3>2, <3>3, <3>4
  <2>2. CASE i # Len(ring) - d + 1
    <3>1. i \in 1..(Len(ring) - d) /\ i + d \in 1..Len(ring) /\ ring'[i] = ring[i + d]
      BY <1>2, <1>3, <2>2
    <3>2. /\ ring[i + d].at = sent - Len(ring) + (i + d)
          /\ \A b \in ring[i + d].removed : num[b] > ring[i + d].ancestor
      BY <3>1 DEF SafeInv, RingPart
    <3>3. sent' - Len(ring') + i = sent - Len(ring) + (i + d)
      BY <1>2, <1>3, <1>4
    <3> QED BY <3>1, <3>2, <3>3
  <2> QED BY <2>1, <2>2
<1> USE DEF SendReorg, filterVars, pollVars, clientVars
<1>7. TypeOK'
  <2>1. Len(ring') <= MaxReorgEntries /\ sent' \in 0..MaxReorgs /\ lastPoll' \in 0..sent'
    BY <1>3, <1>4, <1>5 DEF SafeInv, TypeOK
  <2>2. slotUsed' \in BOOLEAN /\ npc' \in {"idle", "rewind", "notify", "commit"}
    OBVIOUS
  <2> QED BY <1>2, <2>1, <2>2 DEF SafeInv, TypeOK
<1>8. RingPart'
  BY <1>5, <1>6 DEF RingPart
<1>9. ChainPart'
  BY DEF SafeInv, ChainPart, Reverting
<1>10. AgePart'
  <2>1. ~slotUsed /\ slotUsed'
    BY <1>3 DEF SafeInv, ChainPart
  <2>2. age \in Nat /\ lastPoll \in Nat
    BY DEF SafeInv, TypeOK
  <2>3. installed => sent' - lastPoll' <= age' + 1
    BY <1>3, <1>4, <2>1, <2>2 DEF SafeInv, AgePart
  <2> QED BY <2>1, <2>3 DEF SafeInv, AgePart
<1> QED BY <1>7, <1>8, <1>9, <1>10 DEF SafeInv

\* A slot ends: the filter is older, or the cleaner takes it.
LEMMA SlotSafe ==
  ASSUME SafeInv, NextSlot
  PROVE  SafeInv'
<1> USE ChainFiltersAssumption DEF NextSlot, pollVars, clientVars
<1>1. /\ StaleSlots \in Nat \ {0} /\ cleanIn \in 1..StaleSlots /\ age \in Nat
      /\ sent \in Nat /\ lastPoll \in Nat /\ slotUsed \in BOOLEAN
  BY DEF SafeInv, TypeOK
<1>2. cleanIn' \in 1..StaleSlots
  BY <1>1
<1>3. RingPart' /\ ChainPart'
  BY DEF SafeInv, RingPart, ChainPart, Reverting
<1>4. CASE ~installed \/ (cleanIn = 1 /\ age + 1 > StaleSlots)
  <2>1. Uninstalled
    BY <1>4
  <2>2. TypeOK'
    <3>1. lastPoll' \in 0..sent' /\ age' \in 0..(2 * StaleSlots' - 1)
      BY <1>1, <2>1 DEF Uninstalled
    <3>2. installed' \in BOOLEAN /\ isBlock' \in BOOLEAN /\ slotUsed' \in BOOLEAN
      BY <2>1 DEF Uninstalled
    <3> QED BY <1>2, <2>1, <3>1, <3>2 DEF SafeInv, TypeOK, Uninstalled
  <2>3. AgePart'
    BY <2>1 DEF AgePart, Uninstalled
  <2> QED BY <1>3, <2>2, <2>3 DEF SafeInv
<1>5. CASE ~(~installed \/ (cleanIn = 1 /\ age + 1 > StaleSlots))
  <2>1. /\ age' = age + 1 /\ installed
        /\ UNCHANGED <<installed, isBlock, next, lastPoll, held, low>>
    BY <1>5
  <2>2. age + cleanIn <= 2 * StaleSlots /\ sent - lastPoll <= age + 1
    BY <1>1, <2>1 DEF SafeInv, AgePart
  <2>3. age' + cleanIn' <= 2 * StaleSlots /\ sent - lastPoll <= age'
    BY <1>1, <1>5, <2>1, <2>2
  <2>4. age' \in 0..(2 * StaleSlots - 1)
    BY <1>1, <1>2, <2>1, <2>3
  <2>5. TypeOK'
    BY <1>2, <2>1, <2>4 DEF SafeInv, TypeOK
  <2>6. AgePart'
    BY <2>1, <2>3 DEF AgePart
  <2> QED BY <1>3, <2>5, <2>6 DEF SafeInv
<1> QED BY <1>4, <1>5
\* The reorganisations a filter has not been told of.
Pending == ReorgsSince(lastPoll)

\* They are entries of the ring buffer, each above its common ancestor.
LEMMA PendingFacts ==
  ASSUME SafeInv
  PROVE  /\ Pending \in SUBSET ReorgNotification
         /\ \A e \in Pending : /\ e.at > lastPoll /\ e.at <= sent
                               /\ \A b \in e.removed : num[b] > e.ancestor
<1>1. ring \in Seq(ReorgNotification) /\ Len(ring) \in Nat /\ sent \in Nat
  BY DEF SafeInv, TypeOK
<1>2. ASSUME NEW i \in 1..Len(ring), ring[i].at > lastPoll
      PROVE  /\ ring[i] \in ReorgNotification /\ ring[i].at > lastPoll
             /\ ring[i].at <= sent /\ \A b \in ring[i].removed : num[b] > ring[i].ancestor
  <2>1. ring[i] \in ReorgNotification
    BY <1>1
  <2>2. /\ ring[i].at = sent - Len(ring) + i
        /\ \A b \in ring[i].removed : num[b] > ring[i].ancestor
    BY DEF SafeInv, RingPart
  <2>3. ring[i].at <= sent
    BY <1>1, <2>2
  <2> QED BY <1>2, <2>1, <2>2, <2>3
<1> QED BY <1>2 DEF Pending, ReorgsSince

\* A poll starts where the filter's cursor is after them.
LEMMA SnapshotFacts ==
  ASSUME SafeInv, Snapshot
  PROVE  /\ next' = Cut(next, Pending) /\ next' \in Nat \ {0} /\ start' = next'
         /\ removed' = (IF isBlock THEN {} ELSE Taken(next, Pending))
         /\ removed' \subseteq Block
         /\ low' \in Nat \ {0} /\ (low' = low \/ low' = next') /\ low' <= low /\ low' <= next'
<1>1. next' = Cut(next, Pending) /\ start' = next' /\ low' = Min({low, next'})
  BY DEF Snapshot, Pending, Rewound, Cut
<1>2. removed' = IF isBlock THEN {} ELSE Taken(next, Pending)
  <2>1. removed' = IF isBlock THEN {} ELSE RemovedLogs(Pending)
    BY DEF Snapshot, Pending
  <2>2. RemovedLogs(Pending) = Taken(next, Pending)
    BY DEF RemovedLogs, Taken, Rewound, Cut
  <2> QED BY <2>1, <2>2
<1>3. Pending \in SUBSET ReorgNotification /\ next \in Nat \ {0} /\ low \in Nat \ {0}
  BY PendingFacts DEF SafeInv, TypeOK
<1>4. next' \in Nat \ {0}
  BY <1>1, <1>3, CutFacts
<1>5. Taken(next, Pending) \subseteq Block
  BY <1>3 DEF Taken, ReorgNotification
<1>6. {low, next'} \in SUBSET Nat /\ {low, next'} # {}
  BY <1>3, <1>4
<1>7. low' \in {low, next'} /\ low' <= low /\ low' <= next'
  BY <1>1, <1>6, MinFacts
<1> QED BY <1>1, <1>2, <1>3, <1>4, <1>5, <1>7

\* Requests leave the node's state and the cleaner alone.
LEMMA RequestFrame ==
  ASSUME Request
  PROVE  UNCHANGED nodeVars /\ UNCHANGED cleanIn
  BY Zenon DEF Request, NewFilter, Install, UninstallFilter, Snapshot, ReadLatest,
               ReadCold, ReadFails, Commit

\* A filter is installed, polled or removed.
LEMMA RequestSafe ==
  ASSUME SafeInv, Request
  PROVE  SafeInv'
<1> USE DEF nodeVars
<1>1. UNCHANGED nodeVars /\ UNCHANGED cleanIn
  BY RequestFrame
<1>2. RingPart' /\ ChainPart'
  BY <1>1, NodeFrame DEF SafeInv
<1> SUFFICES TypeOK' /\ AgePart'
  BY <1>2 DEF SafeInv
<1>3. CASE NewFilter
  BY <1>1, <1>3 DEF NewFilter, filterVars, clientVars, SafeInv, TypeOK, AgePart
<1>4. CASE Install
  <2>1. /\ StaleSlots \in Nat \ {0} /\ cleanIn \in 1..StaleSlots /\ sent \in Nat
        /\ upTo \in Nat
    BY ChainFiltersAssumption DEF SafeInv, TypeOK
  <2>2. /\ next' \in Nat \ {0} /\ lastPoll' \in 0..sent' /\ age' \in 0..(2 * StaleSlots - 1)
        /\ low' \in Nat \ {0} /\ age' + cleanIn' <= 2 * StaleSlots
        /\ sent' - lastPoll' <= age' + 0 /\ sent' - lastPoll' <= age' + 1
    BY <1>1, <1>4, <2>1 DEF Install
  <2>3. installed' \in BOOLEAN /\ isBlock' \in BOOLEAN /\ installed'
    BY <1>4 DEF Install
  <2>4. TypeOK'
    BY <1>1, <1>4, <2>2, <2>3 DEF Install, Return, SafeInv, TypeOK
  <2> QED BY <2>2, <2>3, <2>4 DEF AgePart
<1>5. CASE UninstallFilter
  <2>1. StaleSlots \in Nat \ {0} /\ sent \in Nat
    BY ChainFiltersAssumption DEF SafeInv, TypeOK
  <2>2. Uninstalled /\ UNCHANGED pollVars
    BY <1>5 DEF UninstallFilter
  <2>3. lastPoll' \in 0..sent' /\ age' \in 0..(2 * StaleSlots - 1)
    BY <1>1, <2>1, <2>2 DEF Uninstalled
  <2>4. installed' \in BOOLEAN /\ isBlock' \in BOOLEAN /\ ~installed' /\ age' = 0
    BY <2>2 DEF Uninstalled
  <2>5. TypeOK'
    BY <1>1, <2>2, <2>3, <2>4 DEF Uninstalled, pollVars, SafeInv, TypeOK
  <2> QED BY <2>4, <2>5 DEF AgePart
<1>6. CASE Snapshot
  <2>1. TypeOK'
    BY <1>1, <1>6, SnapshotFacts DEF Snapshot, SafeInv, TypeOK
  <2>2. AgePart'
    BY <1>1, <1>6 DEF Snapshot, SafeInv, AgePart
  <2> QED BY <2>1, <2>2
<1>7. CASE ReadLatest
  <2>1. ppc' \in {"none", "install", "latest", "read", "commit"}
    BY <1>7 DEF ReadLatest
  <2>2. TypeOK'
    BY <1>1, <1>7, <2>1 DEF ReadLatest, filterVars, clientVars, SafeInv, TypeOK
  <2>3. AgePart'
    BY <1>1, <1>7 DEF ReadLatest, filterVars, SafeInv, AgePart
  <2> QED BY <2>2, <2>3
<1>8. CASE ReadCold
  <2>1. found' \subseteq Block
    <3>1. /\ cold \in Seq(Block) /\ Len(cold) \in Nat /\ upTo \in Nat /\ start \in Nat \ {0}
      BY DEF SafeInv, TypeOK
    <3>2. {upTo, Len(cold)} \in SUBSET Nat /\ {upTo, Len(cold)} # {}
      BY <3>1
    <3>3. PICK m \in Nat : m = Min({upTo, Len(cold)}) /\ m <= Len(cold)
      BY <3>2, MinFacts
    <3>4. found' = {cold[i] : i \in start..m}
      BY <1>8, <3>3 DEF ReadCold
    <3> QED BY <3>1, <3>3, <3>4
  <2>2. TypeOK'
    BY <1>1, <1>8, <2>1 DEF ReadCold, filterVars, clientVars, SafeInv, TypeOK
  <2>3. AgePart'
    BY <1>1, <1>8 DEF ReadCold, filterVars, SafeInv, AgePart
  <2> QED BY <2>2, <2>3
<1>9. CASE ReadFails
  BY <1>1, <1>9 DEF ReadFails, Return, filterVars, clientVars, SafeInv, TypeOK, AgePart
<1>10. CASE Commit
  <2>1. UNCHANGED <<installed, isBlock, low>> /\ Return
    BY <1>10 DEF Commit
  <2>2. CASE installed
    <3>1. /\ StaleSlots \in Nat \ {0} /\ cleanIn \in 1..StaleSlots /\ sent \in Nat
          /\ upTo \in Nat /\ next \in Nat \ {0}
      BY ChainFiltersAssumption DEF SafeInv, TypeOK
    <3>2. /\ next' \in Nat \ {0} /\ lastPoll' \in 0..sent' /\ age' \in 0..(2 * StaleSlots - 1)
          /\ age' + cleanIn' <= 2 * StaleSlots
          /\ sent' - lastPoll' <= age' + 0 /\ sent' - lastPoll' <= age' + 1
      BY <1>1, <1>10, <2>2, <3>1 DEF Commit
    <3>3. held' \subseteq Block
      BY <1>10, <2>2 DEF Commit, SafeInv, TypeOK
    <3>4. TypeOK'
      BY <1>1, <2>1, <3>2, <3>3 DEF Return, SafeInv, TypeOK
    <3> QED BY <2>1, <2>2, <3>2, <3>4 DEF AgePart
  <2>3. CASE ~installed
    <3>1. UNCHANGED <<next, lastPoll, age, held>>
      BY <1>10, <2>3 DEF Commit
    <3> QED BY <1>1, <2>1, <3>1 DEF Return, SafeInv, TypeOK, AgePart
  <2> QED BY <2>2, <2>3
<1> QED BY <1>3, <1>4, <1>5, <1>6, <1>7, <1>8, <1>9, <1>10 DEF Request

\* Every step preserves what holds under every disturbance.
LEMMA SafeStep ==
  ASSUME SafeInv, [Next]_vars
  PROVE  SafeInv'
<1>1. CASE UNCHANGED vars
  <2>1. UNCHANGED nodeVars /\ UNCHANGED cleanIn /\ UNCHANGED filterVars
        /\ UNCHANGED pollVars /\ UNCHANGED clientVars
    BY <1>1 DEF vars
  <2>2. TypeOK'
    BY <2>1 DEF SafeInv, TypeOK, nodeVars, filterVars, pollVars, clientVars
  <2>3. AgePart'
    BY <2>1 DEF SafeInv, AgePart, nodeVars, filterVars
  <2> QED BY <2>1, <2>2, <2>3, NodeFrame DEF SafeInv
<1> QED BY <1>1, AppendSafe, ColdSafe, DrainSafe, LatestSafe, SendSafe, SlotSafe, RequestSafe
        DEF Next, NodeStep

\* It holds in every reachable state.
LEMMA SafeInvariance == Spec => []SafeInv
  BY SafeInit, SafeStep, PTL DEF Spec

\* Every variable keeps its type under every disturbance; in particular the ring
\* buffer never has more than MAX_REORG_ENTRIES entries and the cleaner takes
\* every filter before its age reaches two TTLs.
THEOREM TypeCorrect == Spec => []TypeOK
<1>1. SafeInv => TypeOK
  BY DEF SafeInv
<1> QED BY <1>1, SafeInvariance, PTL
\* The ring buffer still has every reorganisation since the filter's last poll.
Complete == sent - lastPoll <= Len(ring)

\* A buffer with a place for every slot of the TTL is large enough for a filter
\* that is polled within it.
LEMMA PollIsComplete ==
  ASSUME SafeInv, "late_poll" \notin Disturbances, StaleSlots <= MaxReorgEntries, Snapshot
  PROVE  Complete
<1>1. /\ StaleSlots \in Nat /\ MaxReorgEntries \in Nat /\ age \in Nat /\ sent \in Nat
      /\ lastPoll \in Nat /\ Len(ring) \in Nat /\ lastPoll <= sent
  BY ChainFiltersAssumption DEF SafeInv, TypeOK
<1>2. age < StaleSlots /\ installed
  BY DEF Snapshot
<1>3. sent - lastPoll <= age + 1
  BY <1>1, <1>2 DEF SafeInv, AgePart
<1>4. Len(ring) = IF sent < MaxReorgEntries THEN sent ELSE MaxReorgEntries
  BY DEF SafeInv, RingPart
<1> QED BY <1>1, <1>2, <1>3, <1>4 DEF Complete

\* A poll within the TTL finds every reorganisation sent since the last one in
\* the ring buffer, if the buffer has a place for every slot of the TTL,
\* whatever else overlaps the poll.
THEOREM PollsAlwaysSeeEveryReorg ==
  ASSUME "late_poll" \notin Disturbances, StaleSlots <= MaxReorgEntries
  PROVE  Spec => PollsSeeEveryReorg
<1> DEFINE Begins == ppc = "none" /\ ppc' = "latest"
           Seen == \A s \in (lastPoll + 1)..sent : \E i \in 1..Len(ring) : ring[i].at = s
<1>1. ASSUME [Next]_vars, Begins
      PROVE  Snapshot
  <2>1. \/ UNCHANGED ppc \/ ppc' = "none" \/ ppc' = "install" \/ ppc # "none" \/ Snapshot
    BY <1>1, Zenon
       DEF Next, NodeStep, Request, vars, pollVars, AppendBlock, ColdApply, UpdateLatest,
           DrainAbove, RewindLatest, SendReorg, NextSlot, NewFilter, Install, Return,
           UninstallFilter, ReadLatest, ReadCold, ReadFails, Commit
  <2> QED BY <1>1, <2>1
<1>2. ASSUME SafeInv, Snapshot
      PROVE  Seen
  <2>1. Complete
    BY <1>2, PollIsComplete
  <2>2. sent \in Nat /\ lastPoll \in Nat /\ Len(ring) \in Nat
    BY <1>2 DEF SafeInv, TypeOK
  <2>3. ASSUME NEW s \in (lastPoll + 1)..sent
        PROVE  \E i \in 1..Len(ring) : ring[i].at = s
    <3>1. PICK i \in Int : i = s - sent + Len(ring)
      BY <2>2
    <3>2. i \in 1..Len(ring)
      BY <2>1, <2>2, <3>1 DEF Complete
    <3>3. ring[i].at = sent - Len(ring) + i
      BY <1>2, <3>2 DEF SafeInv, RingPart
    <3>4. ring[i].at = s
      BY <2>2, <3>1, <3>3
    <3> QED BY <3>2, <3>4
  <2> QED BY <2>3
<1>3. SafeInv /\ [Next]_vars => [Begins => Seen]_vars
  BY <1>1, <1>2
<1> QED BY <1>3, SafeInvariance, PTL DEF Spec, PollsSeeEveryReorg

(***************************************************************************)
(* Without disturbances.                                                   *)
(***************************************************************************)
\* No disturbance, and a buffer as large as its comment says it is.
Calm == Disturbances = {} /\ StaleSlots <= MaxReorgEntries

\* The reorganisations a client has still to be told of, the one under way
\* included.
Owed == Pending \cup (IF Reverting THEN {InFlight} ELSE {})

\* No revert and request overlap.
QuietPart == ppc # "none" => ~Reverting

\* Between polls: told of what it is owed, the client has the chain below its
\* cursor.
HoldPart ==
  installed /\ ppc = "none" /\ Complete =>
    Agree(chain, low, held, isBlock, Cut(next, Owed), Taken(next, Owed))

\* In a poll: the same with the removals it will return, and what it has read
\* is the chain from its start block on.
PollPart ==
  /\ ppc = "install" => upTo <= Len(chain) /\ ~installed
  /\ ppc \in {"read", "commit"} => upTo <= Len(chain)
  /\ ppc = "read" => start <= upTo
  /\ ppc = "commit" => found = {chain[i] : i \in start..upTo}
  /\ installed /\ ppc \in {"latest", "read", "commit"} =>
       /\ start = next /\ low <= start
       /\ Agree(chain, low, held, isBlock, start, removed)
       /\ isBlock => removed = {}
       /\ \A e \in Pending : start <= e.ancestor + 1

FilterInv == SafeInv /\ QuietPart /\ HoldPart /\ PollPart

\* What is owed are notifications of blocks above their common ancestor.
LEMMA OwedFacts ==
  ASSUME SafeInv
  PROVE  /\ Owed \in SUBSET ReorgNotification
         /\ \A e \in Owed : \A b \in e.removed : num[b] > e.ancestor
<1>1. InFlight \in ReorgNotification
  BY InFlightType DEF SafeInv
<1>2. Reverting => \A b \in InFlight.removed : num[b] > InFlight.ancestor
  BY DEF SafeInv, ChainPart, InFlight
<1> QED BY <1>1, <1>2, PendingFacts DEF Owed

\* A step that sends nothing and neither starts nor ends a revert leaves what
\* is owed alone.
LEMMA OwedFrame ==
  ASSUME UNCHANGED <<ring, sent, lastPoll, target, dropped>>, Reverting' <=> Reverting
  PROVE  Owed' = Owed /\ Pending' = Pending /\ Complete' = Complete
  BY DEF Owed, Pending, ReorgsSince, InFlight, Complete

\* Initially there is no filter.
LEMMA FilterInit == Init => FilterInv
<1> SUFFICES ASSUME Init PROVE FilterInv
  OBVIOUS
<1>1. QuietPart /\ HoldPart /\ PollPart
  BY DEF Init, QuietPart, HoldPart, PollPart
<1> QED BY <1>1, SafeInit DEF FilterInv

\* After a poll and after an installation nothing is owed.
LEMMA NothingOwed ==
  ASSUME SafeInv, ~Reverting, lastPoll = sent
  PROVE  Owed = {}
<1>1. sent \in Nat
  BY DEF SafeInv, TypeOK
<1>2. \A e \in Pending : e.at > sent /\ e.at <= sent /\ e.at \in Nat
  BY PendingFacts DEF ReorgNotification
<1> QED BY <1>1, <1>2 DEF Owed
\* The same after a step.
LEMMA NothingOwedNext ==
  (SafeInv /\ ~Reverting /\ lastPoll = sent => Owed = {})'
<1>1. SafeInv /\ ~Reverting /\ lastPoll = sent => Owed = {}
  BY NothingOwed
<1> QED BY <1>1, PTL

\* A step in which the chain at most grows and the filter and its request stay.
LEMMA CalmFrame ==
  ASSUME FilterInv, SafeInv',
         UNCHANGED <<ring, sent, target, dropped>>, Reverting' <=> Reverting,
         UNCHANGED <<installed, isBlock, next, lastPoll>>,
         UNCHANGED pollVars, UNCHANGED clientVars,
         Len(chain) <= Len(chain'), \A i \in 1..Len(chain) : chain'[i] = chain[i]
  PROVE  QuietPart' /\ HoldPart' /\ PollPart'
<1> USE DEF pollVars, clientVars
<1>1. /\ chain \in Seq(Block) /\ chain' \in Seq(Block) /\ Len(chain) \in Nat
      /\ Len(chain') \in Nat /\ low \in Nat \ {0} /\ next \in Nat \ {0}
      /\ start \in Nat \ {0} /\ upTo \in Nat
  BY DEF FilterInv, SafeInv, TypeOK
<1>2. Owed' = Owed /\ Pending' = Pending /\ Complete' = Complete
  BY OwedFrame
<1>3. QuietPart'
  BY DEF FilterInv, QuietPart
<1>4. ASSUME NEW n \in Nat \ {0}, NEW gone, Agree(chain, low, held, isBlock, n, gone)
      PROVE  Agree(chain', low, held, isBlock, n, gone)
  <2>1. n <= Len(chain) + 1
    BY <1>4 DEF Agree
  <2>2. n <= Len(chain') + 1 /\ \A i \in 1..(n - 1) : chain'[i] = chain[i]
    BY <1>1, <2>1
  <2> QED BY <1>1, <1>4, <2>2, AgreeSame
<1>5. HoldPart'
  <2>1. Cut(next, Owed) \in Nat \ {0}
    BY <1>1, OwedFacts, CutFacts DEF FilterInv
  <2> QED BY <1>2, <1>4, <2>1 DEF FilterInv, HoldPart
<1>6. PollPart'
  <2>1. upTo <= Len(chain) => upTo <= Len(chain')
    BY <1>1
  <2>2. upTo <= Len(chain) =>
          {chain'[i] : i \in start..upTo} = {chain[i] : i \in start..upTo}
    <3>1. ASSUME upTo <= Len(chain), NEW i \in start..upTo PROVE chain'[i] = chain[i]
      BY <1>1, <3>1
    <3> QED BY <3>1
  <2>3. installed /\ ppc \in {"latest", "read", "commit"} =>
          Agree(chain', low, held, isBlock, start, removed)
    BY <1>1, <1>4 DEF FilterInv, PollPart
  <2> QED BY <1>2, <2>1, <2>2, <2>3 DEF FilterInv, PollPart
<1> QED BY <1>3, <1>5, <1>6

\* A step that removes the filter, or finds none.
LEMMA GoneFrame ==
  ASSUME FilterInv, ~installed', UNCHANGED <<chain, npc>>, UNCHANGED pollVars
  PROVE  QuietPart' /\ HoldPart' /\ PollPart'
<1> USE DEF pollVars
<1>1. QuietPart'
  BY DEF FilterInv, QuietPart, Reverting
<1>2. HoldPart'
  BY DEF HoldPart
<1>3. PollPart'
  BY DEF FilterInv, PollPart
<1> QED BY <1>1, <1>2, <1>3

\* The node appends, cold storage follows, tags are set, a slot ends.
LEMMA GrowStep ==
  ASSUME FilterInv, SafeInv',
         AppendBlock \/ ColdApply \/ UpdateLatest \/ RewindLatest \/ NextSlot
  PROVE  QuietPart' /\ HoldPart' /\ PollPart'
<1>1. chain \in Seq(Block) /\ Len(chain) \in Nat
  BY DEF FilterInv, SafeInv, TypeOK
<1>2. CASE AppendBlock
  <2>1. Len(chain) <= Len(chain') /\ \A i \in 1..Len(chain) : chain'[i] = chain[i]
    <3>1. PICK b \in Block : chain' = Append(chain, b)
      BY <1>2 DEF AppendBlock
    <3> QED BY <1>1, <3>1, AppendFacts
  <2>2. Reverting' <=> Reverting
    BY <1>2 DEF AppendBlock, Reverting
  <2> QED BY <1>2, <2>1, <2>2, CalmFrame DEF AppendBlock, filterVars
<1>3. CASE ColdApply \/ UpdateLatest \/ RewindLatest
  <2>1. Len(chain) <= Len(chain') /\ \A i \in 1..Len(chain) : chain'[i] = chain[i]
    BY <1>1, <1>3 DEF ColdApply, UpdateLatest, RewindLatest
  <2>2. Reverting' <=> Reverting
    BY <1>3 DEF ColdApply, UpdateLatest, RewindLatest, Reverting
  <2> QED BY <1>3, <2>1, <2>2, CalmFrame DEF ColdApply, UpdateLatest, RewindLatest, filterVars
<1>4. CASE NextSlot
  <2>1. UNCHANGED <<chain, npc, target, dropped, ring, sent>> /\ UNCHANGED pollVars
    BY <1>4 DEF NextSlot
  <2>2. CASE ~installed \/ (cleanIn = 1 /\ age + 1 > StaleSlots)
    <3>1. ~installed'
      BY <1>4, <2>2 DEF NextSlot, Uninstalled
    <3> QED BY <2>1, <3>1, GoneFrame
  <2>3. CASE ~(~installed \/ (cleanIn = 1 /\ age + 1 > StaleSlots))
    <3>1. UNCHANGED <<installed, isBlock, next, lastPoll>> /\ UNCHANGED clientVars
      BY <1>4, <2>3 DEF NextSlot
    <3>2. Reverting' <=> Reverting
      BY <2>1 DEF Reverting
    <3>3. Len(chain) <= Len(chain') /\ \A i \in 1..Len(chain) : chain'[i] = chain[i]
      BY <1>1, <2>1
    <3> QED BY <2>1, <3>1, <3>2, <3>3, CalmFrame
  <2> QED BY <2>2, <2>3
<1> QED BY <1>2, <1>3, <1>4

\* drain_above begins a revert between two polls: what it drops is owed.
LEMMA DrainStep ==
  ASSUME Calm, FilterInv, SafeInv', DrainAbove
  PROVE  QuietPart' /\ HoldPart' /\ PollPart'
<1>a. sent \in Nat /\ sent' \in Nat /\ target' \in Nat /\ dropped' \in SUBSET Block
  <2>1. TypeOK /\ TypeOK'
    BY DEF FilterInv, SafeInv
  <2>2. sent \in 0..MaxReorgs /\ MaxReorgs \in Nat /\ sent' = sent
    BY <2>1, ChainFiltersAssumption DEF TypeOK, DrainAbove
  <2>3. target' \in Nat /\ dropped' \subseteq Block
    BY <2>1 DEF TypeOK
  <2> QED BY ONLY <2>2, <2>3
<1>b. InFlight' \in ReorgNotification
  <2>0. PICK a \in Nat \ {0} : a = sent' + 1
    <3>1. sent \in Nat /\ sent' = sent
      BY <1>a DEF DrainAbove
    <3> QED BY <3>1
  <2>1. PICK t \in Nat, r \in SUBSET Block : t = target' /\ r = dropped'
    BY <1>a, Zenon
  <2>2. [at |-> a, ancestor |-> t, removed |-> r] \in ReorgNotification
    BY ONLY r \in SUBSET Block, a \in Nat \ {0}, t \in Nat DEF ReorgNotification
  <2>3. InFlight' = [at |-> a, ancestor |-> t, removed |-> r]
    BY <2>0, <2>1 DEF InFlight
  <2> QED BY <2>2, <2>3
<1>c. SafeInv
  BY DEF FilterInv
<1>d. Pending \in SUBSET ReorgNotification /\ \A f \in Pending : f.at \in Nat /\ f.at <= sent
  <2>1. Pending \in SUBSET ReorgNotification /\ \A f \in Pending : f.at <= sent
    BY <1>c, PendingFacts
  <2> QED BY <2>1 DEF ReorgNotification
<1>1. PICK n \in 0..(Len(chain) - 1) :
        /\ target' = n
        /\ dropped' = {cold[i] : i \in (n + 1)..Len(cold)}
        /\ chain' = Prefix(chain, n)
  BY DEF DrainAbove
<1>2. /\ cold = chain /\ ppc = "none" /\ npc = "idle" /\ npc' = "rewind"
      /\ UNCHANGED <<ring, sent>> /\ UNCHANGED filterVars /\ UNCHANGED pollVars
      /\ UNCHANGED clientVars
  BY DEF Calm, DrainAbove
<1>3. ~Reverting /\ Reverting'
  BY <1>2 DEF Reverting
<1>4. ppc' = "none"
  BY <1>2 DEF pollVars
<1>5. QuietPart' /\ PollPart'
  BY <1>4 DEF QuietPart, PollPart
<1>6. HoldPart'
  <2> SUFFICES ASSUME installed', Complete'
               PROVE  Agree(chain', low', held', isBlock', Cut(next', Owed'), Taken(next', Owed'))
    BY DEF HoldPart
  <2>1. /\ UNCHANGED <<installed, isBlock, next, lastPoll, low, held>> /\ installed /\ Complete
    BY <1>2 DEF filterVars, clientVars, Complete
  <2>2. PICK e \in ReorgNotification :
          e = InFlight' /\ e.ancestor = n /\ e.removed = dropped' /\ e.at = sent + 1
    BY <1>1, <1>2, <1>b DEF InFlight
  <2>3. Owed = Pending /\ Owed' = Pending \cup {e}
    <3>1. Pending' = Pending
      BY <1>2, <2>1 DEF Pending, ReorgsSince
    <3> QED BY <1>3, <2>2, <3>1 DEF Owed
  <2>4. Agree(chain, low, held, isBlock, Cut(next, Pending), Taken(next, Pending))
    BY <1>2, <2>1, <2>3 DEF FilterInv, HoldPart
  <2>5. /\ Pending \in SUBSET ReorgNotification /\ \A f \in Pending : f.at < e.at
    BY <1>a, <1>d, <2>2
  <2>6. /\ chain \in Seq(Block) /\ Len(chain) \in Nat /\ low \in Nat \ {0}
        /\ next \in Nat \ {0} /\ n \in Nat /\ n < Len(chain)
        /\ \A i \in 1..Len(chain) : num[chain[i]] = i
    <3>1. /\ chain \in Seq(Block) /\ low \in Nat \ {0} /\ next \in Nat \ {0}
      BY DEF FilterInv, SafeInv, TypeOK
    <3>2. \A i \in 1..Len(chain) : num[chain[i]] = i
      BY DEF FilterInv, SafeInv, ChainPart
    <3>3. Len(chain) \in Nat
      BY <3>1
    <3>4. n \in Nat /\ n < Len(chain)
      BY <3>3
    <3> QED BY <3>1, <3>2, <3>3, <3>4
  <2>7. PICK c \in Nat \ {0} : c = Cut(next, Pending)
    BY <2>5, <2>6, CutFacts
  <2>8. PICK m \in Nat \ {0} : m = Cut(next, Pending \cup {e})
    <3>1. Pending \cup {e} \in SUBSET ReorgNotification
      BY <2>5
    <3> QED BY <2>6, <3>1, CutFacts
  <2>9. /\ m <= c /\ m <= n + 1 /\ (m = c \/ m = n + 1)
        /\ Taken(next, Pending \cup {e}) =
             Taken(next, Pending) \cup {b \in e.removed : num[b] < c}
    <3>1. /\ m <= c /\ m <= e.ancestor + 1 /\ (m = c \/ m = e.ancestor + 1)
          /\ Taken(next, Pending \cup {e}) =
               Taken(next, Pending) \cup {b \in e.removed : num[b] < Cut(next, Pending)}
      <4>1. next \in Nat \ {0}
        BY <2>6
      <4>2. /\ Cut(next, Pending \cup {e}) <= Cut(next, Pending)
            /\ Cut(next, Pending \cup {e}) <= e.ancestor + 1
            /\ Cut(next, Pending \cup {e}) = Cut(next, Pending)
                 \/ Cut(next, Pending \cup {e}) = e.ancestor + 1
            /\ Taken(next, Pending \cup {e}) =
                 Taken(next, Pending) \cup {b \in e.removed : num[b] < Cut(next, Pending)}
        BY ONLY <2>5, <4>1, CutMore, e \in ReorgNotification
      <4> QED BY ONLY <2>7, <2>8, <4>2
    <3>2. e.ancestor = n
      BY <2>2
    <3> QED BY ONLY <2>7, <3>1, <3>2
  <2>10. PICK drop : /\ drop = {b \in e.removed : num[b] < c}
                     /\ drop = {b \in {chain[i] : i \in (n + 1)..Len(chain)} : num[b] < c}
    <3>1. e.removed = {chain[i] : i \in (n + 1)..Len(chain)}
      BY <1>1, <1>2, <2>2
    <3> QED BY ONLY <3>1
  <2>11. Agree(chain, low, held, isBlock, c, Taken(next, Pending))
    BY <2>4, <2>7
  <2>12. Agree(Prefix(chain, n), low, held, isBlock, m, Taken(next, Pending) \cup drop)
    BY ONLY <2>6, <2>7, <2>8, <2>9, <2>10, <2>11, AgreeCut
  <2> QED BY <1>1, <2>1, <2>3, <2>8, <2>9, <2>10, <2>12
<1> QED BY <1>5, <1>6
\* The reorganisation under way enters the ring buffer: what is owed stays.
LEMMA SendStep ==
  ASSUME FilterInv, SafeInv', SendReorg
  PROVE  QuietPart' /\ HoldPart' /\ PollPart'
<1>1. /\ npc = "notify" /\ npc' = "commit" /\ sent' = sent + 1 /\ UNCHANGED chain
      /\ UNCHANGED filterVars /\ UNCHANGED pollVars /\ UNCHANGED clientVars
      /\ ring' = PushReorg(InFlight)
  BY DEF SendReorg, InFlight
<1>2. Reverting /\ ~Reverting'
  BY <1>1 DEF Reverting
<1>3. SafeInv /\ ppc = "none" /\ ppc' = "none"
  BY <1>1, <1>2 DEF FilterInv, QuietPart, pollVars
<1>4. QuietPart' /\ PollPart'
  BY <1>3 DEF QuietPart, PollPart
<1>5. HoldPart'
  <2> SUFFICES ASSUME installed', Complete'
               PROVE  Agree(chain', low', held', isBlock', Cut(next', Owed'), Taken(next', Owed'))
    BY DEF HoldPart
  <2>1. UNCHANGED <<installed, isBlock, next, lastPoll, low, held, chain>> /\ installed
    BY <1>1 DEF filterVars, clientVars
  <2>2. InFlight \in ReorgNotification
    BY <1>3, InFlightType DEF SafeInv
  <2>3. PICK d \in 0..1 :
          /\ ring' \in Seq(ReorgNotification)
          /\ Len(ring') = Len(ring) - d + 1 /\ Len(ring) - d \in Nat
          /\ \A i \in 1..(Len(ring) - d) : ring'[i] = ring[i + d]
          /\ ring'[Len(ring) - d + 1] = InFlight
    BY <1>1, <1>3, <2>2, PushFacts
  <2>4. /\ sent \in Nat /\ lastPoll \in Nat /\ lastPoll <= sent /\ Len(ring) \in Nat
    BY <1>3, ChainFiltersAssumption DEF SafeInv, TypeOK
  <2>5. sent + 1 - lastPoll <= Len(ring) - d + 1
    <3>1. sent' - lastPoll' <= Len(ring')
      BY DEF Complete
    <3>2. sent' = sent + 1 /\ lastPoll' = lastPoll /\ Len(ring') = Len(ring) - d + 1
      BY <1>1, <2>1, <2>3
    <3> QED BY <2>4, <3>1, <3>2
  <2>6. Complete
    BY <2>4, <2>5 DEF Complete
  <2>7. \A i \in 1..Len(ring) : ring[i].at = sent - Len(ring) + i
    BY <1>3 DEF SafeInv, RingPart
  <2>8. ASSUME NEW i \in 1..Len(ring'), ring'[i].at > lastPoll
        PROVE  ring'[i] \in Pending \cup {InFlight}
    <3>1. CASE i = Len(ring) - d + 1
      BY <2>3, <3>1
    <3>2. CASE i # Len(ring) - d + 1
      <4>1. i \in 1..(Len(ring) - d) /\ i + d \in 1..Len(ring)
        BY <2>3, <2>4, <3>2
      <4>2. ring'[i] = ring[i + d] /\ ring[i + d].at > lastPoll
        BY <2>3, <2>8, <4>1
      <4>3. ring[i + d] \in Pending
        BY <4>1, <4>2 DEF Pending, ReorgsSince
      <4> QED BY <4>2, <4>3
    <3> QED BY <3>1, <3>2
  <2>9. ASSUME NEW j \in 1..Len(ring), ring[j].at > lastPoll
        PROVE  ring[j] \in Pending'
    <3>1. sent - Len(ring) + j > lastPoll
      BY <2>7, <2>9
    <3>2. PICK i \in Nat : i = j - d /\ i \in 1..(Len(ring) - d) /\ i + d = j
      BY <2>4, <2>5, <3>1
    <3>3. ring'[i] = ring[j] /\ i \in 1..Len(ring')
      BY <2>3, <3>2
    <3>4. ring'[i].at > lastPoll'
      BY <2>1, <2>9, <3>3
    <3> QED BY <3>3, <3>4 DEF Pending, ReorgsSince
  <2>10. InFlight \in Pending'
    <3>1. InFlight.at > lastPoll'
      BY <2>1, <2>4 DEF InFlight
    <3>2. PICK i \in Nat : i = Len(ring) - d + 1 /\ i \in 1..Len(ring')
      <4>1. PICK l \in Nat : l = Len(ring) - d
        BY <2>3
      <4>2. l + 1 = Len(ring) - d + 1 /\ l + 1 \in 1..Len(ring')
        BY <2>3, <4>1
      <4> QED BY <4>2
    <3>3. ring'[i] = InFlight /\ ring'[i].at > lastPoll'
      BY <2>3, <3>1, <3>2
    <3> QED BY <3>2, <3>3 DEF Pending, ReorgsSince
  <2>11. Pending' = Pending \cup {InFlight}
    <3>1. Pending' \subseteq Pending \cup {InFlight}
      BY <2>1, <2>8 DEF Pending, ReorgsSince
    <3>2. Pending \subseteq Pending'
      BY <2>9 DEF Pending, ReorgsSince
    <3> QED BY <2>10, <3>1, <3>2
  <2>12. Owed' = Owed
    BY <1>2, <2>11 DEF Owed
  <2> QED BY <1>3, <2>1, <2>6, <2>12 DEF FilterInv, HoldPart
<1> QED BY <1>4, <1>5

\* A filter is installed: its client holds nothing and is owed nothing.
LEMMA InstallStep ==
  ASSUME Calm, FilterInv, SafeInv', NewFilter \/ Install \/ UninstallFilter
  PROVE  QuietPart' /\ HoldPart' /\ PollPart'
<1>1. CASE NewFilter
  <2>1. /\ ppc' = "install" /\ ~installed /\ ~Reverting /\ upTo' = latest
        /\ UNCHANGED nodeVars /\ UNCHANGED filterVars
    BY <1>1 DEF Calm, NewFilter
  <2>2. latest <= Len(chain)
    BY <2>1 DEF FilterInv, SafeInv, ChainPart, Reverting
  <2>3. QuietPart'
    BY <2>1 DEF QuietPart, Reverting, nodeVars
  <2>4. HoldPart'
    BY <2>1 DEF HoldPart
  <2>5. PollPart'
    BY <2>1, <2>2 DEF PollPart, nodeVars, filterVars
  <2> QED BY <2>3, <2>4, <2>5
<1>2. CASE Install
  <2>1. /\ ppc = "install" /\ ppc' = "none" /\ lastPoll' = sent /\ held' = {}
        /\ next' = upTo + 1 /\ low' = upTo + 1 /\ UNCHANGED nodeVars
    BY <1>2 DEF Install, Return
  <2>2. ~Reverting' /\ upTo \in Nat /\ upTo <= Len(chain) /\ chain \in Seq(Block)
    BY <2>1 DEF FilterInv, QuietPart, PollPart, SafeInv, TypeOK, Reverting, nodeVars
  <2>3. Owed' = {}
    <3>1. lastPoll' = sent'
      BY <2>1 DEF nodeVars
    <3> QED BY <2>2, <3>1, NothingOwedNext
  <2>4. PICK n \in Nat \ {0} : n = upTo + 1 /\ n <= Len(chain) + 1
    BY <2>2
  <2>5. Agree(chain, n, {}, isBlock', n, {})
    BY <2>2, <2>4, AgreeEmpty
  <2>6. Cut(n, {}) = n /\ Taken(n, {}) = {}
    BY CutNone
  <2>7. HoldPart'
    <3>1. chain' = chain /\ low' = n /\ next' = n /\ held' = {}
      BY <2>1, <2>4 DEF nodeVars
    <3> QED BY <2>3, <2>5, <2>6, <3>1 DEF HoldPart
  <2>8. QuietPart' /\ PollPart'
    BY <2>1 DEF QuietPart, PollPart
  <2> QED BY <2>7, <2>8
<1>3. CASE UninstallFilter
  <2>1. ~installed' /\ UNCHANGED <<chain, npc>> /\ UNCHANGED pollVars
    BY <1>3 DEF UninstallFilter, Uninstalled, nodeVars
  <2> QED BY <2>1, GoneFrame
<1> QED BY <1>1, <1>2, <1>3
\* A poll takes what is owed and moves the cursor.
LEMMA SnapshotStep ==
  ASSUME Calm, FilterInv, SafeInv', Snapshot
  PROVE  QuietPart' /\ HoldPart' /\ PollPart'
<1>1. /\ ppc = "none" /\ ppc' = "latest" /\ installed /\ ~Reverting
      /\ UNCHANGED nodeVars /\ UNCHANGED <<installed, isBlock, lastPoll, held>>
  BY DEF Calm, Snapshot
<1>2. SafeInv /\ Complete
  BY PollIsComplete DEF Calm, FilterInv
<1>3. PICK c \in Nat \ {0} : c = Cut(next, Pending) /\ next' = c /\ start' = c
  BY <1>2, SnapshotFacts
<1>4. PICK l \in Nat \ {0} : l = low' /\ (l = low \/ l = c) /\ l <= low /\ l <= c
  BY <1>2, <1>3, SnapshotFacts
<1>5. PICK r : r = removed' /\ r = IF isBlock THEN {} ELSE Taken(next, Pending)
  BY <1>2, SnapshotFacts
<1>6. Agree(chain, low, held, isBlock, c, Taken(next, Pending))
  BY <1>1, <1>2, <1>3 DEF FilterInv, HoldPart, Owed
<1>7. chain \in Seq(Block) /\ low \in Nat \ {0} /\ next \in Nat \ {0} /\ isBlock \in BOOLEAN
  BY <1>2 DEF SafeInv, TypeOK
<1>8. Agree(chain, low, held, isBlock, c, r)
  BY <1>5, <1>6 DEF Agree
<1>9. Agree(chain, l, held, isBlock, c, r)
  BY ONLY <1>4, <1>7, <1>8, AgreeLow, c \in Nat \ {0}
<1>10. Pending' = Pending /\ \A e \in Pending : c <= e.ancestor + 1
  <2>1. Pending' = Pending
    BY <1>1 DEF Pending, ReorgsSince, nodeVars
  <2> QED BY <1>2, <1>3, <1>7, <2>1, PendingFacts, CutFacts
<1>11. PollPart'
  <2>1. chain' = chain
    BY <1>1 DEF nodeVars
  <2>2. Agree(chain', low', held', isBlock', start', removed')
    BY <1>1, <1>3, <1>4, <1>5, <1>9, <2>1
  <2>3. isBlock' => removed' = {}
    BY <1>1, <1>5
  <2>4. start' = next' /\ low' <= start'
    BY <1>3, <1>4
  <2> QED BY <1>1, <1>3, <1>10, <2>2, <2>3, <2>4 DEF PollPart
<1>12. QuietPart'
  BY <1>1 DEF QuietPart, Reverting, nodeVars
<1>13. HoldPart'
  BY <1>1 DEF HoldPart
<1> QED BY <1>11, <1>12, <1>13

\* The range of a poll is read while the chain only grows.
LEMMA ReadStep ==
  ASSUME Calm, FilterInv, SafeInv', ReadLatest \/ ReadCold
  PROVE  QuietPart' /\ HoldPart' /\ PollPart'
<1>1. /\ ppc \in {"latest", "read"} /\ ppc' \in {"read", "commit"} /\ UNCHANGED nodeVars
      /\ UNCHANGED filterVars /\ UNCHANGED <<start, removed>> /\ UNCHANGED clientVars
  BY DEF ReadLatest, ReadCold
<1>2. ~Reverting /\ SafeInv
  BY <1>1 DEF FilterInv, QuietPart
<1>3. QuietPart'
  BY <1>2, <1>1 DEF QuietPart, Reverting, nodeVars
<1>4. HoldPart'
  BY <1>1 DEF HoldPart
<1>5. /\ chain \in Seq(Block) /\ Len(chain) \in Nat /\ upTo \in Nat /\ latest \in Nat
      /\ start \in Nat \ {0} /\ latest <= Len(chain) /\ Len(cold) \in Nat
  <2>1. /\ chain \in Seq(Block) /\ cold \in Seq(Block) /\ upTo \in Nat /\ latest \in Nat
        /\ start \in Nat \ {0}
    BY <1>2 DEF SafeInv, TypeOK
  <2>2. latest <= Len(chain)
    BY <1>2 DEF SafeInv, ChainPart, Reverting
  <2> QED BY <2>1, <2>2
<1>6. /\ upTo' <= Len(chain) /\ (ppc' = "read" => start <= upTo')
      /\ ppc' = "commit" => found' = {chain[i] : i \in start..upTo'}
  <2>1. CASE ReadLatest
    <3>1. upTo' = latest /\ found' = {} /\ ppc' = IF start > latest THEN "commit" ELSE "read"
      BY <2>1 DEF ReadLatest
    <3>2. start > latest => {chain[i] : i \in start..latest} = {}
      BY <1>5
    <3>3. ~(start > latest) => start <= latest
      BY <1>5
    <3> QED BY <1>5, <3>1, <3>2, <3>3
  <2>2. CASE ReadCold
    <3>1. /\ ppc = "read" /\ ppc' = "commit" /\ upTo' = upTo /\ upTo <= Len(cold)
          /\ found' = {cold[i] : i \in start..Min({upTo, Len(cold)})}
      BY <2>2 DEF Calm, ReadCold
    <3>2. Min({upTo, Len(cold)}) = upTo
      <4>1. {upTo, Len(cold)} \in SUBSET Nat /\ {upTo, Len(cold)} # {}
        BY <1>5
      <4> QED BY <1>5, <3>1, <4>1, MinFacts
    <3>3. \A i \in start..upTo : cold[i] = chain[i]
      <4>1. \A i \in 1..Len(cold) : cold[i] = chain[i]
        BY <1>2 DEF SafeInv, ChainPart
      <4> QED BY <1>5, <3>1, <4>1
    <3>4. {cold[i] : i \in start..upTo} = {chain[i] : i \in start..upTo}
      BY <3>3
    <3>5. upTo <= Len(chain)
      BY <3>1 DEF FilterInv, PollPart
    <3> QED BY <3>1, <3>2, <3>4, <3>5
  <2> QED BY <2>1, <2>2
<1>7. Pending' = Pending /\ chain' = chain
  BY <1>1 DEF Pending, ReorgsSince, nodeVars, filterVars
<1>8. installed' =>
        /\ start' = next' /\ low' <= start'
        /\ Agree(chain', low', held', isBlock', start', removed')
        /\ isBlock' => removed' = {}
        /\ \A e \in Pending' : start' <= e.ancestor + 1
  <2>1. ppc \in {"latest", "read", "commit"}
    BY <1>1
  <2> QED BY <1>1, <1>7, <2>1 DEF FilterInv, PollPart, filterVars, clientVars
<1>9. PollPart'
  <2>1. start' = start /\ ppc' # "install"
    BY <1>1
  <2> QED BY <1>6, <1>7, <1>8, <2>1 DEF PollPart
<1> QED BY <1>3, <1>4, <1>9

\* A poll that fails had nothing to remove: its client is where it was.
LEMMA FailStep ==
  ASSUME Calm, FilterInv, SafeInv', ReadFails
  PROVE  QuietPart' /\ HoldPart' /\ PollPart'
<1>1. /\ ppc = "read" /\ ppc' = "none" /\ removed = {} /\ UNCHANGED nodeVars
      /\ UNCHANGED filterVars /\ UNCHANGED clientVars
  BY DEF Calm, ReadFails, Return
<1>2. ~Reverting /\ SafeInv
  BY <1>1 DEF FilterInv, QuietPart
<1>3. QuietPart' /\ PollPart'
  BY <1>1 DEF QuietPart, PollPart
<1>4. HoldPart'
  <2> SUFFICES ASSUME installed'
               PROVE  Agree(chain', low', held', isBlock', Cut(next', Owed'), Taken(next', Owed'))
    BY DEF HoldPart
  <2>1. UNCHANGED <<chain, installed, low, held, isBlock, next, lastPoll>> /\ installed
    BY <1>1 DEF nodeVars, filterVars, clientVars
  <2>2. Owed' = Owed /\ Owed = Pending
    <3>1. Reverting' <=> Reverting
      BY <1>1 DEF Reverting, nodeVars
    <3>2. Owed' = Owed
      BY <1>1, <2>1, <3>1, OwedFrame DEF nodeVars
    <3> QED BY <1>2, <3>2 DEF Owed
  <2>3. /\ start = next /\ Agree(chain, low, held, isBlock, start, {})
        /\ \A e \in Pending : start <= e.ancestor + 1
    BY <1>1, <2>1 DEF FilterInv, PollPart
  <2>4. Cut(next, Pending) = next /\ Taken(next, Pending) = {}
    <3>1. next \in Nat \ {0}
      BY <1>2 DEF SafeInv, TypeOK
    <3> QED BY <1>2, <2>3, <3>1, PendingFacts, CutAbove
  <2> QED BY <2>1, <2>2, <2>3, <2>4
<1> QED BY <1>3, <1>4

\* A poll commits: the client drops and adds what it is given.
LEMMA CommitStep ==
  ASSUME FilterInv, SafeInv', Commit
  PROVE  QuietPart' /\ HoldPart' /\ PollPart'
<1>1. /\ ppc = "commit" /\ ppc' = "none" /\ UNCHANGED nodeVars
      /\ UNCHANGED <<installed, isBlock, low>>
  BY DEF Commit, Return
<1>2. ~Reverting' /\ SafeInv
  BY <1>1 DEF FilterInv, QuietPart, Reverting, nodeVars
<1>3. QuietPart' /\ PollPart'
  BY <1>1 DEF QuietPart, PollPart
<1>4. HoldPart'
  <2> SUFFICES ASSUME installed'
               PROVE  Agree(chain', low', held', isBlock', Cut(next', Owed'), Taken(next', Owed'))
    BY DEF HoldPart
  <2>1. /\ next' = (IF start > upTo THEN next ELSE upTo + 1) /\ lastPoll' = sent
        /\ held' = (held \ removed) \cup found /\ installed
    BY <1>1 DEF Commit
  <2>2. Owed' = {}
    <3>1. lastPoll' = sent'
      BY <1>1, <2>1 DEF nodeVars
    <3> QED BY <1>2, <3>1, NothingOwedNext
  <2>3. /\ start = next /\ low <= start /\ upTo <= Len(chain)
        /\ Agree(chain, low, held, isBlock, start, removed)
        /\ isBlock => removed = {}
        /\ found = {chain[i] : i \in start..upTo}
    BY <1>1, <2>1 DEF FilterInv, PollPart
  <2>4. /\ chain \in Seq(Block) /\ Len(chain) \in Nat /\ upTo \in Nat /\ low \in Nat \ {0}
        /\ start \in Nat \ {0} /\ isBlock \in BOOLEAN
    BY <1>2 DEF SafeInv, TypeOK
  <2>5. PICK m \in Nat : /\ m = IF start > upTo THEN start - 1 ELSE upTo
                         /\ m <= Len(chain) /\ start <= m + 1 /\ next' = m + 1
                         /\ {chain[i] : i \in start..m} = found
    <3>1. CASE start > upTo
      <4>1. start - 1 \in Nat /\ start - 1 <= Len(chain) /\ start <= start - 1 + 1
        BY <2>3, <2>4 DEF Agree
      <4>2. next' = start - 1 + 1
        BY <2>1, <2>3, <2>4, <3>1
      <4>3. {chain[i] : i \in start..(start - 1)} = found
        BY <2>3, <2>4, <3>1
      <4> QED BY <3>1, <4>1, <4>2, <4>3
    <3>2. CASE ~(start > upTo)
      <4>1. start <= upTo + 1 /\ next' = upTo + 1
        BY <2>1, <2>4, <3>2
      <4> QED BY <2>3, <2>4, <3>2, <4>1
    <3> QED BY <3>1, <3>2
  <2>6. Agree(chain, low, (held \ removed) \cup {chain[i] : i \in start..m}, isBlock, m + 1, {})
    BY ONLY <2>3, <2>4, <2>5, AgreeRead, m \in Nat
  <2>7. Cut(m + 1, {}) = m + 1 /\ Taken(m + 1, {}) = {}
    <3>1. m + 1 \in Nat \ {0}
      OBVIOUS
    <3> QED BY ONLY <3>1, CutNone
  <2>8. chain' = chain
    BY <1>1 DEF nodeVars
  <2> QED BY <1>1, <2>1, <2>2, <2>5, <2>6, <2>7, <2>8
<1> QED BY <1>3, <1>4

\* Every step preserves the invariant when nothing disturbs.
LEMMA FilterStep ==
  ASSUME Calm, FilterInv, [Next]_vars
  PROVE  FilterInv'
<1>1. SafeInv'
  BY SafeStep DEF FilterInv
<1>2. CASE UNCHANGED vars
  <2>1. /\ UNCHANGED <<ring, sent, target, dropped, chain, npc>>
        /\ UNCHANGED <<installed, isBlock, next, lastPoll>>
        /\ UNCHANGED pollVars /\ UNCHANGED clientVars
    BY <1>2 DEF vars, nodeVars, filterVars
  <2>2. Reverting' <=> Reverting
    BY <2>1 DEF Reverting
  <2>3. Len(chain) <= Len(chain') /\ \A i \in 1..Len(chain) : chain'[i] = chain[i]
    BY <2>1 DEF FilterInv, SafeInv, TypeOK
  <2> QED BY <1>1, <2>1, <2>2, <2>3, CalmFrame DEF FilterInv
<1> QED BY <1>1, <1>2, GrowStep, DrainStep, SendStep, InstallStep, SnapshotStep, ReadStep,
           FailStep, CommitStep
        DEF FilterInv, Next, NodeStep, Request

\* If reverts and requests do not overlap, cold storage has what is read or
\* drained, no poll with removals fails and filters are polled within the TTL,
\* a client that applies the output of every poll holds exactly the logs of the
\* current chain, for every chain, ring buffer that covers the TTL, and number
\* of reorganisations between two polls.
THEOREM ClientAlwaysHoldsChain ==
  ASSUME Calm
  PROVE  Spec => []ClientHoldsChain
<1>1. FilterInv /\ [Next]_vars => FilterInv'
  BY FilterStep
<1>2. ASSUME FilterInv PROVE ClientHoldsChain
  <2> SUFFICES ASSUME installed, ppc = "none", lastPoll = sent, ~Reverting
               PROVE  /\ next <= Len(chain) + 1
                      /\ {chain[i] : i \in low..(next - 1)} \subseteq held
                      /\ ~isBlock => held = {chain[i] : i \in low..(next - 1)}
    BY DEF ClientHoldsChain
  <2>1. SafeInv /\ next \in Nat \ {0} /\ Len(ring) \in Nat /\ sent \in Nat
    BY <1>2, ChainFiltersAssumption DEF FilterInv, SafeInv, TypeOK
  <2>2. Owed = {} /\ Complete
    BY <2>1, NothingOwed DEF Complete
  <2>3. Agree(chain, low, held, isBlock, next, {})
    BY <1>2, <2>1, <2>2, CutNone DEF FilterInv, HoldPart
  <2> QED BY <2>3 DEF Agree, Shown
<1> QED BY <1>1, <1>2, FilterInit, PTL DEF Spec
===============================================================================
