------------------------ MODULE RpcHostNotifierProofs ------------------------
(***************************************************************************)
(* Safety of RpcHostNotifier for every host chain, buffer capacity, batch  *)
(* size, epoch length and number of reorganisations.                       *)
(***************************************************************************)
EXTENDS RpcHostNotifier, HostChainProofs

-------------------------------------------------------------------------------
(***************************************************************************)
(* The inductive invariant.                                                *)
(***************************************************************************)
Walking == {"walk", "rewalk"}

\* The host holds a chain, and an unread header is that of its tip.
HostPart == /\ host # <<>> /\ IsChain(host)
            /\ header # NoBlock => header = Tip(host)

\* The locals of a backfill batch and of a walk.
ControlPart ==
  /\ backfillFrom # 0
  /\ pc \in {"await"} \cup Walking => backfillFrom = NoHeight
  /\ pc \in {"backfill", "fetch", "await"} => hint = NoBlock
  /\ pc \in Walking => hint \in Block
  /\ pc = "fetch" => /\ backfillFrom \in Nat /\ backfillFrom <= to
                     /\ DOMAIN got \subseteq backfillFrom..to
                     /\ \A n \in DOMAIN got : num[got[n]] = n

\* The view is the end of the feed, its blocks have consecutive numbers, and a
\* backfill goes on right after it.
IsEnd(v, s) == /\ Len(v) <= Len(s)
               /\ \A i \in 1..Len(v) : v[i] = s[Len(s) - Len(v) + i]

Consecutive(v) == \A i \in 1..Len(v) : num[v[i]] = num[v[1]] + i - 1

ViewPart ==
  /\ IsEnd(view, feed) /\ Consecutive(view)
  /\ lastEmitted = IF feed = <<>> THEN NoBlock ELSE Tip(feed)
  /\ (pc \in {"backfill", "fetch"} /\ backfillFrom # NoHeight /\ view # <<>>) =>
       backfillFrom = num[Tip(view)] + 1

\* As long as reorganisations have spared what the notifier relies on: the feed
\* is linked, a batch in flight is of the host chain, the view is empty only
\* when a backfill has blocks to fetch, and the oldest block of the view is on
\* the host chain and on the chain of the hint in hand.
FeedPart ==
  /\ LinkedFrom(feed, Head0)
  /\ (pc \in {"backfill", "fetch"} /\ backfillFrom # NoHeight) =>
       backfillFrom = Head0 + Len(feed)
  /\ pc = "fetch" => \A n \in DOMAIN got : n <= Len(host) /\ got[n] = host[n]

AnchorPart ==
  /\ pc \in {"await"} \cup Walking => view # <<>>
  /\ (pc \in {"backfill", "fetch"} /\ view = <<>>) =>
       backfillFrom # NoHeight /\ backfillFrom <= Len(host)
  /\ view # <<>> => num[view[1]] <= Len(host) /\ host[num[view[1]]] = view[1]

WalkPart ==
  pc \in Walking =>
    /\ num[view[1]] <= num[hint] /\ Path[hint][num[view[1]]] = view[1]
    /\ Exhausted(hint) => Len(host) > num[lastEmitted]
    /\ ~Exhausted(hint) => /\ Relied <= Len(host)
                           /\ \A n \in 1..Relied : host[n] = Path[hint][n]

SparedPart == spared => FeedPart /\ AnchorPart /\ WalkPart

\* With no unread header, the last one has been or is being handled, and a
\* backfill has blocks left to fetch or has left at most half a buffer.
Current ==
  /\ Len(host) - (Head0 + Len(feed) - 1) <= Capacity \div 2
  /\ \A i \in 1..Len(feed) :
       Head0 + i - 1 <= Len(host) => feed[i] = host[Head0 + i - 1]
  /\ Head0 + Len(feed) - 1 > Len(host) => InView(Tip(host))

IdlePart ==
  (spared /\ header = NoBlock) =>
    /\ pc \in Walking => hint = Tip(host)
    /\ (pc = "backfill" /\ backfillFrom # NoHeight) => backfillFrom <= Len(host)
    /\ pc = "fetch" => /\ to <= Len(host)
                       /\ done => Len(host) - to <= Capacity \div 2
                       /\ ~done => to < Len(host)
    /\ (pc \in {"backfill", "await"} /\ backfillFrom = NoHeight) => Current

SafeInv == TypeOK /\ HostPart /\ ControlPart /\ ViewPart

RpcInv == SafeInv /\ SparedPart /\ IdlePart

-------------------------------------------------------------------------------
(***************************************************************************)
(* The chain that ends in a block.                                         *)
(***************************************************************************)
\* The recursion of Path, for a function f, at the block b.
PathAt(f, b) == f[b] = IF num[b] = 1 THEN <<b>> ELSE Append(f[parent[b]], b)

\* The numbers of a header and of its parent.
LEMMA HeaderFacts ==
  \A b \in Block : /\ num[b] \in Nat \ {0} /\ parent[b] \in Block
                   /\ num[b] # 1 => num[parent[b]] = num[b] - 1
<1> TAKE b \in Block
<1>1. num[b] \in Nat \ {0} /\ parent[b] \in Block
  BY HostChainAssumption
<1>2. num[b] # 1 => num[b] > 1
  BY <1>1
<1>3. num[b] > 1 => num[parent[b]] = num[b] - 1
  BY HeaderAssumption
<1> QED BY <1>1, <1>2, <1>3

\* Functions that follow the recursion up to height n agree up to it.
LEMMA PathUnique ==
  ASSUME NEW n \in Nat, NEW f, NEW g,
         \A b \in Block : num[b] <= n => PathAt(f, b) /\ PathAt(g, b)
  PROVE  \A b \in Block : num[b] <= n => f[b] = g[b]
<1> DEFINE T == {m \in Nat : \E b \in Block : num[b] = m /\ m <= n /\ f[b] # g[b]}
<1> SUFFICES ASSUME T # {} PROVE FALSE
  BY HostChainAssumption
<1>1. PICK m \in T : \A y \in T : m <= y
  BY Least
<1>2. PICK b \in Block : num[b] = m /\ m <= n /\ f[b] # g[b]
  BY <1>1
<1>3. PathAt(f, b) /\ PathAt(g, b)
  BY <1>2
<1>4. num[b] # 1
  BY <1>2, <1>3 DEF PathAt
<1>5. parent[b] \in Block /\ num[parent[b]] = m - 1 /\ m - 1 \in Nat
  BY <1>2, <1>4, HeaderFacts
<1>6. f[parent[b]] = g[parent[b]]
  <2>1. m - 1 \notin T
    BY <1>1
  <2> QED BY <1>2, <1>5, <2>1
<1> QED BY <1>2, <1>3, <1>4, <1>6 DEF PathAt

\* There is such a function for every height.
LEMMA PathUpTo ==
  ASSUME NEW n \in Nat
  PROVE  \E f \in [Block -> Seq(Block)] :
           \A b \in Block : num[b] <= n => PathAt(f, b)
<1> DEFINE Up(k) == \E f \in [Block -> Seq(Block)] :
                      \A b \in Block : num[b] <= k => PathAt(f, b)
           T == {k \in Nat : ~Up(k)}
<1> SUFFICES ASSUME T # {} PROVE FALSE
  OBVIOUS
<1>1. PICK k \in T : \A y \in T : k <= y
  BY Least
<1>2. k # 0
  <2>1. [b \in Block |-> <<b>>] \in [Block -> Seq(Block)]
    OBVIOUS
  <2>2. \A b \in Block : ~(num[b] <= 0)
    BY HostChainAssumption
  <2>3. Up(0)
    BY <2>1, <2>2
  <2> QED BY <1>1, <2>3
<1>3. k - 1 \in Nat /\ k - 1 \notin T
  <2>1. T \in SUBSET Nat
    OBVIOUS
  <2> HIDE DEF T
  <2>2. k \in Nat
    BY <1>1, <2>1
  <2> QED BY <1>1, <1>2, <2>2
<1>4. PICK f \in [Block -> Seq(Block)] :
        \A b \in Block : num[b] <= k - 1 => PathAt(f, b)
  BY <1>3
<1> DEFINE g == [b \in Block |-> IF num[b] = k
                                   THEN IF k = 1 THEN <<b>>
                                        ELSE Append(f[parent[b]], b)
                                   ELSE f[b]]
<1>5. g \in [Block -> Seq(Block)]
  BY HostChainAssumption
<1>6. ASSUME NEW b \in Block, num[b] <= k PROVE PathAt(g, b)
  <2>1. num[b] \in Nat \ {0} /\ parent[b] \in Block
    BY HeaderFacts
  <2>2. num[b] # 1 => num[parent[b]] = num[b] - 1
    BY HeaderFacts
  <2>3. num[b] # 1 => g[parent[b]] = f[parent[b]]
    BY <1>6, <2>1, <2>2
  <2>4. CASE num[b] = k
    BY <2>1, <2>3, <2>4 DEF PathAt
  <2>5. CASE num[b] # k
    <3>1. num[b] <= k - 1
      BY <1>6, <2>1, <2>5
    <3>2. PathAt(f, b)
      BY <1>4, <3>1
    <3>3. g[b] = f[b]
      BY <2>5
    <3> HIDE DEF g
    <3> QED BY <2>3, <3>2, <3>3 DEF PathAt
  <2> QED BY <2>4, <2>5
<1>7. Up(k)
  BY <1>5, <1>6
<1> QED BY <1>1, <1>7

\* The recursion of Path is well founded: it goes down the numbers of the
\* headers.
LEMMA PathEquation ==
  /\ Path \in [Block -> Seq(Block)]
  /\ \A b \in Block : PathAt(Path, b)
<1> DEFINE Fits(f, k) == /\ f \in [Block -> Seq(Block)]
                         /\ \A c \in Block : num[c] <= k => PathAt(f, c)
           Of(k) == CHOOSE f : Fits(f, k)
           p == [b \in Block |-> Of(num[b])[b]]
<1>1. \A k \in Nat : Fits(Of(k), k)
  <2> TAKE k \in Nat
  <2>1. \E f : Fits(f, k)
    BY PathUpTo
  <2> QED BY <2>1
<1> HIDE DEF Of
<1>2. \A b \in Block : num[b] \in Nat \ {0} /\ parent[b] \in Block
  BY HeaderFacts
<1>3. p \in [Block -> Seq(Block)]
  BY <1>1, <1>2
<1>4. ASSUME NEW b \in Block PROVE PathAt(p, b)
  <2>1. p[b] = Of(num[b])[b]
    OBVIOUS
  <2>2. PathAt(Of(num[b]), b)
    BY <1>1, <1>2
  <2>3. CASE num[b] = 1
    BY <2>1, <2>2, <2>3 DEF PathAt
  <2>4. CASE num[b] # 1
    <3>1. parent[b] \in Block /\ num[parent[b]] = num[b] - 1 /\ num[b] - 1 \in Nat
      BY <2>4, HeaderFacts
    <3>2. p[parent[b]] = Of(num[b] - 1)[parent[b]]
      BY <3>1
    <3>3. \A c \in Block : num[c] <= num[b] - 1 =>
            PathAt(Of(num[b] - 1), c) /\ PathAt(Of(num[b]), c)
      <4> TAKE c \in Block
      <4> HAVE num[c] <= num[b] - 1
      <4>1. num[c] <= num[b]
        BY <1>2
      <4> QED BY <1>1, <1>2, <3>1, <4>1
    <3>4. Of(num[b] - 1)[parent[b]] = Of(num[b])[parent[b]]
      BY <1>2, <3>1, <3>3, PathUnique
    <3> HIDE DEF p
    <3> QED BY <2>1, <2>2, <2>4, <3>2, <3>4 DEF PathAt
  <2> QED BY <2>3, <2>4
<1>5. p = [b \in Block |-> IF num[b] = 1 THEN <<b>> ELSE Append(p[parent[b]], b)]
  <2> HIDE DEF p
  <2> QED BY <1>3, <1>4 DEF PathAt
<1> HIDE DEF p
<1>6. Path = [b \in Block |-> IF num[b] = 1 THEN <<b>> ELSE Append(Path[parent[b]], b)]
  BY <1>5 DEF Path
<1>7. \A b \in Block : PathAt(Path, b)
  BY <1>6 DEF PathAt
<1>8. ASSUME NEW b \in Block PROVE Path[b] = p[b]
  <2>1. num[b] \in Nat /\ num[b] <= num[b]
    BY <1>2
  <2>2. \A c \in Block : num[c] <= num[b] => PathAt(Path, c) /\ PathAt(p, c)
    BY <1>4, <1>7
  <2> QED BY <2>1, <2>2, PathUnique
<1>9. \A b \in Block : Path[b] \in Seq(Block)
  BY <1>3, <1>8
<1>10. Path \in [Block -> Seq(Block)]
  <2>1. Path = [b \in Block |-> Path[b]]
    BY <1>6
  <2> QED BY <1>9, <2>1
<1> QED BY <1>7, <1>10

\* The chain that ends in a block is a chain, has the block's number as its
\* length and ends in the block.
LEMMA PathFacts ==
  \A b \in Block : /\ Path[b] \in Seq(Block) /\ Len(Path[b]) = num[b]
                   /\ Path[b][num[b]] = b /\ IsChain(Path[b])
<1> DEFINE Good(b) == /\ Len(Path[b]) = num[b]
                      /\ Path[b][num[b]] = b /\ LinkedFrom(Path[b], 1)
           T == {m \in Nat : \E b \in Block : num[b] = m /\ ~Good(b)}
<1>1. \A b \in Block : Path[b] \in Seq(Block)
  BY PathEquation
<1>2. T = {} => \A b \in Block : Good(b)
  BY HeaderFacts
<1>3. ASSUME T # {} PROVE FALSE
  <2>1. PICK m \in T : \A y \in T : m <= y
    BY <1>3, Least
  <2>2. PICK b \in Block : num[b] = m /\ ~Good(b)
    BY <2>1
  <2>3. num[b] \in Nat \ {0} /\ parent[b] \in Block
    BY HeaderFacts
  <2>4. CASE num[b] = 1
    <3>1. Path[b] = <<b>>
      BY <2>4, PathEquation DEF PathAt
    <3>2. LinkedFrom(<<b>>, 1)
      BY <2>4 DEF LinkedFrom
    <3> QED BY <2>2, <2>4, <3>1, <3>2
  <2>5. CASE num[b] # 1
    <3> DEFINE c == parent[b]
               s == Path[c]
    <3>1. Path[b] = Append(s, b)
      BY <2>5, PathEquation DEF PathAt
    <3>2. c \in Block /\ num[c] = num[b] - 1 /\ num[b] - 1 \in Nat \ {0}
      BY <2>3, <2>5, HeaderFacts
    <3>3. Good(c)
      <4>1. num[c] \notin T
        <5>1. ~(m <= num[c])
          BY <2>2, <2>3, <3>2
        <5> QED BY <2>1, <5>1
      <4>2. num[c] \in Nat
        BY <3>2
      <4> QED BY <3>2, <4>1, <4>2
    <3>4. s \in Seq(Block) /\ Len(s) = num[b] - 1 /\ s[Len(s)] = c /\ LinkedFrom(s, 1)
      BY <1>1, <3>2, <3>3
    <3> HIDE DEF s
    <3>5. 1 \in Nat /\ num[b] = 1 + Len(s)
      BY <2>3, <3>4
    <3>6. LinkedFrom(Append(s, b), 1)
      BY <3>4, <3>5, LinkAppend
    <3>7. Len(Append(s, b)) = num[b] /\ Append(s, b)[num[b]] = b
      BY <2>3, <3>4
    <3> QED BY <2>2, <3>1, <3>6, <3>7
  <2> QED BY <2>4, <2>5
<1> QED BY <1>1, <1>2, <1>3 DEF IsChain

-------------------------------------------------------------------------------
(***************************************************************************)
(* Sequences.                                                              *)
(***************************************************************************)
\* What is popped from the back of a sequence is determined by the first height
\* below the bound.
LEMMA BelowFacts ==
  ASSUME NEW s \in Seq(Block), NEW n \in Int, NEW k \in Nat, k <= Len(s),
         \A i \in 1..Len(s) : i > k => num[s[i]] >= n,
         k > 0 => num[s[k]] < n
  PROVE  Below(s, n) = Prefix(s, k)
<1> DEFINE Fits(j) == /\ \A i \in (j + 1)..Len(s) : num[s[i]] >= n
                      /\ j > 0 => num[s[j]] < n
<1>1. Len(s) \in Nat /\ \A i \in 1..Len(s) : num[s[i]] \in Nat
  BY HostChainAssumption
<1>2. k \in 0..Len(s) /\ Fits(k)
  BY <1>1
<1>3. ASSUME NEW j \in 0..Len(s), Fits(j) PROVE j = k
  <2>1. CASE j < k
    <3>1. k \in (j + 1)..Len(s) /\ k > 0 /\ k \in 1..Len(s)
      BY <1>1, <2>1
    <3>2. num[s[k]] >= n /\ num[s[k]] < n
      BY <1>2, <1>3, <3>1
    <3> QED BY <1>1, <3>1, <3>2
  <2>2. CASE k < j
    <3>1. j \in (k + 1)..Len(s) /\ j > 0 /\ j \in 1..Len(s)
      BY <1>1, <2>2
    <3>2. num[s[j]] >= n /\ num[s[j]] < n
      BY <1>2, <1>3, <3>1
    <3> QED BY <1>1, <3>1, <3>2
  <2> QED BY <2>1, <2>2
<1>4. (CHOOSE j \in 0..Len(s) : Fits(j)) = k
  <2> HIDE DEF Fits
  <2> QED BY <1>2, <1>3
<1> QED BY <1>4 DEF Below

\* extend_view leaves the end of the view and its new blocks, at most as many
\* as fit in the buffer.
LEMMA ExtendFacts ==
  ASSUME NEW w \in Seq(Block), NEW new \in Seq(Block), new # <<>>
  PROVE  /\ ExtendView(w, new) \in Seq(Block)
         /\ Len(ExtendView(w, new)) \in 1..Capacity
         /\ Len(ExtendView(w, new)) <= Len(w) + Len(new)
         /\ \/ ExtendView(w, new) = w \o new
            \/ Len(ExtendView(w, new)) = Capacity
         /\ \A i \in 1..Len(ExtendView(w, new)) :
              ExtendView(w, new)[i] =
                (w \o new)[Len(w \o new) - Len(ExtendView(w, new)) + i]
<1> DEFINE s == w \o new
           e == ExtendView(w, new)
<1>1. s \in Seq(Block) /\ Len(s) = Len(w) + Len(new)
  BY ConcatFacts
<1>2. Len(w) \in Nat /\ Len(new) \in Nat \ {0} /\ Len(s) \in Nat \ {0}
      /\ Capacity \in Nat \ {0}
  BY <1>1, RpcHostNotifierAssumption
<1>3. CASE Len(s) > Capacity
  <2>1. e = SubSeq(s, Len(s) - Capacity + 1, Len(s))
    BY <1>3 DEF ExtendView
  <2> HIDE DEF s, e
  <2>2. /\ e \in Seq(Block) /\ Len(e) = Capacity
        /\ \A i \in 1..Capacity : e[i] = s[Len(s) - Capacity + i]
    <3> DEFINE m == Len(s) - Capacity + 1
    <3>1. m \in Nat \ {0} /\ m <= Len(s) + 1 /\ Len(s) - m + 1 = Capacity
          /\ \A i \in 1..Capacity : m + i - 1 = Len(s) - Capacity + i
      BY <1>2, <1>3
    <3> HIDE DEF m
    <3>2. e = SubSeq(s, m, Len(s))
      BY <2>1 DEF m
    <3>3. /\ e \in Seq(Block) /\ Len(e) = Len(s) - m + 1
          /\ \A i \in 1..(Len(s) - m + 1) : e[i] = s[m + i - 1]
      BY <1>1, <1>2, <3>1, <3>2, SegmentFacts
    <3> QED BY <3>1, <3>3
  <2>3. Len(e) \in 1..Capacity /\ Len(e) <= Len(w) + Len(new)
    BY <1>1, <1>2, <1>3, <2>2
  <2>4. \A i \in 1..Len(e) : e[i] = s[Len(s) - Len(e) + i]
    BY <1>1, <1>2, <2>2
  <2> QED BY <2>2, <2>3, <2>4 DEF e, s
<1>4. CASE ~(Len(s) > Capacity)
  <2>1. e = s
    BY <1>4 DEF ExtendView
  <2> HIDE DEF s, e
  <2>2. Len(e) \in 1..Capacity /\ Len(e) <= Len(w) + Len(new)
    BY <1>1, <1>2, <1>4, <2>1
  <2>3. \A i \in 1..Len(e) : e[i] = s[Len(s) - Len(e) + i]
    BY <1>1, <1>2, <2>1
  <2> QED BY <1>1, <2>1, <2>2, <2>3 DEF e, s
<1> QED BY <1>3, <1>4

\* An epoch is a number.
LEMMA EpochFacts == \A b \in Block : EpochOf(b) \in Nat
<1>1. \A n \in Nat : \A e \in Nat \ {0} : n \div e \in Nat
  OBVIOUS
<1>2. EpochBlocks \in Nat \ {0} /\ \A b \in Block : num[b] \in Nat
  BY HeaderFacts, RpcHostNotifierAssumption
<1> QED BY <1>1, <1>2 DEF EpochOf

-------------------------------------------------------------------------------
(***************************************************************************)
(* How the view and the feed move: k blocks of the view are kept, and new  *)
(* blocks come after them.                                                 *)
(***************************************************************************)
\* a is the first k blocks of v followed by those of new.
Joined(a, v, k, new) == /\ Len(a) = k + Len(new)
                        /\ \A i \in 1..k : a[i] = v[i]
                        /\ \A i \in 1..Len(new) : a[k + i] = new[i]

\* new has the heights that come after the first k blocks of v.
Follows(new, v, k) == /\ Consecutive(new)
                      /\ k > 0 => num[new[1]] = num[v[k]] + 1

\* An end e of the blocks kept of v and the new ones is an end of the same blocks
\* of s, of which v is an end.
LEMMA EndFacts ==
  ASSUME NEW v \in Seq(Block), NEW s \in Seq(Block), IsEnd(v, s), Consecutive(v),
         NEW new \in Seq(Block), Len(new) \in Nat \ {0},
         NEW k \in Nat, k <= Len(v), Follows(new, v, k),
         NEW j \in Nat, j = Len(s) - Len(v) + k,
         NEW a \in Seq(Block), Joined(a, v, k, new),
         NEW t \in Seq(Block), Joined(t, s, j, new),
         NEW e \in Seq(Block), Len(e) \in Nat \ {0}, IsEnd(e, a)
  PROVE  IsEnd(e, t) /\ Consecutive(e) /\ Tip(e) = Tip(new) /\ Tip(t) = Tip(new)
<1>1. Len(v) \in Nat /\ Len(s) \in Nat /\ Len(v) <= Len(s)
      /\ Len(a) \in Nat /\ Len(t) \in Nat /\ Len(e) <= Len(a)
  BY DEF IsEnd
<1>2. Len(a) = k + Len(new) /\ Len(t) = j + Len(new)
  BY DEF Joined
<1>3. j <= Len(s) /\ j >= k
  BY <1>1
<1>4. \A i \in 1..k : v[i] = s[j - k + i]
  <2> TAKE i \in 1..k
  <2>1. i \in 1..Len(v) /\ j - k + i = Len(s) - Len(v) + i
    BY <1>1
  <2>2. v[i] = s[Len(s) - Len(v) + i]
    BY <2>1 DEF IsEnd
  <2> QED BY <2>1, <2>2
<1>5. \A i \in 1..k : num[v[i]] = num[v[1]] + i - 1
  BY <1>1 DEF Consecutive
<1>6. \A i \in 1..Len(new) : num[new[i]] = num[new[1]] + i - 1
  BY DEF Follows, Consecutive
<1>7. PICK n \in Nat : n = num[new[1]]
  <2>1. new[1] \in Block
    OBVIOUS
  <2> QED BY <2>1, HeaderFacts
<1>8. \A i \in 1..Len(a) : a[i] = t[j - k + i]
  <2> TAKE i \in 1..Len(a)
  <2>1. CASE i <= k
    <3>1. i \in 1..k /\ j - k + i \in 1..j
      BY <1>1, <1>3, <2>1
    <3>2. a[i] = v[i] /\ v[i] = s[j - k + i]
      BY <1>4, <3>1 DEF Joined
    <3>3. t[j - k + i] = s[j - k + i]
      BY <3>1 DEF Joined
    <3> QED BY <3>2, <3>3
  <2>2. CASE i > k
    <3> DEFINE q == i - k
    <3>1. q \in 1..Len(new) /\ k + q = i /\ j - k + i = j + q
      BY <1>1, <1>2, <2>2
    <3> HIDE DEF q
    <3>2. a[k + q] = new[q] /\ t[j + q] = new[q]
      BY <3>1 DEF Joined
    <3> QED BY <3>1, <3>2
  <2> QED BY <1>1, <2>1, <2>2
<1>9. \A i \in 1..Len(e) : e[i] = a[Len(a) - Len(e) + i]
  BY DEF IsEnd
<1>10. IsEnd(e, t)
  <2>1. Len(e) <= Len(t)
    BY <1>1, <1>2, <1>3
  <2>2. ASSUME NEW i \in 1..Len(e) PROVE e[i] = t[Len(t) - Len(e) + i]
    <3> DEFINE q == Len(a) - Len(e) + i
    <3>1. q \in 1..Len(a) /\ j - k + q = Len(t) - Len(e) + i
      BY <1>1, <1>2
    <3>2. e[i] = a[q]
      BY <1>9
    <3> HIDE DEF q
    <3> QED BY <1>8, <3>1, <3>2
  <2> QED BY <2>1, <2>2 DEF IsEnd
<1>11. \A i \in 1..Len(a) : num[a[i]] = n - 1 - k + i
  <2> TAKE i \in 1..Len(a)
  <2>1. CASE i <= k
    <3>1. k \in 1..k /\ i \in 1..k /\ 1 \in 1..k
      BY <1>1, <2>1
    <3>2. PICK m \in Nat : m = num[v[1]]
      <4>1. v[1] \in Block
        BY <1>1, <3>1
      <4> QED BY <4>1, HeaderFacts
    <3>3. num[v[k]] = m + k - 1 /\ num[v[i]] = m + i - 1
      BY <1>5, <3>1, <3>2
    <3>4. a[i] = v[i]
      BY <3>1 DEF Joined
    <3>5. num[new[1]] = num[v[k]] + 1
      BY <3>1 DEF Follows
    <3>6. n = m + k - 1 + 1
      BY <1>7, <3>3, <3>5
    <3>7. m + i - 1 = n - 1 - k + i
      BY <1>1, <3>6
    <3> QED BY <3>3, <3>4, <3>7
  <2>2. CASE i > k
    <3> DEFINE q == i - k
    <3>1. q \in 1..Len(new) /\ k + q = i
      BY <1>1, <1>2, <2>2
    <3>2. n + q - 1 = n - 1 - k + i
      BY <1>1
    <3> HIDE DEF q
    <3>3. a[k + q] = new[q] /\ num[new[q]] = n + q - 1
      BY <1>6, <1>7, <3>1 DEF Joined
    <3> QED BY <3>1, <3>2, <3>3
  <2> QED BY <1>1, <2>1, <2>2
<1>12. Consecutive(e)
  <2>1. PICK m \in Int : m = n - 1 - k + Len(a) - Len(e)
    <3>1. n - 1 - k + Len(a) - Len(e) \in Int
      BY <1>1
    <3> QED BY <3>1
  <2>2. ASSUME NEW i \in 1..Len(e) PROVE num[e[i]] = m + i
    <3> DEFINE q == Len(a) - Len(e) + i
    <3>1. q \in 1..Len(a) /\ n - 1 - k + q = m + i
      BY <1>1, <2>1
    <3>2. e[i] = a[q]
      BY <1>9
    <3> HIDE DEF q
    <3> QED BY <1>11, <3>1, <3>2
  <2>3. 1 \in 1..Len(e)
    OBVIOUS
  <2>4. \A i \in 1..Len(e) : num[e[i]] = num[e[1]] + i - 1
    <3> TAKE i \in 1..Len(e)
    <3>1. num[e[i]] = m + i /\ num[e[1]] = m + 1
      BY <2>2, <2>3
    <3> QED BY <2>1, <3>1
  <2> QED BY <2>4 DEF Consecutive
<1>13. Tip(e) = Tip(new) /\ Tip(t) = Tip(new)
  <2>1. e[Len(e)] = a[Len(a)]
    <3>1. Len(e) \in 1..Len(e) /\ Len(a) - Len(e) + Len(e) = Len(a)
      BY <1>1
    <3>2. e[Len(e)] = a[Len(a) - Len(e) + Len(e)]
      BY <1>9, <3>1
    <3> QED BY <3>1, <3>2
  <2>2. Len(new) \in 1..Len(new)
    OBVIOUS
  <2>3. a[k + Len(new)] = new[Len(new)] /\ t[j + Len(new)] = new[Len(new)]
    BY <2>2 DEF Joined
  <2> QED BY <1>2, <2>1, <2>3 DEF Tip
<1> QED BY <1>10, <1>12, <1>13

\* The same for the view and the feed, with extend_view's eviction.
LEMMA MoveFacts ==
  ASSUME NEW v \in Seq(Block), NEW s \in Seq(Block), IsEnd(v, s), Consecutive(v),
         NEW new \in Seq(Block), new # <<>>,
         NEW k \in Nat, k <= Len(v), Follows(new, v, k)
  PROVE  LET e == ExtendView(Prefix(v, k), new)
             t == Prefix(s, Len(s) - Len(v) + k) \o new
         IN /\ e \in Seq(Block) /\ t \in Seq(Block)
            /\ Len(e) \in 1..Capacity /\ e # <<>> /\ t # <<>>
            /\ IsEnd(e, t) /\ Consecutive(e)
            /\ Tip(e) = Tip(new) /\ Tip(t) = Tip(new)
            /\ \/ k = 0 /\ Len(e) = Len(new)
               \/ k > 0 /\ e[1] = v[1]
               \/ Len(e) = Capacity
<1> DEFINE w == Prefix(v, k)
           j == Len(s) - Len(v) + k
           f == Prefix(s, j)
           a == w \o new
           e == ExtendView(w, new)
           t == f \o new
<1>1. Len(v) \in Nat /\ Len(s) \in Nat /\ Len(v) <= Len(s) /\ Len(new) \in Nat \ {0}
  BY DEF IsEnd
<1>2. j \in Nat /\ j <= Len(s) /\ j = Len(s) - Len(v) + k
  BY <1>1
<1>3. w \in Seq(Block) /\ Len(w) = k /\ \A i \in 1..k : w[i] = v[i]
  BY PrefixFacts
<1> HIDE DEF j
<1>4. f \in Seq(Block) /\ Len(f) = j /\ \A i \in 1..j : f[i] = s[i]
  BY <1>2, PrefixFacts
<1> HIDE DEF w, f
<1>5. /\ a \in Seq(Block) /\ Len(a) = Len(w) + Len(new)
      /\ \A i \in 1..Len(w) : a[i] = w[i]
      /\ \A i \in 1..Len(new) : a[Len(w) + i] = new[i]
  <2>1. w \in Seq(Block) /\ new \in Seq(Block)
    BY <1>3
  <2> QED BY ONLY <2>1, ConcatFacts
<1>6. /\ t \in Seq(Block) /\ Len(t) = Len(f) + Len(new)
      /\ \A i \in 1..Len(f) : t[i] = f[i]
      /\ \A i \in 1..Len(new) : t[Len(f) + i] = new[i]
  <2>1. f \in Seq(Block) /\ new \in Seq(Block)
    BY <1>4
  <2> QED BY ONLY <2>1, ConcatFacts
<1>7. /\ e \in Seq(Block) /\ Len(e) \in 1..Capacity /\ Len(e) <= Len(w) + Len(new)
      /\ e = a \/ Len(e) = Capacity
      /\ \A i \in 1..Len(e) : e[i] = a[Len(a) - Len(e) + i]
  BY <1>3, ExtendFacts
<1> HIDE DEF a, e, t
<1>8. Len(e) \in Nat \ {0} /\ IsEnd(e, a)
  <2>1. Len(w) + Len(new) = Len(a) /\ Len(e) <= Len(a)
    BY <1>5, <1>7
  <2>2. \A i \in 1..Len(e) : e[i] = a[Len(a) - Len(e) + i]
    BY <1>7
  <2>3. Len(e) \in Nat \ {0}
    BY <1>7, RpcHostNotifierAssumption
  <2> QED BY <2>1, <2>2, <2>3 DEF IsEnd
<1>9. Joined(a, v, k, new)
  BY <1>3, <1>5 DEF Joined
<1>10. Joined(t, s, j, new)
  BY <1>4, <1>6 DEF Joined
<1>11. IsEnd(e, t) /\ Consecutive(e) /\ Tip(e) = Tip(new) /\ Tip(t) = Tip(new)
  BY <1>1, <1>2, <1>5, <1>6, <1>7, <1>8, <1>9, <1>10, EndFacts
<1>12. e # <<>> /\ t # <<>>
  <2>1. Len(t) = j + Len(new)
    BY <1>10 DEF Joined
  <2>2. Len(t) # 0 /\ Len(e) # 0
    BY <1>1, <1>2, <1>8, <2>1
  <2> QED BY <1>6, <1>7, <2>2
<1>13. \/ k = 0 /\ Len(e) = Len(new)
       \/ k > 0 /\ e[1] = v[1]
       \/ Len(e) = Capacity
  <2>1. ASSUME e = a PROVE (k = 0 /\ Len(e) = Len(new)) \/ (k > 0 /\ e[1] = v[1])
    <3>1. CASE k = 0
      BY <1>1, <1>9, <2>1, <3>1 DEF Joined
    <3>2. CASE k > 0
      <4>1. 1 \in 1..k
        BY <3>2
      <4> QED BY <1>9, <2>1, <3>2, <4>1 DEF Joined
    <3> QED BY <3>1, <3>2
  <2> QED BY <1>7, <2>1
<1>14. /\ e \in Seq(Block) /\ t \in Seq(Block)
       /\ Len(e) \in 1..Capacity /\ e # <<>> /\ t # <<>>
  BY <1>6, <1>7, <1>12
<1> QED BY <1>11, <1>13, <1>14 DEF e, t, w, f, j

-------------------------------------------------------------------------------
(***************************************************************************)
(* The walk.                                                               *)
(***************************************************************************)
\* The types of what the notifier keeps.
LEMMA TypeFacts ==
  TypeOK => /\ host \in Seq(Block) /\ Len(host) \in Nat
            /\ view \in Seq(Block) /\ Len(view) \in Nat /\ Len(view) <= Capacity
            /\ feed \in Seq(Block) /\ Len(feed) \in Nat
            /\ view # <<>> => /\ view[1] \in Block /\ Tip(view) \in Block
                              /\ Len(view) \in Nat \ {0}
            /\ feed # <<>> => Tip(feed) \in Block /\ Len(feed) \in Nat \ {0}
            /\ host # <<>> => Tip(host) \in Block /\ Len(host) \in Nat \ {0}
<1> HAVE TypeOK
<1>1. host \in Seq(Block) /\ view \in Seq(Block) /\ feed \in Seq(Block)
      /\ Len(view) <= Capacity
  BY DEF TypeOK
<1> QED BY <1>1 DEF Tip

\* The number of a block of the chain that ends in b.
LEMMA PathNumbers ==
  ASSUME NEW b \in Block, NEW n \in 1..num[b]
  PROVE  Path[b][n] \in Block /\ num[Path[b][n]] = n
<1>1. num[b] \in Nat
  BY HeaderFacts
<1>2. Path[b] \in Seq(Block) /\ Len(Path[b]) = num[b] /\ LinkedFrom(Path[b], 1)
  BY PathFacts DEF IsChain
<1>3. n \in 1..Len(Path[b])
  BY <1>2
<1>4. Path[b][n] \in Block
  BY <1>2, <1>3
<1>5. num[Path[b][n]] = 1 + n - 1
  BY <1>2, <1>3 DEF LinkedFrom
<1> QED BY <1>1, <1>4, <1>5

\* A block of the chain that ends in b is found in the view at its height.
LEMMA InViewFacts ==
  ASSUME TypeOK, Consecutive(view), NEW b \in Block, InView(b)
  PROVE  /\ view # <<>> /\ num[view[1]] <= num[b] /\ num[b] <= num[Tip(view)]
         /\ num[b] - num[view[1]] + 1 \in 1..Len(view)
         /\ view[num[b] - num[view[1]] + 1] = b
<1>1. view # <<>> /\ Len(view) \in Nat \ {0} /\ view[1] \in Block /\ Tip(view) \in Block
  BY TypeFacts DEF InView
<1>2. num[b] \in Nat /\ num[view[1]] \in Nat /\ num[Tip(view)] \in Nat
  BY <1>1, HeaderFacts
<1>3. /\ num[b] - num[view[1]] + 1 \in 1..Len(view)
      /\ view[num[b] - num[view[1]] + 1] = b
  BY DEF InView
<1>4. num[Tip(view)] = num[view[1]] + Len(view) - 1
  <2>1. Len(view) \in 1..Len(view)
    BY <1>1
  <2> QED BY <2>1 DEF Consecutive, Tip
<1> QED BY <1>1, <1>2, <1>3, <1>4

\* The highest meeting point of the walk from b and the view.
LEMMA OverlapFacts ==
  ASSUME TypeOK, Consecutive(view), NEW b \in Block, Overlaps(b) # {}
  PROVE  /\ Overlap(b) \in 1..num[b] /\ InView(Path[b][Overlap(b)])
         /\ num[b] - Overlap(b) <= Capacity
         /\ \A m \in Overlaps(b) : m <= Overlap(b)
         /\ view # <<>> /\ num[view[1]] <= Overlap(b) /\ Overlap(b) <= num[Tip(view)]
         /\ Overlap(b) - num[view[1]] + 1 \in 1..Len(view)
         /\ view[Overlap(b) - num[view[1]] + 1] = Path[b][Overlap(b)]
         /\ ~AlreadySeen(b) => Overlap(b) < num[b]
<1> DEFINE o == Overlap(b)
<1>1. num[b] \in Nat \ {0}
  BY HeaderFacts
<1>2. Overlaps(b) \in SUBSET (0..num[b])
  BY <1>1 DEF Overlaps
<1>3. \E x \in Overlaps(b) : \A y \in Overlaps(b) : y <= x
  BY <1>1, <1>2, Greatest
<1>4. o \in Overlaps(b) /\ \A m \in Overlaps(b) : m <= o
  BY <1>3 DEF Overlap
<1> HIDE DEF o
<1>5. o \in 1..num[b] /\ InView(Path[b][o]) /\ num[b] - o <= Capacity
  BY <1>4 DEF Overlaps
<1>6. Path[b][o] \in Block /\ num[Path[b][o]] = o
  BY <1>5, PathNumbers
<1>7. /\ view # <<>> /\ num[view[1]] <= o /\ o <= num[Tip(view)]
      /\ o - num[view[1]] + 1 \in 1..Len(view)
      /\ view[o - num[view[1]] + 1] = Path[b][o]
  BY <1>5, <1>6, InViewFacts
<1>8. ~AlreadySeen(b) => o < num[b]
  <2>1. SUFFICES ASSUME o = num[b] PROVE InView(b)
    BY <1>1, <1>5 DEF AlreadySeen
  <2>2. Path[b][o] = b
    BY <2>1, PathFacts
  <2> QED BY <1>5, <2>2
<1> QED BY <1>4, <1>5, <1>7, <1>8 DEF o

\* The blocks a walk brings, from above the meeting point to its hint.
NewBlocks(b) == SubSeq(Path[b], Overlap(b) + 1, num[b])

\* The blocks of the view up to the meeting point.
Kept(b) == Overlap(b) - num[view[1]] + 1

LEMMA NewBlocksFacts ==
  ASSUME TypeOK, Consecutive(view), NEW b \in Block, Overlaps(b) # {}, ~AlreadySeen(b)
  PROVE  /\ NewBlocks(b) \in Seq(Block) /\ NewBlocks(b) # <<>>
         /\ Len(NewBlocks(b)) = num[b] - Overlap(b)
         /\ \A i \in 1..Len(NewBlocks(b)) : NewBlocks(b)[i] = Path[b][Overlap(b) + i]
         /\ \A i \in 1..Len(NewBlocks(b)) : num[NewBlocks(b)[i]] = Overlap(b) + i
         /\ Tip(NewBlocks(b)) = b
         /\ Kept(b) \in 1..Len(view)
         /\ num[view[Kept(b)]] = Overlap(b)
         /\ Follows(NewBlocks(b), view, Kept(b))
<1> DEFINE o == Overlap(b)
           new == NewBlocks(b)
<1>1. o \in 1..num[b] /\ o < num[b] /\ Kept(b) \in 1..Len(view)
      /\ view[Kept(b)] = Path[b][o]
  BY OverlapFacts DEF Kept
<1>2. num[b] \in Nat \ {0}
  BY HeaderFacts
<1>3. Path[b] \in Seq(Block) /\ Len(Path[b]) = num[b] /\ Path[b][num[b]] = b
  BY PathFacts
<1>4. new = SubSeq(Path[b], o + 1, num[b])
  BY DEF NewBlocks
<1> HIDE DEF o, new
<1>5. /\ new \in Seq(Block) /\ Len(new) = num[b] - o
      /\ \A i \in 1..Len(new) : new[i] = Path[b][o + i]
  <2>1. PICK n \in Nat : n = num[b]
    BY <1>2
  <2>2. PICK m \in Nat \ {0} : m = o + 1
    BY <1>1
  <2>3. m <= n + 1 /\ n - m + 1 = n - o /\ o \in Nat
    BY <1>1, <2>1, <2>2
  <2>4. /\ new \in Seq(Block) /\ Len(new) = n - m + 1
        /\ \A i \in 1..(n - m + 1) : new[i] = Path[b][m + i - 1]
    <3>1. n <= Len(Path[b]) /\ new = SubSeq(Path[b], m, n)
      BY <1>3, <1>4, <2>1, <2>2
    <3> QED BY <1>3, <2>3, <3>1, SegmentFacts
  <2>5. Len(new) = n - o
    BY <2>3, <2>4
  <2>6. ASSUME NEW i \in 1..(n - m + 1) PROVE new[i] = Path[b][o + i]
    <3>1. m + i - 1 = o + i
      BY <2>2, <2>3
    <3>2. new[i] = Path[b][m + i - 1]
      BY <2>4
    <3> QED BY <3>1, <3>2
  <2> QED BY <2>1, <2>4, <2>5, <2>6
<1>6. Len(new) \in Nat \ {0} /\ o \in Nat
  BY <1>1, <1>2, <1>5
<1>7. \A i \in 1..Len(new) : num[new[i]] = o + i
  <2> TAKE i \in 1..Len(new)
  <2>1. o + i \in 1..num[b]
    BY <1>1, <1>2, <1>5, <1>6
  <2>2. num[Path[b][o + i]] = o + i
    BY <2>1, PathNumbers
  <2> QED BY <1>5, <2>2
<1>8. Tip(new) = b
  <2>1. Len(new) \in 1..Len(new)
    BY <1>6
  <2>3. o + Len(new) = num[b]
    BY <1>2, <1>5, <1>6
  <2>2. new[Len(new)] = Path[b][o + Len(new)]
    BY <1>5, <2>1
  <2> QED BY <1>3, <2>2, <2>3 DEF Tip
<1>9. num[view[Kept(b)]] = o
  BY <1>1, PathNumbers
<1>10. Follows(new, view, Kept(b))
  <2>1. 1 \in 1..Len(new)
    BY <1>6
  <2>2. num[new[1]] = o + 1
    BY <1>7, <2>1
  <2>3. \A i \in 1..Len(new) : num[new[i]] = num[new[1]] + i - 1
    BY <1>6, <1>7, <2>2
  <2> QED BY <1>9, <2>2, <2>3 DEF Follows, Consecutive
<1> QED BY <1>1, <1>5, <1>6, <1>7, <1>8, <1>9, <1>10 DEF o, new

\* The last block of the view is the last one of the feed.
LEMMA TipFacts ==
  ASSUME TypeOK, ViewPart, view # <<>>
  PROVE  /\ feed # <<>> /\ Tip(feed) = Tip(view) /\ lastEmitted = Tip(view)
         /\ num[Tip(view)] = num[view[1]] + Len(view) - 1
<1>1. Len(view) \in Nat \ {0} /\ feed \in Seq(Block) /\ Len(feed) \in Nat
  BY TypeFacts
<1>2. Len(view) <= Len(feed) /\ \A i \in 1..Len(view) : view[i] = feed[Len(feed) - Len(view) + i]
  BY DEF ViewPart, IsEnd
<1>3. Len(view) \in 1..Len(view) /\ Len(feed) - Len(view) + Len(view) = Len(feed)
  BY <1>1
<1>4. view[Len(view)] = feed[Len(feed)]
  BY <1>2, <1>3
<1>5. feed # <<>>
  BY <1>1, <1>2
<1>6. num[view[Len(view)]] = num[view[1]] + Len(view) - 1
  BY <1>3 DEF ViewPart, Consecutive
<1> QED BY <1>4, <1>5, <1>6 DEF ViewPart, Tip

\* A walk that meets the view and has moved past it.
Moves(b) ==
  /\ ~AlreadySeen(b) /\ Overlaps(b) # {}
  /\ \/ Overlap(b) = num[Tip(view)] /\ Advance(b)
     \/ Overlap(b) # num[Tip(view)] /\ Reorg(b)

\* Whether it advances or reorganises, the view and the feed keep their blocks
\* up to the meeting point, and the new ones come after them.
LEMMA WalkMoves ==
  ASSUME TypeOK, ViewPart, NEW b \in Block, Moves(b)
  PROVE  /\ view' = ExtendView(Prefix(view, Kept(b)), NewBlocks(b))
         /\ feed' = Prefix(feed, Len(feed) - Len(view) + Kept(b)) \o NewBlocks(b)
         /\ lastEmitted' = Tip(NewBlocks(b)) /\ backfillFrom' = backfillFrom
         /\ RefreshTags(hintEpoch)
         /\ note'.new = NewBlocks(b) /\ note'.fin = cachedFin'
         /\ \E f, t \in Nat \cup {NoHeight} :
              /\ note' = [first |-> f, tip |-> t, new |-> NewBlocks(b), fin |-> cachedFin']
              /\ f # NoHeight => /\ t = num[Tip(feed)] /\ f <= t
                                 /\ num[NewBlocks(b)[1]] = f
<1> DEFINE o == Overlap(b)
           k == Kept(b)
           new == NewBlocks(b)
<1>1. Consecutive(view) /\ IsEnd(view, feed) /\ Overlaps(b) # {} /\ ~AlreadySeen(b)
  BY DEF ViewPart, Moves
<1>2. /\ new \in Seq(Block) /\ new # <<>> /\ k \in 1..Len(view)
      /\ num[view[k]] = o /\ num[new[1]] = o + 1
  <2>1. /\ new \in Seq(Block) /\ new # <<>> /\ k \in 1..Len(view)
        /\ num[view[k]] = o /\ \A i \in 1..Len(new) : num[new[i]] = o + i
    BY <1>1, NewBlocksFacts
  <2> HIDE DEF new
  <2>2. 1 \in 1..Len(new)
    BY <2>1
  <2> QED BY <2>1, <2>2
<1>3. o \in 1..num[b] /\ view # <<>> /\ num[view[1]] <= o /\ o <= num[Tip(view)]
  BY <1>1, OverlapFacts
<1>4. /\ view \in Seq(Block) /\ Len(view) \in Nat \ {0} /\ view[1] \in Block
      /\ feed \in Seq(Block) /\ Len(feed) \in Nat /\ Tip(view) \in Block
  BY <1>3, TypeFacts
<1>5. num[view[1]] \in Nat /\ num[Tip(view)] \in Nat /\ o \in Nat
  BY <1>3, <1>4, HeaderFacts
<1>6. num[Tip(view)] = num[view[1]] + Len(view) - 1 /\ Tip(feed) = Tip(view)
  BY <1>3, TipFacts
<1>7. k = o - num[view[1]] + 1
  BY DEF Kept
<1>8. Len(view) <= Len(feed) /\ \A i \in 1..Len(view) : view[i] = feed[Len(feed) - Len(view) + i]
  BY <1>1 DEF IsEnd
<1>9. \A i \in 1..Len(view) : num[view[i]] = num[view[1]] + i - 1
  BY <1>1 DEF Consecutive
<1> HIDE DEF o, k, new
<1>10. CASE o = num[Tip(view)] /\ Advance(b)
  <2>1. k = Len(view) /\ Len(feed) - Len(view) + k = Len(feed)
    BY <1>4, <1>5, <1>6, <1>7, <1>10
  <2>2. Prefix(view, k) = view /\ Prefix(feed, Len(feed) - Len(view) + k) = feed
    BY <1>4, <2>1, PrefixAll
  <2>3. /\ view' = ExtendView(view, new) /\ RefreshTags(hintEpoch)
        /\ Emit(NoHeight, NoHeight, new) /\ backfillFrom' = backfillFrom
    BY <1>10 DEF Advance, new, NewBlocks
  <2>4. /\ feed' = feed \o new /\ lastEmitted' = Tip(new)
        /\ note' = [first |-> NoHeight, tip |-> NoHeight, new |-> new, fin |-> cachedFin']
    BY <2>3 DEF Emit
  <2> QED BY <2>2, <2>3, <2>4 DEF o, k, new
<1>11. CASE o # num[Tip(view)] /\ Reorg(b)
  <2>1. /\ view' = ExtendView(Below(view, o + 1), new) /\ RefreshTags(hintEpoch)
        /\ Emit(o + 1, num[Tip(view)], new) /\ backfillFrom' = backfillFrom
    BY <1>11 DEF Reorg, new, NewBlocks, o
  <2>2. o + 1 \in Nat /\ o + 1 # NoHeight
    BY <1>5 DEF NoHeight
  <2>3. /\ feed' = Below(feed, o + 1) \o new /\ lastEmitted' = Tip(new)
        /\ note' = [first |-> o + 1, tip |-> num[Tip(view)], new |-> new, fin |-> cachedFin']
    BY <2>1, <2>2 DEF Emit
  <2>4. k \in Nat /\ k <= Len(view) /\ k > 0 /\ o + 1 \in Int
    BY <1>2, <1>4, <2>2
  <2>5. \A i \in 1..Len(view) : i > k => num[view[i]] >= o + 1
    <3> TAKE i \in 1..Len(view)
    <3>1. num[view[i]] = num[view[1]] + i - 1
      BY <1>9
    <3> QED BY <1>4, <1>5, <1>7, <2>4, <3>1
  <2>6. Below(view, o + 1) = Prefix(view, k)
    <3>1. num[view[k]] < o + 1
      BY <1>2, <1>5
    <3> QED BY <1>4, <2>4, <2>5, <3>1, BelowFacts
  <2> DEFINE j == Len(feed) - Len(view) + k
  <2>7. j \in Nat /\ j <= Len(feed)
    BY <1>4, <1>8, <2>4
  <2>8. \A i \in 1..Len(feed) : i > j => num[feed[i]] >= o + 1
    <3> TAKE i \in 1..Len(feed)
    <3> HAVE i > j
    <3> DEFINE q == i - Len(feed) + Len(view)
    <3>1. q \in 1..Len(view) /\ Len(feed) - Len(view) + q = i /\ q > k
      BY <1>4, <1>8, <2>4
    <3> HIDE DEF q
    <3>2. feed[i] = view[q]
      BY <1>8, <3>1
    <3> QED BY <2>5, <3>1, <3>2
  <2>9. num[feed[j]] < o + 1
    <3>1. feed[j] = view[k]
      BY <1>2, <1>8
    <3> QED BY <1>2, <1>5, <3>1
  <2> HIDE DEF j
  <2>10. Below(feed, o + 1) = Prefix(feed, j)
    BY <1>4, <2>4, <2>7, <2>8, <2>9, BelowFacts
  <2>11. o + 1 <= num[Tip(view)] /\ num[Tip(view)] = num[Tip(feed)]
    BY <1>3, <1>5, <1>6, <1>11
  <2>12. \E f, t \in Nat \cup {NoHeight} :
              /\ note' = [first |-> f, tip |-> t, new |-> new, fin |-> cachedFin']
              /\ f # NoHeight => t = num[Tip(feed)] /\ f <= t /\ num[new[1]] = f
    BY <1>2, <1>5, <2>2, <2>3, <2>11
  <2> QED BY <2>1, <2>3, <2>6, <2>10, <2>12 DEF o, k, new, j
<1> QED BY <1>10, <1>11 DEF Moves, o

-------------------------------------------------------------------------------
(***************************************************************************)
(* SafeInv holds whatever the host does.                                   *)
(***************************************************************************)
USE DEF NoHeight

TypeHost ==
  /\ host \in Seq(Block) /\ hostFin \in Nat /\ reorgs \in 0..MaxReorgs
  /\ spared \in BOOLEAN /\ header \in Block \cup {NoBlock}

TypeFollow ==
  /\ view \in Seq(Block) /\ Len(view) <= Capacity
  /\ backfillFrom \in Nat \cup {NoHeight}
  /\ lastEmitted \in Block \cup {NoBlock}
  /\ tagEpoch \in Nat \cup {NoHeight} /\ cachedFin \in Nat \cup {NoHeight}
  /\ note \in [first : Nat \cup {NoHeight}, tip : Nat \cup {NoHeight},
               new : Seq(Block), fin : Nat \cup {NoHeight}]
  /\ feed \in Seq(Block)

TypeLocal ==
  /\ pc \in {"backfill", "fetch", "await", "walk", "rewalk", "failed", "closed"}
  /\ hint \in Block \cup {NoBlock} /\ hintEpoch \in Nat
  /\ to \in Nat /\ done \in BOOLEAN
  /\ got \in [DOMAIN got -> Block] /\ DOMAIN got \subseteq Nat

\* The type invariant by the parts that different actions change.
LEMMA TypeParts == TypeOK <=> TypeHost /\ TypeFollow /\ TypeLocal
  BY DEF TypeOK, TypeHost, TypeFollow, TypeLocal

LEMMA TypePartsNext == TypeOK' <=> TypeHost' /\ TypeFollow' /\ TypeLocal'
  BY DEF TypeOK, TypeHost, TypeFollow, TypeLocal

\* What the notifier does leaves the host's part alone, and back.
LEMMA SameHost ==
  ASSUME TypeHost, HostPart, UNCHANGED hostVars
  PROVE  TypeHost' /\ HostPart'
  BY DEF TypeHost, HostPart, hostVars, Tip, IsChain, LinkedFrom

LEMMA SameFollow ==
  ASSUME TypeFollow, UNCHANGED followVars
  PROVE  TypeFollow'
  BY DEF TypeFollow, followVars, tagVars

\* The host's chain after a new tip on its first k blocks.
LEMMA HostMoves ==
  ASSUME TypeOK, HostPart, NEW k \in Nat \ {0}, k <= Len(host), NewTip(Prefix(host, k))
  PROVE  /\ host' \in Seq(Block) /\ Len(host') = k + 1
         /\ \A i \in 1..k : host'[i] = host[i]
         /\ IsChain(host') /\ host' # <<>>
         /\ header' \in Block /\ header' = Tip(host')
<1> DEFINE p == Prefix(host, k)
<1>1. host \in Seq(Block) /\ LinkedFrom(host, 1)
  BY TypeFacts DEF HostPart, IsChain
<1>2. p \in Seq(Block) /\ Len(p) = k /\ \A i \in 1..k : p[i] = host[i]
  BY <1>1, PrefixFacts
<1> HIDE DEF p
<1>3. PICK b \in Block : /\ num[b] = Len(p) + 1
                         /\ p # <<>> => parent[b] = Tip(p)
                         /\ host' = Append(p, b) /\ header' = b
  BY DEF NewTip, p
<1>4. LinkedFrom(p, 1)
  <2>1. ASSUME NEW i \in 1..Len(p)
        PROVE  num[p[i]] = 1 + i - 1 /\ (i > 1 => parent[p[i]] = p[i - 1])
    <3>1. i \in 1..k /\ i \in 1..Len(host) /\ (i > 1 => i - 1 \in 1..k)
      BY <1>1, <1>2
    <3>2. num[host[i]] = 1 + i - 1 /\ (i > 1 => parent[host[i]] = host[i - 1])
      BY <1>1, <3>1 DEF LinkedFrom
    <3> QED BY <1>2, <3>1, <3>2
  <2> QED BY <2>1 DEF LinkedFrom
<1>5. LinkedFrom(Append(p, b), 1)
  <2>1. 1 \in Nat /\ 1 + Len(p) = Len(p) + 1
    BY <1>2
  <2>2. num[b] = 1 + Len(p) /\ (p # <<>> => parent[b] = p[Len(p)])
    BY <1>3, <2>1 DEF Tip
  <2> QED BY <1>2, <1>4, <2>1, <2>2, LinkAppend
<1>6. /\ host' \in Seq(Block) /\ Len(host') = k + 1 /\ host'[k + 1] = b
      /\ \A i \in 1..k : host'[i] = p[i]
  BY <1>2, <1>3
<1>7. host' # <<>>
  BY <1>6
<1> QED BY <1>2, <1>3, <1>5, <1>6, <1>7 DEF IsChain, Tip

\* A step of the host.
LEMMA HostSafe == ASSUME SafeInv, HostStep PROVE SafeInv'
<1>1. TypeOK /\ HostPart /\ ControlPart /\ ViewPart
  BY DEF SafeInv
<1>2. TypeHost /\ TypeFollow /\ TypeLocal
  BY <1>1, TypeParts
<1>3. Len(host) \in Nat \ {0} /\ host \in Seq(Block)
  BY <1>1, TypeFacts DEF HostPart
<1>4. UNCHANGED <<followVars, pc, batchVars, headVars>>
  BY DEF HostStep, HostExtend, HostReorg, HostFinalize
<1>5. TypeHost' /\ HostPart'
  <2>1. CASE HostExtend
    <3>1. NewTip(Prefix(host, Len(host)))
      BY <1>3, <2>1, PrefixAll DEF HostExtend
    <3>2. /\ host' \in Seq(Block) /\ IsChain(host') /\ host' # <<>>
          /\ header' \in Block /\ header' = Tip(host')
      BY <1>1, <1>3, <3>1, HostMoves
    <3> QED BY <1>2, <2>1, <3>2 DEF HostExtend, TypeHost, HostPart, IsChain, LinkedFrom, Tip
  <2>2. CASE HostReorg
    <3>1. PICK k \in (hostFin..(Len(host) - 1)) \ {0} :
            /\ NewTip(Prefix(host, k))
            /\ spared' = (spared /\ k >= Relied /\ pc # "fetch")
      BY <2>2 DEF HostReorg
    <3>2. k \in Nat \ {0} /\ k <= Len(host)
      BY <1>2, <1>3, <3>1 DEF TypeHost
    <3>3. /\ host' \in Seq(Block) /\ IsChain(host') /\ host' # <<>>
          /\ header' \in Block /\ header' = Tip(host')
      BY <1>1, <3>1, <3>2, HostMoves
    <3>4. reorgs' \in 0..MaxReorgs /\ hostFin' \in Nat
      BY <1>2, <2>2, RpcHostNotifierAssumption DEF HostReorg, TypeHost
    <3>5. spared' \in BOOLEAN
      BY <3>1
    <3> QED BY <3>3, <3>4, <3>5 DEF TypeHost, HostPart, IsChain, LinkedFrom, Tip
  <2>3. CASE HostFinalize
    <3>1. hostFin' \in Nat
      BY <1>2, <1>3, <2>3 DEF HostFinalize, TypeHost
    <3> QED BY <1>1, <1>2, <2>3, <3>1
            DEF HostFinalize, TypeHost, HostPart, IsChain, LinkedFrom, Tip
  <2> QED BY <2>1, <2>2, <2>3 DEF HostStep
<1>6. TypeFollow'
  BY <1>2, <1>4, SameFollow
<1>7. TypeLocal'
  BY <1>2, <1>4 DEF TypeLocal, batchVars, headVars
<1>8. ControlPart'
  BY <1>1, <1>4 DEF ControlPart, Walking, batchVars, headVars, followVars
<1>9. ViewPart'
  BY <1>1, <1>4 DEF ViewPart, IsEnd, Consecutive, Tip, followVars
<1> QED BY <1>5, <1>6, <1>7, <1>8, <1>9, TypePartsNext DEF SafeInv

-------------------------------------------------------------------------------
\* A fetched batch: the blocks found at the heights from the cursor on.
LEMMA FetchedFacts ==
  ASSUME SafeInv, pc = "fetch", DOMAIN got = backfillFrom..to
  PROVE  /\ Fetched \in Seq(Block) /\ Fetched # <<>>
         /\ backfillFrom \in Nat \ {0} /\ to \in Nat /\ backfillFrom <= to
         /\ Len(Fetched) = to - backfillFrom + 1 /\ Len(Fetched) \in Nat \ {0}
         /\ \A i \in 1..Len(Fetched) : /\ Fetched[i] = got[backfillFrom + i - 1]
                                       /\ num[Fetched[i]] = backfillFrom + i - 1
         /\ Tip(Fetched) \in Block
         /\ Follows(Fetched, view, Len(view))
<1>1. TypeOK /\ ControlPart /\ ViewPart
  BY DEF SafeInv
<1>2. TypeFollow /\ TypeLocal
  BY <1>1, TypeParts
<1>3. backfillFrom \in Nat \ {0} /\ to \in Nat /\ backfillFrom <= to
  BY <1>1, <1>2 DEF ControlPart, TypeLocal
<1>4. PICK n \in Nat \ {0} : n = to - backfillFrom + 1
  BY <1>3
<1>5. \A i \in 1..n : /\ got[backfillFrom + i - 1] \in Block
                      /\ num[got[backfillFrom + i - 1]] = backfillFrom + i - 1
  <2> TAKE i \in 1..n
  <2> DEFINE q == backfillFrom + i - 1
  <2>1. q \in backfillFrom..to
    BY <1>3, <1>4
  <2> HIDE DEF q
  <2>2. q \in DOMAIN got
    BY <2>1
  <2>3. got[q] \in Block /\ num[got[q]] = q
    BY <1>1, <1>2, <2>2 DEF TypeLocal, ControlPart
  <2> QED BY <2>3 DEF q
<1>6. Fetched = [i \in 1..n |-> got[backfillFrom + i - 1]]
  BY <1>4 DEF Fetched
<1>7. Fetched \in Seq(Block) /\ Len(Fetched) = n
      /\ \A i \in 1..n : Fetched[i] = got[backfillFrom + i - 1]
  BY <1>5, <1>6
<1>8. Fetched # <<>> /\ Tip(Fetched) \in Block
  BY <1>7 DEF Tip
<1>9. \A i \in 1..n : num[Fetched[i]] = backfillFrom + i - 1
  BY <1>5, <1>7
<1>10. Follows(Fetched, view, Len(view))
  <2>1. 1 \in 1..n
    OBVIOUS
  <2>2. num[Fetched[1]] = backfillFrom
    BY <1>3, <1>9, <2>1
  <2>3. Consecutive(Fetched)
    BY <1>3, <1>7, <1>9, <2>2 DEF Consecutive
  <2>4. ASSUME Len(view) > 0 PROVE num[Fetched[1]] = num[view[Len(view)]] + 1
    <3>1. view # <<>> /\ backfillFrom # NoHeight
      BY <1>3, <2>4
    <3>2. backfillFrom = num[Tip(view)] + 1
      BY <1>1, <3>1 DEF ViewPart
    <3> QED BY <2>2, <3>2 DEF Tip
  <2> QED BY <2>3, <2>4 DEF Follows
<1> QED BY <1>3, <1>4, <1>7, <1>8, <1>9, <1>10

\* What is emitted has its type.
LEMMA EmitFacts ==
  ASSUME TypeOK, NEW epoch \in Nat, RefreshTags(epoch)
  PROVE  tagEpoch' \in Nat \cup {NoHeight} /\ cachedFin' \in Nat \cup {NoHeight}
  BY DEF TypeOK, RefreshTags

\* A step of drain_backfill.
LEMMA DrainSafe == ASSUME SafeInv, DrainBackfill PROVE SafeInv'
<1>1. TypeOK /\ HostPart /\ ControlPart /\ ViewPart
  BY DEF SafeInv
<1>2. TypeHost /\ TypeFollow /\ TypeLocal
  BY <1>1, TypeParts
<1>3. Len(host) \in Nat \ {0} /\ host \in Seq(Block)
  BY <1>1, TypeFacts DEF HostPart
<1>4. UNCHANGED <<hostVars, headVars>>
  BY DEF DrainBackfill, BackfillIdle, BackfillComplete, BackfillPastTip, BackfillPlan,
         FetchByNumber, FetchMissing, BackfillBreak, BackfillEmit, hostVars
<1>5. TypeHost' /\ HostPart'
  BY <1>1, <1>2, <1>4, SameHost
<1> SUFFICES TypeFollow' /\ TypeLocal' /\ ControlPart' /\ ViewPart'
  BY <1>5, TypePartsNext DEF SafeInv
<1>6. CASE BackfillIdle
  <2>1. TypeFollow'
    BY <1>2, <1>6, SameFollow DEF BackfillIdle
  <2>2. TypeLocal'
    BY <1>2, <1>6 DEF BackfillIdle, TypeLocal, batchVars, headVars
  <2>3. ControlPart'
    BY <1>1, <1>6 DEF BackfillIdle, ControlPart, Walking, followVars, batchVars, headVars
  <2>4. ViewPart'
    BY <1>1, <1>6 DEF BackfillIdle, ViewPart, IsEnd, Consecutive, Tip, followVars
  <2> QED BY <2>1, <2>2, <2>3, <2>4
<1>7. CASE BackfillComplete
  <2>1. TypeFollow'
    BY <1>2, <1>7 DEF BackfillComplete, TypeFollow, tagVars
  <2>2. TypeLocal'
    BY <1>2, <1>7 DEF BackfillComplete, TypeLocal, batchVars, headVars
  <2>3. ControlPart'
    BY <1>1, <1>7 DEF BackfillComplete, ControlPart, Walking, batchVars, headVars
  <2>4. ViewPart'
    BY <1>1, <1>7 DEF BackfillComplete, ViewPart, IsEnd, Consecutive, Tip
  <2> QED BY <2>1, <2>2, <2>3, <2>4
<1>8. CASE BackfillPastTip \/ FetchMissing
  <2>1. /\ UNCHANGED <<followVars, batchVars, headVars>> /\ pc' = "failed"
    BY <1>8 DEF BackfillPastTip, FetchMissing
  <2>2. TypeFollow'
    BY <1>2, <2>1, SameFollow
  <2>3. TypeLocal'
    BY <1>2, <2>1 DEF TypeLocal, batchVars, headVars
  <2>4. ControlPart'
    BY <1>1, <2>1 DEF ControlPart, Walking, followVars
  <2>5. ViewPart'
    BY <1>1, <2>1 DEF ViewPart, IsEnd, Consecutive, Tip, followVars
  <2> QED BY <2>2, <2>3, <2>4, <2>5
<1>9. CASE BackfillPlan
  <2>1. TypeFollow'
    BY <1>2, <1>9, SameFollow DEF BackfillPlan
  <2>2. backfillFrom \in Nat \ {0} /\ backfillFrom <= Len(host)
    BY <1>1, <1>2, <1>9 DEF BackfillPlan, ControlPart, TypeFollow
  <2>3. BackfillCeiling(Len(host)) \in Nat /\ backfillFrom <= BackfillCeiling(Len(host))
    <3>1. Capacity \div 2 \in Nat
      BY RpcHostNotifierAssumption
    <3> QED BY <1>3, <2>2, <3>1 DEF BackfillCeiling
  <2>4. BatchSize \in Nat \ {0}
    BY RpcHostNotifierAssumption
  <2>5. to' \in Nat /\ backfillFrom <= to' /\ done' \in BOOLEAN
    <3>1. /\ to' = IF backfillFrom + BatchSize - 1 < BackfillCeiling(Len(host))
                     THEN backfillFrom + BatchSize - 1 ELSE BackfillCeiling(Len(host))
          /\ done' = (to' >= BackfillCeiling(Len(host)))
      BY <1>9 DEF BackfillPlan
    <3> QED BY <2>2, <2>3, <2>4, <3>1
  <2>6. /\ got' = <<>> /\ DOMAIN got' = {} /\ got' \in [DOMAIN got' -> Block]
        /\ pc' = "fetch"
    BY <1>9 DEF BackfillPlan
  <2>7. UNCHANGED <<followVars, headVars>> /\ pc = "backfill"
    BY <1>9 DEF BackfillPlan
  <2>8. TypeLocal'
    BY <1>2, <2>5, <2>6, <2>7 DEF TypeLocal, headVars
  <2>9. ControlPart'
    BY <1>1, <2>2, <2>5, <2>6, <2>7 DEF ControlPart, Walking, followVars, headVars
  <2>10. ViewPart'
    BY <1>1, <2>6, <2>7 DEF ViewPart, IsEnd, Consecutive, Tip, followVars
  <2> QED BY <2>1, <2>8, <2>9, <2>10
<1>10. CASE FetchByNumber
  <2>1. PICK n \in (backfillFrom..to) \ DOMAIN got :
          /\ n <= Len(host)
          /\ got' = [m \in DOMAIN got \cup {n} |-> IF m = n THEN host[n] ELSE got[m]]
    BY <1>10 DEF FetchByNumber
  <2>2. /\ UNCHANGED <<followVars, pc, to, done, headVars>> /\ pc = "fetch"
    BY <1>10 DEF FetchByNumber
  <2>3. backfillFrom \in Nat \ {0} /\ to \in Nat /\ backfillFrom <= to
    BY <1>1, <1>2, <2>2 DEF ControlPart, TypeLocal
  <2>4. n \in Nat /\ n \in 1..Len(host) /\ host[n] \in Block
    BY <1>3, <2>1, <2>3
  <2>5. num[host[n]] = n
    <3>1. num[host[n]] = 1 + n - 1
      BY <1>1, <2>4 DEF HostPart, IsChain, LinkedFrom
    <3> QED BY <2>4, <3>1
  <2>6. /\ DOMAIN got' = DOMAIN got \cup {n}
        /\ \A m \in DOMAIN got' : got'[m] = IF m = n THEN host[n] ELSE got[m]
    BY <2>1
  <2>7. got' \in [DOMAIN got' -> Block] /\ DOMAIN got' \subseteq Nat
    BY <1>2, <2>1, <2>4 DEF TypeLocal
  <2>8. /\ DOMAIN got' \subseteq backfillFrom..to
        /\ \A m \in DOMAIN got' : num[got'[m]] = m
    BY <1>1, <2>1, <2>2, <2>5, <2>6 DEF ControlPart
  <2>9. TypeFollow'
    BY <1>2, <2>2, SameFollow
  <2>10. TypeLocal'
    BY <1>2, <2>2, <2>7 DEF TypeLocal, headVars
  <2>11. ControlPart'
    BY <1>1, <2>2, <2>3, <2>8 DEF ControlPart, Walking, followVars, headVars
  <2>12. ViewPart'
    BY <1>1, <2>2 DEF ViewPart, IsEnd, Consecutive, Tip, followVars
  <2> QED BY <2>9, <2>10, <2>11, <2>12
<1>11. CASE BackfillBreak
  <2>1. /\ pc' = "failed" /\ view' = <<>>
        /\ UNCHANGED <<backfillFrom, lastEmitted, tagVars, note, feed, batchVars, headVars>>
    BY <1>11 DEF BackfillBreak
  <2>2. TypeFollow'
    BY <1>2, <2>1, RpcHostNotifierAssumption DEF TypeFollow, tagVars
  <2>3. TypeLocal'
    BY <1>2, <2>1 DEF TypeLocal, batchVars, headVars
  <2>4. ControlPart'
    BY <1>1, <2>1 DEF ControlPart, Walking
  <2>5. ViewPart'
    <3>1. Len(feed) \in Nat
      BY <1>1, TypeFacts
    <3> QED BY <1>1, <2>1, <3>1 DEF ViewPart, IsEnd, Consecutive, Tip
  <2> QED BY <2>2, <2>3, <2>4, <2>5
<1>12. CASE BackfillEmit
  <2> DEFINE new == Fetched
             k == Len(view)
  <2>1. /\ pc = "fetch" /\ DOMAIN got = backfillFrom..to
        /\ view' = ExtendView(view, new)
        /\ backfillFrom' = IF done THEN NoHeight ELSE to + 1
        /\ RefreshTags(EpochOf(Tip(new))) /\ Emit(NoHeight, NoHeight, new)
        /\ pc' = "backfill" /\ got' = <<>> /\ UNCHANGED <<to, done, headVars>>
    BY <1>12 DEF BackfillEmit
  <2>2. /\ new \in Seq(Block) /\ new # <<>>
        /\ backfillFrom \in Nat \ {0} /\ to \in Nat /\ backfillFrom <= to
        /\ Len(new) = to - backfillFrom + 1 /\ Len(new) \in Nat \ {0}
        /\ \A i \in 1..Len(new) : num[new[i]] = backfillFrom + i - 1
        /\ Tip(new) \in Block /\ Follows(new, view, Len(view))
    BY <2>1, FetchedFacts
  <2> HIDE DEF new
  <2>3. /\ view \in Seq(Block) /\ feed \in Seq(Block) /\ k \in Nat /\ Len(feed) \in Nat
        /\ k <= Len(view) /\ Len(feed) - Len(view) + k = Len(feed)
    BY <1>1, TypeFacts
  <2>4. Prefix(view, k) = view /\ Prefix(feed, Len(feed) - Len(view) + k) = feed
    BY <2>3, PrefixAll
  <2>5. /\ feed' = feed \o new /\ lastEmitted' = Tip(new)
        /\ note' = [first |-> NoHeight, tip |-> NoHeight, new |-> new, fin |-> cachedFin']
    BY <2>1 DEF Emit
  <2>6. IsEnd(view, feed) /\ Consecutive(view)
    BY <1>1 DEF ViewPart
  <2>7. /\ view' \in Seq(Block) /\ feed' \in Seq(Block)
        /\ Len(view') \in 1..Capacity /\ view' # <<>> /\ feed' # <<>>
        /\ IsEnd(view', feed') /\ Consecutive(view')
        /\ Tip(view') = Tip(new) /\ Tip(feed') = Tip(new)
    <3> HIDE DEF k
    <3>1. /\ view' = ExtendView(Prefix(view, k), new)
          /\ feed' = Prefix(feed, Len(feed) - Len(view) + k) \o new
      BY <2>1, <2>4, <2>5
    <3>2. Follows(new, view, k)
      BY <2>2 DEF k
    <3> DEFINE e == ExtendView(Prefix(view, k), new)
               t == Prefix(feed, Len(feed) - Len(view) + k) \o new
    <3>3. /\ e \in Seq(Block) /\ t \in Seq(Block)
          /\ Len(e) \in 1..Capacity /\ e # <<>> /\ t # <<>>
          /\ IsEnd(e, t) /\ Consecutive(e)
          /\ Tip(e) = Tip(new) /\ Tip(t) = Tip(new)
      <4>1. /\ view \in Seq(Block) /\ feed \in Seq(Block) /\ new \in Seq(Block)
            /\ new # <<>> /\ k \in Nat /\ k <= Len(view)
        BY <2>2, <2>3
      <4> QED BY ONLY <2>6, <3>2, <4>1, MoveFacts
    <3>4. view' = e /\ feed' = t
      BY <3>1
    <3> HIDE DEF e, t
    <3> QED BY <3>3, <3>4
  <2>8. tagEpoch' \in Nat \cup {NoHeight} /\ cachedFin' \in Nat \cup {NoHeight}
    BY <1>1, <2>1, <2>2, EpochFacts, EmitFacts
  <2>9. note' \in [first : Nat \cup {NoHeight}, tip : Nat \cup {NoHeight},
                   new : Seq(Block), fin : Nat \cup {NoHeight}]
    BY <2>2, <2>5, <2>8
  <2>10. backfillFrom' \in Nat \cup {NoHeight} /\ backfillFrom' # 0
    BY <2>1, <2>2
  <2>11. lastEmitted' \in Block /\ Len(view') <= Capacity
    BY <2>2, <2>5, <2>7, RpcHostNotifierAssumption
  <2>12. TypeFollow'
    BY <2>7, <2>8, <2>9, <2>10, <2>11 DEF TypeFollow
  <2>13. DOMAIN got' = {} /\ got' \in [DOMAIN got' -> Block]
    BY <2>1
  <2>14. TypeLocal'
    BY <1>2, <2>1, <2>13 DEF TypeLocal, headVars
  <2>15. ControlPart'
    BY <1>1, <2>1, <2>10 DEF ControlPart, Walking, headVars
  <2>16. num[Tip(new)] = to
    <3>1. Len(new) \in 1..Len(new) /\ backfillFrom + Len(new) - 1 = to
      BY <2>2
    <3>2. num[new[Len(new)]] = backfillFrom + Len(new) - 1
      BY <2>2, <3>1
    <3> QED BY <3>1, <3>2 DEF Tip
  <2>17. ViewPart'
    <3>1. backfillFrom' # NoHeight => backfillFrom' = num[Tip(view')] + 1
      BY <2>1, <2>7, <2>16
    <3>2. lastEmitted' = Tip(feed')
      BY <2>5, <2>7
    <3> QED BY <2>7, <3>1, <3>2 DEF ViewPart, IsEnd, Consecutive, Tip
  <2> QED BY <2>12, <2>14, <2>15, <2>17
<1> QED BY <1>6, <1>7, <1>8, <1>9, <1>10, <1>11, <1>12 DEF DrainBackfill

\* What a walk that moves leaves: a view that is an end of the feed again, and
\* both end in the hint.
LEMMA MovedFacts ==
  ASSUME TypeOK, ViewPart, NEW b \in Block, Moves(b)
  PROVE  /\ view' \in Seq(Block) /\ feed' \in Seq(Block)
         /\ Len(view') \in 1..Capacity /\ view' # <<>> /\ feed' # <<>>
         /\ IsEnd(view', feed') /\ Consecutive(view')
         /\ Tip(view') = b /\ Tip(feed') = b /\ lastEmitted' = b
         /\ view'[1] = view[1] \/ Len(view') = Capacity
         /\ backfillFrom' = backfillFrom /\ RefreshTags(hintEpoch)
<1> DEFINE k == Kept(b)
           new == NewBlocks(b)
           e == ExtendView(Prefix(view, k), new)
           t == Prefix(feed, Len(feed) - Len(view) + k) \o new
<1>1. Consecutive(view) /\ IsEnd(view, feed) /\ Overlaps(b) # {} /\ ~AlreadySeen(b)
  BY DEF ViewPart, Moves
<1>2. /\ new \in Seq(Block) /\ new # <<>> /\ Tip(new) = b
      /\ k \in 1..Len(view) /\ Follows(new, view, k)
  BY <1>1, NewBlocksFacts
<1>3. /\ view' = e /\ feed' = t /\ lastEmitted' = Tip(new)
      /\ backfillFrom' = backfillFrom /\ RefreshTags(hintEpoch)
  BY WalkMoves
<1>4. view \in Seq(Block) /\ feed \in Seq(Block) /\ Len(view) \in Nat
  BY TypeFacts
<1> HIDE DEF k, new
<1>5. k \in Nat /\ k <= Len(view) /\ k > 0
  BY <1>2, <1>4
<1>6. /\ e \in Seq(Block) /\ t \in Seq(Block)
      /\ Len(e) \in 1..Capacity /\ e # <<>> /\ t # <<>>
      /\ IsEnd(e, t) /\ Consecutive(e)
      /\ Tip(e) = Tip(new) /\ Tip(t) = Tip(new)
      /\ \/ k = 0 /\ Len(e) = Len(new)
         \/ k > 0 /\ e[1] = view[1]
         \/ Len(e) = Capacity
  <2>1. new \in Seq(Block) /\ new # <<>> /\ Follows(new, view, k)
    BY <1>2
  <2> QED BY ONLY <1>1, <1>4, <1>5, <2>1, MoveFacts
<1> HIDE DEF e, t
<1> QED BY <1>2, <1>3, <1>5, <1>6

\* The first block after an empty view.
LEMMA FromEmptyFacts ==
  ASSUME TypeOK, ViewPart, NEW b \in Block, view = <<>>, AdvanceFromEmpty(b)
  PROVE  /\ view' = <<b>> /\ feed' \in Seq(Block) /\ feed' # <<>>
         /\ IsEnd(view', feed') /\ Consecutive(view')
         /\ Tip(view') = b /\ Tip(feed') = b /\ lastEmitted' = b
         /\ backfillFrom' = backfillFrom /\ RefreshTags(hintEpoch)
         /\ note' = [first |-> NoHeight, tip |-> NoHeight, new |-> <<b>>, fin |-> cachedFin']
<1>1. /\ view' = ExtendView(view, <<b>>) /\ RefreshTags(hintEpoch)
      /\ Emit(NoHeight, NoHeight, <<b>>) /\ backfillFrom' = backfillFrom
  BY DEF AdvanceFromEmpty
<1>2. view' = <<b>>
  <2>1. <<>> \o <<b>> = <<b>> /\ Len(<<b>>) = 1
    OBVIOUS
  <2>2. ~(1 > Capacity)
    BY RpcHostNotifierAssumption
  <2> QED BY <1>1, <2>1, <2>2 DEF ExtendView
<1>3. /\ feed' = feed \o <<b>> /\ lastEmitted' = Tip(<<b>>)
      /\ note' = [first |-> NoHeight, tip |-> NoHeight, new |-> <<b>>, fin |-> cachedFin']
  BY <1>1 DEF Emit
<1>4. feed \in Seq(Block) /\ Len(feed) \in Nat
  BY TypeFacts
<1>5. feed' \in Seq(Block) /\ Len(feed') = Len(feed) + 1 /\ feed'[Len(feed) + 1] = b
  BY <1>3, <1>4
<1>6. Len(view') = 1 /\ view'[1] = b
  BY <1>2
<1>7. IsEnd(view', feed')
  <2>1. Len(view') <= Len(feed') /\ Len(feed') - Len(view') + 1 = Len(feed) + 1
    BY <1>4, <1>5, <1>6
  <2>2. \A i \in 1..1 : i = 1
    OBVIOUS
  <2>3. \A i \in 1..Len(view') : view'[i] = feed'[Len(feed') - Len(view') + i]
    BY <1>5, <1>6, <2>1, <2>2
  <2> QED BY <2>1, <2>3 DEF IsEnd
<1>8. Consecutive(view')
  <2>1. \A i \in 1..1 : i = 1
    OBVIOUS
  <2>2. num[b] \in Nat
    BY HeaderFacts
  <2> QED BY <1>6, <2>1, <2>2 DEF Consecutive
<1>9. feed' # <<>>
  BY <1>4, <1>5
<1>10. Tip(view') = b /\ Tip(feed') = b /\ lastEmitted' = b
  BY <1>3, <1>5, <1>6 DEF Tip
<1> QED BY <1>1, <1>2, <1>3, <1>5, <1>7, <1>8, <1>9, <1>10

\* The alternatives of a walk.
LEMMA WalkCases ==
  HandleNewHead => /\ pc \in Walking /\ pc' = "backfill" /\ hint' = NoBlock
                   /\ hintEpoch' = 0 /\ UNCHANGED <<hostVars, batchVars>>
                   /\ \/ AlreadySeen(hint) /\ UNCHANGED followVars
                      \/ Exhausted(hint) /\ ResetToBackfill
                      \/ view = <<>> /\ AdvanceFromEmpty(hint)
                      \/ Moves(hint)
  BY DEF HandleNewHead, Moves, Walking

\* A step of the subscription.
LEMMA FollowSafe == ASSUME SafeInv, FollowHead PROVE SafeInv'
<1>1. TypeOK /\ HostPart /\ ControlPart /\ ViewPart
  BY DEF SafeInv
<1>2. TypeHost /\ TypeFollow /\ TypeLocal
  BY <1>1, TypeParts
<1>3. Len(host) \in Nat \ {0} /\ host \in Seq(Block) /\ Tip(host) \in Block
  BY <1>1, TypeFacts DEF HostPart
<1>4. CASE TakeHeader
  <2>1. /\ pc = "await" /\ header # NoBlock /\ hint' = header /\ hintEpoch' = EpochOf(header)
        /\ header' = NoBlock /\ pc' = "walk"
        /\ UNCHANGED <<host, hostFin, reorgs, spared, followVars, batchVars>>
    BY <1>4 DEF TakeHeader
  <2>2. TypeHost' /\ HostPart'
    BY <1>1, <1>2, <2>1 DEF TypeHost, HostPart, IsChain, LinkedFrom
  <2>3. TypeFollow'
    BY <1>2, <2>1, SameFollow
  <2>4. header \in Block
    BY <1>2, <2>1 DEF TypeHost
  <2>5. TypeLocal'
    BY <1>2, <2>1, <2>4, EpochFacts DEF TypeLocal, batchVars
  <2>6. ControlPart'
    BY <1>1, <2>1, <2>4 DEF ControlPart, Walking, followVars, batchVars
  <2>7. ViewPart'
    BY <1>1, <2>1 DEF ViewPart, IsEnd, Consecutive, Tip, followVars
  <2> QED BY <2>2, <2>3, <2>5, <2>6, <2>7, TypePartsNext DEF SafeInv
<1>5. CASE StaleHint
  <2>1. /\ pc = "walk" /\ hint' = Tip(host) /\ pc' = "rewalk"
        /\ UNCHANGED <<hostVars, followVars, batchVars, hintEpoch>>
    BY <1>5 DEF StaleHint
  <2>2. TypeHost' /\ HostPart'
    BY <1>1, <1>2, <2>1, SameHost
  <2>3. TypeFollow'
    BY <1>2, <2>1, SameFollow
  <2>4. TypeLocal'
    BY <1>2, <1>3, <2>1 DEF TypeLocal, batchVars
  <2>5. ControlPart'
    BY <1>1, <1>3, <2>1 DEF ControlPart, Walking, followVars, batchVars
  <2>6. ViewPart'
    BY <1>1, <2>1 DEF ViewPart, IsEnd, Consecutive, Tip, followVars
  <2> QED BY <2>2, <2>3, <2>4, <2>5, <2>6, TypePartsNext DEF SafeInv
<1>6. CASE HandleNewHead
  <2>1. /\ pc \in Walking /\ pc' = "backfill" /\ hint' = NoBlock /\ hintEpoch' = 0
        /\ UNCHANGED <<hostVars, batchVars>>
    BY <1>6, WalkCases
  <2>2. hint \in Block /\ backfillFrom = NoHeight /\ hintEpoch \in Nat
    BY <1>1, <1>2, <2>1 DEF ControlPart, TypeLocal
  <2>3. TypeHost' /\ HostPart'
    BY <1>1, <1>2, <2>1, SameHost
  <2>4. TypeLocal'
    BY <1>2, <2>1 DEF TypeLocal, batchVars
  <2>5. ASSUME backfillFrom' # 0 PROVE ControlPart'
    BY <1>1, <2>1, <2>5 DEF ControlPart, Walking, batchVars
  <2>6. SUFFICES TypeFollow' /\ backfillFrom' # 0 /\ ViewPart'
    BY <2>3, <2>4, <2>5, TypePartsNext DEF SafeInv
  <2>7. CASE AlreadySeen(hint) /\ UNCHANGED followVars
    <3>1. TypeFollow'
      BY <1>2, <2>7, SameFollow
    <3>2. backfillFrom' = NoHeight
      BY <2>2, <2>7 DEF followVars
    <3> QED BY <1>1, <2>7, <3>1, <3>2 DEF ViewPart, IsEnd, Consecutive, Tip, followVars
  <2>8. CASE Exhausted(hint) /\ ResetToBackfill
    <3>1. /\ view' = <<>> /\ UNCHANGED <<lastEmitted, cachedFin, note, feed>>
          /\ backfillFrom' = IF lastEmitted = NoBlock THEN NoHeight ELSE num[lastEmitted] + 1
          /\ tagEpoch' = NoHeight
      BY <2>8 DEF ResetToBackfill
    <3>2. backfillFrom' \in Nat \cup {NoHeight} /\ backfillFrom' # 0
      <4>1. lastEmitted \in Block => num[lastEmitted] \in Nat
        BY HeaderFacts
      <4> QED BY <1>2, <3>1, <4>1 DEF TypeFollow
    <3>3. TypeFollow'
      BY <1>2, <3>1, <3>2, RpcHostNotifierAssumption DEF TypeFollow
    <3>4. ViewPart'
      <4>1. Len(feed) \in Nat
        BY <1>1, TypeFacts
      <4> QED BY <1>1, <3>1, <4>1 DEF ViewPart, IsEnd, Consecutive, Tip
    <3> QED BY <3>2, <3>3, <3>4
  <2>9. CASE view = <<>> /\ AdvanceFromEmpty(hint)
    <3>1. /\ view' = <<hint>> /\ feed' \in Seq(Block) /\ feed' # <<>>
          /\ IsEnd(view', feed') /\ Consecutive(view')
          /\ Tip(feed') = hint /\ lastEmitted' = hint
          /\ backfillFrom' = backfillFrom /\ RefreshTags(hintEpoch)
          /\ note' = [first |-> NoHeight, tip |-> NoHeight, new |-> <<hint>>, fin |-> cachedFin']
      BY <1>1, <2>2, <2>9, FromEmptyFacts
    <3>2. tagEpoch' \in Nat \cup {NoHeight} /\ cachedFin' \in Nat \cup {NoHeight}
      BY <1>1, <2>2, <3>1, EmitFacts
    <3>3. view' \in Seq(Block) /\ Len(view') <= Capacity /\ <<hint>> \in Seq(Block)
      BY <2>2, <3>1, RpcHostNotifierAssumption
    <3>4. note' \in [first : Nat \cup {NoHeight}, tip : Nat \cup {NoHeight},
                     new : Seq(Block), fin : Nat \cup {NoHeight}]
      BY <3>1, <3>2, <3>3
    <3>5. TypeFollow'
      BY <2>2, <3>1, <3>2, <3>3, <3>4 DEF TypeFollow
    <3>6. ViewPart'
      BY <2>2, <3>1 DEF ViewPart, IsEnd, Consecutive, Tip
    <3> QED BY <2>2, <3>1, <3>5, <3>6
  <2>10. CASE Moves(hint)
    <3>1. /\ view' \in Seq(Block) /\ feed' \in Seq(Block)
          /\ Len(view') \in 1..Capacity /\ feed' # <<>>
          /\ IsEnd(view', feed') /\ Consecutive(view')
          /\ Tip(feed') = hint /\ lastEmitted' = hint
          /\ backfillFrom' = backfillFrom /\ RefreshTags(hintEpoch)
      BY <1>1, <2>2, <2>10, MovedFacts
    <3>2. tagEpoch' \in Nat \cup {NoHeight} /\ cachedFin' \in Nat \cup {NoHeight}
      BY <1>1, <2>2, <3>1, EmitFacts
    <3>3. Len(view') <= Capacity
      BY <3>1, RpcHostNotifierAssumption
    <3>4. note' \in [first : Nat \cup {NoHeight}, tip : Nat \cup {NoHeight},
                     new : Seq(Block), fin : Nat \cup {NoHeight}]
      <4>1. PICK f \in Nat \cup {NoHeight}, t \in Nat \cup {NoHeight} :
              note' = [first |-> f, tip |-> t, new |-> NewBlocks(hint), fin |-> cachedFin']
        BY <1>1, <2>2, <2>10, WalkMoves
      <4>2. NewBlocks(hint) \in Seq(Block)
        BY <1>1, <2>2, <2>10, NewBlocksFacts DEF ViewPart, Moves
      <4> QED BY <3>2, <4>1, <4>2
    <3>5. TypeFollow'
      BY <2>2, <3>1, <3>2, <3>3, <3>4 DEF TypeFollow
    <3>6. ViewPart'
      BY <2>2, <3>1 DEF ViewPart, IsEnd, Consecutive, Tip
    <3> QED BY <2>2, <3>1, <3>5, <3>6
  <2> QED BY <1>6, <2>7, <2>8, <2>9, <2>10, WalkCases
<1> QED BY <1>4, <1>5, <1>6 DEF FollowHead

\* The first state.
LEMMA SafeInit == Init => SafeInv
<1> HAVE Init
<1>1. PICK b \in Block : num[b] >= Head0 /\ host = Path[b]
  BY DEF Init
<1>2. host \in Seq(Block) /\ Len(host) = num[b] /\ IsChain(host) /\ num[b] \in Nat \ {0}
  BY <1>1, PathFacts, HeaderFacts
<1>3. host # <<>>
  BY <1>2
<1>4. TypeHost
  BY <1>2, RpcHostNotifierAssumption DEF Init, TypeHost
<1>5. TypeFollow
  BY RpcHostNotifierAssumption DEF Init, TypeFollow, NoNote
<1>6. TypeLocal
  <2>1. got = <<>> /\ DOMAIN got = {} /\ got \in [DOMAIN got -> Block]
    BY DEF Init
  <2> QED BY <2>1 DEF Init, TypeLocal
<1>7. HostPart
  BY <1>2, <1>3 DEF Init, HostPart
<1>8. ControlPart
  BY RpcHostNotifierAssumption DEF Init, ControlPart, Walking
<1>9. ViewPart
  BY DEF Init, ViewPart, IsEnd, Consecutive
<1> QED BY <1>4, <1>5, <1>6, <1>7, <1>8, <1>9, TypeParts DEF SafeInv

\* Every step.
LEMMA SafeStep == SafeInv /\ [Next]_vars => SafeInv'
<1> SUFFICES ASSUME SafeInv, [Next]_vars PROVE SafeInv'
  OBVIOUS
<1>1. TypeOK /\ HostPart /\ ControlPart /\ ViewPart
  BY DEF SafeInv
<1>2. TypeHost /\ TypeFollow /\ TypeLocal
  BY <1>1, TypeParts
<1>3. ASSUME UNCHANGED <<hostVars, followVars, batchVars, headVars>>,
             pc' \in {pc, "failed", "closed"}
      PROVE  SafeInv'
  <2>1. TypeHost' /\ HostPart' /\ TypeFollow'
    BY <1>1, <1>2, <1>3, SameHost, SameFollow
  <2>2. TypeLocal'
    BY <1>2, <1>3 DEF TypeLocal, batchVars, headVars
  <2>3. ControlPart'
    BY <1>1, <1>3 DEF ControlPart, Walking, followVars, batchVars, headVars
  <2>4. ViewPart'
    BY <1>1, <1>3 DEF ViewPart, IsEnd, Consecutive, Tip, followVars
  <2> QED BY <2>1, <2>2, <2>3, <2>4, TypePartsNext DEF SafeInv
<1>4. CASE CallFails \/ HeadersEnd \/ UNCHANGED vars
  <2>1. UNCHANGED <<hostVars, followVars, batchVars, headVars>>
    BY <1>4 DEF CallFails, HeadersEnd, vars
  <2>2. pc' \in {pc, "failed", "closed"}
    BY <1>4 DEF CallFails, HeadersEnd, vars
  <2> QED BY <1>3, <2>1, <2>2
<1> QED BY <1>4, HostSafe, DrainSafe, FollowSafe DEF Next

\* What holds whatever the host does, in every reachable state.
LEMMA SafeInvariance == Spec => []SafeInv
  BY SafeInit, SafeStep, PTL DEF Spec

\* Every variable keeps its type, in particular the chain view never holds more
\* than buffer_capacity blocks.
THEOREM TypeCorrect == Spec => []TypeOK
<1>1. SafeInv => TypeOK
  BY DEF SafeInv
<1> QED BY <1>1, SafeInvariance, PTL

\* Whatever the host does, the chain view is the end of the chain its receiver
\* holds, with consecutive heights (what view_hash's index arithmetic needs),
\* and last_emitted is that chain's tip.
THEOREM ViewAlwaysMirrorsFeed == Spec => []ViewMirrorsFeed
<1>1. SafeInv => ViewMirrorsFeed
  <2> SUFFICES ASSUME SafeInv PROVE ViewMirrorsFeed
    OBVIOUS
  <2>1. TypeOK /\ IsEnd(view, feed) /\ Consecutive(view)
        /\ lastEmitted = IF feed = <<>> THEN NoBlock ELSE Tip(feed)
    BY DEF SafeInv, ViewPart
  <2>2. view \in Seq(Block) /\ feed \in Seq(Block) /\ Len(view) \in Nat /\ Len(feed) \in Nat
    BY <2>1, TypeFacts
  <2>3. Len(view) <= Len(feed) /\ \A i \in 1..Len(view) : view[i] = feed[Len(feed) - Len(view) + i]
    BY <2>1 DEF IsEnd
  <2>4. view = SubSeq(feed, Len(feed) - Len(view) + 1, Len(feed))
    <3> DEFINE w == SubSeq(feed, Len(feed) - Len(view) + 1, Len(feed))
    <3>1. PICK m \in Nat \ {0} : m = Len(feed) - Len(view) + 1
      <4>1. Len(feed) - Len(view) + 1 \in Nat \ {0}
        BY <2>2, <2>3
      <4> QED BY <4>1
    <3>2. m <= Len(feed) + 1 /\ Len(feed) - m + 1 = Len(view)
      BY <2>2, <3>1
    <3>3. /\ w \in Seq(Block) /\ Len(w) = Len(feed) - m + 1
          /\ \A i \in 1..(Len(feed) - m + 1) : w[i] = feed[m + i - 1]
      <4>1. w = SubSeq(feed, m, Len(feed)) /\ Len(feed) <= Len(feed)
        BY <2>2, <3>1
      <4> HIDE DEF w
      <4> QED BY <2>2, <3>2, <4>1, SegmentFacts
    <3>4. \A i \in 1..Len(view) : w[i] = view[i]
      <4> TAKE i \in 1..Len(view)
      <4>1. w[i] = feed[m + i - 1]
        BY <3>2, <3>3
      <4>2. m + i - 1 = Len(feed) - Len(view) + i
        BY <2>2, <3>1
      <4> QED BY <2>3, <4>1, <4>2
    <3> HIDE DEF w
    <3>5. Len(w) = Len(view) /\ w \in Seq(Block)
      BY <3>2, <3>3
    <3>6. view = w
      BY ONLY <2>2, <3>4, <3>5
    <3> QED BY <3>6 DEF w
  <2>5. ASSUME NEW i \in 1..(Len(view) - 1) PROVE num[view[i + 1]] = num[view[i]] + 1
    <3>1. i \in 1..Len(view) /\ i + 1 \in 1..Len(view) /\ 1 \in 1..Len(view)
      BY <2>2
    <3>2. num[view[i]] = num[view[1]] + i - 1 /\ num[view[i + 1]] = num[view[1]] + (i + 1) - 1
      BY <2>1, <3>1 DEF Consecutive
    <3>3. num[view[1]] \in Nat
      BY <2>2, <3>1, HeaderFacts
    <3> QED BY <3>2, <3>3
  <2> QED BY <2>1, <2>3, <2>4, <2>5 DEF ViewMirrorsFeed
<1> QED BY <1>1, SafeInvariance, PTL

\* Every ChainReorged notification reverts exactly up to the last block its
\* receiver holds and goes on from the first reverted height, whatever the host
\* does.
THEOREM RevertsAlwaysReachTheTip == Spec => RevertsReachTheTip
<1> DEFINE A == note' # note /\ note'.first # NoHeight
                  => /\ note'.tip = num[Tip(feed)]
                     /\ note'.first <= note'.tip
                     /\ num[note'.new[1]] = note'.first
<1>1. SafeInv /\ [Next]_vars => [A]_vars
  <2> SUFFICES ASSUME SafeInv, Next, note' # note, note'.first # NoHeight
               PROVE  A
    BY DEF vars, followVars
  <2>1. TypeOK /\ ControlPart /\ ViewPart
    BY DEF SafeInv
  <2>2. CASE HandleNewHead
    <3>1. hint \in Block
      BY <2>1, <2>2, WalkCases DEF ControlPart
    <3>2. ~(UNCHANGED followVars) /\ ~ResetToBackfill
      BY DEF followVars, ResetToBackfill
    <3>3. CASE Moves(hint)
      <4>1. PICK f \in Nat \cup {NoHeight}, t \in Nat \cup {NoHeight} :
              /\ note' = [first |-> f, tip |-> t, new |-> NewBlocks(hint), fin |-> cachedFin']
              /\ f # NoHeight => /\ t = num[Tip(feed)] /\ f <= t
                                 /\ num[NewBlocks(hint)[1]] = f
        BY <2>1, <3>1, <3>3, WalkMoves
      <4>2. note'.first = f /\ note'.tip = t /\ note'.new = NewBlocks(hint)
        BY <4>1
      <4> QED BY <4>1, <4>2
    <3>4. CASE view = <<>> /\ AdvanceFromEmpty(hint)
      <4>1. note' = [first |-> NoHeight, tip |-> NoHeight, new |-> <<hint>>, fin |-> cachedFin']
        BY <3>4 DEF AdvanceFromEmpty, Emit
      <4>2. note'.first = NoHeight
        BY <4>1
      <4> QED BY <4>2
    <3> QED BY <2>2, <3>2, <3>3, <3>4, WalkCases
  <2>3. CASE BackfillEmit
    <3>1. note' = [first |-> NoHeight, tip |-> NoHeight, new |-> Fetched, fin |-> cachedFin']
      BY <2>3 DEF BackfillEmit, Emit
    <3>2. note'.first = NoHeight
      BY <3>1
    <3> QED BY <3>2
  <2>4. CASE ~HandleNewHead /\ ~BackfillEmit
    <3>1. note' = note
      BY <2>4 DEF Next, HostStep, HostExtend, HostReorg, HostFinalize, DrainBackfill,
         BackfillIdle, BackfillComplete, BackfillPastTip, BackfillPlan, FetchByNumber,
         FetchMissing, BackfillBreak, FollowHead, TakeHeader, StaleHint, CallFails,
         HeadersEnd, followVars
    <3> QED BY <3>1
  <2> QED BY <2>2, <2>3, <2>4
<1> QED BY <1>1, SafeInvariance, PTL DEF Spec, RevertsReachTheTip

-------------------------------------------------------------------------------
(***************************************************************************)
(* SparedPart: reorganisations have spared what the notifier relies on.    *)
(***************************************************************************)
\* A feed that shares a block with a chain has that chain's blocks below it.
LEMMA FeedOnChain ==
  ASSUME NEW s \in Seq(Block), LinkedFrom(s, Head0), NEW c \in Seq(Block), IsChain(c),
         NEW p \in 1..Len(s), Head0 + p - 1 <= Len(c), s[p] = c[Head0 + p - 1],
         NEW q \in 1..Len(s), q <= p
  PROVE  s[q] = c[Head0 + q - 1]
<1>1. Head0 \in Nat \ {0} /\ Len(s) \in Nat
  BY RpcHostNotifierAssumption
<1>2. p \in Nat /\ q \in Nat
  BY <1>1
<1>3. PICK l \in Nat : l = Head0 + p - 1
  <2>1. Head0 + p - 1 \in Nat
    BY <1>1, <1>2
  <2> QED BY <2>1
<1>4. PICK h \in Nat : h = Head0 + q - 1
  <2>1. Head0 + q - 1 \in Nat
    BY <1>1, <1>2
  <2> QED BY <2>1
<1>5. l \in 1..Len(c) /\ h \in 1..Len(c) /\ l - p = h - q /\ s[p] = c[l]
  BY <1>1, <1>2, <1>3, <1>4
<1>6. LinkedFrom(c, 1) /\ 1 \in Nat /\ Head0 \in Nat
  BY <1>1 DEF IsChain
<1>7. s[q] = c[h]
  BY <1>5, <1>6, SharedBelow
<1> QED BY <1>4, <1>7

\* The chain of the host's tip is the host chain.
LEMMA HostIsPath ==
  ASSUME TypeOK, HostPart
  PROVE  /\ Tip(host) \in Block /\ num[Tip(host)] = Len(host) /\ Len(host) \in Nat \ {0}
         /\ \A n \in 1..Len(host) : Path[Tip(host)][n] = host[n]
<1> DEFINE b == Tip(host)
           P == Path[b]
<1>1. host \in Seq(Block) /\ b \in Block /\ Len(host) \in Nat \ {0} /\ LinkedFrom(host, 1)
  BY TypeFacts DEF HostPart, IsChain
<1>2. b = host[Len(host)] /\ num[b] = Len(host)
  <2>1. Len(host) \in 1..Len(host)
    BY <1>1
  <2>2. num[host[Len(host)]] = 1 + Len(host) - 1
    BY <1>1, <2>1 DEF LinkedFrom
  <2> QED BY <1>1, <2>2 DEF Tip
<1>3. P \in Seq(Block) /\ Len(P) = num[b] /\ P[num[b]] = b /\ LinkedFrom(P, 1)
  BY <1>1, PathFacts DEF IsChain
<1> HIDE DEF b, P
<1>4. ASSUME NEW n \in 1..Len(host) PROVE P[n] = host[n]
  <2>1. PICK i \in Nat : i = Len(host)
    BY <1>1
  <2>2. /\ i \in 1..Len(P) /\ i \in 1..Len(host) /\ P[i] = host[i] /\ n <= i
        /\ n \in 1..Len(P) /\ i - i = n - n /\ 1 \in Nat
    BY <1>1, <1>2, <1>3, <2>1
  <2> QED BY <1>1, <1>3, <2>2, SharedBelow
<1> QED BY <1>1, <1>2, <1>4 DEF b, P

\* The receiver's tip, its height, and the place of the view in the feed.
LEMMA FeedFacts ==
  ASSUME TypeOK, ViewPart, LinkedFrom(feed, Head0)
  PROVE  /\ \A i \in 1..Len(feed) : num[feed[i]] = Head0 + i - 1
         /\ feed # <<>> => lastEmitted \in Block /\ num[lastEmitted] = Head0 + Len(feed) - 1
         /\ view # <<>> => /\ feed # <<>>
                           /\ num[view[1]] = Head0 + Len(feed) - Len(view)
<1>1. feed \in Seq(Block) /\ Len(feed) \in Nat /\ Len(view) \in Nat /\ Head0 \in Nat \ {0}
  BY TypeFacts, RpcHostNotifierAssumption
<1>2. \A i \in 1..Len(feed) : num[feed[i]] = Head0 + i - 1
  BY DEF LinkedFrom
<1>3. ASSUME feed # <<>>
      PROVE  lastEmitted \in Block /\ num[lastEmitted] = Head0 + Len(feed) - 1
  <2>1. Len(feed) \in 1..Len(feed) /\ lastEmitted = feed[Len(feed)]
    BY <1>1, <1>3 DEF ViewPart, Tip
  <2> QED BY <1>1, <1>2, <2>1
<1>4. ASSUME view # <<>>
      PROVE  feed # <<>> /\ num[view[1]] = Head0 + Len(feed) - Len(view)
  <2>1. Len(view) \in Nat \ {0} /\ Len(view) <= Len(feed)
    BY <1>4, TypeFacts DEF ViewPart, IsEnd
  <2>2. 1 \in 1..Len(view) /\ Len(feed) - Len(view) + 1 \in 1..Len(feed)
    BY <1>1, <2>1
  <2>3. view[1] = feed[Len(feed) - Len(view) + 1]
    BY <2>2 DEF ViewPart, IsEnd
  <2>4. num[view[1]] = Head0 + (Len(feed) - Len(view) + 1) - 1
    BY <1>2, <2>2, <2>3
  <2> QED BY <1>1, <2>1, <2>4
<1> QED BY <1>2, <1>3, <1>4

\* What the notifier relies on.
LEMMA ReliedFacts ==
  ASSUME SafeInv
  PROVE  /\ Relied \in Int
         /\ view # <<>> => num[view[1]] <= Relied
         /\ view = <<>> => Relied = IF lastEmitted = NoBlock THEN Head0 ELSE num[lastEmitted]
         /\ (view # <<>> /\ hint # NoBlock /\ Exhausted(hint)) => Relied = num[lastEmitted]
<1>1. TypeOK /\ ViewPart /\ Capacity \in Nat \ {0} /\ Head0 \in Nat \ {0}
  BY RpcHostNotifierAssumption DEF SafeInv
<1>2. lastEmitted \in Block \cup {NoBlock} /\ hint \in Block \cup {NoBlock}
  BY <1>1 DEF TypeOK
<1>3. CASE view = <<>>
  <2>1. Relied = IF lastEmitted = NoBlock THEN Head0 ELSE num[lastEmitted]
    BY <1>3 DEF Relied
  <2>2. lastEmitted # NoBlock => num[lastEmitted] \in Nat
    BY <1>2, HeaderFacts
  <2> QED BY <1>1, <1>3, <2>1, <2>2
<1>4. CASE view # <<>>
  <2>1. /\ lastEmitted = Tip(view) /\ num[Tip(view)] = num[view[1]] + Len(view) - 1
    BY <1>1, <1>4, TipFacts
  <2>2. Tip(view) \in Block /\ view[1] \in Block /\ Len(view) \in Nat \ {0}
    BY <1>1, <1>4, TypeFacts
  <2>3. num[view[1]] \in Nat /\ num[Tip(view)] \in Nat /\ lastEmitted # NoBlock
    BY <2>1, <2>2, HeaderFacts, RpcHostNotifierAssumption
  <2>4. hint # NoBlock => num[hint] \in Nat
    BY <1>2, HeaderFacts
  <2>5. CASE hint # NoBlock /\ Exhausted(hint)
    <3>1. Relied = num[lastEmitted]
      BY <2>3, <2>5 DEF Relied
    <3>2. num[view[1]] <= num[Tip(view)]
      BY <2>1, <2>2, <2>3
    <3> QED BY <1>4, <2>1, <2>3, <3>1, <3>2
  <2>6. CASE ~(hint # NoBlock /\ Exhausted(hint))
    <3>1. Relied = IF hint # NoBlock /\ num[view[1]] <= num[hint] - Capacity
                     THEN num[hint] - Capacity + 1 ELSE num[view[1]]
      BY <1>4, <2>6 DEF Relied
    <3> QED BY <1>1, <1>4, <2>3, <2>4, <2>6, <3>1
  <2> QED BY <2>5, <2>6
<1> QED BY <1>3, <1>4

\* What a step that leaves the notifier alone leaves of the walk in hand.
LEMMA SameWalk ==
  ASSUME UNCHANGED <<view, lastEmitted, hint>>
  PROVE  /\ Relied' = Relied /\ (Exhausted(hint))' = Exhausted(hint)
         /\ \A b : (InView(b))' = InView(b)
  BY DEF Relied, Exhausted, Overlaps, InView

\* A step of the host keeps what is relied on.
LEMMA SparedHost == ASSUME SafeInv, SparedPart, HostStep PROVE SparedPart'
<1> SUFFICES ASSUME spared' PROVE FeedPart' /\ AnchorPart' /\ WalkPart'
  BY DEF SparedPart
<1>1. TypeOK /\ HostPart /\ ControlPart /\ ViewPart
  BY DEF SafeInv
<1>2. UNCHANGED <<followVars, pc, batchVars, headVars>>
  BY DEF HostStep, HostExtend, HostReorg, HostFinalize
<1>3. UNCHANGED <<view, backfillFrom, lastEmitted, feed, pc, got, hint>>
  BY <1>2 DEF followVars, batchVars, headVars
<1>4. spared
  BY DEF HostStep, HostExtend, HostReorg, HostFinalize
<1>5. FeedPart /\ AnchorPart /\ WalkPart
  BY <1>4 DEF SparedPart
<1>6. Len(host) \in Nat \ {0} /\ host \in Seq(Block)
  BY <1>1, TypeFacts DEF HostPart
<1>7. Relied' = Relied /\ (Exhausted(hint))' = Exhausted(hint)
  BY <1>3, SameWalk
<1>8. CASE HostFinalize
  <2>1. host' = host
    BY <1>8 DEF HostFinalize
  <2>2. FeedPart'
    BY <1>3, <1>5, <2>1 DEF FeedPart, LinkedFrom
  <2>3. AnchorPart'
    BY <1>3, <1>5, <2>1 DEF AnchorPart
  <2>4. WalkPart'
    BY <1>3, <1>5, <1>7, <2>1 DEF WalkPart
  <2> QED BY <2>2, <2>3, <2>4
<1>9. CASE HostExtend \/ HostReorg
  <2>1. PICK k \in Nat \ {0} : /\ k <= Len(host) /\ NewTip(Prefix(host, k))
                               /\ (k = Len(host)) \/ (k >= Relied /\ pc # "fetch")
    <3>1. CASE HostExtend
      <4>1. NewTip(Prefix(host, Len(host))) /\ Len(host) <= Len(host)
        BY <1>6, <3>1, PrefixAll DEF HostExtend
      <4> QED BY <1>6, <4>1
    <3>2. CASE HostReorg
      <4>1. PICK k \in (hostFin..(Len(host) - 1)) \ {0} :
              /\ NewTip(Prefix(host, k))
              /\ spared' = (spared /\ k >= Relied /\ pc # "fetch")
        BY <3>2 DEF HostReorg
      <4>2. hostFin \in Nat
        BY <1>1 DEF TypeOK
      <4>3. k \in Nat \ {0} /\ k <= Len(host)
        BY <1>6, <4>1, <4>2
      <4> QED BY <4>1, <4>3
    <3> QED BY <1>9, <3>1, <3>2
  <2>2. Len(host') = k + 1 /\ \A i \in 1..k : host'[i] = host[i]
    BY <1>1, <2>1, HostMoves
  <2>3. FeedPart'
    <3>1. ASSUME pc = "fetch" PROVE \A n \in DOMAIN got : n <= Len(host') /\ got[n] = host'[n]
      <4>1. k = Len(host)
        BY <2>1, <3>1
      <4>2. ASSUME NEW n \in DOMAIN got PROVE n <= Len(host') /\ got[n] = host'[n]
        <5>1. n <= Len(host) /\ got[n] = host[n]
          BY <1>5, <3>1 DEF FeedPart
        <5>2. n \in Nat \ {0}
          BY <1>1, <3>1 DEF ControlPart, TypeOK
        <5>3. n \in 1..k
          BY <4>1, <5>1, <5>2
        <5> QED BY <1>6, <2>2, <4>1, <5>1, <5>2, <5>3
      <4> QED BY <4>2
    <3> QED BY <1>3, <1>5, <3>1 DEF FeedPart, LinkedFrom
  <2>4. AnchorPart'
    <3>1. ASSUME pc \in {"backfill", "fetch"}, view = <<>>
          PROVE  backfillFrom # NoHeight /\ backfillFrom <= k + 1
      <4>1. backfillFrom # NoHeight /\ backfillFrom <= Len(host)
        BY <1>5, <3>1 DEF AnchorPart
      <4>2. backfillFrom \in Nat /\ backfillFrom = Head0 + Len(feed)
        BY <1>1, <1>5, <3>1, <4>1 DEF FeedPart, TypeOK
      <4>3. Relied = IF lastEmitted = NoBlock THEN Head0 ELSE num[lastEmitted]
        BY <3>1, ReliedFacts
      <4>4. CASE k = Len(host)
        BY <4>1, <4>2, <4>4
      <4>5. CASE k >= Relied /\ feed = <<>>
        <5>1. Relied = Head0 /\ Len(feed) = 0
          BY <1>1, <4>3, <4>5 DEF ViewPart
        <5> QED BY <4>1, <4>2, <4>5, <5>1, RpcHostNotifierAssumption
      <4>6. CASE k >= Relied /\ feed # <<>>
        <5>1. lastEmitted \in Block /\ num[lastEmitted] = Head0 + Len(feed) - 1
          BY <1>1, <1>5, <4>6, FeedFacts DEF FeedPart
        <5>2. Relied = Head0 + Len(feed) - 1
          BY <4>3, <5>1, RpcHostNotifierAssumption
        <5>3. Len(feed) \in Nat
          BY <1>1, TypeFacts
        <5> QED BY <4>1, <4>2, <4>6, <5>2, <5>3, RpcHostNotifierAssumption
      <4> QED BY <2>1, <4>4, <4>5, <4>6
    <3>2. ASSUME view # <<>>
          PROVE  num[view[1]] <= k + 1 /\ host'[num[view[1]]] = view[1]
      <4>1. num[view[1]] <= Len(host) /\ host[num[view[1]]] = view[1]
        BY <1>5, <3>2 DEF AnchorPart
      <4>2. num[view[1]] \in Nat \ {0}
        BY <1>1, <3>2, TypeFacts, HeaderFacts
      <4>3. num[view[1]] <= Relied /\ Relied \in Int
        BY <3>2, ReliedFacts
      <4>4. num[view[1]] <= k
        <5>1. CASE k = Len(host)
          BY <4>1, <5>1
        <5>2. CASE k >= Relied
          BY <4>2, <4>3, <5>2
        <5> QED BY <2>1, <5>1, <5>2
      <4>5. num[view[1]] \in 1..k
        BY <4>2, <4>4
      <4> QED BY <2>2, <4>1, <4>2, <4>4, <4>5
    <3> QED BY <1>3, <1>5, <2>2, <3>1, <3>2 DEF AnchorPart
  <2>5. WalkPart'
    <3> SUFFICES ASSUME pc \in Walking
                 PROVE  /\ num[view[1]] <= num[hint] /\ Path[hint][num[view[1]]] = view[1]
                        /\ Exhausted(hint) => k + 1 > num[lastEmitted]
                        /\ ~Exhausted(hint) =>
                             /\ Relied <= k + 1
                             /\ \A n \in 1..Relied : host'[n] = Path[hint][n]
      BY <1>3, <1>7, <2>2 DEF WalkPart
    <3>1. /\ num[view[1]] <= num[hint] /\ Path[hint][num[view[1]]] = view[1]
          /\ Exhausted(hint) => Len(host) > num[lastEmitted]
          /\ ~Exhausted(hint) => /\ Relied <= Len(host)
                                 /\ \A n \in 1..Relied : host[n] = Path[hint][n]
      BY <1>5 DEF WalkPart
    <3>2. view # <<>> /\ hint # NoBlock
      BY <1>1, <1>5, RpcHostNotifierAssumption DEF AnchorPart, Walking, ControlPart
    <3>3. Relied \in Int
      BY ReliedFacts
    <3>4. ASSUME Exhausted(hint) PROVE k + 1 > num[lastEmitted]
      <4>1. Relied = num[lastEmitted]
        BY <3>2, <3>4, ReliedFacts
      <4>2. CASE k = Len(host)
        <5>1. Len(host) > Relied
          BY <3>1, <3>4, <4>1
        <5> QED BY <3>3, <4>1, <4>2, <5>1
      <4>3. CASE k >= Relied
        BY <3>3, <4>1, <4>3
      <4> QED BY <2>1, <4>2, <4>3
    <3>5. ASSUME ~Exhausted(hint)
          PROVE  Relied <= k + 1 /\ \A n \in 1..Relied : host'[n] = Path[hint][n]
      <4>1. Relied <= k
        BY <2>1, <3>1, <3>3, <3>5
      <4>2. ASSUME NEW n \in 1..Relied PROVE host'[n] = Path[hint][n]
        <5>1. n \in 1..k
          BY <3>3, <4>1
        <5> QED BY <2>2, <3>1, <3>5, <5>1
      <4> QED BY <3>3, <4>1, <4>2
    <3> QED BY <3>1, <3>4, <3>5
  <2> QED BY <2>3, <2>4, <2>5
<1> QED BY <1>8, <1>9 DEF HostStep

\* A batch that is emitted takes the receiver up the host chain.
LEMMA EmitOnHost ==
  ASSUME SafeInv, SparedPart, spared, BackfillEmit
  PROVE  /\ LinkedFrom(feed', Head0) /\ feed' \in Seq(Block)
         /\ Head0 + Len(feed') - 1 = to /\ to <= Len(host) /\ to \in Nat
         /\ \A i \in 1..Len(feed') : feed'[i] = host[Head0 + i - 1]
<1> DEFINE new == Fetched
<1>1. TypeOK /\ HostPart /\ ControlPart /\ ViewPart /\ FeedPart
  BY DEF SafeInv, SparedPart
<1>2. /\ pc = "fetch" /\ DOMAIN got = backfillFrom..to /\ Continuous(new)
      /\ Emit(NoHeight, NoHeight, new)
  BY DEF BackfillEmit
<1>3. /\ new \in Seq(Block) /\ new # <<>>
      /\ backfillFrom \in Nat \ {0} /\ to \in Nat /\ backfillFrom <= to
      /\ Len(new) = to - backfillFrom + 1 /\ Len(new) \in Nat \ {0}
      /\ \A i \in 1..Len(new) : new[i] = got[backfillFrom + i - 1]
  BY <1>2, FetchedFacts
<1> HIDE DEF new
<1>4. feed' = feed \o new
  BY <1>2 DEF Emit
<1>5. /\ feed \in Seq(Block) /\ Len(feed) \in Nat /\ Head0 \in Nat \ {0}
      /\ host \in Seq(Block) /\ Len(host) \in Nat /\ LinkedFrom(host, 1)
  BY <1>1, TypeFacts, RpcHostNotifierAssumption DEF HostPart, IsChain
<1>6. backfillFrom = Head0 + Len(feed)
  BY <1>1, <1>2, <1>3 DEF FeedPart
<1>7. \A n \in backfillFrom..to : n <= Len(host) /\ got[n] = host[n]
  BY <1>1, <1>2 DEF FeedPart
<1>8. to <= Len(host)
  BY <1>3, <1>7
<1>9. \A i \in 1..Len(new) : new[i] = host[(backfillFrom - 1) + i]
  <2> TAKE i \in 1..Len(new)
  <2>1. backfillFrom + i - 1 \in backfillFrom..to /\ (backfillFrom - 1) + i = backfillFrom + i - 1
    BY <1>3
  <2> QED BY <1>3, <1>7, <2>1
<1>10. LinkedFrom(new, Head0 + Len(feed))
  <2>1. PICK d \in Nat : d = backfillFrom - 1
    BY <1>3
  <2>2. d + Len(new) <= Len(host) /\ 1 + d = Head0 + Len(feed) /\ 1 \in Nat
    BY <1>3, <1>5, <1>6, <1>8, <2>1
  <2>3. \A i \in 1..Len(new) : new[i] = host[d + i]
    BY <1>9, <2>1
  <2>4. LinkedFrom(new, 1 + d)
    BY <1>3, <1>5, <2>2, <2>3, LinkSegment
  <2> QED BY <2>2, <2>4
<1>11. feed # <<>> => parent[new[1]] = feed[Len(feed)]
  <2> HAVE feed # <<>>
  <2>1. lastEmitted = feed[Len(feed)] /\ lastEmitted \in Block
    BY <1>1, <1>5 DEF ViewPart, Tip
  <2> QED BY <1>2, <2>1, RpcHostNotifierAssumption DEF Continuous
<1>12. LinkedFrom(feed', Head0)
  <2>1. LinkedFrom(feed, Head0) /\ Head0 \in Nat
    BY <1>1, <1>5 DEF FeedPart
  <2> QED BY <1>3, <1>4, <1>5, <1>10, <1>11, <2>1, LinkConcat
<1>13. feed' \in Seq(Block) /\ Len(feed') = Len(feed) + Len(new)
       /\ feed'[Len(feed) + Len(new)] = new[Len(new)]
  <2>1. Len(new) \in 1..Len(new) /\ new \in Seq(Block) /\ feed \in Seq(Block)
    BY <1>3, <1>5
  <2>2. /\ feed \o new \in Seq(Block) /\ Len(feed \o new) = Len(feed) + Len(new)
        /\ \A i \in 1..Len(new) : (feed \o new)[Len(feed) + i] = new[i]
    BY ONLY <2>1, ConcatFacts
  <2> QED BY <1>4, <2>1, <2>2
<1>14. Head0 + Len(feed') - 1 = to
  BY <1>3, <1>5, <1>6, <1>13
<1>15. ASSUME NEW i \in 1..Len(feed') PROVE feed'[i] = host[Head0 + i - 1]
  <2>1. PICK p \in 1..Len(feed') : p = Len(feed') /\ i <= p
    <3>1. Len(feed') \in Nat /\ i \in 1..Len(feed')
      BY <1>3, <1>5, <1>13
    <3>2. Len(feed') \in 1..Len(feed') /\ i <= Len(feed')
      BY <3>1
    <3> QED BY <3>2
  <2>2. feed'[p] = host[Head0 + p - 1] /\ Head0 + p - 1 <= Len(host)
    <3>1. Len(new) \in 1..Len(new) /\ (backfillFrom - 1) + Len(new) = to
      BY <1>3
    <3>2. new[Len(new)] = host[to]
      BY <1>9, <3>1
    <3> QED BY <1>8, <1>13, <1>14, <2>1, <3>2
  <2> QED BY <1>5, <1>12, <1>13, <2>1, <2>2, FeedOnChain DEF IsChain
<1> QED BY <1>3, <1>8, <1>12, <1>13, <1>14, <1>15

\* A step of drain_backfill keeps what is relied on.
LEMMA SparedDrain == ASSUME SafeInv, SparedPart, SafeInv', DrainBackfill PROVE SparedPart'
<1> SUFFICES ASSUME spared' PROVE FeedPart' /\ AnchorPart' /\ WalkPart'
  BY DEF SparedPart
<1>1. TypeOK /\ HostPart /\ ControlPart /\ ViewPart
  BY DEF SafeInv
<1>2. UNCHANGED <<host, spared>>
  BY DEF DrainBackfill, BackfillIdle, BackfillComplete, BackfillPastTip, BackfillPlan,
         FetchByNumber, FetchMissing, BackfillBreak, BackfillEmit, hostVars
<1>3. FeedPart /\ AnchorPart /\ WalkPart
  BY <1>2 DEF SparedPart
<1>4. Len(host) \in Nat \ {0} /\ host \in Seq(Block)
  BY <1>1, TypeFacts DEF HostPart
<1>5. pc' \notin Walking
  BY DEF DrainBackfill, BackfillIdle, BackfillComplete, BackfillPastTip, BackfillPlan,
         FetchByNumber, FetchMissing, BackfillBreak, BackfillEmit, Walking
<1>6. WalkPart'
  BY <1>5 DEF WalkPart
<1> SUFFICES FeedPart' /\ AnchorPart'
  BY <1>6
<1>7. CASE BackfillIdle
  <2>1. /\ UNCHANGED <<view, feed, backfillFrom, got>> /\ pc' = "await"
        /\ pc = "backfill" /\ backfillFrom = NoHeight
    BY <1>7 DEF BackfillIdle, followVars, batchVars
  <2> QED BY <1>2, <1>3, <2>1 DEF FeedPart, AnchorPart, LinkedFrom
<1>8. CASE BackfillComplete
  <2>1. /\ UNCHANGED <<view, feed, got>> /\ pc' = "await"
        /\ pc = "backfill" /\ backfillFrom = Len(host) + 1
    BY <1>8 DEF BackfillComplete, batchVars
  <2>2. view # <<>>
    BY <1>3, <1>4, <2>1 DEF AnchorPart
  <2> QED BY <1>2, <1>3, <2>1, <2>2 DEF FeedPart, AnchorPart, LinkedFrom
<1>9. CASE BackfillPastTip \/ FetchMissing \/ BackfillBreak
  <2>1. feed' = feed /\ view' \in {view, <<>>} /\ pc' = "failed"
    BY <1>9 DEF BackfillPastTip, FetchMissing, BackfillBreak, followVars
  <2> QED BY <1>2, <1>3, <2>1 DEF FeedPart, AnchorPart, LinkedFrom, Walking
<1>10. CASE BackfillPlan
  <2>1. /\ UNCHANGED <<view, feed, backfillFrom>> /\ pc' = "fetch" /\ got' = <<>>
        /\ pc = "backfill" /\ backfillFrom # NoHeight /\ backfillFrom <= Len(host)
        /\ DOMAIN got' = {}
    BY <1>10 DEF BackfillPlan, followVars
  <2> QED BY <1>2, <1>3, <2>1 DEF FeedPart, AnchorPart, LinkedFrom, Walking
<1>11. CASE FetchByNumber
  <2>1. PICK n \in (backfillFrom..to) \ DOMAIN got :
          /\ n <= Len(host)
          /\ got' = [m \in DOMAIN got \cup {n} |-> IF m = n THEN host[n] ELSE got[m]]
    BY <1>11 DEF FetchByNumber
  <2>2. UNCHANGED <<view, feed, backfillFrom, pc>> /\ pc = "fetch"
    BY <1>11 DEF FetchByNumber, followVars
  <2>3. \A m \in DOMAIN got' : m <= Len(host) /\ got'[m] = host[m]
    BY <1>3, <2>1, <2>2 DEF FeedPart
  <2> QED BY <1>2, <1>3, <2>2, <2>3 DEF FeedPart, AnchorPart, LinkedFrom, Walking
<1>12. CASE BackfillEmit
  <2>1. /\ LinkedFrom(feed', Head0) /\ feed' \in Seq(Block)
        /\ Head0 + Len(feed') - 1 = to /\ to <= Len(host) /\ to \in Nat
        /\ \A i \in 1..Len(feed') : feed'[i] = host[Head0 + i - 1]
    BY <1>2, <1>12, EmitOnHost
  <2>2. /\ pc' = "backfill" /\ backfillFrom' = IF done THEN NoHeight ELSE to + 1
    BY <1>12 DEF BackfillEmit
  <2>3. Head0 \in Nat \ {0} /\ Len(feed') \in Nat
    BY <2>1, RpcHostNotifierAssumption
  <2>4. FeedPart'
    <3>1. backfillFrom' # NoHeight => backfillFrom' = Head0 + Len(feed')
      BY <2>1, <2>2, <2>3
    <3> QED BY <2>1, <2>2, <3>1 DEF FeedPart, LinkedFrom
  <2>5. view' # <<>>
    <3>1. /\ pc = "fetch" /\ DOMAIN got = backfillFrom..to /\ view' = ExtendView(view, Fetched)
      BY <1>12 DEF BackfillEmit
    <3>2. Fetched \in Seq(Block) /\ Fetched # <<>> /\ view \in Seq(Block)
      BY <1>1, <3>1, FetchedFacts, TypeFacts
    <3>3. Len(view') \in 1..Capacity
      BY <3>1, <3>2, ExtendFacts
    <3> QED BY <3>3, RpcHostNotifierAssumption
  <2>6. num[view'[1]] <= Len(host) /\ host[num[view'[1]]] = view'[1]
    <3>1. IsEnd(view', feed') /\ view' \in Seq(Block)
      BY DEF SafeInv, ViewPart, TypeOK, IsEnd
    <3>2. Len(view') \in Nat \ {0} /\ Len(view') <= Len(feed')
      BY <2>5, <3>1 DEF IsEnd
    <3>3. PICK q \in 1..Len(feed') : q = Len(feed') - Len(view') + 1
      <4>1. Len(feed') - Len(view') + 1 \in 1..Len(feed')
        BY <2>3, <3>2
      <4> QED BY <4>1
    <3>4. view'[1] = feed'[q]
      <4>1. 1 \in 1..Len(view')
        BY <3>2
      <4> QED BY <3>1, <3>3, <4>1 DEF IsEnd
    <3>5. num[feed'[q]] = Head0 + q - 1 /\ feed'[q] = host[Head0 + q - 1]
      BY <2>1 DEF LinkedFrom
    <3>6. Head0 + q - 1 <= Len(host)
      BY <1>4, <2>1, <2>3
    <3> QED BY <3>4, <3>5, <3>6
  <2> QED BY <1>2, <2>2, <2>4, <2>5, <2>6 DEF AnchorPart, Walking
<1> QED BY <1>7, <1>8, <1>9, <1>10, <1>11, <1>12 DEF DrainBackfill

\* A walk that moves takes the receiver onto the chain of its hint.
LEMMA MovedFeed ==
  ASSUME TypeOK, ViewPart, LinkedFrom(feed, Head0), NEW b \in Block, Moves(b)
  PROVE  /\ LinkedFrom(feed', Head0) /\ feed' \in Seq(Block)
         /\ Len(feed') \in Nat /\ Head0 + Len(feed') - 1 = num[b]
         /\ \A i \in 1..Len(feed') : feed'[i] = Path[b][Head0 + i - 1]
<1> DEFINE o == Overlap(b)
           k == Kept(b)
           new == NewBlocks(b)
           j == Len(feed) - Len(view) + k
           s == Prefix(feed, j)
<1>1. Consecutive(view) /\ IsEnd(view, feed) /\ Overlaps(b) # {} /\ ~AlreadySeen(b)
  BY DEF ViewPart, Moves
<1>2. /\ new \in Seq(Block) /\ new # <<>> /\ Len(new) = num[b] - o
      /\ \A i \in 1..Len(new) : new[i] = Path[b][o + i]
      /\ k \in 1..Len(view) /\ num[view[k]] = o
  BY <1>1, NewBlocksFacts
<1>3. o \in 1..num[b] /\ view[k] = Path[b][o]
  BY <1>1, OverlapFacts DEF Kept
<1>4. feed' = s \o new
  BY WalkMoves
<1> HIDE DEF new, o, k
<1>5. /\ feed \in Seq(Block) /\ Len(feed) \in Nat /\ Len(view) \in Nat
      /\ Head0 \in Nat \ {0} /\ num[b] \in Nat \ {0}
  BY TypeFacts, HeaderFacts, RpcHostNotifierAssumption
<1>6. /\ Path[b] \in Seq(Block) /\ Len(Path[b]) = num[b] /\ Path[b][num[b]] = b
      /\ LinkedFrom(Path[b], 1)
  BY PathFacts DEF IsChain
<1>7. Len(view) <= Len(feed) /\ view[k] = feed[j]
  BY <1>1, <1>2 DEF IsEnd
<1>8. j \in 1..Len(feed) /\ j \in Nat /\ j <= Len(feed) /\ o \in Nat /\ o < num[b] + 1
  BY <1>2, <1>3, <1>5, <1>7
<1>9. s \in Seq(Block) /\ Len(s) = j /\ \A i \in 1..j : s[i] = feed[i]
  <2> HIDE DEF j
  <2> QED BY <1>5, <1>8, PrefixFacts
<1>10. Head0 + j = o + 1
  <2>1. num[feed[j]] = Head0 + j - 1
    BY <1>8 DEF LinkedFrom
  <2>2. Head0 + j - 1 = o
    BY <1>2, <1>7, <2>1
  <2> HIDE DEF j
  <2> QED BY <1>5, <1>8, <2>2
<1> HIDE DEF j, s
<1>11. LinkedFrom(s, Head0)
  <2>1. 0 \in Nat /\ Head0 \in Nat /\ 0 + Len(s) <= Len(feed) /\ Head0 + 0 = Head0
    BY <1>5, <1>8, <1>9
  <2>2. \A i \in 1..Len(s) : s[i] = feed[0 + i]
    BY <1>8, <1>9
  <2>3. LinkedFrom(s, Head0 + 0)
    BY <1>5, <1>9, <2>1, <2>2, LinkSegment
  <2> QED BY <2>1, <2>3
<1>12. LinkedFrom(new, Head0 + Len(s))
  <2>1. 1 \in Nat /\ o + Len(new) <= Len(Path[b]) /\ 1 + o = Head0 + Len(s)
    BY <1>2, <1>5, <1>6, <1>8, <1>9, <1>10
  <2>2. LinkedFrom(new, 1 + o)
    BY <1>2, <1>6, <1>8, <2>1, LinkSegment
  <2> QED BY <2>1, <2>2
<1>13. Len(new) \in Nat \ {0}
  BY <1>2
<1>14. parent[new[1]] = s[Len(s)]
  <2>1. 1 \in 1..Len(new)
    BY <1>13
  <2>2. o + 1 \in 1..Len(Path[b]) /\ o + 1 > 1 /\ (o + 1) - 1 = o
    BY <1>2, <1>3, <1>5, <1>6, <1>8, <1>13
  <2>3. parent[Path[b][o + 1]] = Path[b][(o + 1) - 1]
    BY <1>6, <2>2 DEF LinkedFrom
  <2>4. new[1] = Path[b][o + 1]
    BY <1>2, <2>1
  <2>5. j \in 1..j
    BY <1>8
  <2>6. s[Len(s)] = feed[j]
    BY <1>9, <2>5
  <2> QED BY <1>3, <1>7, <2>2, <2>3, <2>4, <2>6
<1>15. LinkedFrom(feed', Head0)
  <2>1. Head0 \in Nat
    BY <1>5
  <2> QED BY <1>2, <1>4, <1>9, <1>11, <1>12, <1>14, <2>1, LinkConcat
<1>16. feed' \in Seq(Block) /\ Len(feed') = j + Len(new) /\ feed'[j + Len(new)] = new[Len(new)]
  <2>1. Len(new) \in 1..Len(new) /\ new \in Seq(Block) /\ s \in Seq(Block)
    BY <1>2, <1>9, <1>13
  <2>2. /\ s \o new \in Seq(Block) /\ Len(s \o new) = Len(s) + Len(new)
        /\ \A i \in 1..Len(new) : (s \o new)[Len(s) + i] = new[i]
    BY ONLY <2>1, ConcatFacts
  <2> QED BY <1>4, <1>9, <2>1, <2>2
<1>17. Len(feed') \in Nat \ {0} /\ Head0 + Len(feed') - 1 = num[b] /\ o + Len(new) = num[b]
  <2>1. PICK n \in Nat : n = num[b]
    BY <1>5
  <2>2. Len(new) = n - o
    BY <1>2, <2>1
  <2>3. o + Len(new) = n
    BY <1>8, <2>2
  <2>4. Len(feed') \in Nat \ {0} /\ Head0 + Len(feed') - 1 = n
    <3>1. Len(feed') = j + Len(new) /\ Head0 \in Nat /\ j \in Nat /\ o \in Nat
      BY <1>5, <1>8, <1>16
    <3> QED BY ONLY <1>10, <1>13, <2>3, <3>1
  <2> QED BY <2>1, <2>3, <2>4
<1>18. ASSUME NEW i \in 1..Len(feed') PROVE feed'[i] = Path[b][Head0 + i - 1]
  <2>1. PICK p \in 1..Len(feed') : p = Len(feed') /\ i <= p
    <3>1. Len(feed') \in 1..Len(feed') /\ i <= Len(feed')
      BY <1>17
    <3> QED BY <3>1
  <2>2. feed'[p] = Path[b][Head0 + p - 1] /\ Head0 + p - 1 <= Len(Path[b])
    <3>1. Len(new) \in 1..Len(new) /\ o + Len(new) = num[b]
      BY <1>13, <1>17
    <3>2. new[Len(new)] = Path[b][num[b]]
      BY <1>2, <3>1
    <3>3. Head0 + p - 1 = num[b]
      BY <1>17, <2>1
    <3> QED BY <1>5, <1>6, <1>16, <2>1, <3>2, <3>3
  <2> QED BY <1>6, <1>15, <1>16, <2>1, <2>2, FeedOnChain DEF IsChain
<1> QED BY <1>15, <1>16, <1>17, <1>18

\* A walk from the host's tip, as it begins.
LEMMA AimFacts ==
  ASSUME SafeInv, FeedPart, AnchorPart, view # <<>>, hint' = Tip(host),
         UNCHANGED <<view, lastEmitted, host>>
  PROVE  /\ num[view[1]] <= num[hint'] /\ Path[hint'][num[view[1]]] = view[1]
         /\ (Exhausted(hint))' => Len(host) > num[lastEmitted]
         /\ ~(Exhausted(hint))' => /\ Relied' <= Len(host)
                                   /\ \A n \in 1..Relied' : host[n] = Path[hint'][n]
<1>1. TypeOK /\ HostPart /\ ViewPart /\ Capacity \in Nat \ {0}
  BY RpcHostNotifierAssumption DEF SafeInv
<1>2. /\ Tip(host) \in Block /\ num[Tip(host)] = Len(host) /\ Len(host) \in Nat \ {0}
      /\ \A n \in 1..Len(host) : Path[Tip(host)][n] = host[n]
  BY <1>1, HostIsPath
<1>3. num[view[1]] <= Len(host) /\ host[num[view[1]]] = view[1]
  BY DEF AnchorPart
<1>4. /\ view[1] \in Block /\ Len(view) \in Nat \ {0} /\ Len(view) <= Capacity
      /\ num[view[1]] \in Nat \ {0}
  BY <1>1, TypeFacts, HeaderFacts
<1>5. num[view[1]] \in 1..Len(host)
  BY <1>2, <1>3, <1>4
<1>6. num[view[1]] <= num[hint'] /\ Path[hint'][num[view[1]]] = view[1]
  BY <1>2, <1>3, <1>5
<1>7. lastEmitted = Tip(view) /\ num[Tip(view)] = num[view[1]] + Len(view) - 1
  BY <1>1, TipFacts
<1>8. ASSUME (Exhausted(hint))' PROVE Len(host) > num[lastEmitted]
  <2>1. (Overlaps(hint))' = {}
    BY <1>8 DEF Exhausted
  <2>2. view' = view /\ num[hint'] = Len(host)
    BY <1>2
  <2>3. ~(num[hint'] - num[view[1]] <= Capacity)
    <3> DEFINE n == num[view[1]]
    <3>1. n - n + 1 = 1 /\ 1 \in 1..Len(view)
      BY <1>4
    <3>2. n \in 1..num[hint'] /\ Path[hint'][n] = view[1]
      BY <1>5, <1>6, <2>2
    <3>3. n \notin {m \in 1..num[hint'] : /\ (InView(Path[hint][m]))'
                                         /\ num[hint'] - m <= Capacity}
      BY <2>1 DEF Overlaps
    <3> QED BY <2>2, <3>1, <3>2, <3>3 DEF InView
  <2> QED BY <1>1, <1>2, <1>4, <1>7, <2>2, <2>3
<1>9. ASSUME ~(Exhausted(hint))'
      PROVE  Relied' <= Len(host) /\ \A n \in 1..Relied' : host[n] = Path[hint'][n]
  <2>1. Relied' = IF hint' # NoBlock /\ num[view[1]] <= num[hint'] - Capacity
                    THEN num[hint'] - Capacity + 1 ELSE num[view[1]]
    BY <1>9 DEF Relied
  <2>2. Relied' \in Int /\ Relied' <= Len(host)
    BY <1>1, <1>2, <1>3, <1>4, <2>1
  <2>3. ASSUME NEW n \in 1..Relied' PROVE host[n] = Path[hint'][n]
    <3>1. n \in 1..Len(host)
      BY <1>2, <2>2
    <3> QED BY <1>2, <3>1
  <2> QED BY <2>2, <2>3
<1> QED BY <1>6, <1>8, <1>9

\* A step of the subscription keeps what is relied on.
LEMMA SparedFollow == ASSUME SafeInv, SparedPart, SafeInv', FollowHead PROVE SparedPart'
<1> SUFFICES ASSUME spared' PROVE FeedPart' /\ AnchorPart' /\ WalkPart'
  BY DEF SparedPart
<1>1. TypeOK /\ HostPart /\ ControlPart /\ ViewPart
  BY DEF SafeInv
<1>2. UNCHANGED <<host, spared>>
  BY DEF FollowHead, TakeHeader, HandleNewHead, StaleHint, hostVars
<1>3. FeedPart /\ AnchorPart /\ WalkPart
  BY <1>2 DEF SparedPart
<1>4. Len(host) \in Nat \ {0} /\ host \in Seq(Block)
  BY <1>1, TypeFacts DEF HostPart
<1>5. CASE TakeHeader \/ StaleHint
  <2>1. /\ pc \in {"await", "walk"} /\ pc' \in Walking
        /\ UNCHANGED <<view, lastEmitted, feed, backfillFrom, got>>
    BY <1>5 DEF TakeHeader, StaleHint, followVars, batchVars, Walking
  <2>2. hint' = Tip(host)
    BY <1>1, <1>5 DEF TakeHeader, StaleHint, HostPart
  <2>3. view # <<>>
    BY <1>3, <2>1 DEF AnchorPart, Walking
  <2>4. /\ num[view[1]] <= num[hint'] /\ Path[hint'][num[view[1]]] = view[1]
        /\ (Exhausted(hint))' => Len(host) > num[lastEmitted]
        /\ ~(Exhausted(hint))' => /\ Relied' <= Len(host)
                                  /\ \A n \in 1..Relied' : host[n] = Path[hint'][n]
    BY <1>2, <1>3, <2>1, <2>2, <2>3, AimFacts
  <2>5. WalkPart'
    BY <1>2, <2>1, <2>4 DEF WalkPart
  <2>6. FeedPart' /\ AnchorPart'
    BY <1>2, <1>3, <2>1, <2>3 DEF FeedPart, AnchorPart, LinkedFrom, Walking
  <2> QED BY <2>5, <2>6
<1>6. CASE HandleNewHead
  <2>1. pc \in Walking /\ pc' = "backfill"
    BY <1>6, WalkCases
  <2>2. hint \in Block /\ hint # NoBlock /\ backfillFrom = NoHeight /\ view # <<>>
    BY <1>1, <1>3, <2>1, RpcHostNotifierAssumption DEF ControlPart, AnchorPart
  <2>3. WalkPart'
    BY <2>1 DEF WalkPart, Walking
  <2>4. CASE AlreadySeen(hint) /\ UNCHANGED followVars
    <3>1. UNCHANGED <<view, feed, backfillFrom>>
      BY <2>4 DEF followVars
    <3> QED BY <1>2, <1>3, <2>1, <2>2, <2>3, <3>1 DEF FeedPart, AnchorPart, LinkedFrom, Walking
  <2>5. CASE Exhausted(hint) /\ ResetToBackfill
    <3>1. view' = <<>> /\ feed' = feed
          /\ backfillFrom' = IF lastEmitted = NoBlock THEN NoHeight ELSE num[lastEmitted] + 1
      BY <2>5 DEF ResetToBackfill
    <3>2. lastEmitted \in Block /\ num[lastEmitted] = Head0 + Len(feed) - 1
      BY <1>1, <1>3, <2>2, FeedFacts DEF FeedPart
    <3>3. num[lastEmitted] \in Nat /\ lastEmitted # NoBlock /\ Len(feed) \in Nat /\ Head0 \in Nat
      BY <1>1, <3>2, HeaderFacts, TypeFacts, RpcHostNotifierAssumption
    <3>4. Len(host) > num[lastEmitted]
      BY <1>3, <2>1, <2>5 DEF WalkPart
    <3>5. /\ backfillFrom' = Head0 + Len(feed) /\ backfillFrom' <= Len(host)
          /\ backfillFrom' # NoHeight
      BY <1>4, <3>1, <3>2, <3>3, <3>4
    <3> QED BY <1>2, <1>3, <2>1, <2>3, <3>1, <3>5 DEF FeedPart, AnchorPart, LinkedFrom, Walking
  <2>6. CASE Moves(hint)
    <3>1. /\ LinkedFrom(feed', Head0) /\ feed' \in Seq(Block)
          /\ Len(feed') \in Nat /\ Head0 + Len(feed') - 1 = num[hint]
          /\ \A i \in 1..Len(feed') : feed'[i] = Path[hint][Head0 + i - 1]
      BY <1>1, <1>3, <2>2, <2>6, MovedFeed DEF FeedPart
    <3>2. /\ view' \in Seq(Block) /\ Len(view') \in 1..Capacity /\ view' # <<>>
          /\ IsEnd(view', feed')
          /\ view'[1] = view[1] \/ Len(view') = Capacity
          /\ backfillFrom' = backfillFrom
      BY <1>1, <2>2, <2>6, MovedFacts
    <3>3. Capacity \in Nat \ {0} /\ Head0 \in Nat \ {0} /\ num[hint] \in Nat
      BY <2>2, HeaderFacts, RpcHostNotifierAssumption
    <3>4. ASSUME Len(view') = Capacity
          PROVE  num[view'[1]] <= Len(host) /\ host[num[view'[1]]] = view'[1]
      <4>1. PICK q \in 1..Len(feed') : q = Len(feed') - Capacity + 1
        <5>1. Len(view') <= Len(feed')
          BY <3>2 DEF IsEnd
        <5>2. Len(feed') - Capacity + 1 \in 1..Len(feed')
          BY <3>1, <3>3, <3>4, <5>1
        <5> QED BY <5>2
      <4>2. view'[1] = feed'[q]
        <5>1. 1 \in 1..Len(view')
          BY <3>3, <3>4
        <5>2. view'[1] = feed'[Len(feed') - Len(view') + 1]
          BY <3>2, <5>1 DEF IsEnd
        <5> QED BY <3>4, <4>1, <5>2
      <4>3. PICK n \in Nat \ {0} : n = Head0 + q - 1
        <5>1. Head0 + q - 1 \in Nat \ {0}
          BY <3>1, <3>3
        <5> QED BY <5>1
      <4>4. num[feed'[q]] = n /\ feed'[q] = Path[hint][n]
        BY <3>1, <4>3 DEF LinkedFrom
      <4>5. n = num[hint] - Capacity + 1
        BY <3>1, <3>3, <4>1, <4>3
      <4>6. n <= Relied
        <5>1. ~Exhausted(hint)
          BY <2>6 DEF Moves, Exhausted
        <5>2. Relied = IF num[view[1]] <= num[hint] - Capacity
                         THEN num[hint] - Capacity + 1 ELSE num[view[1]]
          BY <2>2, <5>1 DEF Relied
        <5>3. num[view[1]] \in Nat
          BY <1>1, <2>2, TypeFacts, HeaderFacts
        <5> QED BY <3>3, <4>5, <5>2, <5>3
      <4>7. Relied <= Len(host) /\ \A m \in 1..Relied : host[m] = Path[hint][m]
        <5>1. ~Exhausted(hint)
          BY <2>6 DEF Moves, Exhausted
        <5> QED BY <1>3, <2>1, <5>1 DEF WalkPart
      <4>8. Relied \in Int
        BY ReliedFacts
      <4>9. n \in 1..Relied /\ n <= Len(host)
        BY <1>4, <4>6, <4>7, <4>8
      <4> QED BY <4>2, <4>4, <4>7, <4>9
    <3>5. num[view'[1]] <= Len(host) /\ host[num[view'[1]]] = view'[1]
      BY <1>3, <2>2, <3>2, <3>4 DEF AnchorPart
    <3> QED BY <1>2, <2>1, <2>2, <2>3, <3>1, <3>2, <3>5 DEF FeedPart, AnchorPart, LinkedFrom, Walking
  <2> QED BY <1>6, <2>2, <2>4, <2>5, <2>6, WalkCases
<1> QED BY <1>5, <1>6 DEF FollowHead

\* Every step keeps what is relied on.
LEMMA SparedStep ==
  ASSUME SafeInv, SparedPart, SafeInv', [Next]_vars PROVE SparedPart'
<1>1. CASE CallFails \/ HeadersEnd \/ UNCHANGED vars
  <2>1. UNCHANGED <<host, spared, view, backfillFrom, lastEmitted, feed, got, hint>>
        /\ pc' \in {pc, "failed", "closed"}
    BY <1>1 DEF CallFails, HeadersEnd, vars, hostVars, followVars, batchVars, headVars
  <2>2. Relied' = Relied /\ (Exhausted(hint))' = Exhausted(hint)
    BY <2>1, SameWalk
  <2> SUFFICES ASSUME spared' PROVE FeedPart' /\ AnchorPart' /\ WalkPart'
    BY DEF SparedPart
  <2>3. FeedPart /\ AnchorPart /\ WalkPart
    BY <2>1 DEF SparedPart
  <2>4. FeedPart'
    BY <2>1, <2>3 DEF FeedPart, LinkedFrom
  <2>5. AnchorPart'
    BY <2>1, <2>3 DEF AnchorPart, Walking
  <2>6. WalkPart'
    BY <2>1, <2>2, <2>3 DEF WalkPart, Walking
  <2> QED BY <2>4, <2>5, <2>6
<1> QED BY <1>1, SparedHost, SparedDrain, SparedFollow DEF Next

-------------------------------------------------------------------------------
(***************************************************************************)
(* IdlePart: what is left to do when no header is unread.                  *)
(***************************************************************************)
\* A receiver on the host chain, up to half a buffer below its tip.
LEMMA CurrentFacts ==
  ASSUME NEW s \in Seq(Block), Len(host) \in Nat, Head0 + Len(s) - 1 <= Len(host),
         Len(host) - (Head0 + Len(s) - 1) <= Capacity \div 2,
         \A i \in 1..Len(s) : s[i] = host[Head0 + i - 1]
  PROVE  /\ Len(host) - (Head0 + Len(s) - 1) <= Capacity \div 2
         /\ \A i \in 1..Len(s) : Head0 + i - 1 <= Len(host) => s[i] = host[Head0 + i - 1]
         /\ ~(Head0 + Len(s) - 1 > Len(host))
<1>1. Head0 \in Nat /\ Len(s) \in Nat
  BY RpcHostNotifierAssumption
<1> QED BY <1>1

\* Every step, while reorganisations spare what is relied on.
LEMMA IdleStep ==
  ASSUME SafeInv, SparedPart, IdlePart, SafeInv', [Next]_vars PROVE IdlePart'
<1> SUFFICES ASSUME spared', header' = NoBlock PROVE IdlePart'
  BY DEF IdlePart
<1>1. TypeOK /\ HostPart /\ ControlPart /\ ViewPart
  BY DEF SafeInv
<1>2. /\ host \in Seq(Block) /\ Len(host) \in Nat \ {0} /\ Tip(host) \in Block
      /\ feed \in Seq(Block) /\ Len(feed) \in Nat
      /\ Head0 \in Nat \ {0} /\ Capacity \in Nat \ {0} /\ NoBlock \notin Block
      /\ Capacity \div 2 \in Nat
  BY <1>1, TypeFacts, RpcHostNotifierAssumption DEF HostPart
<1>3. ~(HostExtend \/ HostReorg)
  BY <1>2 DEF HostExtend, HostReorg, NewTip
<1>4. UNCHANGED <<host, spared>>
  BY <1>3 DEF Next, HostStep, HostFinalize, DrainBackfill, BackfillIdle, BackfillComplete,
     BackfillPastTip, BackfillPlan, FetchByNumber, FetchMissing, BackfillBreak, BackfillEmit,
     FollowHead, TakeHeader, HandleNewHead, StaleHint, CallFails, HeadersEnd, vars, hostVars
<1>5. FeedPart /\ AnchorPart /\ WalkPart
  BY <1>4 DEF SparedPart
<1>6. CASE TakeHeader
  <2>1. header = Tip(host) /\ hint' = header /\ pc' = "walk"
    BY <1>1, <1>6 DEF TakeHeader, HostPart
  <2> QED BY <1>4, <2>1 DEF IdlePart, Walking, Tip
<1> SUFFICES ASSUME ~TakeHeader PROVE IdlePart'
  BY <1>6
<1>7. header' = header
  BY <1>3 DEF Next, HostStep, HostFinalize, DrainBackfill, BackfillIdle, BackfillComplete,
     BackfillPastTip, BackfillPlan, FetchByNumber, FetchMissing, BackfillBreak, BackfillEmit,
     FollowHead, HandleNewHead, StaleHint, CallFails, HeadersEnd, vars, hostVars
<1>8. /\ pc \in Walking => hint = Tip(host)
      /\ (pc = "backfill" /\ backfillFrom # NoHeight) => backfillFrom <= Len(host)
      /\ pc = "fetch" => /\ to <= Len(host)
                         /\ done => Len(host) - to <= Capacity \div 2
                         /\ ~done => to < Len(host)
      /\ (pc \in {"backfill", "await"} /\ backfillFrom = NoHeight) => Current
  BY <1>4, <1>7 DEF IdlePart
<1>9. CASE UNCHANGED <<view, feed, backfillFrom, hint, to, done>>
           /\ pc' \in {pc, "failed", "closed"}
  <2>1. Current' = Current
    BY <1>4, <1>9 DEF Current, InView, Tip
  <2>2. (pc' \in Walking => hint' = Tip(host'))
    BY <1>4, <1>8, <1>9 DEF Walking
  <2> QED BY <1>4, <1>8, <1>9, <2>1, <2>2 DEF IdlePart, Walking, Tip
<1>10. CASE HostFinalize \/ FetchByNumber \/ CallFails \/ HeadersEnd \/ BackfillPastTip
            \/ FetchMissing \/ UNCHANGED vars
  <2>1. UNCHANGED <<view, feed, backfillFrom, hint, to, done>>
        /\ pc' \in {pc, "failed", "closed"}
    BY <1>10 DEF HostFinalize, FetchByNumber, CallFails, HeadersEnd, BackfillPastTip,
       FetchMissing, vars, followVars, batchVars, headVars
  <2> QED BY <1>9, <2>1
<1>11. CASE BackfillBreak
  <2>1. pc' = "failed"
    BY <1>11 DEF BackfillBreak
  <2> QED BY <2>1 DEF IdlePart, Walking
<1>12. CASE BackfillIdle
  <2>1. /\ UNCHANGED <<view, feed, backfillFrom>> /\ pc' = "await" /\ pc = "backfill"
        /\ backfillFrom = NoHeight
    BY <1>12 DEF BackfillIdle, followVars
  <2>2. Current'
    BY <1>4, <1>8, <2>1 DEF Current, InView, Tip
  <2> QED BY <2>1, <2>2 DEF IdlePart, Walking
<1>13. CASE BackfillComplete
  <2>1. pc = "backfill" /\ backfillFrom = Len(host) + 1
    BY <1>13 DEF BackfillComplete
  <2>2. backfillFrom # NoHeight /\ ~(backfillFrom <= Len(host))
    BY <1>2, <2>1
  <2> QED BY <1>8, <2>1, <2>2
<1>14. CASE BackfillPlan
  <2>1. /\ pc' = "fetch" /\ backfillFrom \in Nat \ {0} /\ backfillFrom <= Len(host)
    BY <1>1, <1>14 DEF BackfillPlan, ControlPart, TypeOK
  <2> DEFINE c == BackfillCeiling(Len(host))
  <2>2. c \in Nat /\ c <= Len(host) /\ Len(host) - c <= Capacity \div 2
    BY <1>2, <2>1 DEF BackfillCeiling
  <2> HIDE DEF c
  <2>3. /\ to' = IF backfillFrom + BatchSize - 1 < c THEN backfillFrom + BatchSize - 1 ELSE c
        /\ done' = (to' >= c)
    BY <1>14 DEF BackfillPlan, c
  <2>4. to' \in Nat /\ to' <= c
    BY <2>1, <2>2, <2>3, RpcHostNotifierAssumption
  <2>5. done' => Len(host) - to' <= Capacity \div 2
    <3> HAVE done'
    <3>1. to' >= c
      BY <2>3
    <3> QED BY <2>2, <2>4, <3>1
  <2>6. ~done' => to' < Len(host)
    <3> HAVE ~done'
    <3>1. ~(to' >= c)
      BY <2>3
    <3> QED BY <1>2, <2>2, <2>4, <3>1
  <2>7. to' <= Len(host)
    BY <1>2, <2>2, <2>4
  <2> QED BY <1>4, <2>1, <2>5, <2>6, <2>7 DEF IdlePart, Walking
<1>15. CASE BackfillEmit
  <2>1. /\ feed' \in Seq(Block) /\ Head0 + Len(feed') - 1 = to
        /\ to <= Len(host) /\ to \in Nat
        /\ \A i \in 1..Len(feed') : feed'[i] = host[Head0 + i - 1]
    BY <1>4, <1>15, EmitOnHost
  <2>2. pc = "fetch" /\ pc' = "backfill" /\ backfillFrom' = IF done THEN NoHeight ELSE to + 1
    BY <1>15 DEF BackfillEmit
  <2>3. ASSUME done PROVE Current'
    <3>1. Len(host) - (Head0 + Len(feed') - 1) <= Capacity \div 2
      BY <1>8, <2>1, <2>2, <2>3
    <3>2. /\ \A i \in 1..Len(feed') :
               Head0 + i - 1 <= Len(host) => feed'[i] = host[Head0 + i - 1]
          /\ ~(Head0 + Len(feed') - 1 > Len(host))
      BY <1>2, <2>1, <3>1, CurrentFacts
    <3> QED BY <1>4, <3>1, <3>2 DEF Current
  <2>4. ~done => backfillFrom' # NoHeight /\ backfillFrom' <= Len(host)
    BY <1>2, <1>8, <2>1, <2>2
  <2> QED BY <1>4, <2>2, <2>3, <2>4 DEF IdlePart, Walking
<1>16. CASE StaleHint
  <2>1. hint' = Tip(host) /\ pc' = "rewalk"
    BY <1>16 DEF StaleHint
  <2> QED BY <1>4, <2>1 DEF IdlePart, Walking, Tip
<1>17. CASE HandleNewHead
  <2>1. pc \in Walking /\ pc' = "backfill" /\ hint = Tip(host)
    BY <1>8, <1>17, WalkCases
  <2>2. hint \in Block /\ backfillFrom = NoHeight /\ view # <<>>
    BY <1>1, <1>5, <2>1 DEF ControlPart, AnchorPart
  <2>3. /\ num[hint] = Len(host)
        /\ \A n \in 1..Len(host) : Path[hint][n] = host[n]
    BY <1>1, <2>1, HostIsPath
  <2>4. CASE AlreadySeen(hint) /\ UNCHANGED followVars
    <3>1. UNCHANGED <<view, feed, backfillFrom>>
      BY <2>4 DEF followVars
    <3> DEFINE v == num[hint] - num[view[1]] + 1
    <3>2. InView(hint) /\ v \in 1..Len(view) /\ view[v] = hint
      BY <1>1, <2>2, <2>4, InViewFacts DEF AlreadySeen, ViewPart
    <3>3. num[view[1]] = Head0 + Len(feed) - Len(view) /\ Len(view) \in Nat /\ num[hint] \in Nat
          /\ Len(view) <= Len(feed)
      BY <1>1, <1>5, <2>2, FeedFacts, TypeFacts, HeaderFacts DEF FeedPart, ViewPart, IsEnd
    <3> HIDE DEF v
    <3>4. PICK p \in 1..Len(feed) : p = Len(feed) - Len(view) + v
      <4>1. Len(feed) - Len(view) + v \in 1..Len(feed)
        BY <1>2, <3>2, <3>3
      <4> QED BY <4>1
    <3>5. feed[p] = hint
      BY <1>1, <3>2, <3>4 DEF ViewPart, IsEnd
    <3>6. Head0 + p - 1 = Len(host)
      BY <1>2, <2>3, <3>3, <3>4 DEF v
    <3>7. feed[p] = host[Head0 + p - 1] /\ Head0 + p - 1 <= Len(host)
      BY <1>2, <2>1, <3>5, <3>6 DEF Tip
    <3>8. ASSUME NEW i \in 1..Len(feed), Head0 + i - 1 <= Len(host)
          PROVE  feed[i] = host[Head0 + i - 1]
      <4>1. i <= p
        BY <1>2, <3>6, <3>8
      <4> QED BY <1>1, <1>2, <1>5, <3>7, <4>1, FeedOnChain DEF FeedPart, HostPart
    <3>9. Len(host) - (Head0 + Len(feed) - 1) <= Capacity \div 2
      BY <1>2, <3>6
    <3>10. Current
      BY <2>1, <3>2, <3>8, <3>9 DEF Current
    <3>11. Current'
      BY <1>4, <3>1, <3>10 DEF Current, InView, Tip
    <3> QED BY <2>1, <2>2, <3>1, <3>11 DEF IdlePart, Walking
  <2>5. CASE Exhausted(hint) /\ ResetToBackfill
    <3>1. backfillFrom' = IF lastEmitted = NoBlock THEN NoHeight ELSE num[lastEmitted] + 1
      BY <2>5 DEF ResetToBackfill
    <3>2. lastEmitted \in Block
      BY <1>1, <1>5, <2>2, FeedFacts DEF FeedPart
    <3>3. num[lastEmitted] \in Nat /\ lastEmitted # NoBlock
      BY <1>2, <3>2, HeaderFacts
    <3>4. Len(host) > num[lastEmitted]
      BY <1>5, <2>1, <2>5 DEF WalkPart
    <3>5. backfillFrom' <= Len(host) /\ backfillFrom' # NoHeight
      BY <1>2, <3>1, <3>3, <3>4
    <3> QED BY <1>4, <2>1, <3>5 DEF IdlePart, Walking
  <2>6. CASE Moves(hint)
    <3>1. /\ feed' \in Seq(Block)
          /\ Len(feed') \in Nat /\ Head0 + Len(feed') - 1 = num[hint]
          /\ \A i \in 1..Len(feed') : feed'[i] = Path[hint][Head0 + i - 1]
      BY <1>1, <1>5, <2>2, <2>6, MovedFeed DEF FeedPart
    <3>2. backfillFrom' = backfillFrom
      BY <1>1, <2>2, <2>6, MovedFacts
    <3>3. \A i \in 1..Len(feed') : feed'[i] = host[Head0 + i - 1]
      <4> TAKE i \in 1..Len(feed')
      <4>1. Head0 + i - 1 \in 1..Len(host)
        BY <1>2, <2>3, <3>1
      <4> QED BY <2>3, <3>1, <4>1
    <3>4. Len(host) - (Head0 + Len(feed') - 1) <= Capacity \div 2
          /\ Head0 + Len(feed') - 1 <= Len(host)
      BY <1>2, <2>3, <3>1
    <3>5. /\ \A i \in 1..Len(feed') :
               Head0 + i - 1 <= Len(host) => feed'[i] = host[Head0 + i - 1]
          /\ ~(Head0 + Len(feed') - 1 > Len(host))
      BY <1>2, <3>1, <3>3, <3>4, CurrentFacts
    <3>6. Current'
      BY <1>4, <3>4, <3>5 DEF Current
    <3> QED BY <2>1, <2>2, <3>2, <3>6 DEF IdlePart, Walking
  <2> QED BY <1>17, <2>2, <2>4, <2>5, <2>6, WalkCases
<1> QED BY <1>3, <1>10, <1>11, <1>12, <1>13, <1>14, <1>15, <1>16, <1>17
        DEF Next, HostStep, DrainBackfill, FollowHead

-------------------------------------------------------------------------------
\* The first state has a block to fetch.
LEMMA RpcInit == Init => RpcInv
<1> HAVE Init
<1>1. SafeInv
  BY SafeInit
<1>2. PICK b \in Block : num[b] >= Head0 /\ host = Path[b]
  BY DEF Init
<1>3. Len(host) = num[b] /\ num[b] \in Nat /\ Head0 \in Nat \ {0}
  BY <1>2, PathFacts, HeaderFacts, RpcHostNotifierAssumption
<1>4. Head0 <= Len(host)
  BY <1>2, <1>3
<1>5. SparedPart
  BY <1>3, <1>4 DEF Init, SparedPart, FeedPart, AnchorPart, WalkPart, Walking, LinkedFrom
<1>6. IdlePart
  BY <1>3, <1>4 DEF Init, IdlePart, Walking
<1> QED BY <1>1, <1>5, <1>6 DEF RpcInv

\* The invariant of the notifier, in every reachable state.
LEMMA RpcInvariance == Spec => []RpcInv
<1>1. RpcInv /\ [Next]_vars => RpcInv'
  BY SafeStep, SparedStep, IdleStep DEF RpcInv
<1> QED BY <1>1, RpcInit, PTL DEF Spec

\* The HostNotifier contract: as long as reorganisations spare what the notifier
\* relies on, its receiver holds one hash-linked chain from the set_head height
\* on, through every walk, exhaustion, stale hint and resumed backfill.
THEOREM FeedAlwaysInHostOrder == Spec => []FeedInHostOrderIfSpared
<1>1. RpcInv => FeedInHostOrderIfSpared
  BY DEF RpcInv, SparedPart, FeedPart, FeedInHostOrderIfSpared, FeedInHostOrder
<1> QED BY <1>1, RpcInvariance, PTL

\* A notifier that sleeps with no unread header has left its receiver on the
\* canonical chain, at most half a buffer below its tip, or ahead of it only
\* where the next walk meets its view.
THEOREM IdleAlwaysCurrent == Spec => []IdleIsCurrent
<1>1. RpcInv => IdleIsCurrent
  BY DEF RpcInv, SafeInv, ControlPart, IdlePart, Current, IdleIsCurrent
<1> QED BY <1>1, RpcInvariance, PTL
===============================================================================
