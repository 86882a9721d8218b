------------------------- MODULE SubscriptionsProofs -------------------------
(***************************************************************************)
(* Theorems about Subscriptions: what its invariant is, that every step    *)
(* preserves it, and what follows for clients, the channel and the table.  *)
(***************************************************************************)
EXTENDS Subscriptions, HostChainProofs, FiniteSetTheorems

-------------------------------------------------------------------------------
(***************************************************************************)
(* The permits of a channel.                                               *)
(***************************************************************************)
\* The permits of one task.
Places(s, n) == {s} \X (1..n)

\* There are as many as it reserved.
LEMMA PlacesCount ==
  ASSUME NEW s, NEW n \in Nat
  PROVE  IsFiniteSet(Places(s, n)) /\ Cardinality(Places(s, n)) = n
<1> DEFINE f == [i \in 1..n |-> <<s, i>>]
<1>1. f \in Bijection(1..n, Places(s, n))
  <2>1. \A i \in 1..n : <<s, i>> \in Places(s, n)
    BY DEF Places
  <2>2. f \in [1..n -> Places(s, n)]
    BY <2>1
  <2>3. \A i, j \in 1..n : f[i] = f[j] => i = j
    OBVIOUS
  <2>4. ASSUME NEW x \in Places(s, n) PROVE \E i \in 1..n : f[i] = x
    BY DEF Places
  <2>5. f \in Injection(1..n, Places(s, n))
    BY <2>2, <2>3 DEF Injection, IsInjective
  <2>6. f \in Surjection(1..n, Places(s, n))
    BY <2>2, <2>4 DEF Surjection
  <2> QED BY <2>5, <2>6 DEF Bijection
<1>2. ExistsBijection(1..n, Places(s, n))
  BY <1>1 DEF ExistsBijection
<1>3. IsFiniteSet(1..n) /\ Cardinality(1..n) = n
  BY FS_Interval
<1> QED BY <1>2, <1>3, FS_Bijection

\* All permits of one state, given as a function.
Held(p) == {x \in Sub \X (1..NotifCapacity) : x[2] <= p[x[1]]}

\* A task that had no permit gets n.
LEMMA HeldMore ==
  ASSUME NEW p \in [Sub -> 0..NotifCapacity], NEW s \in Sub, p[s] = 0,
         NEW n \in 0..NotifCapacity, IsFiniteSet(Held(p))
  PROVE  /\ IsFiniteSet(Held([p EXCEPT ![s] = n]))
         /\ Cardinality(Held([p EXCEPT ![s] = n])) = Cardinality(Held(p)) + n
         /\ Cardinality(Held(p)) \in Nat
<1> DEFINE q == [p EXCEPT ![s] = n]
<1>1. NotifCapacity \in Nat /\ n \in Nat
  BY SubscriptionsAssumption
<1>2. Held(q) = Held(p) \cup Places(s, n)
  <2>1. ASSUME NEW x \in Held(q) PROVE x \in Held(p) \cup Places(s, n)
    <3>1. PICK t \in Sub, i \in 1..NotifCapacity : x = <<t, i>>
      BY DEF Held
    <3>2. i <= q[t]
      BY <3>1 DEF Held
    <3>3. CASE t = s
      BY <3>1, <3>2, <3>3, <1>1 DEF Places
    <3>4. CASE t # s
      BY <3>1, <3>2, <3>4 DEF Held
    <3> QED BY <3>3, <3>4
  <2>2. ASSUME NEW x \in Places(s, n) PROVE x \in Held(q)
    <3>1. PICK i \in 1..n : x = <<s, i>>
      BY DEF Places
    <3>2. i \in 1..NotifCapacity
      BY <1>1
    <3> QED BY <3>1, <3>2 DEF Held
  <2>3. ASSUME NEW x \in Held(p) PROVE x \in Held(q)
    <3>1. PICK t \in Sub, i \in 1..NotifCapacity : x = <<t, i>>
      BY DEF Held
    <3>2. i <= p[t]
      BY <3>1 DEF Held
    <3>3. t # s
      BY <3>2
    <3> QED BY <3>1, <3>2, <3>3 DEF Held
  <2> QED BY <2>1, <2>2, <2>3
<1>3. Held(p) \cap Places(s, n) = {}
  <2> SUFFICES ASSUME NEW x \in Held(p), x \in Places(s, n) PROVE FALSE
    OBVIOUS
  <2>1. PICK i \in 1..n : x = <<s, i>>
    BY DEF Places
  <2>2. i <= p[s]
    BY <2>1 DEF Held
  <2> QED BY <2>2, <1>1
<1>4. IsFiniteSet(Places(s, n)) /\ Cardinality(Places(s, n)) = n
  BY <1>1, PlacesCount
<1>5. /\ IsFiniteSet(Held(q))
      /\ Cardinality(Held(q)) = Cardinality(Held(p)) + n - Cardinality({})
  <2>1. /\ IsFiniteSet(Held(p) \cup Places(s, n))
        /\ Cardinality(Held(p) \cup Places(s, n)) =
             Cardinality(Held(p)) + Cardinality(Places(s, n))
               - Cardinality(Held(p) \cap Places(s, n))
    BY ONLY <1>4, IsFiniteSet(Held(p)), FS_Union
  <2> QED BY ONLY <1>2, <1>3, <1>4, <2>1
<1>6. Cardinality({}) = 0 /\ Cardinality(Held(p)) \in Nat
  BY FS_EmptySet, FS_CardinalityType
<1> QED BY <1>1, <1>5, <1>6

\* A task gives back all its permits.
LEMMA HeldLess ==
  ASSUME NEW p \in [Sub -> 0..NotifCapacity], NEW s \in Sub, IsFiniteSet(Held(p))
  PROVE  /\ IsFiniteSet(Held([p EXCEPT ![s] = 0]))
         /\ Cardinality(Held(p)) = Cardinality(Held([p EXCEPT ![s] = 0])) + p[s]
         /\ Cardinality(Held([p EXCEPT ![s] = 0])) \in Nat
<1> DEFINE q == [p EXCEPT ![s] = 0]
<1>1. NotifCapacity \in Nat
  BY SubscriptionsAssumption
<1>2. q \in [Sub -> 0..NotifCapacity] /\ q[s] = 0 /\ p[s] \in 0..NotifCapacity
  BY <1>1
<1>3. [q EXCEPT ![s] = p[s]] = p
  BY <1>2
<1>4. Held(q) \subseteq Held(p)
  <2> SUFFICES ASSUME NEW x \in Held(q) PROVE x \in Held(p)
    OBVIOUS
  <2>1. PICK t \in Sub, i \in 1..NotifCapacity : x = <<t, i>>
    BY DEF Held
  <2>2. i <= q[t]
    BY <2>1 DEF Held
  <2>3. t # s
    BY <1>2, <2>2
  <2> QED BY <2>1, <2>2, <2>3 DEF Held
<1>5. IsFiniteSet(Held(q))
  BY <1>4, FS_Subset
<1>6. /\ Cardinality(Held([q EXCEPT ![s] = p[s]])) = Cardinality(Held(q)) + p[s]
      /\ Cardinality(Held(q)) \in Nat
  <2> HIDE DEF q
  <2> QED BY <1>2, <1>5, HeldMore
<1> QED BY <1>3, <1>5, <1>6
-------------------------------------------------------------------------------
(***************************************************************************)
(* What a chain event becomes for a subscription.                          *)
(***************************************************************************)
\* The recursion of Logs at position i.
LogsAt(f, i, type, blocks) ==
  f[i] = IF i = 0 THEN <<>>
         ELSE IF blocks[i] \in Silent THEN f[i - 1]
         ELSE Append(f[i - 1], <<type, blocks[i]>>)

\* q has the matching logs of the first i blocks and nothing else.
LogsOf(q, i, type, blocks) ==
  /\ q \in Seq(Item)
  /\ \A k \in 1..Len(q) : \E j \in 1..i : blocks[j] \notin Silent /\ q[k] = <<type, blocks[j]>>
  /\ \A j \in 1..i : blocks[j] \notin Silent => \E k \in 1..Len(q) : q[k] = <<type, blocks[j]>>

\* One more block.
LEMMA LogsOfNext ==
  ASSUME NEW type \in {"log", "removed"}, NEW blocks \in Seq(Block),
         NEW i \in 1..Len(blocks), NEW q, LogsOf(q, i - 1, type, blocks)
  PROVE  /\ blocks[i] \in Silent => LogsOf(q, i, type, blocks)
         /\ blocks[i] \notin Silent =>
              LogsOf(Append(q, <<type, blocks[i]>>), i, type, blocks)
<1> DEFINE x == <<type, blocks[i]>>  r == Append(q, x)
<1>1. q \in Seq(Item) /\ Len(q) \in Nat
  BY DEF LogsOf
<1>2. \A k \in 1..Len(q) : \E j \in 1..(i - 1) : blocks[j] \notin Silent /\ q[k] = <<type, blocks[j]>>
  BY DEF LogsOf
<1>3. \A j \in 1..(i - 1) : blocks[j] \notin Silent => \E k \in 1..Len(q) : q[k] = <<type, blocks[j]>>
  BY DEF LogsOf
<1>4. \A j \in 1..(i - 1) : j \in 1..i
  OBVIOUS
<1>5. \A j \in 1..i : j = i \/ j \in 1..(i - 1)
  OBVIOUS
<1>6. ASSUME blocks[i] \in Silent PROVE LogsOf(q, i, type, blocks)
  <2>1. \A k \in 1..Len(q) : \E j \in 1..i : blocks[j] \notin Silent /\ q[k] = <<type, blocks[j]>>
    BY <1>2, <1>4
  <2>2. \A j \in 1..i : blocks[j] \notin Silent => \E k \in 1..Len(q) : q[k] = <<type, blocks[j]>>
    BY <1>3, <1>5, <1>6
  <2> QED BY <1>1, <2>1, <2>2 DEF LogsOf
<1>7. ASSUME blocks[i] \notin Silent PROVE LogsOf(r, i, type, blocks)
  <2>1. x \in Item
    BY DEF Item
  <2>2. /\ r \in Seq(Item) /\ Len(r) = Len(q) + 1
        /\ \A k \in 1..Len(q) : r[k] = q[k]
        /\ r[Len(q) + 1] = x
    BY ONLY <1>1, <2>1, AppendFacts
  <2> HIDE DEF r
  <2>3. ASSUME NEW k \in 1..Len(r)
        PROVE  \E j \in 1..i : blocks[j] \notin Silent /\ r[k] = <<type, blocks[j]>>
    <3>1. CASE k = Len(q) + 1
      <4>1. r[k] = <<type, blocks[i]>> /\ i \in 1..i
        BY <2>2, <3>1
      <4> QED BY <1>7, <4>1
    <3>2. CASE k # Len(q) + 1
      <4>1. k \in 1..Len(q)
        BY <1>1, <2>2, <3>2
      <4>2. r[k] = q[k]
        BY <2>2, <4>1
      <4> QED BY <1>2, <1>4, <4>1, <4>2
    <3> QED BY <3>1, <3>2
  <2>4. ASSUME NEW j \in 1..i, blocks[j] \notin Silent
        PROVE  \E k \in 1..Len(r) : r[k] = <<type, blocks[j]>>
    <3>1. CASE j = i
      <4>1. Len(q) + 1 \in 1..Len(r)
        BY <1>1, <2>2
      <4> QED BY <2>2, <3>1, <4>1
    <3>2. CASE j \in 1..(i - 1)
      <4>1. PICK k \in 1..Len(q) : q[k] = <<type, blocks[j]>>
        BY <1>3, <2>4, <3>2
      <4>2. k \in 1..Len(r) /\ r[k] = q[k]
        BY <1>1, <2>2
      <4> QED BY <4>1, <4>2
    <3> QED BY <1>5, <3>1, <3>2
  <2> QED BY <2>2, <2>3, <2>4 DEF LogsOf
<1> QED BY <1>6, <1>7

\* The recursion of Logs has a solution, whatever the number of blocks.
LEMMA LogsSolved ==
  ASSUME NEW type \in {"log", "removed"}, NEW blocks \in Seq(Block)
  PROVE  \E f : /\ f = [i \in 0..Len(blocks) |-> f[i]]
                /\ \A i \in 0..Len(blocks) : LogsAt(f, i, type, blocks)
<1> DEFINE Solved(n) == \E f : /\ f = [i \in 0..n |-> f[i]]
                               /\ \A i \in 0..n : LogsAt(f, i, type, blocks)
           T == {n \in 0..Len(blocks) : ~Solved(n)}
<1>1. Len(blocks) \in Nat
  OBVIOUS
<1> SUFFICES ASSUME T # {} PROVE FALSE
  <2>1. Len(blocks) \in 0..Len(blocks)
    BY <1>1
  <2>2. ~Solved(Len(blocks)) => Len(blocks) \in T
    BY <2>1
  <2> QED BY <2>2
<1>2. T \in SUBSET Nat
  BY <1>1
<1>3. PICK n \in T : \A m \in T : n <= m
  <2> HIDE DEF T
  <2> QED BY <1>2, Least
<1>4. n \in 0..Len(blocks) /\ ~Solved(n)
  BY <1>3
<1>5. CASE n = 0
  <2> DEFINE g == [i \in 0..0 |-> <<>>]
  <2>1. g = [i \in 0..0 |-> g[i]] /\ \A i \in 0..0 : i = 0 /\ g[i] = <<>>
    OBVIOUS
  <2>2. \A i \in 0..0 : LogsAt(g, i, type, blocks)
    BY <2>1 DEF LogsAt
  <2>3. Solved(0)
    BY <2>1, <2>2
  <2> QED BY <1>4, <1>5, <2>3
<1>6. CASE n # 0
  <2>1. n - 1 \in 0..Len(blocks) /\ n - 1 < n /\ n \in Nat
    BY <1>1, <1>4, <1>6
  <2>2. n - 1 \notin T
    BY <1>3, <2>1
  <2>3. Solved(n - 1)
    BY <2>1, <2>2
  <2>4. PICK f : /\ f = [i \in 0..(n - 1) |-> f[i]]
                 /\ \A i \in 0..(n - 1) : LogsAt(f, i, type, blocks)
    BY <2>3
  <2> DEFINE g == [i \in 0..n |-> IF i < n THEN f[i]
                                  ELSE IF blocks[n] \in Silent THEN f[n - 1]
                                  ELSE Append(f[n - 1], <<type, blocks[n]>>)]
  <2>5. g = [i \in 0..n |-> g[i]]
    OBVIOUS
  <2>6. ASSUME NEW i \in 0..n PROVE LogsAt(g, i, type, blocks)
    <3>1. CASE i < n
      <4>1. i \in 0..(n - 1) /\ g[i] = f[i]
        BY <2>1, <3>1
      <4>2. LogsAt(f, i, type, blocks)
        BY <2>4, <4>1
      <4>3. i # 0 => i - 1 \in 0..n /\ i - 1 < n /\ g[i - 1] = f[i - 1]
        BY <2>1, <3>1
      <4> HIDE DEF g
      <4> QED BY <4>1, <4>2, <4>3 DEF LogsAt
    <3>2. CASE ~(i < n)
      <4>1. i = n /\ n - 1 \in 0..n /\ n - 1 < n
        BY <2>1, <3>2
      <4>2. g[n - 1] = f[n - 1]
        BY <4>1
      <4>3. g[n] = IF blocks[n] \in Silent THEN f[n - 1]
                   ELSE Append(f[n - 1], <<type, blocks[n]>>)
        BY <2>1
      <4> HIDE DEF g
      <4> QED BY <1>6, <4>1, <4>2, <4>3 DEF LogsAt
    <3> QED BY <3>1, <3>2
  <2>7. Solved(n)
    <3> HIDE DEF g
    <3> QED BY <2>5, <2>6
  <2> QED BY <1>4, <2>7
<1> QED BY <1>5, <1>6

\* Logs returns the matching logs of the blocks.
LEMMA LogsFacts ==
  ASSUME NEW type \in {"log", "removed"}, NEW blocks \in Seq(Block)
  PROVE  LogsOf(Logs(type, blocks), Len(blocks), type, blocks)
<1> DEFINE N == Len(blocks)
           Step(f, i) == IF i = 0 THEN <<>>
                         ELSE IF blocks[i] \in Silent THEN f[i - 1]
                         ELSE Append(f[i - 1], <<type, blocks[i]>>)
           upTo == CHOOSE f : f = [i \in 0..N |-> Step(f, i)]
<1>1. Logs(type, blocks) = upTo[N]
  BY DEF Logs
<1>2. N \in Nat
  OBVIOUS
<1>3. PICK f : /\ f = [i \in 0..N |-> f[i]]
               /\ \A i \in 0..N : f[i] = Step(f, i)
  BY LogsSolved DEF LogsAt
<1>4. f = [i \in 0..N |-> Step(f, i)]
  BY <1>3
<1>5. upTo = [i \in 0..N |-> Step(upTo, i)]
  BY <1>4
<1>6. \A i \in 0..N : upTo[i] = Step(upTo, i)
  <2> HIDE DEF upTo, Step
  <2> QED BY <1>5
<1> HIDE DEF upTo
<1> DEFINE T == {i \in 0..N : ~LogsOf(upTo[i], i, type, blocks)}
<1>7. T = {}
  <2> SUFFICES ASSUME T # {} PROVE FALSE
    OBVIOUS
  <2>1. T \in SUBSET Nat
    BY <1>2
  <2>2. PICK n \in T : \A m \in T : n <= m
    <3> HIDE DEF T
    <3> QED BY <2>1, Least
  <2>3. n \in 0..N /\ n \in Nat /\ ~LogsOf(upTo[n], n, type, blocks)
    BY <1>2, <2>2
  <2>4. CASE n = 0
    <3>1. upTo[n] = <<>>
      BY <1>6, <2>3, <2>4
    <3>2. LogsOf(<<>>, 0, type, blocks)
      BY DEF LogsOf
    <3> QED BY <2>3, <2>4, <3>1, <3>2
  <2>5. CASE n # 0
    <3>1. n \in 1..N /\ n - 1 \in 0..N /\ n - 1 < n
      BY <1>2, <2>3, <2>5
    <3>2. LogsOf(upTo[n - 1], n - 1, type, blocks)
      BY <2>2, <3>1
    <3>3. upTo[n] = IF blocks[n] \in Silent THEN upTo[n - 1]
                    ELSE Append(upTo[n - 1], <<type, blocks[n]>>)
      BY <1>6, <2>3, <2>5
    <3>4. LogsOf(upTo[n], n, type, blocks)
      BY ONLY <3>1, <3>2, <3>3, LogsOfNext, type \in {"log", "removed"}, blocks \in Seq(Block)
    <3> QED BY <2>3, <3>4
  <2> QED BY <2>4, <2>5
<1>8. N \in 0..N
  BY <1>2
<1> QED BY <1>1, <1>7, <1>8
\* q has a log of this type of every block in B and of no other.
Only(q, type, B) ==
  /\ q \in Seq(Item)
  /\ \A k \in 1..Len(q) : \E b \in B : q[k] = <<type, b>>
  /\ \A b \in B : \E k \in 1..Len(q) : q[k] = <<type, b>>

\* The blocks of a sequence.
LEMMA RangeSeq ==
  ASSUME NEW S, NEW q \in Seq(S)
  PROVE  Range(q) = {q[i] : i \in 1..Len(q)}
  BY DEF Range

\* Logs, in terms of the set of blocks.
LEMMA LogsOnly ==
  ASSUME NEW type \in {"log", "removed"}, NEW blocks \in Seq(Block)
  PROVE  Only(Logs(type, blocks), type, Range(blocks) \ Silent)
<1> DEFINE q == Logs(type, blocks)  B == Range(blocks) \ Silent
<1>1. LogsOf(q, Len(blocks), type, blocks)
  BY LogsFacts
<1> HIDE DEF q
<1>2. \A j \in 1..Len(blocks) : blocks[j] \notin Silent => blocks[j] \in B
  BY RangeSeq
<1>3. \A b \in B : \E j \in 1..Len(blocks) : b = blocks[j] /\ blocks[j] \notin Silent
  BY RangeSeq
<1> HIDE DEF B
<1>4. \A k \in 1..Len(q) : \E b \in B : q[k] = <<type, b>>
  <2>1. \A k \in 1..Len(q) : \E j \in 1..Len(blocks) :
          blocks[j] \notin Silent /\ q[k] = <<type, blocks[j]>>
    BY <1>1 DEF LogsOf
  <2>2. ASSUME NEW k \in 1..Len(q) PROVE \E b \in B : q[k] = <<type, b>>
    <3>1. PICK j \in 1..Len(blocks) : blocks[j] \notin Silent /\ q[k] = <<type, blocks[j]>>
      BY <2>1
    <3> QED BY <1>2, <3>1
  <2> QED BY <2>2
<1>5. \A b \in B : \E k \in 1..Len(q) : q[k] = <<type, b>>
  <2>1. \A j \in 1..Len(blocks) : blocks[j] \notin Silent =>
          \E k \in 1..Len(q) : q[k] = <<type, blocks[j]>>
    BY <1>1 DEF LogsOf
  <2>2. ASSUME NEW b \in B PROVE \E k \in 1..Len(q) : q[k] = <<type, b>>
    <3>1. PICK j \in 1..Len(blocks) : b = blocks[j] /\ blocks[j] \notin Silent
      BY <1>3
    <3> QED BY <2>1, <3>1
  <2> QED BY <2>2
<1>6. Only(q, type, B)
  BY <1>1, <1>4, <1>5 DEF LogsOf, Only
<1> QED BY <1>6 DEF q, B

\* A new block, for a logs subscription.
LEMMA BlockLogs ==
  ASSUME NEW b \in Block
  PROVE  Only(Logs("log", <<b>>), "log", {b} \ Silent)
<1>1. <<b>> \in Seq(Block) /\ Range(<<b>>) = {b}
  BY DEF Range
<1> QED BY <1>1, LogsOnly

\* What is buffered for an event is a sequence of items.
LEMMA FilterType ==
  ASSUME NEW k \in {"logs", "heads"}, NEW e \in ChainEvent,
         e.type = "reorg" => e.indexed <= Len(e.removed)
  PROVE  FilterForSub(k, e) \in Seq(Item)
<1>1. CASE e.type = "block"
  <2>1. e.block \in Block
    BY <1>1 DEF ChainEvent
  <2>2. Logs("log", <<e.block>>) \in Seq(Item)
    BY <2>1, BlockLogs DEF Only
  <2>3. <<"header", e.block>> \in Item
    BY <2>1 DEF Item
  <2>4. <<<<"header", e.block>>>> \in Seq(Item)
    BY <2>3
  <2> QED BY <1>1, <2>2, <2>4 DEF FilterForSub
<1>2. CASE e.type = "reorg"
  <2>1. e.removed \in Seq(Block) /\ e.indexed \in Nat
    BY <1>2 DEF ChainEvent
  <2>2. Prefix(e.removed, e.indexed) \in Seq(Block)
    BY <1>2, <2>1, PrefixFacts
  <2>3. Logs("removed", Prefix(e.removed, e.indexed)) \in Seq(Item)
    BY <2>2, LogsOnly DEF Only
  <2>4. <<>> \in Seq(Item)
    OBVIOUS
  <2> QED BY <1>2, <2>3, <2>4 DEF FilterForSub
<1>3. e.type \in {"block", "reorg"}
  BY DEF ChainEvent
<1> QED BY <1>1, <1>2, <1>3

-------------------------------------------------------------------------------
(***************************************************************************)
(* What a client holds.                                                    *)
(***************************************************************************)
\* Concatenation is associative.
LEMMA ConcatAssoc ==
  ASSUME NEW S, NEW x \in Seq(S), NEW y \in Seq(S), NEW z \in Seq(S)
  PROVE  x \o (y \o z) = (x \o y) \o z
  OBVIOUS

\* Sending the first n buffered items changes no client.
LEMMA SplitConcat ==
  ASSUME NEW S, NEW x \in Seq(S), NEW y \in Seq(S), NEW n \in Nat, n <= Len(y)
  PROVE  (x \o SubSeq(y, 1, n)) \o SubSeq(y, n + 1, Len(y)) = x \o y
<1> DEFINE u == SubSeq(y, 1, n)  v == SubSeq(y, n + 1, Len(y))
<1>1. /\ u \in Seq(S) /\ Len(u) = n
      /\ \A i \in 1..n : u[i] = y[i]
  BY PrefixFacts DEF Prefix
<1>2. /\ v \in Seq(S) /\ Len(v) = Len(y) - n
      /\ \A i \in 1..(Len(y) - n) : v[i] = y[n + i]
  BY ONLY SuffixFacts, y \in Seq(S), n \in Nat, n <= Len(y)
<1> HIDE DEF u, v
<1>3. u \o v = y
  <2>1. /\ u \o v \in Seq(S) /\ Len(u \o v) = Len(u) + Len(v)
        /\ \A i \in 1..Len(u) : (u \o v)[i] = u[i]
        /\ \A i \in 1..Len(v) : (u \o v)[Len(u) + i] = v[i]
    BY ONLY <1>1, <1>2, ConcatFacts
  <2>2. Len(u \o v) = Len(y)
    BY <1>1, <1>2, <2>1
  <2>3. ASSUME NEW i \in 1..Len(y) PROVE (u \o v)[i] = y[i]
    <3>1. CASE i <= n
      BY <1>1, <2>1, <3>1
    <3>2. CASE ~(i <= n)
      <4>1. i - n \in 1..(Len(y) - n) /\ n + (i - n) = i
        BY <3>2
      <4>2. v[i - n] = y[n + (i - n)]
        BY <1>2, <4>1
      <4>3. (u \o v)[n + (i - n)] = v[i - n]
        BY <1>1, <1>2, <2>1, <4>1
      <4> QED BY <4>1, <4>2, <4>3
    <3> QED BY <3>1, <3>2
  <2>4. \A q \in Seq(S) : q = [i \in 1..Len(q) |-> q[i]]
    BY ONLY TRUE
  <2>5. u \o v = [i \in 1..Len(y) |-> (u \o v)[i]]
    BY ONLY <2>1, <2>2, <2>4
  <2>6. y = [i \in 1..Len(y) |-> y[i]]
    BY ONLY <2>4, y \in Seq(S)
  <2> QED BY ONLY <2>3, <2>5, <2>6
<1>4. (x \o u) \o v = x \o (u \o v)
  <2>1. \A a, b, c \in Seq(S) : a \o (b \o c) = (a \o b) \o c
    BY ConcatAssoc
  <2> QED BY ONLY <1>1, <1>2, <2>1, x \in Seq(S), Zenon
<1> QED BY <1>3, <1>4 DEF u, v

\* The items of a concatenation.
LEMMA ItemsOf ==
  ASSUME NEW x \in Seq(Item), NEW y \in Seq(Item)
  PROVE  /\ x \o y \in Seq(Item)
         /\ \A i \in 1..Len(x) : i \in 1..Len(x \o y) /\ (x \o y)[i] = x[i]
         /\ \A i \in 1..Len(y) :
              Len(x) + i \in 1..Len(x \o y) /\ (x \o y)[Len(x) + i] = y[i]
         /\ \A i \in 1..Len(x \o y) :
              i \in 1..Len(x) \/ \E j \in 1..Len(y) : i = Len(x) + j
<1>1. /\ x \o y \in Seq(Item)
      /\ Len(x \o y) = Len(x) + Len(y) /\ Len(x) \in Nat /\ Len(y) \in Nat
      /\ \A i \in 1..Len(x) : (x \o y)[i] = x[i]
      /\ \A i \in 1..Len(y) : (x \o y)[Len(x) + i] = y[i]
  BY ConcatFacts
<1>2. ASSUME NEW i \in 1..Len(x \o y), i \notin 1..Len(x)
      PROVE  \E j \in 1..Len(y) : i = Len(x) + j
  <2>1. i - Len(x) \in 1..Len(y) /\ i = Len(x) + (i - Len(x))
    BY <1>1, <1>2
  <2> QED BY <2>1
<1> QED BY <1>1, <1>2

\* A logs client is sent the logs of the blocks in B.
LEMMA HeldLogsAdd ==
  ASSUME NEW bl, NEW x \in Seq(Item), NEW y, NEW B \in SUBSET (Block \ Silent),
         Only(y, "log", B)
  PROVE  HeldLogs(bl, x \o y) = HeldLogs(bl, x) \cup B
<1> DEFINE z == x \o y
<1>1. /\ y \in Seq(Item)
      /\ \A k \in 1..Len(y) : \E b \in B : y[k] = <<"log", b>>
      /\ \A b \in B : \E k \in 1..Len(y) : y[k] = <<"log", b>>
  BY DEF Only
<1>2. /\ z \in Seq(Item)
      /\ \A i \in 1..Len(x) : i \in 1..Len(z) /\ z[i] = x[i]
      /\ \A i \in 1..Len(y) : Len(x) + i \in 1..Len(z) /\ z[Len(x) + i] = y[i]
      /\ \A i \in 1..Len(z) : i \in 1..Len(x) \/ \E j \in 1..Len(y) : i = Len(x) + j
  BY <1>1, ItemsOf
<1>3. Len(x) \in Nat /\ Len(y) \in Nat /\ Len(z) \in Nat
  BY <1>1, <1>2
<1> HIDE DEF z
<1>4. \A b : \A k \in 1..Len(y) : y[k] # <<"removed", b>>
  BY <1>1
<1>5. ASSUME NEW b \in Block \ Silent, NEW i \in 1..Len(z), z[i] = <<"removed", b>>
      PROVE  i \in 1..Len(x) /\ x[i] = <<"removed", b>>
  BY <1>2, <1>4, <1>5
<1>6. ASSUME NEW b \in HeldLogs(bl, x) PROVE b \in HeldLogs(bl, z)
  <2>1. b \in Block \ Silent
    BY DEF HeldLogs
  <2>2. CASE /\ b \in Range(bl)
             /\ \A i \in 1..Len(x) : x[i] # <<"removed", b>>
    <3>1. \A i \in 1..Len(z) : z[i] # <<"removed", b>>
      BY <1>5, <2>1, <2>2
    <3> QED BY <2>1, <2>2, <3>1 DEF HeldLogs
  <2>3. CASE \E i \in 1..Len(x) :
               /\ x[i] = <<"log", b>>
               /\ \A j \in (i + 1)..Len(x) : x[j] # <<"removed", b>>
    <3>1. PICK i \in 1..Len(x) :
               /\ x[i] = <<"log", b>>
               /\ \A j \in (i + 1)..Len(x) : x[j] # <<"removed", b>>
      BY <2>3
    <3>2. i \in 1..Len(z) /\ z[i] = <<"log", b>>
      BY <1>2, <3>1
    <3>3. ASSUME NEW j \in (i + 1)..Len(z) PROVE z[j] # <<"removed", b>>
      <4> SUFFICES ASSUME z[j] = <<"removed", b>> PROVE FALSE
        OBVIOUS
      <4>1. j \in 1..Len(z)
        BY <1>3
      <4>2. j \in 1..Len(x) /\ x[j] = <<"removed", b>>
        BY <1>5, <2>1, <4>1
      <4>3. j \in (i + 1)..Len(x)
        BY <1>3, <4>2
      <4> QED BY <3>1, <4>2, <4>3
    <3> QED BY <2>1, <3>2, <3>3 DEF HeldLogs
  <2> QED BY <2>2, <2>3 DEF HeldLogs
<1>7. ASSUME NEW b \in B PROVE b \in HeldLogs(bl, z)
  <2>1. PICK k \in 1..Len(y) : y[k] = <<"log", b>>
    BY <1>1
  <2>2. Len(x) + k \in 1..Len(z) /\ z[Len(x) + k] = <<"log", b>>
    BY <1>2, <2>1
  <2>3. ASSUME NEW j \in (Len(x) + k + 1)..Len(z) PROVE z[j] # <<"removed", b>>
    <3> SUFFICES ASSUME z[j] = <<"removed", b>> PROVE FALSE
      OBVIOUS
    <3>1. j \in 1..Len(z)
      BY <1>3
    <3>2. j \in 1..Len(x)
      BY <1>5, <3>1
    <3> QED BY <1>3, <3>2
  <2> QED BY <2>2, <2>3 DEF HeldLogs
<1>8. ASSUME NEW b \in HeldLogs(bl, z), b \notin B PROVE b \in HeldLogs(bl, x)
  <2>1. b \in Block \ Silent
    BY DEF HeldLogs
  <2>2. CASE /\ b \in Range(bl)
             /\ \A i \in 1..Len(z) : z[i] # <<"removed", b>>
    <3>1. \A i \in 1..Len(x) : x[i] # <<"removed", b>>
      BY <1>2, <2>2
    <3> QED BY <2>1, <2>2, <3>1 DEF HeldLogs
  <2>3. CASE \E i \in 1..Len(z) :
               /\ z[i] = <<"log", b>>
               /\ \A j \in (i + 1)..Len(z) : z[j] # <<"removed", b>>
    <3>1. PICK i \in 1..Len(z) :
               /\ z[i] = <<"log", b>>
               /\ \A j \in (i + 1)..Len(z) : z[j] # <<"removed", b>>
      BY <2>3
    <3>2. i \in 1..Len(x)
      <4> SUFFICES ASSUME NEW k \in 1..Len(y), i = Len(x) + k PROVE FALSE
        BY <1>2
      <4>1. y[k] = <<"log", b>>
        BY <1>2, <3>1
      <4>2. PICK c \in B : y[k] = <<"log", c>>
        BY <1>1
      <4>3. c = b
        BY <4>1, <4>2
      <4> QED BY <1>8, <4>3
    <3>3. x[i] = <<"log", b>>
      BY <1>2, <3>1, <3>2
    <3>4. ASSUME NEW j \in (i + 1)..Len(x) PROVE x[j] # <<"removed", b>>
      <4>1. j \in 1..Len(x)
        BY <1>3
      <4>2. j \in 1..Len(z) /\ z[j] = x[j]
        BY <1>2, <4>1
      <4>3. j \in (i + 1)..Len(z)
        BY <1>3, <4>2
      <4> QED BY <3>1, <4>2, <4>3
    <3> QED BY <2>1, <3>2, <3>3, <3>4 DEF HeldLogs
  <2> QED BY <2>2, <2>3 DEF HeldLogs
<1>9. HeldLogs(bl, z) = HeldLogs(bl, x) \cup B
  BY <1>6, <1>7, <1>8
<1> QED BY <1>9 DEF z

\* A logs client is sent the removed logs of the blocks in B.
LEMMA HeldLogsDrop ==
  ASSUME NEW bl, NEW x \in Seq(Item), NEW y, NEW B, Only(y, "removed", B)
  PROVE  HeldLogs(bl, x \o y) = HeldLogs(bl, x) \ B
<1> DEFINE z == x \o y
<1>1. /\ y \in Seq(Item)
      /\ \A k \in 1..Len(y) : \E b \in B : y[k] = <<"removed", b>>
      /\ \A b \in B : \E k \in 1..Len(y) : y[k] = <<"removed", b>>
  BY DEF Only
<1>2. /\ z \in Seq(Item)
      /\ \A i \in 1..Len(x) : i \in 1..Len(z) /\ z[i] = x[i]
      /\ \A i \in 1..Len(y) : Len(x) + i \in 1..Len(z) /\ z[Len(x) + i] = y[i]
      /\ \A i \in 1..Len(z) : i \in 1..Len(x) \/ \E j \in 1..Len(y) : i = Len(x) + j
  BY <1>1, ItemsOf
<1>3. Len(x) \in Nat /\ Len(y) \in Nat /\ Len(z) \in Nat
  BY <1>1, <1>2
<1> HIDE DEF z
<1>4. ASSUME NEW b, b \notin B, NEW i \in 1..Len(z), z[i] = <<"removed", b>>
      PROVE  i \in 1..Len(x) /\ x[i] = <<"removed", b>>
  <2> SUFFICES ASSUME NEW k \in 1..Len(y), i = Len(x) + k PROVE FALSE
    BY <1>2, <1>4
  <2>1. y[k] = <<"removed", b>>
    BY <1>2, <1>4
  <2>2. PICK c \in B : y[k] = <<"removed", c>>
    BY <1>1
  <2>3. c = b
    BY <2>1, <2>2
  <2> QED BY <1>4, <2>3
<1>5. ASSUME NEW b, NEW i \in 1..Len(z), z[i] = <<"log", b>>
      PROVE  i \in 1..Len(x) /\ x[i] = <<"log", b>>
  <2>1. \A k \in 1..Len(y) : y[k] # <<"log", b>>
    BY <1>1
  <2> QED BY <1>2, <1>5, <2>1
<1>6. ASSUME NEW b \in HeldLogs(bl, x), b \notin B PROVE b \in HeldLogs(bl, z)
  <2>1. b \in Block \ Silent
    BY DEF HeldLogs
  <2>2. CASE /\ b \in Range(bl)
             /\ \A i \in 1..Len(x) : x[i] # <<"removed", b>>
    <3>1. \A i \in 1..Len(z) : z[i] # <<"removed", b>>
      BY <1>4, <1>6, <2>2
    <3> QED BY <2>1, <2>2, <3>1 DEF HeldLogs
  <2>3. CASE \E i \in 1..Len(x) :
               /\ x[i] = <<"log", b>>
               /\ \A j \in (i + 1)..Len(x) : x[j] # <<"removed", b>>
    <3>1. PICK i \in 1..Len(x) :
               /\ x[i] = <<"log", b>>
               /\ \A j \in (i + 1)..Len(x) : x[j] # <<"removed", b>>
      BY <2>3
    <3>2. i \in 1..Len(z) /\ z[i] = <<"log", b>>
      BY <1>2, <3>1
    <3>3. ASSUME NEW j \in (i + 1)..Len(z) PROVE z[j] # <<"removed", b>>
      <4> SUFFICES ASSUME z[j] = <<"removed", b>> PROVE FALSE
        OBVIOUS
      <4>1. j \in 1..Len(z)
        BY <1>3
      <4>2. j \in 1..Len(x) /\ x[j] = <<"removed", b>>
        BY <1>4, <1>6, <4>1
      <4>3. j \in (i + 1)..Len(x)
        BY <1>3, <4>2
      <4> QED BY <3>1, <4>2, <4>3
    <3> QED BY <2>1, <3>2, <3>3 DEF HeldLogs
  <2> QED BY <2>2, <2>3 DEF HeldLogs
<1>7. ASSUME NEW b \in HeldLogs(bl, z) PROVE b \in HeldLogs(bl, x) /\ b \notin B
  <2>1. b \in Block \ Silent
    BY DEF HeldLogs
  <2>2. b \in B => \E k \in 1..Len(y) : Len(x) + k \in 1..Len(z) /\ z[Len(x) + k] = <<"removed", b>>
    BY <1>1, <1>2
  <2>3. CASE /\ b \in Range(bl)
             /\ \A i \in 1..Len(z) : z[i] # <<"removed", b>>
    <3>1. \A i \in 1..Len(x) : x[i] # <<"removed", b>>
      BY <1>2, <2>3
    <3> QED BY <2>1, <2>2, <2>3, <3>1 DEF HeldLogs
  <2>4. CASE \E i \in 1..Len(z) :
               /\ z[i] = <<"log", b>>
               /\ \A j \in (i + 1)..Len(z) : z[j] # <<"removed", b>>
    <3>1. PICK i \in 1..Len(z) :
               /\ z[i] = <<"log", b>>
               /\ \A j \in (i + 1)..Len(z) : z[j] # <<"removed", b>>
      BY <2>4
    <3>2. i \in 1..Len(x) /\ x[i] = <<"log", b>>
      BY <1>5, <3>1
    <3>3. ASSUME NEW j \in (i + 1)..Len(x) PROVE x[j] # <<"removed", b>>
      <4>1. j \in 1..Len(x)
        BY <1>3
      <4>2. j \in 1..Len(z) /\ z[j] = x[j]
        BY <1>2, <4>1
      <4>3. j \in (i + 1)..Len(z)
        BY <1>3, <4>2
      <4> QED BY <3>1, <4>2, <4>3
    <3>4. b \notin B
      <4> SUFFICES ASSUME b \in B PROVE FALSE
        OBVIOUS
      <4>1. PICK k \in 1..Len(y) : Len(x) + k \in 1..Len(z) /\ z[Len(x) + k] = <<"removed", b>>
        BY <2>2
      <4>2. Len(x) + k \in (i + 1)..Len(z)
        BY <1>3, <3>2, <4>1
      <4> QED BY <3>1, <4>1, <4>2
    <3> QED BY <2>1, <3>2, <3>3, <3>4 DEF HeldLogs
  <2> QED BY <2>3, <2>4 DEF HeldLogs
<1>8. HeldLogs(bl, z) = HeldLogs(bl, x) \ B
  BY <1>6, <1>7
<1> QED BY <1>8 DEF z

\* A newHeads client is sent a header: what it held from that height on goes.
LEMMA HeldHeadsAdd ==
  ASSUME NEW bl \in Seq(Block), NEW x \in Seq(Item), NEW b \in Block
  PROVE  HeldHeads(bl, Append(x, <<"header", b>>)) =
           {c \in HeldHeads(bl, x) : num[c] < num[b]} \cup {b}
<1> DEFINE e == <<"header", b>>  z == Append(x, e)  n == Len(x) + 1
<1>1. e \in Item /\ e[2] = b
  BY DEF Item
<1>2. /\ z \in Seq(Item) /\ Len(z) = n /\ n \in Nat /\ Len(x) \in Nat
      /\ \A i \in 1..Len(x) : z[i] = x[i]
      /\ z[n] = e
  BY ONLY <1>1, x \in Seq(Item), AppendFacts
<1>3. /\ \A i \in 1..Len(x) : i \in 1..n
      /\ n \in 1..n /\ \A i \in 1..n : i = n \/ i \in 1..Len(x)
  BY <1>2
<1>4. \A c \in Block : num[c] \in Nat
  BY HostChainAssumption
<1>5. \A i \in 1..Len(x) : x[i][2] \in Block
  BY DEF Item
<1> HIDE DEF z, e, n
<1>6. b \in HeldHeads(bl, z)
  <2>1. \A j \in (n + 1)..Len(z) : num[z[j][2]] > num[b]
    BY <1>2
  <2>2. n \in 1..Len(z) /\ z[n] = <<"header", b>>
    BY <1>2, <1>3 DEF e
  <2> QED BY <2>1, <2>2 DEF HeldHeads
<1>7. ASSUME NEW c \in HeldHeads(bl, x), num[c] < num[b] PROVE c \in HeldHeads(bl, z)
  <2>1. c \in Block
    BY DEF HeldHeads
  <2>2. num[z[n][2]] > num[c]
    BY <1>1, <1>2, <1>4, <1>7, <2>1
  <2>3. CASE /\ c \in Range(bl)
             /\ \A i \in 1..Len(x) : num[x[i][2]] > num[c]
    <3>1. \A i \in 1..Len(z) : num[z[i][2]] > num[c]
      BY <1>2, <1>3, <2>2, <2>3
    <3> QED BY <2>1, <2>3, <3>1 DEF HeldHeads
  <2>4. CASE \E i \in 1..Len(x) :
               /\ x[i] = <<"header", c>>
               /\ \A j \in (i + 1)..Len(x) : num[x[j][2]] > num[c]
    <3>1. PICK i \in 1..Len(x) :
               /\ x[i] = <<"header", c>>
               /\ \A j \in (i + 1)..Len(x) : num[x[j][2]] > num[c]
      BY <2>4
    <3>2. i \in 1..Len(z) /\ z[i] = <<"header", c>>
      BY <1>2, <1>3, <3>1
    <3>3. ASSUME NEW j \in (i + 1)..Len(z) PROVE num[z[j][2]] > num[c]
      <4>1. j \in 1..n
        BY <1>2
      <4>2. CASE j = n
        BY <2>2, <4>2
      <4>3. CASE j \in 1..Len(x)
        <5>1. j \in (i + 1)..Len(x)
          BY <1>2, <4>3
        <5> QED BY <1>2, <3>1, <4>3, <5>1
      <4> QED BY <1>3, <4>1, <4>2, <4>3
    <3> QED BY <2>1, <3>2, <3>3 DEF HeldHeads
  <2> QED BY <2>3, <2>4 DEF HeldHeads
<1>8. ASSUME NEW c \in HeldHeads(bl, z), c # b
      PROVE  c \in HeldHeads(bl, x) /\ num[c] < num[b]
  <2>1. c \in Block
    BY DEF HeldHeads
  <2>2. num[z[n][2]] = num[b]
    BY <1>1, <1>2
  <2>3. CASE /\ c \in Range(bl)
             /\ \A i \in 1..Len(z) : num[z[i][2]] > num[c]
    <3>1. \A i \in 1..Len(x) : num[x[i][2]] > num[c]
      BY <1>2, <1>3, <2>3
    <3>2. num[b] > num[c]
      BY <1>2, <1>3, <2>2, <2>3
    <3> QED BY <1>4, <2>1, <2>3, <3>1, <3>2 DEF HeldHeads
  <2>4. CASE \E i \in 1..Len(z) :
               /\ z[i] = <<"header", c>>
               /\ \A j \in (i + 1)..Len(z) : num[z[j][2]] > num[c]
    <3>1. PICK i \in 1..Len(z) :
               /\ z[i] = <<"header", c>>
               /\ \A j \in (i + 1)..Len(z) : num[z[j][2]] > num[c]
      BY <2>4
    <3>2. i # n
      BY <1>2, <1>8, <3>1 DEF e
    <3>3. i \in 1..Len(x) /\ x[i] = <<"header", c>>
      BY <1>2, <1>3, <3>1, <3>2
    <3>4. ASSUME NEW j \in (i + 1)..Len(x) PROVE num[x[j][2]] > num[c]
      <4>1. j \in 1..Len(x) /\ j \in (i + 1)..Len(z)
        BY <1>2, <3>3 DEF n
      <4> QED BY <1>2, <3>1, <4>1
    <3>5. n \in (i + 1)..Len(z)
      BY <1>2, <3>3 DEF n
    <3>6. num[b] > num[c]
      BY <2>2, <3>1, <3>5
    <3> QED BY <1>4, <2>1, <3>3, <3>4, <3>6 DEF HeldHeads
  <2> QED BY <2>3, <2>4 DEF HeldHeads
<1>9. HeldHeads(bl, z) = {c \in HeldHeads(bl, x) : num[c] < num[b]} \cup {b}
  BY <1>6, <1>7, <1>8
<1> QED BY <1>9 DEF z, e

\* Up to the height of c, a newHeads client that was sent x holds c.
HeadsTold(bl, x, c) == {b \in HeldHeads(bl, x) : num[b] <= Len(c)} = Range(c)

\* A client that was sent nothing holds what it started with.
LEMMA HeldInitially ==
  ASSUME NEW bl \in Seq(Block)
  PROVE  /\ HeldLogs(bl, <<>>) = Range(bl) \ Silent
         /\ HeldHeads(bl, <<>>) = Range(bl)
<1>1. Range(bl) \subseteq Block
  BY RangeSeq
<1>2. Len(<<>>) = 0 /\ 1..0 = {}
  OBVIOUS
<1> QED BY <1>1, <1>2 DEF HeldLogs, HeldHeads

-------------------------------------------------------------------------------
(***************************************************************************)
(* The invariant.                                                          *)
(***************************************************************************)
\* The chain before event i.
Before(i) == IF i = 1 THEN <<>> ELSE announced[i - 1]

\* An event tells how the chain changed.
EventAt(i) ==
  /\ events[i].type = "block" =>
       /\ num[events[i].block] = Len(Before(i)) + 1
       /\ announced[i] = Append(Before(i), events[i].block)
  /\ events[i].type = "reorg" =>
       /\ events[i].indexed <= Len(events[i].removed)
       /\ \E n \in 0..(Len(Before(i)) - 1) :
            /\ announced[i] = Prefix(Before(i), n)
            /\ events[i].removed = SubSeq(Before(i), n + 1, Len(Before(i)))

\* The events are the history of the chain, whose heights are positions.
ChainPart ==
  /\ chain = Before(Len(events) + 1)
  /\ \A i \in 1..Len(chain) : num[chain[i]] = i
  /\ \A i \in 1..Len(events) :
       EventAt(i) /\ \A j \in 1..Len(announced[i]) : num[announced[i][j]] = j

\* Only a task that is about to send holds permits, for buffered items, and all
\* permits and unread messages fit in the channel.
ChannelPart ==
  /\ \A s \in Sub :
       /\ pc[s] # "send" => permits[s] = 0
       /\ permits[s] <= NotifCapacity \div 2 /\ permits[s] <= Len(buf[s])
       /\ pc[s] = "new" => buf[s] = <<>> /\ got[s] = <<>>
  /\ IsFiniteSet(Held(permits))
  /\ open => unread + Cardinality(Held(permits)) <= NotifCapacity
  /\ ~open => unread = 0

\* A task with a cancelled token sends only what it has permits for.
SilencePart ==
  \A s \in Sub : /\ s \notin cancelled \/ pc[s] = "send" => late[s] = 0
                 /\ late[s] <= NotifCapacity \div 2

\* The table goes with the senders, which end tasks without a cancellation.
TablePart ==
  /\ closed => tasks = {}
  /\ \A s \in tasks : pc[s] = "end" => s \in cancelled \/ ~open

\* The client of s holds the chain it was told of; of headers, those up to its
\* height.
HoldOf(s) ==
  /\ kind[s] = "logs" =>
       HeldLogs(base[s], got[s] \o buf[s]) = Range(Told(s)) \ Silent
  /\ kind[s] = "heads" =>
       /\ HeadsTold(base[s], got[s] \o buf[s], Told(s))
       /\ next[s] > 1 /\ events[next[s] - 1].type = "block" =>
            HeldHeads(base[s], got[s] \o buf[s]) = Range(Told(s))

HoldPart == \A s \in Sub : pc[s] \in {"select", "send"} /\ s \notin missed => HoldOf(s)

SubInv == /\ TypeOK /\ ChainPart /\ ChannelPart /\ SilencePart /\ TablePart
          /\ HoldPart

\* Initially there is no event, task or message.
LEMMA SubInit == Init => SubInv
<1> SUFFICES ASSUME Init PROVE SubInv
  OBVIOUS
<1>1. /\ NotifCapacity \in Nat /\ NotifCapacity \div 2 \in Nat /\ MaxResponses \in Nat
  BY SubscriptionsAssumption
<1>2. chain = <<>> /\ events = <<>> /\ announced = <<>> /\ unread = 0 /\ open = TRUE
  BY DEF Init
<1>3. TypeOK
  <2>1. chain \in Seq(Block) /\ events \in Seq(ChainEvent) /\ Len(events) = 0
    BY <1>2
  <2>2. announced \in Seq(Seq(Block)) /\ Len(announced) = Len(events)
    BY <1>2
  <2>3. /\ closed \in BOOLEAN /\ open \in BOOLEAN /\ disconnected \in BOOLEAN
        /\ tasks \subseteq Sub /\ cancelled \subseteq Sub /\ missed \subseteq Sub
    BY Zenon DEF Init
  <2>4. /\ pc \in [Sub -> {"new", "select", "send", "end"}]
        /\ kind \in [Sub -> {"logs", "heads"}]
        /\ next \in [Sub -> 1..(Len(events) + 1)]
    BY <2>1 DEF Init
  <2>5. /\ buf \in [Sub -> Seq(Item)] /\ got \in [Sub -> Seq(Item)]
        /\ base \in [Sub -> Seq(Block)]
    BY DEF Init
  <2>6. /\ permits \in [Sub -> 0..NotifCapacity] /\ unread \in 0..NotifCapacity
        /\ responses \in 0..MaxResponses /\ late \in [Sub -> Nat]
    BY <1>1 DEF Init
  <2> QED BY <2>1, <2>2, <2>3, <2>4, <2>5, <2>6 DEF TypeOK
<1>4. ChainPart
  BY <1>2 DEF ChainPart, Before
<1>5. ChannelPart
  <2>1. Held(permits) = {}
    <3> SUFFICES ASSUME NEW x \in Held(permits) PROVE FALSE
      OBVIOUS
    <3>1. PICK t \in Sub, i \in 1..NotifCapacity : x = <<t, i>>
      BY DEF Held
    <3>2. i <= permits[t] /\ permits[t] = 0
      BY <3>1 DEF Held, Init
    <3> QED BY <3>2
  <2>2. IsFiniteSet(Held(permits)) /\ Cardinality(Held(permits)) = 0
    BY <2>1, FS_EmptySet
  <2>3. \A s \in Sub : permits[s] = 0 /\ buf[s] = <<>> /\ got[s] = <<>> /\ Len(buf[s]) = 0
    BY DEF Init
  <2> QED BY <1>1, <1>2, <2>2, <2>3 DEF ChannelPart
<1>6. SilencePart
  BY <1>1 DEF SilencePart, Init
<1>7. TablePart
  BY DEF TablePart, Init
<1>8. HoldPart
  BY DEF HoldPart, Init
<1> QED BY <1>3, <1>4, <1>5, <1>6, <1>7, <1>8 DEF SubInv

-------------------------------------------------------------------------------
(***************************************************************************)
(* Frames: what a step leaves alone keeps.                                 *)
(***************************************************************************)
\* The history is not touched.
LEMMA ChainFrame ==
  ASSUME ChainPart, UNCHANGED <<chain, events, announced>>
  PROVE  ChainPart'
  BY DEF ChainPart, EventAt, Before

\* Every task that goes on has the same items and was told the same.
LEMMA HoldFrame ==
  ASSUME HoldPart, UNCHANGED <<events, announced, kind, base, next>>,
         \A s \in Sub : pc'[s] \in {"select", "send"} /\ s \notin missed' =>
           /\ pc[s] \in {"select", "send"} /\ s \notin missed
           /\ got'[s] \o buf'[s] = got[s] \o buf[s]
  PROVE  HoldPart'
<1> SUFFICES ASSUME NEW s \in Sub, pc'[s] \in {"select", "send"}, s \notin missed'
             PROVE  HoldOf(s)'
  BY DEF HoldPart
<1>1. HoldOf(s) /\ got'[s] \o buf'[s] = got[s] \o buf[s]
  BY DEF HoldPart
<1> QED BY <1>1 DEF HoldOf, Told

\* The channel is not touched.
LEMMA ChannelFrame ==
  ASSUME ChannelPart, UNCHANGED <<permits, buf, got, open, unread>>,
         \A s \in Sub : /\ pc'[s] # "send" => pc[s] # "send"
                        /\ pc'[s] = "new" => pc[s] = "new"
  PROVE  ChannelPart'
<1>1. Held(permits') = Held(permits)
  BY DEF Held
<1>2. Held(permits)' = Held(permits)
  BY <1>1 DEF Held
<1> QED BY <1>2 DEF ChannelPart

-------------------------------------------------------------------------------
(***************************************************************************)
(* The node.                                                               *)
(***************************************************************************)
\* The event e takes the chain from old to new.
Changes(old, e, new) ==
  /\ e.type = "block" => num[e.block] = Len(old) + 1 /\ new = Append(old, e.block)
  /\ e.type = "reorg" =>
       /\ e.indexed <= Len(e.removed)
       /\ \E n \in 0..(Len(old) - 1) :
            /\ new = Prefix(old, n)
            /\ e.removed = SubSeq(old, n + 1, Len(old))

\* An event that tells what the node did to the chain.
LEMMA EventStep ==
  ASSUME SubInv, NEW e \in ChainEvent, SendEvent(e), chain' \in Seq(Block),
         \A i \in 1..Len(chain') : num[chain'[i]] = i, Changes(chain, e, chain')
  PROVE  SubInv'
<1>1. TypeOK /\ ChainPart /\ ChannelPart /\ SilencePart /\ TablePart /\ HoldPart
  BY DEF SubInv
<1>2. UNCHANGED <<closed, tasks, cancelled, pc, kind, next, buf, permits, open, unread,
                  disconnected, responses, base, got, late, missed>>
  BY DEF SendEvent, tableVars, taskVars, clientVars, ghostVars
<1> DEFINE L == Len(events)
<1>3. L \in Nat /\ events \in Seq(ChainEvent) /\ announced \in Seq(Seq(Block)) /\ Len(announced) = L
  BY <1>1 DEF TypeOK
<1>4. /\ events' \in Seq(ChainEvent) /\ Len(events') = L + 1
      /\ \A i \in 1..L : events'[i] = events[i]
      /\ events'[L + 1] = e
  <2>1. events' = Append(events, e)
    BY DEF SendEvent
  <2> QED BY ONLY <1>3, <2>1, e \in ChainEvent, AppendFacts
<1>5. /\ announced' \in Seq(Seq(Block)) /\ Len(announced') = L + 1
      /\ \A i \in 1..L : announced'[i] = announced[i]
      /\ announced'[L + 1] = chain'
  <2>1. announced' = Append(announced, chain')
    BY DEF SendEvent
  <2>2. PICK c \in Seq(Block) : c = chain'
    OBVIOUS
  <2>3. announced' = Append(announced, c)
    BY <2>1, <2>2
  <2>4. /\ announced' \in Seq(Seq(Block)) /\ Len(announced') = L + 1
        /\ \A i \in 1..L : announced'[i] = announced[i]
        /\ announced'[L + 1] = c
    BY ONLY <1>3, <2>3, c \in Seq(Block), AppendFacts
  <2> QED BY <2>2, <2>4
<1> HIDE DEF L
<1>6. TypeOK'
  <2>1. next' \in [Sub -> 1..(Len(events') + 1)]
    <3>1. next \in [Sub -> 1..(L + 1)]
      BY <1>1 DEF TypeOK, L
    <3>2. \A n \in 1..(L + 1) : n \in 1..(L + 1 + 1)
      BY <1>3
    <3> QED BY <1>2, <1>4, <3>1, <3>2
  <2>2. /\ chain' \in Seq(Block) /\ events' \in Seq(ChainEvent)
        /\ announced' \in Seq(Seq(Block)) /\ Len(announced') = Len(events')
    BY <1>4, <1>5
  <2> QED BY <1>1, <1>2, <2>1, <2>2 DEF TypeOK
<1>7. \A i \in 1..(L + 1) : Before(i)' = Before(i)
  <2> SUFFICES ASSUME NEW i \in 1..(L + 1), i # 1 PROVE announced'[i - 1] = announced[i - 1]
    BY DEF Before
  <2>1. i - 1 \in 1..L
    BY <1>3
  <2> QED BY <1>5, <2>1
<1>8. ChainPart'
  <2>1. chain' = Before(Len(events) + 1)'
    <3>1. Len(events') + 1 # 1 /\ Len(events') + 1 - 1 = L + 1
      BY <1>3, <1>4
    <3> QED BY <1>5, <3>1 DEF Before
  <2>2. ASSUME NEW i \in 1..(L + 1)
        PROVE  EventAt(i)' /\ \A j \in 1..Len(announced'[i]) : num[announced'[i][j]] = j
    <3>1. CASE i = L + 1
      <4>1. Before(i) = chain
        BY <1>1, <3>1 DEF ChainPart, L
      <4>2. Before(i)' = chain
        BY <1>7, <4>1
      <4>3. events'[i] = e /\ announced'[i] = chain'
        BY <1>4, <1>5, <3>1
      <4>4. EventAt(i)'
        BY <4>2, <4>3 DEF EventAt, Changes
      <4> QED BY <4>3, <4>4
    <3>2. CASE i \in 1..L
      <4>1. EventAt(i) /\ \A j \in 1..Len(announced[i]) : num[announced[i][j]] = j
        BY <1>1, <3>2 DEF ChainPart, L
      <4>2. Before(i)' = Before(i) /\ events'[i] = events[i] /\ announced'[i] = announced[i]
        BY <1>4, <1>5, <1>7, <3>2
      <4> QED BY <4>1, <4>2 DEF EventAt
    <3> QED BY <1>3, <3>1, <3>2
  <2> QED BY <1>4, <2>1, <2>2 DEF ChainPart
<1>9. ChannelPart'
  BY <1>1, <1>2, ChannelFrame
<1>10. SilencePart' /\ TablePart'
  BY <1>1, <1>2 DEF SilencePart, TablePart
<1>11. HoldPart'
  <2> SUFFICES ASSUME NEW s \in Sub, pc'[s] \in {"select", "send"}, s \notin missed'
               PROVE  HoldOf(s)'
    BY DEF HoldPart
  <2>1. HoldOf(s)
    BY <1>1, <1>2 DEF HoldPart
  <2>2. next[s] \in 1..(L + 1) /\ next'[s] = next[s]
    BY <1>1, <1>2 DEF TypeOK, L
  <2>3. Told(s)' = Told(s)
    BY <1>2, <1>7, <2>2 DEF Told, Before
  <2>4. next[s] > 1 => events'[next[s] - 1] = events[next[s] - 1]
    <3>1. next[s] > 1 => next[s] - 1 \in 1..L
      BY <1>3, <2>2
    <3> QED BY <1>4, <3>1
  <2> QED BY <1>2, <2>1, <2>3, <2>4 DEF HoldOf
<1> QED BY <1>6, <1>8, <1>9, <1>10, <1>11 DEF SubInv

\* send_new_block
LEMMA SendNewBlockStep ==
  ASSUME SubInv, SendNewBlock
  PROVE  SubInv'
<1>1. chain \in Seq(Block) /\ Len(chain) \in Nat /\ \A i \in 1..Len(chain) : num[chain[i]] = i
  BY DEF SubInv, TypeOK, ChainPart
<1>2. PICK b \in Block : /\ num[b] = Len(chain) + 1 /\ chain' = Append(chain, b)
                         /\ SendEvent([type |-> "block", block |-> b])
  BY DEF SendNewBlock
<1> DEFINE e == [type |-> "block", block |-> b]
<1>3. e \in ChainEvent /\ e.type = "block" /\ e.block = b
  BY DEF ChainEvent
<1>4. /\ chain' \in Seq(Block) /\ Len(chain') = Len(chain) + 1
      /\ \A i \in 1..Len(chain) : chain'[i] = chain[i]
      /\ chain'[Len(chain) + 1] = b
  BY ONLY <1>1, <1>2, AppendFacts
<1>5. \A i \in 1..Len(chain') : num[chain'[i]] = i
  <2> SUFFICES ASSUME NEW i \in 1..Len(chain') PROVE num[chain'[i]] = i
    OBVIOUS
  <2>1. i = Len(chain) + 1 \/ i \in 1..Len(chain)
    BY <1>1, <1>4
  <2> QED BY <1>1, <1>2, <1>4, <2>1
<1> HIDE DEF e
<1>6. Changes(chain, e, chain')
  BY <1>2, <1>3 DEF Changes
<1>7. SendEvent(e)
  BY <1>2 DEF e
<1> QED BY <1>3, <1>4, <1>5, <1>6, <1>7, EventStep

\* send_reorg
LEMMA SendReorgStep ==
  ASSUME SubInv, SendReorg
  PROVE  SubInv'
<1>1. chain \in Seq(Block) /\ Len(chain) \in Nat /\ \A i \in 1..Len(chain) : num[chain[i]] = i
  BY DEF SubInv, TypeOK, ChainPart
<1> DEFINE Removed(n) == SubSeq(chain, n + 1, Len(chain))
<1>2. PICK n \in 0..(Len(chain) - 1) :
        /\ chain' = Prefix(chain, n)
        /\ \E k \in 0..Len(Removed(n)) :
             SendEvent([type |-> "reorg", removed |-> Removed(n), indexed |-> k])
  BY DEF SendReorg
<1>3. PICK k \in 0..Len(Removed(n)) :
        SendEvent([type |-> "reorg", removed |-> Removed(n), indexed |-> k])
  BY <1>2
<1>4. n \in Nat /\ n <= Len(chain)
  BY <1>1
<1>5. Removed(n) \in Seq(Block) /\ Len(Removed(n)) \in Nat
  BY ONLY <1>1, <1>4, SuffixFacts
<1> DEFINE e == [type |-> "reorg", removed |-> Removed(n), indexed |-> k]
<1>6. k \in Nat /\ k <= Len(Removed(n))
  BY <1>5
<1> HIDE DEF Removed
<1>7. e \in ChainEvent /\ e.type = "reorg" /\ e.removed = Removed(n) /\ e.indexed = k
  BY <1>5, <1>6 DEF ChainEvent
<1>8. /\ chain' \in Seq(Block) /\ Len(chain') = n
      /\ \A i \in 1..n : chain'[i] = chain[i]
  BY ONLY <1>1, <1>2, <1>4, PrefixFacts
<1>9. \A i \in 1..Len(chain') : num[chain'[i]] = i
  <2> SUFFICES ASSUME NEW i \in 1..n PROVE num[chain'[i]] = i
    BY <1>8
  <2>1. i \in 1..Len(chain)
    BY <1>1, <1>4
  <2> QED BY <1>1, <1>8, <2>1
<1> HIDE DEF e
<1>10. Changes(chain, e, chain')
  BY <1>2, <1>6, <1>7 DEF Changes, Removed
<1>11. SendEvent(e)
  BY <1>3 DEF e
<1> QED BY <1>7, <1>8, <1>9, <1>10, <1>11, EventStep

\* The server and the node are dropped.
LEMMA ShutdownStep ==
  ASSUME SubInv, Shutdown
  PROVE  SubInv'
<1>1. TypeOK /\ ChainPart /\ ChannelPart /\ SilencePart /\ TablePart /\ HoldPart
  BY DEF SubInv
<1>2. /\ closed' = TRUE /\ tasks' = {}
      /\ UNCHANGED <<chain, events, announced, cancelled, pc, kind, next, buf, permits, open,
                     unread, disconnected, responses, base, got, late, missed>>
  BY DEF Shutdown, taskVars, clientVars, ghostVars
<1>3. TypeOK'
  <2>1. closed' \in BOOLEAN /\ tasks' \subseteq Sub
    BY <1>2
  <2> QED BY <1>1, <1>2, <2>1 DEF TypeOK
<1>4. ChainPart' /\ ChannelPart' /\ HoldPart'
  BY <1>1, <1>2, ChainFrame, ChannelFrame, HoldFrame
<1>5. SilencePart' /\ TablePart'
  BY <1>1, <1>2 DEF SilencePart, TablePart
<1> QED BY <1>3, <1>4, <1>5 DEF SubInv

-------------------------------------------------------------------------------
(***************************************************************************)
(* The client, ajj and the table.                                          *)
(***************************************************************************)
\* subscribe: the client starts with the chain its receiver starts at.
LEMMA SubscribeStep ==
  ASSUME SubInv, NEW s \in Sub, Subscribe(s)
  PROVE  SubInv'
<1>1. TypeOK /\ ChainPart /\ ChannelPart /\ SilencePart /\ TablePart /\ HoldPart
  BY DEF SubInv
<1>2. UNCHANGED <<chain, events, announced, closed, cancelled, buf, permits, open, unread,
                  disconnected, responses, got, late, missed>>
  BY DEF Subscribe, nodeVars, clientVars
<1>3. /\ pc[s] = "new" /\ ~closed
      /\ pc' = [pc EXCEPT ![s] = "select"]
      /\ tasks' = tasks \cup {s}
      /\ next' = [next EXCEPT ![s] = Len(events) + 1]
      /\ base' = [base EXCEPT ![s] = chain]
  BY DEF Subscribe
<1>4. PICK k \in {"logs", "heads"} : kind' = [kind EXCEPT ![s] = k]
  BY DEF Subscribe
<1>5. Len(events) \in Nat /\ chain \in Seq(Block)
  BY <1>1 DEF TypeOK
<1>6. TypeOK'
  <2>1. /\ pc' \in [Sub -> {"new", "select", "send", "end"}]
        /\ kind' \in [Sub -> {"logs", "heads"}] /\ base' \in [Sub -> Seq(Block)]
    BY <1>1, <1>3, <1>4, <1>5 DEF TypeOK
  <2>2. next' \in [Sub -> 1..(Len(events) + 1)]
    BY <1>1, <1>3, <1>5 DEF TypeOK
  <2>3. tasks' \subseteq Sub
    BY <1>1, <1>3 DEF TypeOK
  <2> QED BY <1>1, <1>2, <2>1, <2>2, <2>3 DEF TypeOK
<1>7. ChainPart'
  BY <1>1, <1>2, ChainFrame
<1>8. /\ pc'[s] = "select" /\ kind'[s] = k /\ base'[s] = chain
      /\ next'[s] = Len(events) + 1
      /\ \A t \in Sub : t # s => /\ pc'[t] = pc[t] /\ kind'[t] = kind[t]
                                 /\ base'[t] = base[t] /\ next'[t] = next[t]
  BY <1>1, <1>3, <1>4 DEF TypeOK
<1>9. ChannelPart'
  <2>1. \A t \in Sub : /\ pc'[t] # "send" => pc[t] # "send"
                       /\ pc'[t] = "new" => pc[t] = "new"
    BY <1>3, <1>8
  <2> QED BY <1>1, <1>2, <2>1, ChannelFrame
<1>10. SilencePart'
  BY <1>1, <1>2, <1>8 DEF SilencePart
<1>11. TablePart'
  <2>1. \A t \in tasks' : pc'[t] = "end" => t \in tasks /\ pc[t] = "end"
    BY <1>1, <1>3, <1>8 DEF TypeOK
  <2> QED BY <1>1, <1>2, <1>3, <2>1 DEF TablePart
<1>12. HoldPart'
  <2> SUFFICES ASSUME NEW t \in Sub, pc'[t] \in {"select", "send"}, t \notin missed'
               PROVE  HoldOf(t)'
    BY DEF HoldPart
  <2>1. CASE t = s
    <3>1. Told(s)' = chain
      BY <1>1, <1>2, <1>5, <1>8 DEF Told, Before, ChainPart
    <3>2. got[s] \o buf[s] = <<>>
      <4>1. got[s] = <<>> /\ buf[s] = <<>>
        BY <1>1, <1>3 DEF ChannelPart
      <4> QED BY <4>1
    <3>3. HeldLogs(chain, <<>>) = Range(chain) \ Silent /\ HeldHeads(chain, <<>>) = Range(chain)
      BY <1>5, HeldInitially
    <3>4. \A b \in Range(chain) : num[b] <= Len(chain)
      <4> SUFFICES ASSUME NEW i \in 1..Len(chain) PROVE num[chain[i]] <= Len(chain)
        BY <1>5, RangeSeq
      <4>1. num[chain[i]] = i
        BY <1>1 DEF ChainPart
      <4> QED BY <1>5, <4>1
    <3>5. {b \in HeldHeads(chain, <<>>) : num[b] <= Len(chain)} = Range(chain)
      BY <3>3, <3>4
    <3> QED BY <1>2, <1>8, <2>1, <3>1, <3>2, <3>3, <3>5 DEF HoldOf, HeadsTold
  <2>2. CASE t # s
    <3>1. HoldOf(t)
      BY <1>1, <1>2, <1>8, <2>2 DEF HoldPart
    <3>2. /\ kind'[t] = kind[t] /\ base'[t] = base[t] /\ next'[t] = next[t]
          /\ got'[t] = got[t] /\ buf'[t] = buf[t] /\ events' = events
      BY <1>2, <1>8, <2>2
    <3>3. Told(t)' = Told(t)
      BY <1>2, <3>2 DEF Told
    <3> QED BY <3>1, <3>2, <3>3 DEF HoldOf
  <2> QED BY <2>1, <2>2
<1> QED BY <1>6, <1>7, <1>9, <1>10, <1>11, <1>12 DEF SubInv

\* unsubscribe
LEMMA UnsubscribeStep ==
  ASSUME SubInv, NEW s \in Sub, Unsubscribe(s)
  PROVE  SubInv'
<1>1. TypeOK /\ ChainPart /\ ChannelPart /\ SilencePart /\ TablePart /\ HoldPart
  BY DEF SubInv
<1>2. /\ tasks' = tasks \ {s} /\ cancelled' = cancelled \cup {s}
      /\ UNCHANGED <<chain, events, announced, closed, pc, kind, next, buf, permits, open,
                     unread, disconnected, responses, base, got, late, missed>>
  BY DEF Unsubscribe, nodeVars, taskVars, clientVars, ghostVars
<1>3. TypeOK'
  <2>1. tasks' \subseteq Sub /\ cancelled' \subseteq Sub
    BY <1>1, <1>2 DEF TypeOK
  <2> QED BY <1>1, <1>2, <2>1 DEF TypeOK
<1>4. ChainPart' /\ ChannelPart' /\ HoldPart'
  BY <1>1, <1>2, ChainFrame, ChannelFrame, HoldFrame
<1>5. SilencePart' /\ TablePart'
  BY <1>1, <1>2 DEF SilencePart, TablePart
<1> QED BY <1>3, <1>4, <1>5 DEF SubInv

\* The cleaner's retain.
LEMMA CleanStep ==
  ASSUME SubInv, Clean
  PROVE  SubInv'
<1>1. TypeOK /\ ChainPart /\ ChannelPart /\ SilencePart /\ TablePart /\ HoldPart
  BY DEF SubInv
<1>2. /\ tasks' = tasks \ cancelled
      /\ UNCHANGED <<chain, events, announced, closed, cancelled, pc, kind, next, buf, permits,
                     open, unread, disconnected, responses, base, got, late, missed>>
  BY DEF Clean, nodeVars, taskVars, clientVars, ghostVars
<1>3. TypeOK'
  <2>1. tasks' \subseteq Sub
    BY <1>1, <1>2 DEF TypeOK
  <2> QED BY <1>1, <1>2, <2>1 DEF TypeOK
<1>4. ChainPart' /\ ChannelPart' /\ HoldPart'
  BY <1>1, <1>2, ChainFrame, ChannelFrame, HoldFrame
<1>5. SilencePart' /\ TablePart'
  BY <1>1, <1>2 DEF SilencePart, TablePart
<1> QED BY <1>3, <1>4, <1>5 DEF SubInv

\* A step of the client's side leaves the tasks alone and keeps the channel
\* within its capacity.
LEMMA ClientSideStep ==
  ASSUME SubInv,
         UNCHANGED <<chain, events, announced, closed, tasks, cancelled, pc, kind, next, buf,
                     permits, base, got, late, missed>>,
         unread' \in 0..NotifCapacity, responses' \in 0..MaxResponses,
         open' \in BOOLEAN, disconnected' \in BOOLEAN, open' => open,
         open' => unread' + Cardinality(Held(permits)) <= NotifCapacity,
         ~open' => unread' = 0
  PROVE  SubInv'
<1>1. TypeOK /\ ChainPart /\ ChannelPart /\ SilencePart /\ TablePart /\ HoldPart
  BY DEF SubInv
<1>2. TypeOK'
  BY <1>1 DEF TypeOK
<1>3. ChainPart' /\ HoldPart'
  BY <1>1, ChainFrame, HoldFrame
<1>4. Held(permits)' = Held(permits)
  BY DEF Held
<1>5. ChannelPart'
  BY <1>1, <1>4 DEF ChannelPart
<1>6. SilencePart' /\ TablePart'
  BY <1>1 DEF SilencePart, TablePart
<1> QED BY <1>2, <1>3, <1>5, <1>6 DEF SubInv

\* Responses, reads, a closed channel and a disconnection.
LEMMA ClientStep ==
  ASSUME SubInv, Respond \/ ClientRead \/ CloseChannel \/ Disconnect
  PROVE  SubInv'
<1>1. /\ unread \in 0..NotifCapacity /\ responses \in 0..MaxResponses
      /\ open \in BOOLEAN /\ disconnected \in BOOLEAN
  BY DEF SubInv, TypeOK
<1>2. /\ IsFiniteSet(Held(permits))
      /\ open => unread + Cardinality(Held(permits)) <= NotifCapacity
      /\ ~open => unread = 0
  BY DEF SubInv, ChannelPart
<1>3. /\ Cardinality(Held(permits)) \in Nat /\ NotifCapacity \in Nat /\ MaxResponses \in Nat
  BY <1>2, FS_CardinalityType, SubscriptionsAssumption
<1>4. UNCHANGED <<chain, events, announced, closed, tasks, cancelled, pc, kind, next, buf,
                  permits, base, got, late, missed>>
  BY DEF Respond, ClientRead, CloseChannel, Disconnect, nodeVars, tableVars, taskVars, ghostVars
<1>5. CASE Respond
  <2>1. Free = NotifCapacity - unread - Cardinality(Held(permits))
    BY DEF Free, Reserved, Held
  <2>2. /\ open /\ Free > 0 /\ responses < MaxResponses
        /\ unread' = unread + 1 /\ responses' = responses + 1
        /\ open' = open /\ disconnected' = disconnected
    BY <1>5 DEF Respond
  <2>3. /\ unread + 1 \in 0..NotifCapacity /\ responses + 1 \in 0..MaxResponses
        /\ unread + 1 + Cardinality(Held(permits)) <= NotifCapacity
    BY <1>1, <1>3, <2>1, <2>2
  <2> QED BY <1>1, <1>4, <2>2, <2>3, ClientSideStep
<1>6. CASE ClientRead
  <2>1. /\ unread > 0 /\ unread' = unread - 1 /\ responses' = responses
        /\ open' = open /\ disconnected' = disconnected
    BY <1>6 DEF ClientRead
  <2>2. /\ unread - 1 \in 0..NotifCapacity /\ open
        /\ unread - 1 + Cardinality(Held(permits)) <= NotifCapacity
    BY <1>1, <1>2, <1>3, <2>1
  <2> QED BY <1>1, <1>4, <2>1, <2>2, ClientSideStep
<1>7. CASE CloseChannel
  <2>1. /\ open' = FALSE /\ unread' = 0 /\ responses' = responses
        /\ disconnected' = disconnected
    BY <1>7 DEF CloseChannel
  <2>2. 0 \in 0..NotifCapacity
    BY <1>3
  <2> QED BY <1>1, <1>4, <2>1, <2>2, ClientSideStep
<1>8. CASE Disconnect
  <2>1. /\ open' = open /\ unread' = unread /\ responses' = responses
        /\ disconnected' = TRUE
    BY <1>8 DEF Disconnect
  <2> QED BY <1>1, <1>2, <1>4, <2>1, ClientSideStep
<1> QED BY <1>5, <1>6, <1>7, <1>8

-------------------------------------------------------------------------------
(***************************************************************************)
(* The subscription task.                                                  *)
(***************************************************************************)
\* The loop is left: with a cancelled token, on a closed channel, or with the
\* senders and the table gone.
LEMMA EndStep ==
  ASSUME SubInv, NEW s \in Sub, pc[s] = "select", EndTask(s),
         UNCHANGED <<chain, events, announced, closed, tasks, kind, next, permits, open,
                     unread, disconnected, responses, base, got, late, missed>>,
         cancelled' = cancelled \/ cancelled' = cancelled \cup {s},
         s \in cancelled' \/ ~open \/ closed
  PROVE  SubInv'
<1>1. TypeOK /\ ChainPart /\ ChannelPart /\ SilencePart /\ TablePart /\ HoldPart
  BY DEF SubInv
<1>2. pc' = [pc EXCEPT ![s] = "end"] /\ buf' = [buf EXCEPT ![s] = <<>>]
  BY DEF EndTask
<1>3. /\ pc'[s] = "end" /\ buf'[s] = <<>>
      /\ \A t \in Sub : t # s => pc'[t] = pc[t] /\ buf'[t] = buf[t]
  BY <1>1, <1>2 DEF TypeOK
<1>4. TypeOK'
  <2>1. pc' \in [Sub -> {"new", "select", "send", "end"}] /\ buf' \in [Sub -> Seq(Item)]
    BY <1>1, <1>2 DEF TypeOK
  <2>2. cancelled' \subseteq Sub
    BY <1>1 DEF TypeOK
  <2> QED BY <1>1, <2>1, <2>2 DEF TypeOK
<1>5. ChainPart'
  BY <1>1, ChainFrame
<1>6. ChannelPart'
  <2>1. Held(permits)' = Held(permits)
    BY DEF Held
  <2>2. permits[s] = 0 /\ NotifCapacity \div 2 \in Nat /\ Len(<<>>) = 0
    BY <1>1, SubscriptionsAssumption DEF ChannelPart
  <2>3. ASSUME NEW t \in Sub
        PROVE  /\ pc'[t] # "send" => permits'[t] = 0
               /\ permits'[t] <= NotifCapacity \div 2 /\ permits'[t] <= Len(buf'[t])
               /\ pc'[t] = "new" => buf'[t] = <<>> /\ got'[t] = <<>>
    <3>1. CASE t = s
      BY <1>3, <2>2, <3>1
    <3>2. CASE t # s
      BY <1>1, <1>3, <3>2 DEF ChannelPart
    <3> QED BY <3>1, <3>2
  <2> QED BY <1>1, <2>1, <2>3 DEF ChannelPart
<1>7. SilencePart'
  BY <1>1, <1>3 DEF SilencePart
<1>8. TablePart'
  <2> SUFFICES ASSUME NEW t \in tasks', pc'[t] = "end" PROVE t \in cancelled' \/ ~open'
    BY <1>1 DEF TablePart
  <2>1. t \in Sub /\ t \in tasks
    BY <1>1 DEF TypeOK
  <2>2. CASE t = s
    BY <1>1, <2>1, <2>2 DEF TablePart
  <2>3. CASE t # s
    BY <1>1, <1>3, <2>1, <2>3 DEF TablePart
  <2> QED BY <2>2, <2>3
<1>9. HoldPart'
  <2>1. \A t \in Sub : pc'[t] \in {"select", "send"} /\ t \notin missed' =>
           /\ pc[t] \in {"select", "send"} /\ t \notin missed
           /\ got'[t] \o buf'[t] = got[t] \o buf[t]
    BY <1>3
  <2> QED BY <1>1, <2>1, HoldFrame
<1> QED BY <1>4, <1>5, <1>6, <1>7, <1>8, <1>9 DEF SubInv

\* All the ways out of the loop.
LEMMA EndSteps ==
  ASSUME SubInv, NEW s \in Sub,
         \/ EndOnDisconnect(s) \/ EndOnCancel(s)
         \/ EndOnClosedChannel(s) \/ EndOnClosedStream(s)
  PROVE  SubInv'
<1>1. /\ pc[s] = "select" /\ EndTask(s)
      /\ cancelled' = cancelled \/ cancelled' = cancelled \cup {s}
      /\ s \in cancelled' \/ ~open \/ closed
  BY DEF EndOnDisconnect, EndOnCancel, EndOnClosedChannel, EndOnClosedStream, Uncancelled,
         Receiving, tableVars
<1>2. UNCHANGED <<chain, events, announced, closed, tasks, kind, next, permits, open,
                  unread, disconnected, responses, base, got, late, missed>>
  BY DEF EndOnDisconnect, EndOnCancel, EndOnClosedChannel, EndOnClosedStream,
         nodeVars, tableVars, clientVars, ghostVars
<1> QED BY <1>1, <1>2, EndStep

\* The task gets its permits, which were free.
LEMMA ReserveStep ==
  ASSUME SubInv, NEW s \in Sub, Reserve(s)
  PROVE  SubInv'
<1>1. TypeOK /\ ChainPart /\ ChannelPart /\ SilencePart /\ TablePart /\ HoldPart
  BY DEF SubInv
<1> DEFINE n == PermitsWanted(s)  half == NotifCapacity \div 2
<1>2. UNCHANGED <<chain, events, announced, closed, tasks, cancelled, kind, next, buf, open,
                  unread, disconnected, responses, base, got, late, missed>>
  BY DEF Reserve, nodeVars, tableVars, clientVars, ghostVars
<1>3. /\ pc[s] = "select" /\ s \notin cancelled /\ open
      /\ Free >= n
      /\ permits' = [permits EXCEPT ![s] = n] /\ pc' = [pc EXCEPT ![s] = "send"]
  BY DEF Reserve, Uncancelled, PermitsReady
<1>4. /\ NotifCapacity \in Nat /\ half \in Nat /\ half <= NotifCapacity
  BY SubscriptionsAssumption
<1>5. Len(buf[s]) \in Nat
  BY <1>1 DEF TypeOK
<1>6. n \in 0..NotifCapacity /\ n <= half /\ n <= Len(buf[s])
  BY <1>4, <1>5 DEF PermitsWanted
<1> HIDE DEF n, half
<1>7. permits \in [Sub -> 0..NotifCapacity] /\ permits[s] = 0 /\ IsFiniteSet(Held(permits))
  BY <1>1, <1>3 DEF TypeOK, ChannelPart
<1>8. /\ IsFiniteSet(Held(permits'))
      /\ Cardinality(Held(permits')) = Cardinality(Held(permits)) + n
      /\ Cardinality(Held(permits)) \in Nat
  <2>1. /\ IsFiniteSet(Held([permits EXCEPT ![s] = n]))
        /\ Cardinality(Held([permits EXCEPT ![s] = n])) = Cardinality(Held(permits)) + n
        /\ Cardinality(Held(permits)) \in Nat
    BY <1>6, <1>7, HeldMore
  <2> QED BY <1>3, <2>1
<1>9. unread \in Nat /\ unread + Cardinality(Held(permits')) <= NotifCapacity
  <2>1. Free = NotifCapacity - unread - Cardinality(Held(permits))
    BY DEF Free, Reserved, Held
  <2>2. unread \in 0..NotifCapacity /\ n \in Nat
    BY <1>1, <1>4, <1>6 DEF TypeOK
  <2> QED BY <1>3, <1>4, <1>8, <2>1, <2>2
<1>10. /\ pc'[s] = "send" /\ permits'[s] = n
       /\ \A t \in Sub : t # s => pc'[t] = pc[t] /\ permits'[t] = permits[t]
  BY <1>1, <1>3 DEF TypeOK
<1>11. TypeOK'
  <2>1. /\ pc' \in [Sub -> {"new", "select", "send", "end"}]
        /\ permits' \in [Sub -> 0..NotifCapacity]
    BY <1>1, <1>3, <1>6 DEF TypeOK
  <2> QED BY <1>1, <1>2, <2>1 DEF TypeOK
<1>12. ChainPart'
  BY <1>1, <1>2, ChainFrame
<1>13. ChannelPart'
  <2>1. Held(permits)' = Held(permits')
    BY DEF Held
  <2>2. ASSUME NEW t \in Sub
        PROVE  /\ pc'[t] # "send" => permits'[t] = 0
               /\ permits'[t] <= NotifCapacity \div 2 /\ permits'[t] <= Len(buf'[t])
               /\ pc'[t] = "new" => buf'[t] = <<>> /\ got'[t] = <<>>
    <3>1. CASE t = s
      BY <1>2, <1>6, <1>10, <3>1 DEF half
    <3>2. CASE t # s
      BY <1>1, <1>2, <1>10, <3>2 DEF ChannelPart
    <3> QED BY <3>1, <3>2
  <2> QED BY <1>1, <1>2, <1>3, <1>8, <1>9, <2>1, <2>2 DEF ChannelPart
<1>14. SilencePart'
  BY <1>1, <1>2, <1>3, <1>10 DEF SilencePart
<1>15. TablePart'
  <2>1. \A t \in Sub : pc'[t] = "end" => pc[t] = "end"
    BY <1>10
  <2> QED BY <1>1, <1>2, <2>1 DEF TablePart, TypeOK
<1>16. HoldPart'
  <2>1. \A t \in Sub : pc'[t] \in {"select", "send"} /\ t \notin missed' =>
           /\ pc[t] \in {"select", "send"} /\ t \notin missed
           /\ got'[t] \o buf'[t] = got[t] \o buf[t]
    BY <1>2, <1>3, <1>10
  <2> QED BY <1>1, <1>2, <2>1, HoldFrame
<1> QED BY <1>11, <1>12, <1>13, <1>14, <1>15, <1>16 DEF SubInv

\* The task sends one item for each permit.
LEMMA SendStep ==
  ASSUME SubInv, NEW s \in Sub, Send(s)
  PROVE  SubInv'
<1>1. TypeOK /\ ChainPart /\ ChannelPart /\ SilencePart /\ TablePart /\ HoldPart
  BY DEF SubInv
<1> DEFINE n == permits[s]
           sent == SubSeq(buf[s], 1, n)
           rest == SubSeq(buf[s], n + 1, Len(buf[s]))
<1>2. UNCHANGED <<chain, events, announced, closed, tasks, cancelled, kind, next, open,
                  disconnected, responses, base, missed>>
  BY DEF Send, nodeVars, tableVars
<1>3. /\ pc[s] = "send"
      /\ buf' = [buf EXCEPT ![s] = rest]
      /\ got' = [got EXCEPT ![s] = @ \o sent]
      /\ late' = [late EXCEPT ![s] = IF s \in cancelled THEN @ + n ELSE @]
      /\ unread' = IF open THEN unread + n ELSE unread
      /\ permits' = [permits EXCEPT ![s] = 0] /\ pc' = [pc EXCEPT ![s] = "select"]
  BY DEF Send
<1>4. /\ NotifCapacity \in Nat /\ NotifCapacity \div 2 \in Nat
      /\ permits \in [Sub -> 0..NotifCapacity] /\ IsFiniteSet(Held(permits))
      /\ n \in Nat /\ n <= NotifCapacity \div 2 /\ n <= Len(buf[s])
      /\ buf[s] \in Seq(Item) /\ got[s] \in Seq(Item) /\ unread \in Nat
  BY <1>1, SubscriptionsAssumption DEF TypeOK, ChannelPart
<1>5. /\ IsFiniteSet(Held(permits'))
      /\ Cardinality(Held(permits)) = Cardinality(Held(permits')) + n
      /\ Cardinality(Held(permits')) \in Nat
  <2>1. /\ IsFiniteSet(Held([permits EXCEPT ![s] = 0]))
        /\ Cardinality(Held(permits)) = Cardinality(Held([permits EXCEPT ![s] = 0])) + n
        /\ Cardinality(Held([permits EXCEPT ![s] = 0])) \in Nat
    BY <1>4, HeldLess
  <2> QED BY <1>3, <2>1
<1>6. sent \in Seq(Item) /\ rest \in Seq(Item) /\ (got[s] \o sent) \o rest = got[s] \o buf[s]
  <2>1. sent \in Seq(Item)
    BY <1>4, PrefixFacts DEF Prefix
  <2>2. rest \in Seq(Item)
    BY ONLY <1>4, SuffixFacts
  <2>3. (got[s] \o sent) \o rest = got[s] \o buf[s]
    BY ONLY <1>4, SplitConcat
  <2> QED BY <2>1, <2>2, <2>3
<1> HIDE DEF n, sent, rest
<1>7. /\ pc'[s] = "select" /\ permits'[s] = 0 /\ buf'[s] = rest /\ got'[s] = got[s] \o sent
      /\ late'[s] = IF s \in cancelled THEN late[s] + n ELSE late[s]
      /\ \A t \in Sub : t # s => /\ pc'[t] = pc[t] /\ permits'[t] = permits[t]
                                 /\ buf'[t] = buf[t] /\ got'[t] = got[t] /\ late'[t] = late[t]
  BY <1>1, <1>3 DEF TypeOK
<1>8. late[s] = 0 /\ late \in [Sub -> Nat]
  BY <1>1, <1>3 DEF SilencePart, TypeOK
<1>9. /\ unread' \in 0..NotifCapacity
      /\ open => unread' + Cardinality(Held(permits')) <= NotifCapacity
      /\ ~open => unread' = 0
  <2>1. open => unread + Cardinality(Held(permits)) <= NotifCapacity
    BY <1>1 DEF ChannelPart
  <2>2. ~open => unread = 0
    BY <1>1 DEF ChannelPart
  <2>3. CASE open
    <3>1. unread' = unread + n
      BY <1>3, <2>3
    <3>2. unread + n \in 0..NotifCapacity /\ unread + n + Cardinality(Held(permits')) <= NotifCapacity
      BY <1>4, <1>5, <2>1, <2>3
    <3> QED BY <2>3, <3>1, <3>2
  <2>4. CASE ~open
    BY <1>3, <1>4, <2>2, <2>4
  <2> QED BY <2>3, <2>4
<1>10. TypeOK'
  <2>1. /\ pc' \in [Sub -> {"new", "select", "send", "end"}]
        /\ permits' \in [Sub -> 0..NotifCapacity]
    BY <1>1, <1>3, <1>4 DEF TypeOK
  <2>2. buf' \in [Sub -> Seq(Item)]
    BY <1>1, <1>3, <1>6 DEF TypeOK
  <2>3. got' \in [Sub -> Seq(Item)]
    <3>1. got[s] \o sent \in Seq(Item)
      BY <1>4, <1>6
    <3>2. got' = [got EXCEPT ![s] = got[s] \o sent] /\ got \in [Sub -> Seq(Item)]
      BY <1>1, <1>3 DEF TypeOK
    <3> QED BY <3>1, <3>2
  <2>4. late' \in [Sub -> Nat]
    <3>1. late[s] + n \in Nat
      BY <1>4, <1>8
    <3> QED BY <1>3, <1>8, <3>1
  <2> QED BY <1>1, <1>2, <1>9, <2>1, <2>2, <2>3, <2>4 DEF TypeOK
<1>11. ChainPart'
  BY <1>1, <1>2, ChainFrame
<1>12. ChannelPart'
  <2>1. Held(permits)' = Held(permits')
    BY DEF Held
  <2>2. ASSUME NEW t \in Sub
        PROVE  /\ pc'[t] # "send" => permits'[t] = 0
               /\ permits'[t] <= NotifCapacity \div 2 /\ permits'[t] <= Len(buf'[t])
               /\ pc'[t] = "new" => buf'[t] = <<>> /\ got'[t] = <<>>
    <3>1. CASE t = s
      <4>1. Len(rest) \in Nat
        BY <1>6
      <4> QED BY <1>4, <1>7, <3>1, <4>1
    <3>2. CASE t # s
      BY <1>1, <1>7, <3>2 DEF ChannelPart
    <3> QED BY <3>1, <3>2
  <2> QED BY <1>2, <1>5, <1>9, <2>1, <2>2 DEF ChannelPart
<1>13. SilencePart'
  <2>1. late'[s] <= NotifCapacity \div 2 /\ (s \notin cancelled => late'[s] = 0)
    BY <1>4, <1>7, <1>8
  <2> QED BY <1>1, <1>2, <1>7, <2>1 DEF SilencePart
<1>14. TablePart'
  <2>1. \A t \in Sub : pc'[t] = "end" => pc[t] = "end"
    BY <1>7
  <2> QED BY <1>1, <1>2, <2>1 DEF TablePart, TypeOK
<1>15. HoldPart'
  <2>1. \A t \in Sub : pc'[t] \in {"select", "send"} /\ t \notin missed' =>
           /\ pc[t] \in {"select", "send"} /\ t \notin missed
           /\ got'[t] \o buf'[t] = got[t] \o buf[t]
    BY <1>2, <1>3, <1>6, <1>7
  <2> QED BY <1>1, <1>2, <2>1, HoldFrame
<1> QED BY <1>10, <1>11, <1>12, <1>13, <1>14, <1>15 DEF SubInv

\* The blocks of a chain and one more.
LEMMA RangeAppend ==
  ASSUME NEW q \in Seq(Block), NEW b \in Block
  PROVE  Range(Append(q, b)) = Range(q) \cup {b}
<1> DEFINE r == Append(q, b)
<1>1. /\ r \in Seq(Block) /\ Len(r) = Len(q) + 1 /\ Len(q) \in Nat
      /\ \A i \in 1..Len(q) : r[i] = q[i]
      /\ r[Len(q) + 1] = b
  BY ONLY q \in Seq(Block), b \in Block, AppendFacts
<1> HIDE DEF r
<1>2. Range(r) = {r[i] : i \in 1..Len(r)} /\ Range(q) = {q[i] : i \in 1..Len(q)}
  BY <1>1, RangeSeq
<1>3. \A i \in 1..Len(r) : i = Len(q) + 1 \/ i \in 1..Len(q)
  BY <1>1
<1>4. Len(q) + 1 \in 1..Len(r) /\ \A i \in 1..Len(q) : i \in 1..Len(r)
  BY <1>1
<1>5. \A c : c \in Range(r) => c \in Range(q) \cup {b}
  BY <1>1, <1>2, <1>3
<1>6. \A c : c \in Range(q) \cup {b} => c \in Range(r)
  BY <1>1, <1>2, <1>4
<1>7. Range(r) = Range(q) \cup {b}
  BY <1>5, <1>6
<1> QED BY <1>7 DEF r

\* A reorganisation divides the chain at a height.
LEMMA RangeSplit ==
  ASSUME NEW q \in Seq(Block), \A i \in 1..Len(q) : num[q[i]] = i,
         NEW n \in Nat, n <= Len(q)
  PROVE  /\ Range(Prefix(q, n)) = {c \in Range(q) : num[c] <= n}
         /\ Range(SubSeq(q, n + 1, Len(q))) = {c \in Range(q) : num[c] > n}
<1> DEFINE u == Prefix(q, n)  v == SubSeq(q, n + 1, Len(q))
<1>1. u \in Seq(Block) /\ Len(u) = n /\ \A i \in 1..n : u[i] = q[i]
  BY ONLY q \in Seq(Block), n \in Nat, n <= Len(q), PrefixFacts
<1>2. /\ v \in Seq(Block) /\ Len(v) = Len(q) - n
      /\ \A i \in 1..(Len(q) - n) : v[i] = q[n + i]
  BY ONLY q \in Seq(Block), n \in Nat, n <= Len(q), SuffixFacts
<1> HIDE DEF u, v
<1>3. /\ Range(u) = {u[i] : i \in 1..n} /\ Range(v) = {v[i] : i \in 1..(Len(q) - n)}
      /\ Range(q) = {q[i] : i \in 1..Len(q)} /\ Len(q) \in Nat
  <2>1. Range(u) = {u[i] : i \in 1..Len(u)}
    BY <1>1, RangeSeq
  <2>2. Range(v) = {v[i] : i \in 1..Len(v)}
    BY <1>2, RangeSeq
  <2>3. Range(q) = {q[i] : i \in 1..Len(q)}
    BY RangeSeq
  <2> QED BY <1>1, <1>2, <2>1, <2>2, <2>3
<1>4. ASSUME NEW c \in Range(u) PROVE c \in Range(q) /\ num[c] <= n
  <2>1. PICK i \in 1..n : c = u[i]
    BY <1>3
  <2>2. i \in 1..Len(q) /\ c = q[i] /\ i <= n
    BY <1>1, <1>3, <2>1
  <2> QED BY <1>3, <2>2
<1>5. ASSUME NEW c \in Range(q), num[c] <= n PROVE c \in Range(u)
  <2>1. PICK i \in 1..Len(q) : c = q[i]
    BY <1>3
  <2>2. i \in 1..n
    BY <1>5, <2>1
  <2> QED BY <1>1, <1>3, <2>1, <2>2
<1>6. ASSUME NEW c \in Range(v) PROVE c \in Range(q) /\ num[c] > n
  <2>1. PICK i \in 1..(Len(q) - n) : c = v[i]
    BY <1>3
  <2>2. n + i \in 1..Len(q) /\ c = q[n + i] /\ n + i > n
    BY <1>2, <1>3, <2>1
  <2> QED BY <1>3, <2>2
<1>7. ASSUME NEW c \in Range(q), num[c] > n PROVE c \in Range(v)
  <2>1. PICK i \in 1..Len(q) : c = q[i]
    BY <1>3
  <2>2. i - n \in 1..(Len(q) - n) /\ n + (i - n) = i
    BY <1>3, <1>7, <2>1
  <2>3. v[i - n] = q[n + (i - n)]
    BY <1>2, <2>2
  <2>4. v[i - n] = c
    BY <2>1, <2>2, <2>3
  <2> QED BY <1>3, <2>2, <2>4
<1>8. Range(u) = {c \in Range(q) : num[c] <= n}
  BY <1>4, <1>5
<1>9. Range(v) = {c \in Range(q) : num[c] > n}
  BY <1>6, <1>7
<1> QED BY <1>8, <1>9 DEF u, v

\* A logs client that applies an event with all its logs.
LEMMA LogsFollow ==
  ASSUME NEW bl, NEW x \in Seq(Item), NEW old \in Seq(Block), NEW new \in Seq(Block),
         \A i \in 1..Len(old) : num[old[i]] = i,
         NEW e \in ChainEvent, Changes(old, e, new), ~Unindexed(e),
         HeldLogs(bl, x) = Range(old) \ Silent
  PROVE  HeldLogs(bl, x \o FilterForSub("logs", e)) = Range(new) \ Silent
<1>1. CASE e.type = "block"
  <2>1. e.block \in Block /\ new = Append(old, e.block)
    BY <1>1 DEF ChainEvent, Changes
  <2>2. FilterForSub("logs", e) = Logs("log", <<e.block>>)
    BY <1>1 DEF FilterForSub
  <2> DEFINE B == {e.block} \ Silent
  <2>3. B \in SUBSET (Block \ Silent) /\ Only(Logs("log", <<e.block>>), "log", B)
    BY <2>1, BlockLogs
  <2> HIDE DEF B
  <2>4. HeldLogs(bl, x \o Logs("log", <<e.block>>)) = HeldLogs(bl, x) \cup B
    BY <2>3, HeldLogsAdd
  <2>5. Range(new) = Range(old) \cup {e.block}
    BY <2>1, RangeAppend
  <2> QED BY <2>2, <2>4, <2>5 DEF B
<1>2. CASE e.type = "reorg"
  <2>1. e.removed \in Seq(Block) /\ e.indexed \in Nat /\ Len(e.removed) \in Nat
    BY <1>2 DEF ChainEvent
  <2>2. e.indexed = Len(e.removed)
    BY <1>2, <2>1 DEF Changes, Unindexed
  <2>3. Prefix(e.removed, e.indexed) = e.removed
    BY <2>1, <2>2, PrefixAll
  <2>4. FilterForSub("logs", e) = Logs("removed", e.removed)
    BY <1>2, <2>3 DEF FilterForSub
  <2> DEFINE B == Range(e.removed) \ Silent
  <2>5. Only(Logs("removed", e.removed), "removed", B)
    BY <2>1, LogsOnly
  <2> HIDE DEF B
  <2>6. HeldLogs(bl, x \o Logs("removed", e.removed)) = HeldLogs(bl, x) \ B
    BY <2>5, HeldLogsDrop
  <2>7. PICK n \in 0..(Len(old) - 1) :
          new = Prefix(old, n) /\ e.removed = SubSeq(old, n + 1, Len(old))
    BY <1>2 DEF Changes
  <2>8. n \in Nat /\ n <= Len(old)
    OBVIOUS
  <2>9. /\ Range(new) = {c \in Range(old) : num[c] <= n}
        /\ Range(e.removed) = {c \in Range(old) : num[c] > n}
    BY <2>7, <2>8, RangeSplit
  <2>10. \A c \in Range(old) : num[c] <= n <=> ~(num[c] > n)
    <3> SUFFICES ASSUME NEW c \in Range(old) PROVE num[c] <= n <=> ~(num[c] > n)
      OBVIOUS
    <3>1. c \in Block
      BY RangeSeq
    <3>2. num[c] \in Nat
      BY <3>1, HostChainAssumption
    <3> QED BY <2>8, <3>2
  <2>11. (Range(old) \ Silent) \ B = Range(new) \ Silent
    BY <2>9, <2>10 DEF B
  <2> QED BY <2>4, <2>6, <2>11
<1>3. e.type \in {"block", "reorg"}
  BY DEF ChainEvent
<1> QED BY <1>1, <1>2, <1>3

\* A newHeads client that applies an event.
LEMMA HeadsFollow ==
  ASSUME NEW bl \in Seq(Block), NEW x \in Seq(Item),
         NEW old \in Seq(Block), NEW new \in Seq(Block),
         \A i \in 1..Len(old) : num[old[i]] = i,
         NEW e \in ChainEvent, Changes(old, e, new),
         HeadsTold(bl, x, old)
  PROVE  /\ HeadsTold(bl, x \o FilterForSub("heads", e), new)
         /\ e.type = "block" =>
              HeldHeads(bl, x \o FilterForSub("heads", e)) = Range(new)
<1> DEFINE z == x \o FilterForSub("heads", e)
<1>0. {b \in HeldHeads(bl, x) : num[b] <= Len(old)} = Range(old)
  BY DEF HeadsTold
<1>1. \A c \in Block : num[c] \in Nat
  BY HostChainAssumption
<1>2. Range(old) \subseteq Block /\ HeldHeads(bl, x) \subseteq Block
  BY RangeSeq DEF HeldHeads
<1>3. Len(old) \in Nat
  OBVIOUS
<1>4. CASE e.type = "block"
  <2>1. e.block \in Block /\ num[e.block] = Len(old) + 1 /\ new = Append(old, e.block)
    BY <1>4 DEF ChainEvent, Changes
  <2>2. z = Append(x, <<"header", e.block>>)
    <3>1. FilterForSub("heads", e) = <<<<"header", e.block>>>>
      BY <1>4 DEF FilterForSub
    <3>2. <<"header", e.block>> \in Item
      BY <2>1 DEF Item
    <3>3. \A it \in Item : x \o <<it>> = Append(x, it)
      BY ONLY x \in Seq(Item)
    <3> QED BY <3>1, <3>2, <3>3
  <2> HIDE DEF z
  <2>3. HeldHeads(bl, z) = {c \in HeldHeads(bl, x) : num[c] < num[e.block]} \cup {e.block}
    BY <2>1, <2>2, HeldHeadsAdd
  <2>4. \A c \in HeldHeads(bl, x) : num[c] < num[e.block] <=> num[c] <= Len(old)
    <3> SUFFICES ASSUME NEW c \in HeldHeads(bl, x)
                 PROVE  num[c] < num[e.block] <=> num[c] <= Len(old)
      OBVIOUS
    <3>1. num[c] \in Nat
      BY ONLY <1>1, <1>2, c \in HeldHeads(bl, x)
    <3> QED BY ONLY <1>3, <2>1, <3>1
  <2>5. HeldHeads(bl, z) = Range(old) \cup {e.block}
    <3>1. {c \in HeldHeads(bl, x) : num[c] < num[e.block]} =
             {c \in HeldHeads(bl, x) : num[c] <= Len(old)}
      BY ONLY <2>4
    <3> QED BY <1>0, <2>3, <3>1
  <2>6. Range(new) = Range(old) \cup {e.block} /\ Len(new) = Len(old) + 1
    BY <2>1, RangeAppend, AppendFacts
  <2>7. \A c \in Range(old) : num[c] <= Len(old)
    BY <1>0
  <2>8. \A c \in Range(new) : num[c] <= Len(new)
    <3> SUFFICES ASSUME NEW c \in Range(new) PROVE num[c] <= Len(new)
      OBVIOUS
    <3>1. c \in Range(old) \/ c = e.block
      BY ONLY <2>6, c \in Range(new)
    <3>2. num[c] \in Nat
      BY ONLY <1>1, <1>2, <2>1, <3>1
    <3>3. num[c] <= Len(old) \/ num[c] = Len(old) + 1
      BY ONLY <2>1, <2>7, <3>1
    <3> QED BY ONLY <1>3, <2>6, <3>2, <3>3
  <2>9. {b \in HeldHeads(bl, z) : num[b] <= Len(new)} = Range(new)
    BY <2>5, <2>6, <2>8
  <2> QED BY <2>5, <2>6, <2>9 DEF z, HeadsTold
<1>5. CASE e.type = "reorg"
  <2>1. z = x
    <3>1. FilterForSub("heads", e) = <<>>
      BY <1>5 DEF FilterForSub
    <3> QED BY <3>1
  <2>2. PICK n \in 0..(Len(old) - 1) : new = Prefix(old, n)
    BY <1>5 DEF Changes
  <2>3. n \in Nat /\ n <= Len(old)
    BY <1>3
  <2>4. Range(new) = {c \in Range(old) : num[c] <= n} /\ Len(new) = n
    BY <2>2, <2>3, RangeSplit, PrefixFacts
  <2>5. \A c \in Block : num[c] <= n => num[c] <= Len(old)
    BY <1>1, <1>3, <2>3
  <2>6. {b \in HeldHeads(bl, x) : num[b] <= n} = Range(new)
    BY <1>0, <1>2, <2>4, <2>5
  <2> QED BY <1>5, <2>1, <2>4, <2>6 DEF HeadsTold
<1>6. e.type \in {"block", "reorg"}
  BY DEF ChainEvent
<1> QED BY <1>4, <1>5, <1>6

\* The receiver takes the next event into the buffer.
LEMMA ReceiveStep ==
  ASSUME SubInv, NEW s \in Sub, Receive(s)
  PROVE  SubInv'
<1>1. TypeOK /\ ChainPart /\ ChannelPart /\ SilencePart /\ TablePart /\ HoldPart
  BY DEF SubInv
<1> DEFINE n == next[s]  e == events[n]  y == FilterForSub(kind[s], e)
<1>2. UNCHANGED <<chain, events, announced, closed, tasks, cancelled, pc, kind, permits, open,
                  unread, disconnected, responses, base, got, late>>
  BY DEF Receive, nodeVars, tableVars, clientVars
<1>3. /\ pc[s] = "select" /\ n \in Oldest..Len(events)
      /\ buf' = [buf EXCEPT ![s] = @ \o y] /\ next' = [next EXCEPT ![s] = @ + 1]
      /\ missed' = IF kind[s] = "logs" /\ Unindexed(e) THEN missed \cup {s} ELSE missed
  BY DEF Receive, Receiving, Uncancelled
<1>4. /\ Len(events) \in Nat /\ events \in Seq(ChainEvent) /\ Len(announced) = Len(events)
      /\ announced \in Seq(Seq(Block)) /\ n \in Nat
      /\ kind[s] \in {"logs", "heads"} /\ base[s] \in Seq(Block)
      /\ buf[s] \in Seq(Item) /\ got[s] \in Seq(Item)
  BY <1>1 DEF TypeOK
<1>5. n \in 1..Len(events) /\ e \in ChainEvent /\ announced[n] \in Seq(Block)
  <2>1. n >= 1 /\ n <= Len(events)
    <3>1. n \in 1..(Len(events) + 1)
      BY <1>1 DEF TypeOK
    <3>2. Oldest \in Int
      BY <1>4, SubscriptionsAssumption DEF Oldest
    <3>3. n <= Len(events)
      BY <1>3, <1>4, <3>2
    <3> QED BY <3>1, <3>3
  <2> QED BY <1>4, <2>1
<1>6. Changes(Before(n), e, announced[n])
  <2>1. EventAt(n)
    BY <1>1, <1>5 DEF ChainPart
  <2> QED BY <2>1 DEF EventAt, Changes
<1>7. Before(n) \in Seq(Block) /\ \A i \in 1..Len(Before(n)) : num[Before(n)[i]] = i
  <2>1. CASE n = 1
    BY <2>1 DEF Before
  <2>2. CASE n # 1
    <3>1. n - 1 \in 1..Len(events)
      BY <1>5, <2>2
    <3>2. announced[n - 1] \in Seq(Block)
      BY <1>4, <3>1
    <3> QED BY <1>1, <2>2, <3>1, <3>2 DEF Before, ChainPart
  <2> QED BY <2>1, <2>2
<1>8. y \in Seq(Item)
  <2>1. e.type = "reorg" => e.indexed <= Len(e.removed)
    BY <1>6 DEF Changes
  <2> QED BY <1>4, <1>5, <2>1, FilterType
<1>9. Told(s) = Before(n)
  BY DEF Told, Before
<1> HIDE DEF y
<1>10. /\ buf'[s] = buf[s] \o y /\ next'[s] = n + 1
       /\ \A t \in Sub : t # s => buf'[t] = buf[t] /\ next'[t] = next[t]
  BY <1>1, <1>3 DEF TypeOK
<1>11. TypeOK'
  <2>1. buf' \in [Sub -> Seq(Item)]
    <3>1. buf[s] \o y \in Seq(Item)
      BY <1>4, <1>8
    <3>2. buf' = [buf EXCEPT ![s] = buf[s] \o y] /\ buf \in [Sub -> Seq(Item)]
      BY <1>1, <1>3 DEF TypeOK
    <3> QED BY <3>1, <3>2
  <2>2. next' \in [Sub -> 1..(Len(events) + 1)]
    <3>1. n + 1 \in 1..(Len(events) + 1)
      BY <1>4, <1>5
    <3>2. next' = [next EXCEPT ![s] = n + 1] /\ next \in [Sub -> 1..(Len(events) + 1)]
      BY <1>1, <1>3 DEF TypeOK
    <3> QED BY <3>1, <3>2
  <2>3. missed' \subseteq Sub
    BY <1>1, <1>3 DEF TypeOK
  <2> QED BY <1>1, <1>2, <2>1, <2>2, <2>3 DEF TypeOK
<1>12. ChainPart'
  BY <1>1, <1>2, ChainFrame
<1>13. ChannelPart'
  <2>1. Held(permits)' = Held(permits)
    BY <1>2 DEF Held
  <2>2. ASSUME NEW t \in Sub
        PROVE  /\ pc'[t] # "send" => permits'[t] = 0
               /\ permits'[t] <= NotifCapacity \div 2 /\ permits'[t] <= Len(buf'[t])
               /\ pc'[t] = "new" => buf'[t] = <<>> /\ got'[t] = <<>>
    <3>1. CASE t = s
      <4>1. permits'[s] = 0 /\ Len(buf'[s]) \in Nat /\ pc'[s] = "select"
        <5>1. permits[s] = 0
          BY <1>1, <1>3 DEF ChannelPart
        <5>2. buf[s] \o y \in Seq(Item)
          BY <1>4, <1>8
        <5> QED BY <1>2, <1>3, <1>10, <5>1, <5>2
      <4>2. NotifCapacity \div 2 \in Nat
        BY SubscriptionsAssumption
      <4> QED BY <3>1, <4>1, <4>2
    <3>2. CASE t # s
      BY <1>1, <1>2, <1>10, <3>2 DEF ChannelPart
    <3> QED BY <3>1, <3>2
  <2> QED BY <1>1, <1>2, <2>1, <2>2 DEF ChannelPart
<1>14. SilencePart' /\ TablePart'
  BY <1>1, <1>2 DEF SilencePart, TablePart
<1>15. HoldPart'
  <2> SUFFICES ASSUME NEW t \in Sub, pc'[t] \in {"select", "send"}, t \notin missed'
               PROVE  HoldOf(t)'
    BY DEF HoldPart
  <2>1. t \notin missed /\ pc[t] \in {"select", "send"}
    BY <1>2, <1>3
  <2>2. HoldOf(t)
    BY <1>1, <2>1 DEF HoldPart
  <2>3. CASE t = s
    <3> DEFINE x == got[s] \o buf[s]
    <3>1. got'[s] \o buf'[s] = x \o y /\ x \in Seq(Item)
      <4>1. x \in Seq(Item) /\ got[s] \o (buf[s] \o y) = x \o y
        <5>1. got[s] \in Seq(Item) /\ buf[s] \in Seq(Item)
          BY <1>4
        <5>2. got[s] \o (buf[s] \o y) = x \o y
          <6>1. \A u, v, w \in Seq(Item) : u \o (v \o w) = (u \o v) \o w
            BY ConcatAssoc
          <6> QED BY ONLY <1>8, <5>1, <6>1, Zenon
        <5>3. x \in Seq(Item)
          BY ONLY <5>1
        <5> QED BY <5>2, <5>3
      <4> QED BY <1>2, <1>10, <4>1
    <3>2. Told(s)' = announced[n]
      <4>1. next'[s] # 1 /\ next'[s] - 1 = n
        BY <1>5, <1>10
      <4> QED BY <1>2, <4>1 DEF Told
    <3>3. kind'[s] = kind[s] /\ base'[s] = base[s] /\ events' = events /\ next'[s] - 1 = n
      BY <1>2, <1>4, <1>10
    <3> HIDE DEF x
    <3>4. CASE kind[s] = "logs"
      <4>1. ~Unindexed(e)
        BY <1>3, <2>3, <3>4
      <4>2. HeldLogs(base[s], x) = Range(Before(n)) \ Silent
        BY <1>9, <2>2, <2>3, <3>4 DEF HoldOf, x
      <4>3. HeldLogs(base[s], x \o FilterForSub("logs", e)) = Range(announced[n]) \ Silent
        <5>1. x \in Seq(Item) /\ announced[n] \in Seq(Block) /\ e \in ChainEvent
          BY <1>5, <3>1
        <5> HIDE DEF e
        <5>2. PICK old \in Seq(Block), new \in Seq(Block) :
                old = Before(n) /\ new = announced[n]
          BY <1>7, <5>1
        <5>3. /\ \A i \in 1..Len(old) : num[old[i]] = i
              /\ Changes(old, e, new)
              /\ HeldLogs(base[s], x) = Range(old) \ Silent
          BY ONLY <1>6, <1>7, <4>2, <5>2
        <5>4. HeldLogs(base[s], x \o FilterForSub("logs", e)) = Range(new) \ Silent
          BY ONLY <4>1, <5>1, <5>3, old \in Seq(Block), new \in Seq(Block), LogsFollow
        <5> QED BY ONLY <5>2, <5>4
      <4> QED BY <2>3, <3>1, <3>2, <3>3, <3>4, <4>3 DEF HoldOf, y
    <3>5. CASE kind[s] = "heads"
      <4>1. HeadsTold(base[s], x, Before(n))
        BY <1>9, <2>2, <2>3, <3>5 DEF HoldOf, x
      <4>2. /\ HeadsTold(base[s], x \o FilterForSub("heads", e), announced[n])
            /\ e.type = "block" =>
                 HeldHeads(base[s], x \o FilterForSub("heads", e)) = Range(announced[n])
        <5>1. /\ x \in Seq(Item) /\ announced[n] \in Seq(Block) /\ e \in ChainEvent
              /\ base[s] \in Seq(Block)
          BY <1>4, <1>5, <3>1
        <5> HIDE DEF e
        <5> QED BY ONLY <1>6, <1>7, <4>1, <5>1, HeadsFollow
      <4> QED BY <2>3, <3>1, <3>2, <3>3, <3>5, <4>2 DEF HoldOf, y
    <3> QED BY <1>4, <3>4, <3>5
  <2>4. CASE t # s
    <3>1. /\ kind'[t] = kind[t] /\ base'[t] = base[t] /\ next'[t] = next[t]
          /\ got'[t] = got[t] /\ buf'[t] = buf[t] /\ events' = events
      BY <1>2, <1>10, <2>4
    <3>2. Told(t)' = Told(t)
      BY <1>2, <3>1 DEF Told
    <3> QED BY <2>2, <3>1, <3>2 DEF HoldOf
  <2> QED BY <2>3, <2>4
<1> QED BY <1>11, <1>12, <1>13, <1>14, <1>15 DEF SubInv

\* The receiver is moved on, past what was overwritten.
LEMMA LaggedStep ==
  ASSUME SubInv, NEW s \in Sub, Lagged(s)
  PROVE  SubInv'
<1>1. TypeOK /\ ChainPart /\ ChannelPart /\ SilencePart /\ TablePart /\ HoldPart
  BY DEF SubInv
<1>2. UNCHANGED <<chain, events, announced, closed, tasks, cancelled, pc, kind, buf, permits,
                  open, unread, disconnected, responses, base, got, late>>
  BY DEF Lagged, nodeVars, tableVars, clientVars
<1>3. next' = [next EXCEPT ![s] = Oldest] /\ missed' = missed \cup {s}
  BY DEF Lagged
<1>4. Oldest \in 1..(Len(events) + 1)
  <2>1. Len(events) \in Nat
    BY <1>1 DEF TypeOK
  <2> QED BY <2>1, SubscriptionsAssumption DEF Oldest
<1>5. TypeOK'
  <2>1. next' \in [Sub -> 1..(Len(events) + 1)]
    BY <1>1, <1>3, <1>4 DEF TypeOK
  <2>2. missed' \subseteq Sub
    BY <1>1, <1>3 DEF TypeOK
  <2> QED BY <1>1, <1>2, <2>1, <2>2 DEF TypeOK
<1>6. ChainPart' /\ ChannelPart'
  BY <1>1, <1>2, ChainFrame, ChannelFrame
<1>7. SilencePart' /\ TablePart'
  BY <1>1, <1>2 DEF SilencePart, TablePart
<1>8. HoldPart'
  <2> SUFFICES ASSUME NEW t \in Sub, pc'[t] \in {"select", "send"}, t \notin missed'
               PROVE  HoldOf(t)'
    BY DEF HoldPart
  <2>1. t # s /\ t \notin missed /\ pc[t] \in {"select", "send"}
    BY <1>2, <1>3
  <2>2. HoldOf(t)
    BY <1>1, <2>1 DEF HoldPart
  <2>3. next'[t] = next[t]
    BY <1>1, <1>3, <2>1 DEF TypeOK
  <2>4. Told(t)' = Told(t)
    BY <1>2, <2>3 DEF Told
  <2> QED BY <1>2, <2>2, <2>3, <2>4 DEF HoldOf
<1> QED BY <1>5, <1>6, <1>7, <1>8 DEF SubInv

-------------------------------------------------------------------------------
(***************************************************************************)
(* Theorems.                                                               *)
(***************************************************************************)
\* Every step preserves the invariant.
LEMMA SubStep ==
  ASSUME SubInv, [Next]_vars
  PROVE  SubInv'
<1>1. CASE UNCHANGED vars
  <2>1. UNCHANGED <<chain, events, announced, closed, tasks, cancelled, pc, kind, next, buf,
                    permits, open, unread, disconnected, responses, base, got, late, missed>>
    BY <1>1 DEF vars, nodeVars, tableVars, taskVars, clientVars, ghostVars
  <2>2. TypeOK /\ ChainPart /\ ChannelPart /\ SilencePart /\ TablePart /\ HoldPart
    BY DEF SubInv
  <2>3. TypeOK' /\ SilencePart' /\ TablePart'
    BY <2>1, <2>2 DEF TypeOK, SilencePart, TablePart
  <2>4. ChainPart' /\ ChannelPart' /\ HoldPart'
    BY <2>1, <2>2, ChainFrame, ChannelFrame, HoldFrame
  <2> QED BY <2>3, <2>4 DEF SubInv
<1>2. CASE Node
  BY <1>2, SendNewBlockStep, SendReorgStep, ShutdownStep DEF Node
<1>3. CASE Client
  BY <1>3, SubscribeStep, UnsubscribeStep, ClientStep DEF Client
<1>4. CASE \E s \in Sub : Task(s)
  BY <1>4, EndSteps, ReserveStep, SendStep, LaggedStep, ReceiveStep DEF Task
<1>5. CASE Clean
  BY <1>5, CleanStep
<1> QED BY <1>1, <1>2, <1>3, <1>4, <1>5 DEF Next

\* It holds in every reachable state.
LEMMA SubInvariance == Spec => []SubInv
  BY SubInit, SubStep, PTL DEF Spec

\* Every variable keeps its type; in particular the messages a client has not
\* read never exceed the capacity of its channel, whatever tasks reserve and
\* send and whatever responses share it.
THEOREM TypeCorrect == Spec => []TypeOK
<1>1. SubInv => TypeOK
  BY DEF SubInv
<1> QED BY <1>1, SubInvariance, PTL

\* From what the tasks push, in the order of the pushes, a logs subscriber that
\* neither lagged nor was told of a reorganisation without its logs holds the
\* matching logs of the announced chain, and a newHeads subscriber that did not
\* lag holds that chain once a block follows the last reorganisation; for every
\* chain, filter, capacity and number of subscriptions.
THEOREM SubscriberAlwaysHoldsChain == Spec => []SubscriberHoldsChain
<1>1. SubInv => SubscriberHoldsChain
  BY DEF SubInv, HoldPart, HoldOf, SubscriberHoldsChain
<1> QED BY <1>1, SubInvariance, PTL

\* After its token is cancelled a subscription sends at most one batch, of half
\* the client's channel.
THEOREM CancelledAlwaysSilent == Spec => []CancelledIsSilent
<1>1. SubInv => CancelledIsSilent
  BY DEF SubInv, SilencePart, CancelledIsSilent
<1> QED BY <1>1, SubInvariance, PTL

\* A finished task whose entry the cleaner cannot see ended on a closed client
\* channel.
THEOREM EntriesAlwaysHaveTasks == Spec => []EntriesHaveTasks
<1>1. SubInv => EntriesHaveTasks
  BY DEF SubInv, TablePart, EntriesHaveTasks
<1> QED BY <1>1, SubInvariance, PTL
===============================================================================
