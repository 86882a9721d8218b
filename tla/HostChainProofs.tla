--------------------------- MODULE HostChainProofs ---------------------------
(***************************************************************************)
(* Facts about numbers, sequences and host chains that the components'     *)
(* proofs share.                                                           *)
(***************************************************************************)
EXTENDS HostChain, WellFoundedInduction, TLAPS

-------------------------------------------------------------------------------
(***************************************************************************)
(* Induction, over sets of numbers.                                        *)
(***************************************************************************)
\* A nonempty set of naturals has a least element.
LEMMA Least ==
  ASSUME NEW T \in SUBSET Nat, T # {}
  PROVE  \E x \in T : \A y \in T : x <= y
<1> DEFINE R == {ss \in Nat \X Nat : ss[1] < ss[2]}
<1>1. OpToRel(<, Nat) = R
  BY DEF OpToRel
<1>2. IsWellFoundedOn(R, Nat)
  BY <1>1, NatLessThanWellFounded
<1>3. PICK x \in T : \A y \in T : ~(<<y, x>> \in R)
  BY <1>2, WFMin
<1>4. ASSUME NEW y \in T PROVE x <= y
  <2>1. <<y, x>> \notin R
    BY <1>3
  <2>2. <<y, x>> \in Nat \X Nat
    OBVIOUS
  <2>3. ~(y < x)
    BY <2>1, <2>2
  <2> QED BY <2>3
<1> QED BY <1>4

\* A nonempty set of naturals with an upper bound has a greatest element: the
\* highest height at which a walk meets the view.
LEMMA Greatest ==
  ASSUME NEW N \in Nat, NEW T \in SUBSET (0..N), T # {}
  PROVE  \E x \in T : \A y \in T : y <= x
<1> DEFINE M == {n \in Nat : N - n \in T}
<1>1. PICK t \in T : TRUE
  OBVIOUS
<1>2. N - t \in Nat /\ N - (N - t) = t
  OBVIOUS
<1>3. M \in SUBSET Nat /\ M # {}
  BY <1>2
<1>4. PICK m \in M : \A y \in M : m <= y
  BY <1>3, Least
<1>5. ASSUME NEW y \in T PROVE y <= N - m
  <2>1. N - y \in Nat /\ N - (N - y) = y
    OBVIOUS
  <2>2. m <= N - y
    BY <1>4, <2>1
  <2> QED BY <1>4, <2>2
<1> QED BY <1>4, <1>5

-------------------------------------------------------------------------------
(***************************************************************************)
(* Sequences.                                                              *)
(***************************************************************************)
\* A segment of a sequence.
LEMMA SegmentFacts ==
  ASSUME NEW S, NEW s \in Seq(S), NEW m \in Nat \ {0}, NEW n \in Nat,
         n <= Len(s), m <= n + 1
  PROVE  /\ SubSeq(s, m, n) \in Seq(S)
         /\ Len(SubSeq(s, m, n)) = n - m + 1
         /\ \A i \in 1..(n - m + 1) : SubSeq(s, m, n)[i] = s[m + i - 1]
  OBVIOUS

\* What follows the first n of a sequence.
LEMMA SuffixFacts ==
  ASSUME NEW S, NEW s \in Seq(S), NEW n \in Nat, n <= Len(s)
  PROVE  /\ SubSeq(s, n + 1, Len(s)) \in Seq(S)
         /\ Len(SubSeq(s, n + 1, Len(s))) = Len(s) - n
         /\ \A i \in 1..(Len(s) - n) : SubSeq(s, n + 1, Len(s))[i] = s[n + i]
<1>1. PICK l \in Nat : l = Len(s)
  OBVIOUS
<1>2. n + 1 \in Nat \ {0} /\ l <= Len(s) /\ n + 1 <= l + 1 /\ l - (n + 1) + 1 = l - n
  BY <1>1
<1>3. /\ SubSeq(s, n + 1, l) \in Seq(S)
      /\ Len(SubSeq(s, n + 1, l)) = l - (n + 1) + 1
      /\ \A i \in 1..(l - (n + 1) + 1) : SubSeq(s, n + 1, l)[i] = s[(n + 1) + i - 1]
  BY <1>2, SegmentFacts
<1>4. ASSUME NEW i \in 1..(l - n) PROVE SubSeq(s, n + 1, l)[i] = s[n + i]
  <2>1. (n + 1) + i - 1 = n + i /\ i \in 1..(l - (n + 1) + 1)
    BY <1>2
  <2> QED BY <1>3, <2>1
<1> QED BY <1>1, <1>2, <1>3, <1>4

\* What is left of a sequence.
LEMMA PrefixFacts ==
  ASSUME NEW S, NEW s \in Seq(S), NEW n \in Nat, n <= Len(s)
  PROVE  /\ Prefix(s, n) \in Seq(S)
         /\ Len(Prefix(s, n)) = n
         /\ \A i \in 1..n : Prefix(s, n)[i] = s[i]
  BY SegmentFacts DEF Prefix

\* The whole of a sequence.
LEMMA PrefixAll ==
  ASSUME NEW S, NEW s \in Seq(S)
  PROVE  Prefix(s, Len(s)) = s
<1> DEFINE p == Prefix(s, Len(s))
<1>1. Len(s) \in Nat /\ Len(s) <= Len(s)
  OBVIOUS
<1>2. p \in Seq(S) /\ Len(p) = Len(s) /\ \A i \in 1..Len(s) : p[i] = s[i]
  BY <1>1, PrefixFacts
<1> HIDE DEF p
<1>3. p = s
  BY <1>2
<1> QED BY <1>3 DEF p

\* Append, as append_blocks extends a store by one block.
LEMMA AppendFacts ==
  ASSUME NEW S, NEW s \in Seq(S), NEW e \in S
  PROVE  /\ Append(s, e) \in Seq(S)
         /\ Len(Append(s, e)) = Len(s) + 1
         /\ \A i \in 1..Len(s) : Append(s, e)[i] = s[i]
         /\ Append(s, e)[Len(s) + 1] = e
  OBVIOUS

\* Head and Tail, as a queue is consumed from its front.
LEMMA QueueFacts ==
  ASSUME NEW S, NEW s \in Seq(S), s # <<>>
  PROVE  /\ Len(s) \in Nat \ {0}
         /\ Head(s) \in S /\ Head(s) = s[1]
         /\ Tail(s) \in Seq(S)
         /\ Len(Tail(s)) = Len(s) - 1
         /\ \A i \in 1..(Len(s) - 1) : Tail(s)[i] = s[i + 1]
  OBVIOUS

\* Two sequences one after the other.
LEMMA ConcatFacts ==
  ASSUME NEW S, NEW s \in Seq(S), NEW t \in Seq(S)
  PROVE  /\ s \o t \in Seq(S)
         /\ Len(s \o t) = Len(s) + Len(t) /\ Len(s) \in Nat /\ Len(t) \in Nat
         /\ \A i \in 1..Len(s) : (s \o t)[i] = s[i]
         /\ \A i \in 1..Len(t) : (s \o t)[Len(s) + i] = t[i]
  OBVIOUS

-------------------------------------------------------------------------------
(***************************************************************************)
(* Linked runs of blocks.                                                  *)
(***************************************************************************)
\* A block appended to a linked run that ends in its parent.
LEMMA LinkAppend ==
  ASSUME NEW s \in Seq(Block), NEW n \in Nat, LinkedFrom(s, n), NEW b \in Block,
         num[b] = n + Len(s), s # <<>> => parent[b] = s[Len(s)]
  PROVE  LinkedFrom(Append(s, b), n)
<1> DEFINE t == Append(s, b)
<1>1. /\ t \in Seq(Block) /\ Len(t) = Len(s) + 1 /\ Len(s) \in Nat
      /\ \A i \in 1..Len(s) : t[i] = s[i]
      /\ t[Len(s) + 1] = b
  OBVIOUS
<1>2. s = <<>> <=> Len(s) = 0
  OBVIOUS
<1> HIDE DEF t
<1>3. ASSUME NEW i \in 1..(Len(s) + 1)
      PROVE  num[t[i]] = n + i - 1 /\ (i > 1 => parent[t[i]] = t[i - 1])
  <2>1. CASE i = Len(s) + 1
    <3>1. i > 1 => s # <<>> /\ t[i - 1] = s[Len(s)]
      BY <1>1, <1>2, <2>1
    <3>2. n + i - 1 = n + Len(s)
      BY <1>1, <2>1
    <3> QED BY <1>1, <2>1, <3>1, <3>2
  <2>2. CASE i \in 1..Len(s)
    <3>1. t[i] = s[i] /\ (i > 1 => t[i - 1] = s[i - 1])
      BY <1>1, <2>2
    <3> QED BY <2>2, <3>1 DEF LinkedFrom
  <2> QED BY <1>1, <2>1, <2>2
<1>4. LinkedFrom(t, n)
  BY <1>1, <1>3 DEF LinkedFrom
<1> QED BY <1>4 DEF t

\* Two linked runs, the second of which goes on where the first ends.
LEMMA LinkConcat ==
  ASSUME NEW s \in Seq(Block), NEW n \in Nat, LinkedFrom(s, n),
         NEW t \in Seq(Block), t # <<>>, LinkedFrom(t, n + Len(s)),
         s # <<>> => parent[t[1]] = s[Len(s)]
  PROVE  LinkedFrom(s \o t, n)
<1> DEFINE u == s \o t
<1>1. /\ u \in Seq(Block) /\ Len(u) = Len(s) + Len(t) /\ Len(s) \in Nat /\ Len(t) \in Nat
      /\ \A i \in 1..Len(s) : u[i] = s[i]
      /\ \A i \in 1..Len(t) : u[Len(s) + i] = t[i]
  BY ConcatFacts
<1>2. s = <<>> <=> Len(s) = 0
  OBVIOUS
<1> HIDE DEF u
<1>3. ASSUME NEW i \in 1..Len(u)
      PROVE  num[u[i]] = n + i - 1 /\ (i > 1 => parent[u[i]] = u[i - 1])
  <2>1. CASE i <= Len(s)
    <3>1. i \in 1..Len(s) /\ (i > 1 => i - 1 \in 1..Len(s))
      BY <1>1, <2>1
    <3>2. u[i] = s[i] /\ (i > 1 => u[i - 1] = s[i - 1])
      BY <1>1, <3>1
    <3> QED BY <3>1, <3>2 DEF LinkedFrom
  <2>2. CASE i > Len(s)
    <3>1. PICK q \in 1..Len(t) : i = Len(s) + q
      <4>1. i - Len(s) \in 1..Len(t) /\ i = Len(s) + (i - Len(s))
        BY <1>1, <2>2
      <4> QED BY <4>1
    <3>2. u[i] = t[q] /\ num[t[q]] = n + Len(s) + q - 1
      BY <1>1, <3>1 DEF LinkedFrom
    <3>3. n + Len(s) + q - 1 = n + i - 1
      BY <1>1, <3>1
    <3>4. ASSUME i > 1 PROVE parent[u[i]] = u[i - 1]
      <4>1. CASE q = 1
        <5>1. i - 1 = Len(s) /\ Len(s) \in 1..Len(s) /\ s # <<>>
          BY <1>1, <1>2, <3>1, <3>4, <4>1
        <5> QED BY <1>1, <3>2, <4>1, <5>1
      <4>2. CASE q > 1
        <5>1. q - 1 \in 1..Len(t) /\ i - 1 = Len(s) + (q - 1)
          BY <1>1, <3>1, <4>2
        <5>2. u[Len(s) + (q - 1)] = t[q - 1]
          BY <1>1, <5>1
        <5>3. parent[t[q]] = t[q - 1]
          BY <4>2 DEF LinkedFrom
        <5> QED BY <3>2, <5>1, <5>2, <5>3
      <4> QED BY <1>1, <4>1, <4>2
    <3> QED BY <3>2, <3>3, <3>4
  <2> QED BY <1>1, <2>1, <2>2
<1>4. LinkedFrom(u, n)
  BY <1>3 DEF LinkedFrom
<1> QED BY <1>4 DEF u

\* Segments and prefixes of linked runs are linked.
LEMMA LinkSegment ==
  ASSUME NEW s \in Seq(Block), NEW n \in Nat, LinkedFrom(s, n),
         NEW t \in Seq(Block), NEW d \in Nat, d + Len(t) <= Len(s),
         \A i \in 1..Len(t) : t[i] = s[d + i]
  PROVE  LinkedFrom(t, n + d)
<1>1. Len(s) \in Nat /\ Len(t) \in Nat
  OBVIOUS
<1>2. ASSUME NEW i \in 1..Len(t)
      PROVE  num[t[i]] = n + d + i - 1 /\ (i > 1 => parent[t[i]] = t[i - 1])
  <2>1. d + i \in 1..Len(s) /\ n + (d + i) - 1 = n + d + i - 1
    BY <1>1
  <2>2. t[i] = s[d + i] /\ num[s[d + i]] = n + (d + i) - 1
    BY <2>1 DEF LinkedFrom
  <2>3. ASSUME i > 1 PROVE parent[t[i]] = t[i - 1]
    <3>1. i - 1 \in 1..Len(t) /\ d + i > 1 /\ d + (i - 1) = (d + i) - 1
      BY <1>1, <2>3
    <3>2. t[i - 1] = s[d + (i - 1)]
      BY <3>1
    <3>3. parent[s[d + i]] = s[(d + i) - 1]
      BY <2>1, <3>1 DEF LinkedFrom
    <3> QED BY <2>2, <3>1, <3>2, <3>3
  <2> QED BY <2>1, <2>2, <2>3
<1> QED BY <1>2 DEF LinkedFrom

-------------------------------------------------------------------------------
(***************************************************************************)
(* The chains and the session.                                             *)
(***************************************************************************)
\* Cutting a chain at a height leaves a chain.
LEMMA PrefixIsChain ==
  ASSUME NEW s \in Seq(Block), IsChain(s), NEW n \in Nat, n <= Len(s)
  PROVE  IsChain(Prefix(s, n))
<1>1. /\ Prefix(s, n) \in Seq(Block)
      /\ Len(Prefix(s, n)) = n
      /\ \A i \in 1..n : Prefix(s, n)[i] = s[i]
  BY PrefixFacts
<1>2. ASSUME NEW i \in 1..n
      PROVE  /\ num[Prefix(s, n)[i]] = 1 + i - 1
             /\ i > 1 => parent[Prefix(s, n)[i]] = Prefix(s, n)[i - 1]
  <2>1. i \in 1..Len(s) /\ Prefix(s, n)[i] = s[i]
    BY <1>1
  <2>2. i > 1 => Prefix(s, n)[i - 1] = s[i - 1]
    BY <1>1
  <2> QED BY <2>1, <2>2 DEF IsChain, LinkedFrom
<1> QED BY <1>1, <1>2 DEF IsChain, LinkedFrom

\* A sequence that has a chain's blocks at its heights is a chain.
LEMMA CopyIsChain ==
  ASSUME NEW s \in Seq(Block), NEW t \in Seq(Block), IsChain(t),
         Len(s) <= Len(t), \A i \in 1..Len(s) : s[i] = t[i]
  PROVE  IsChain(s)
<1>1. ASSUME NEW i \in 1..Len(s)
      PROVE  num[s[i]] = 1 + i - 1 /\ (i > 1 => parent[s[i]] = s[i - 1])
  <2>1. i \in 1..Len(t) /\ s[i] = t[i]
    OBVIOUS
  <2>2. i > 1 => i - 1 \in 1..Len(s)
    OBVIOUS
  <2> QED BY <2>1, <2>2 DEF IsChain, LinkedFrom
<1> QED BY <1>1 DEF IsChain, LinkedFrom

\* Blocks are linked by hash: two linked runs that share a block share every
\* block below it.
LEMMA SharedBelow ==
  ASSUME NEW s \in Seq(Block), NEW m \in Nat, LinkedFrom(s, m),
         NEW t \in Seq(Block), NEW n \in Nat, LinkedFrom(t, n),
         NEW i \in 1..Len(s), NEW l \in 1..Len(t), s[i] = t[l],
         NEW j \in 1..Len(s), j <= i, NEW h \in 1..Len(t), l - i = h - j
  PROVE  s[j] = t[h]
<1>1. PICK d \in Int : d = l - i
  OBVIOUS
<1>2. /\ i \in Nat /\ j \in Nat /\ 1 <= j /\ i <= Len(s) /\ 1 <= i + d /\ i + d <= Len(t)
       /\ 1 <= j + d /\ i + d = l /\ j + d = h
  BY <1>1
<1> DEFINE T == {k \in 0..i : j <= k /\ s[k] # t[k + d]}
<1> SUFFICES ASSUME T # {} PROVE FALSE
  <2>1. SUFFICES ASSUME s[j] # t[j + d] PROVE T # {}
    BY <1>2
  <2>2. j \in 0..i /\ j <= j
    BY <1>2
  <2> QED BY <2>1, <2>2
<1>3. T \in SUBSET (0..i)
  OBVIOUS
<1>4. PICK k \in T : \A y \in T : y <= k
  BY <1>3, <1>2, Greatest
<1>5. k \in Nat /\ j <= k /\ k <= i /\ s[k] # t[k + d] /\ k # i
  BY <1>4, <1>2
<1>6. k + 1 \notin T
  BY <1>3, <1>4, <1>5, <1>2
<1>7. s[k + 1] = t[k + 1 + d]
  <2>1. k + 1 \in 0..i /\ j <= k + 1
    BY <1>5, <1>2
  <2>2. s[k + 1] = t[(k + 1) + d]
    BY <1>6, <2>1
  <2> QED BY <2>2
<1>8. parent[s[k + 1]] = s[k]
  <2> DEFINE p == k + 1
  <2>1. p \in 1..Len(s) /\ p > 1 /\ p - 1 = k
    BY <1>5, <1>2
  <2> HIDE DEF p
  <2>2. parent[s[p]] = s[p - 1]
    BY <2>1 DEF LinkedFrom
  <2> QED BY <2>1, <2>2 DEF p
<1>9. parent[t[k + 1 + d]] = t[k + d]
  <2> DEFINE p == k + 1 + d
  <2>1. p \in 1..Len(t) /\ p > 1 /\ p - 1 = k + d
    BY <1>5, <1>2
  <2> HIDE DEF p
  <2>2. parent[t[p]] = t[p - 1]
    BY <2>1 DEF LinkedFrom
  <2> QED BY <2>1, <2>2 DEF p
<1> QED BY <1>5, <1>7, <1>8, <1>9

\* Two chains that share a block share every block below it.
LEMMA ChainsShareBelow ==
  ASSUME NEW s \in Seq(Block), IsChain(s), NEW t \in Seq(Block), IsChain(t),
         NEW i \in Nat, i <= Len(s), i <= Len(t), s[i] = t[i],
         NEW j \in 1..i
  PROVE  s[j] = t[j]
<1>1. LinkedFrom(s, 1) /\ LinkedFrom(t, 1) /\ 1 \in Nat
  BY DEF IsChain
<1>2. /\ i \in 1..Len(s) /\ i \in 1..Len(t) /\ j \in 1..Len(s) /\ j \in 1..Len(t)
      /\ j <= i /\ i - i = j - j
  OBVIOUS
<1> QED BY <1>1, <1>2, SharedBelow
===============================================================================
