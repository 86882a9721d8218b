------------------------ MODULE BlockProcessorProofs ------------------------
(***************************************************************************)
(* Safety of BlockProcessor for every host chain, set of submissions and   *)
(* sources, cache and queue size, and number of reorganisations.           *)
(***************************************************************************)
EXTENDS BlockProcessor, HostChainProofs

-------------------------------------------------------------------------------
(***************************************************************************)
(* The inductive invariant.                                                *)
(***************************************************************************)
\* The host and the stored blocks are chains, and the notification in hand goes
\* on from the stored one.
ChainPart ==
  /\ IsChain(host) /\ IsChain(stored) /\ LinkedFrom(feed, Len(stored) + 1)
  /\ (feed # <<>> /\ stored # <<>>) => parent[feed[1]] = stored[Len(stored)]
  /\ Len(results) = Len(stored)
  /\ pc # "idle" => feed # <<>>

\* A request in flight has a key and, until it is answered or dropped, no block.
RequestPart ==
  \A r \in Requester :
    /\ stage[r] # "idle" => key[r] \in Key
    /\ stage[r] = "idle" => answer[r] = 0
    /\ block[r] # "none" => stage[r] \in {"answered", "dropped"}

\* The processor's request is for the submission of the block in hand.
SubmissionPart ==
  /\ pc \in {"idle", "parent"} => stage[Node] = "idle"
  /\ pc = "blobs" => Submission[Block0] # NoKey
  /\ (pc \in {"blobs", "oracle", "alias"} /\ stage[Node] # "idle") =>
       key[Node] = Submission[Block0]
  /\ (pc \in {"oracle", "alias"} /\ Submission[Block0] # NoKey) =>
       block[Node] \in {"data", "empty"}

\* Blobs n for key k: all of them, or some source was short of them.
Complete(k, n) == n = Count[k] \/ k \in short

\* What is cached and answered is complete, and what is decoded from it is what
\* was published.
BlobPart ==
  /\ \A i \in 1..Len(cache) : Complete(cache[i][1], cache[i][2])
  /\ \A r \in Requester :
       /\ (stage[r] = "answered" /\ key[r] \notin Plain) => Complete(key[r], answer[r])
       /\ block[r] = "data" => key[r] \notin Plain \cup Garbled
       /\ block[r] = "empty" => key[r] \in Plain \cup Garbled \cup short

\* Address a is deployed by one of the first n blocks of s.
Deployed(s, n, a) == \E i \in 1..n : a \in Deploys[s[i]]

Contracts == {a \in Address : \E b \in Block : a \in Deploys[b]}

\* The senders that a lookup finds to be contracts are those of the block's own
\* chain, and the cache holds nothing but contracts of some fork.
OnChain(s, b) == \E i \in 1..Len(s) : s[i] = b

LookupPart ==
  /\ aliasCache \subseteq Contracts
  /\ IsChain(snapshot)
  /\ pc = "alias" => toCheck \subseteq Senders[Block0]
  /\ (pc = "alias" /\ current) =>
       /\ OnChain(IF oracle = "reth" THEN snapshot ELSE host, Block0)
       /\ toAlias = {a \in Senders[Block0] \ toCheck :
                       Deployed(Append(stored, Block0), Len(stored) + 1, a)}

StoredPart ==
  \A i \in 1..Len(stored) :
    /\ \/ results[i].data = Published(stored[i])
       \/ Submission[stored[i]] \in short
    /\ results[i].current =>
         results[i].alias = {a \in Senders[stored[i]] : Deployed(stored, i, a)}

ProcessorInv == /\ TypeOK /\ ChainPart /\ RequestPart /\ SubmissionPart
                /\ BlobPart /\ LookupPart /\ StoredPart
-------------------------------------------------------------------------------
(***************************************************************************)
(* The cache and the requests.                                             *)
(***************************************************************************)
\* The entries left when one is taken out.
Without(s, i) == SubSeq(s, 1, i - 1) \o SubSeq(s, i + 1, Len(s))

\* They are entries of the cache, one fewer.
LEMMA RemovedFacts ==
  ASSUME NEW S, NEW s \in Seq(S), NEW i \in 1..Len(s)
  PROVE  /\ Without(s, i) \in Seq(S) /\ Len(Without(s, i)) = Len(s) - 1
         /\ \A j \in 1..Len(Without(s, i)) :
              \E l \in 1..Len(s) : Without(s, i)[j] = s[l]
<1> DEFINE a == SubSeq(s, 1, i - 1)
           b == SubSeq(s, i + 1, Len(s))
<1>1. PICK n \in Nat : n = Len(s)
  OBVIOUS
<1>2. i \in Nat /\ 1 <= i /\ i <= n /\ i - 1 \in Nat /\ i + 1 \in Nat \ {0}
  BY <1>1
<1>3. /\ a \in Seq(S) /\ Len(a) = i - 1
      /\ \A j \in 1..(i - 1) : a[j] = s[j]
  <2>1. /\ SubSeq(s, 1, i - 1) \in Seq(S) /\ Len(SubSeq(s, 1, i - 1)) = (i - 1) - 1 + 1
        /\ \A j \in 1..((i - 1) - 1 + 1) : SubSeq(s, 1, i - 1)[j] = s[1 + j - 1]
    <3>1. 1 \in Nat \ {0} /\ i - 1 <= Len(s) /\ 1 <= (i - 1) + 1
      BY <1>1, <1>2
    <3> QED BY <1>2, <3>1, SegmentFacts
  <2>2. (i - 1) - 1 + 1 = i - 1
    BY <1>2
  <2>3. ASSUME NEW j \in 1..(i - 1) PROVE a[j] = s[j]
    <3>1. 1 + j - 1 = j
      OBVIOUS
    <3> QED BY <2>1, <2>2, <3>1
  <2> QED BY <2>1, <2>2, <2>3
<1>4. /\ b \in Seq(S) /\ Len(b) = n - i
      /\ \A j \in 1..(n - i) : b[j] = s[i + j]
  <2>1. /\ SubSeq(s, i + 1, n) \in Seq(S) /\ Len(SubSeq(s, i + 1, n)) = n - (i + 1) + 1
        /\ \A j \in 1..(n - (i + 1) + 1) : SubSeq(s, i + 1, n)[j] = s[i + 1 + j - 1]
    <3>1. n <= Len(s) /\ i + 1 <= n + 1
      BY <1>1, <1>2
    <3> QED BY <1>1, <1>2, <3>1, SegmentFacts
  <2>2. n - (i + 1) + 1 = n - i
    BY <1>1, <1>2
  <2>3. ASSUME NEW j \in 1..(n - i) PROVE b[j] = s[i + j]
    <3>1. i + 1 + j - 1 = i + j
      BY <1>2
    <3> QED BY <1>1, <2>1, <2>2, <3>1
  <2> QED BY <1>1, <2>1, <2>2, <2>3
<1> HIDE DEF a, b
<1>5. /\ a \o b \in Seq(S) /\ Len(a \o b) = Len(a) + Len(b)
      /\ \A j \in 1..Len(a) : (a \o b)[j] = a[j]
      /\ \A j \in 1..Len(b) : (a \o b)[Len(a) + j] = b[j]
  <2>1. a \in Seq(S) /\ b \in Seq(S)
    BY <1>3, <1>4
  <2> QED BY ONLY <2>1, ConcatFacts
<1>6. Len(a \o b) = n - 1
  BY <1>1, <1>2, <1>3, <1>4, <1>5
<1>7. ASSUME NEW j \in 1..Len(a \o b) PROVE \E l \in 1..Len(s) : (a \o b)[j] = s[l]
  <2>1. CASE j <= i - 1
    <3>1. j \in 1..(i - 1) /\ j \in 1..Len(s)
      BY <1>1, <1>2, <1>6, <2>1
    <3> QED BY <1>3, <1>5, <3>1
  <2>2. CASE j > i - 1
    <3>1. PICK q \in 1..(n - i) : j = (i - 1) + q
      <4>1. j - (i - 1) \in 1..(n - i) /\ j = (i - 1) + (j - (i - 1))
        BY <1>1, <1>2, <1>6, <2>2
      <4> QED BY <4>1
    <3>2. (a \o b)[j] = b[q] /\ b[q] = s[i + q]
      BY <1>3, <1>4, <1>5, <3>1
    <3>3. i + q \in 1..Len(s)
      BY <1>1, <1>2, <3>1
    <3> QED BY <3>2, <3>3
  <2> QED BY <1>2, <1>6, <2>1, <2>2
<1> QED BY <1>1, <1>5, <1>6, <1>7 DEF Without, a, b

\* The cache after a hit or a fetch holds the touched entry and entries it had,
\* and never more than its size.
LEMMA TouchFacts ==
  ASSUME cache \in Seq(Key \X Nat), Len(cache) <= CacheSize, NEW k \in Key, NEW n \in Nat
  PROVE  /\ Touch(k, n) \in Seq(Key \X Nat) /\ Len(Touch(k, n)) <= CacheSize
         /\ \A i \in 1..Len(Touch(k, n)) :
              \/ Touch(k, n)[i] = <<k, n>>
              \/ \E j \in 1..Len(cache) : Touch(k, n)[i] = cache[j]
<1> DEFINE S == Key \X Nat
           o == Others(k)
           kept == IF Len(o) = CacheSize THEN Tail(o) ELSE o
<1>1. CacheSize \in Nat \ {0}
  BY BlobCacherAssumption
<1>2. /\ o \in Seq(S) /\ Len(o) <= CacheSize
      /\ \A i \in 1..Len(o) : \E j \in 1..Len(cache) : o[i] = cache[j]
  <2>1. CASE Cached(k)
    <3>1. PICK i \in 1..Len(cache) : i = CHOOSE j \in 1..Len(cache) : cache[j][1] = k
      <4>1. (CHOOSE j \in 1..Len(cache) : cache[j][1] = k) \in 1..Len(cache)
        BY <2>1 DEF Cached
      <4> QED BY <4>1
    <3>2. o = Without(cache, i)
      BY <2>1, <3>1 DEF Others, Without
    <3>3. cache \in Seq(S)
      OBVIOUS
    <3> HIDE DEF S, o
    <3>4. /\ o \in Seq(S) /\ Len(o) = Len(cache) - 1
          /\ \A j \in 1..Len(o) : \E l \in 1..Len(cache) : o[j] = cache[l]
      BY ONLY <3>2, <3>3, i \in 1..Len(cache), RemovedFacts
    <3>5. Len(cache) \in Nat
      BY <3>3
    <3> QED BY <1>1, <3>4, <3>5
  <2>2. CASE ~Cached(k)
    BY <2>2 DEF Others
  <2> QED BY <2>1, <2>2
<1>3. <<k, n>> \in S
  OBVIOUS
<1>4. Touch(k, n) = Append(kept, <<k, n>>)
  BY DEF Touch
<1> HIDE DEF S, o
<1>5. /\ kept \in Seq(S) /\ Len(kept) < CacheSize /\ Len(kept) \in Nat
      /\ \A i \in 1..Len(kept) : \E j \in 1..Len(o) : kept[i] = o[j]
  <2>1. CASE Len(o) = CacheSize
    <3>1. o # <<>> /\ Len(o) \in Nat
      BY <1>1, <1>2, <2>1
    <3>2. /\ Tail(o) \in Seq(S) /\ Len(Tail(o)) = Len(o) - 1
          /\ \A i \in 1..(Len(o) - 1) : Tail(o)[i] = o[i + 1]
      BY <1>2, <3>1, QueueFacts
    <3>3. ASSUME NEW i \in 1..(Len(o) - 1) PROVE i + 1 \in 1..Len(o)
      BY <3>1
    <3> QED BY <1>1, <2>1, <3>1, <3>2, <3>3
  <2>2. CASE Len(o) # CacheSize
    BY <1>1, <1>2, <2>2
  <2> QED BY <2>1, <2>2
<1> HIDE DEF kept
<1> DEFINE e == <<k, n>>
           t == Append(kept, e)
<1> HIDE DEF e
<1>6. /\ t \in Seq(S) /\ Len(t) = Len(kept) + 1
      /\ \A i \in 1..Len(kept) : t[i] = kept[i]
      /\ t[Len(kept) + 1] = e
  BY <1>3, <1>5, AppendFacts DEF e
<1> HIDE DEF t
<1>7. Len(t) <= CacheSize
  BY <1>1, <1>5, <1>6
<1>8. ASSUME NEW i \in 1..Len(t)
      PROVE  t[i] = e \/ \E j \in 1..Len(cache) : t[i] = cache[j]
  <2>1. CASE i = Len(kept) + 1
    BY <1>6, <2>1
  <2>2. CASE i \in 1..Len(kept)
    <3>1. PICK j \in 1..Len(o) : kept[i] = o[j]
      BY <1>5, <2>2
    <3> QED BY <1>2, <1>6, <2>2, <3>1
  <2> QED BY <1>5, <1>6, <2>1, <2>2
<1> QED BY <1>4, <1>6, <1>7, <1>8 DEF S, e, t

RequestInv == BlobTypeOK /\ RequestPart /\ BlobPart

\* What the step of one request leaves of the others, and of itself.
RequestMove ==
  /\ key' = key /\ short \subseteq short'
  /\ \A q \in Requester : /\ stage[q] = "idle" <=> stage'[q] = "idle"
                          /\ block[q] # "none" => block'[q] = block[q]

\* The types of a request.
LEMMA RequestTypes ==
  ASSUME RequestInv, NEW r \in Requester
  PROVE  /\ stage[r] # "idle" =>
              key[r] \in Key /\ Count[key[r]] \in Nat \ {0} /\ Needs[key[r]] <= Count[key[r]]
         /\ key[r] \in Key \cup {NoKey} /\ answer[r] \in Nat
         /\ attempt[r] \in 0..FetchRetries /\ pending[r] \in SUBSET AsyncSource
  BY BlobCacherAssumption DEF RequestInv, BlobTypeOK, RequestPart

\* An answer, complete unless a source was short of blobs, reaches the cache
\* and its requester.
LEMMA RespondStep ==
  ASSUME RequestInv, NEW r \in Requester, NEW n \in Nat, key[r] \in Key,
         stage[r] \notin {"idle", "answered", "dropped"},
         Respond(r, n), cache' = Touch(key[r], n),
         short' \in {short, short \cup {key[r]}}, Complete(key[r], n)',
         UNCHANGED <<serving, key, attempt, block>>
  PROVE  RequestInv' /\ RequestMove
<1> USE DEF RequestInv
<1>1. /\ cache' \in Seq(Key \X Nat) /\ Len(cache') <= CacheSize
      /\ \A i \in 1..Len(cache') : \/ cache'[i] = <<key[r], n>>
                                   \/ \E j \in 1..Len(cache) : cache'[i] = cache[j]
  <2>1. PICK k \in Key : k = key[r]
    OBVIOUS
  <2>2. cache \in Seq(Key \X Nat) /\ Len(cache) <= CacheSize /\ cache' = Touch(k, n)
    BY <2>1 DEF BlobTypeOK
  <2>3. /\ cache' \in Seq(Key \X Nat) /\ Len(cache') <= CacheSize
        /\ \A i \in 1..Len(cache') : \/ cache'[i] = <<k, n>>
                                     \/ \E j \in 1..Len(cache) : cache'[i] = cache[j]
    BY ONLY <2>2, TouchFacts, k \in Key, n \in Nat
  <2> QED BY <2>1, <2>3
<1>2. BlobTypeOK'
  BY <1>1 DEF BlobTypeOK, Respond
<1>3. RequestMove
  BY DEF RequestMove, RequestPart, Respond, BlobTypeOK
<1>4. RequestPart'
  BY DEF RequestPart, Respond, BlobTypeOK
<1>5. \A k, m : Complete(k, m) => Complete(k, m)'
  BY DEF Complete
<1>6. \A i \in 1..Len(cache') : Complete(cache[i][1], cache[i][2])'
  <2> TAKE i \in 1..Len(cache')
  <2>1. CASE cache'[i] = <<key[r], n>>
    BY <2>1 DEF Complete
  <2>2. ASSUME NEW j \in 1..Len(cache), cache'[i] = cache[j]
        PROVE  Complete(cache[i][1], cache[i][2])'
    <3>1. Complete(cache[j][1], cache[j][2])
      BY DEF BlobPart
    <3> QED BY <2>2, <3>1 DEF Complete
  <2> QED BY <1>1, <2>1, <2>2
<1>7. ASSUME NEW q \in Requester
      PROVE  /\ (stage'[q] = "answered" /\ key'[q] \notin Plain) =>
                  Complete(key[q], answer[q])'
             /\ block'[q] = "data" => key'[q] \notin Plain \cup Garbled
             /\ block'[q] = "empty" => key'[q] \in Plain \cup Garbled \cup short'
  <2>1. CASE q = r
    <3>1. stage'[q] = "answered" /\ answer'[q] = n /\ block'[q] = "none"
      BY <2>1 DEF Respond, BlobTypeOK, RequestPart
    <3> QED BY <2>1, <3>1 DEF Complete
  <2>2. CASE q # r
    <3>1. stage'[q] = stage[q] /\ answer'[q] = answer[q]
      BY <2>2 DEF Respond, BlobTypeOK
    <3>2. /\ (stage[q] = "answered" /\ key[q] \notin Plain) => Complete(key[q], answer[q])
          /\ block[q] = "data" => key[q] \notin Plain \cup Garbled
          /\ block[q] = "empty" => key[q] \in Plain \cup Garbled \cup short
      BY DEF BlobPart
    <3>3. short \subseteq short'
      OBVIOUS
    <3> QED BY <3>1, <3>2, <3>3 DEF Complete
  <2> QED BY <2>1, <2>2
<1>8. BlobPart'
  BY <1>6, <1>7 DEF BlobPart
<1> QED BY <1>2, <1>3, <1>4, <1>8

\* The same for a source's answer.
LEMMA FoundStep ==
  ASSUME RequestInv, NEW r \in Requester, NEW n \in Nat, stage[r] \in {"sync", "race"},
         n <= Count[key[r]], Found(r, n)
  PROVE  RequestInv' /\ RequestMove
<1>1. key[r] \in Key /\ Count[key[r]] \in Nat
  BY RequestTypes
<1>2. Complete(key[r], n)'
  <2>1. CASE n < Count[key[r]]
    BY <2>1 DEF Found, Complete
  <2>2. CASE ~(n < Count[key[r]])
    <3>1. n = Count[key[r]]
      BY <1>1, <2>2
    <3> QED BY <3>1 DEF Found, Complete
  <2> QED BY <2>1, <2>2
<1>3. short' \in {short, short \cup {key[r]}}
  BY DEF Found
<1> QED BY <1>1, <1>2, <1>3, RespondStep DEF Found

\* Steps of a request that bring no answer.
LEMMA WaitStep ==
  ASSUME RequestInv, NEW r \in Requester, BlobTypeOK',
         stage[r] \notin {"idle", "answered", "dropped"},
         NEW st \in {"lookup", "sync", "race", "dropped"},
         stage' = [stage EXCEPT ![r] = st],
         UNCHANGED <<serving, cache, key, answer, block, short>>
  PROVE  RequestInv' /\ RequestMove
<1> USE DEF RequestInv
<1>1. \A q \in Requester : stage'[q] = IF q = r THEN st ELSE stage[q]
  BY DEF BlobTypeOK
<1>2. RequestMove
  BY <1>1 DEF RequestMove
<1>3. RequestPart'
  BY <1>1 DEF RequestPart
<1>4. BlobPart'
  <2>1. \A k, m : Complete(k, m) <=> Complete(k, m)'
    BY DEF Complete
  <2>2. \A i \in 1..Len(cache') : Complete(cache[i][1], cache[i][2])'
    BY <2>1 DEF BlobPart
  <2>3. ASSUME NEW q \in Requester
        PROVE  /\ (stage'[q] = "answered" /\ key'[q] \notin Plain) =>
                    Complete(key[q], answer[q])'
               /\ block'[q] = "data" => key'[q] \notin Plain \cup Garbled
               /\ block'[q] = "empty" => key'[q] \in Plain \cup Garbled \cup short'
    BY <1>1, <2>1 DEF BlobPart
  <2> QED BY <2>2, <2>3 DEF BlobPart
<1> QED BY <1>2, <1>3, <1>4

\* Decoding an answer, or the lack of one.
LEMMA SignetBlockStep ==
  ASSUME RequestInv, NEW r \in Requester, SignetBlock(r)
  PROVE  RequestInv' /\ RequestMove
<1> USE DEF RequestInv
<1>1. key[r] \in Key /\ Count[key[r]] \in Nat \ {0} /\ Needs[key[r]] <= Count[key[r]]
  BY RequestTypes DEF SignetBlock
<1>2. \A q \in Requester \ {r} : block'[q] = block[q]
  BY DEF SignetBlock, BlobTypeOK
<1>3. /\ block'[r] \in {"data", "empty", "missing"}
      /\ block'[r] = "data" => key[r] \notin Plain \cup Garbled
      /\ block'[r] = "empty" => key[r] \in Plain \cup Garbled \cup short
  <2>1. CASE stage[r] = "dropped"
    <3>1. block'[r] = "missing"
      BY <2>1 DEF SignetBlock, BlobTypeOK
    <3> QED BY <3>1
  <2>2. CASE stage[r] = "answered" /\ Decodes(key[r], answer[r])
    <3>1. block'[r] = "data"
      BY <2>2 DEF SignetBlock, BlobTypeOK
    <3> QED BY <2>2, <3>1 DEF Decodes
  <2>3. CASE stage[r] = "answered" /\ ~Decodes(key[r], answer[r])
    <3>1. block'[r] = "empty"
      BY <2>3 DEF SignetBlock, BlobTypeOK
    <3>2. key[r] \notin Plain => Complete(key[r], answer[r])
      BY <2>3 DEF BlobPart
    <3>3. key[r] \in Plain \cup Garbled \cup short
      BY <1>1, <2>3, <3>2 DEF Decodes, Complete
    <3> QED BY <3>1, <3>3
  <2> QED BY <2>1, <2>2, <2>3 DEF SignetBlock
<1>4. BlobTypeOK'
  BY <1>2, <1>3 DEF BlobTypeOK, SignetBlock
<1>5. RequestMove
  BY <1>2 DEF RequestMove, SignetBlock
<1>6. RequestPart'
  BY <1>2 DEF RequestPart, SignetBlock
<1>7. BlobPart'
  <2>1. \A k, m : Complete(k, m) <=> Complete(k, m)'
    BY DEF Complete, SignetBlock
  <2>2. \A i \in 1..Len(cache') : Complete(cache[i][1], cache[i][2])'
    BY <2>1 DEF BlobPart, SignetBlock
  <2>3. ASSUME NEW q \in Requester
        PROVE  /\ (stage'[q] = "answered" /\ key'[q] \notin Plain) =>
                    Complete(key[q], answer[q])'
               /\ block'[q] = "data" => key'[q] \notin Plain \cup Garbled
               /\ block'[q] = "empty" => key'[q] \in Plain \cup Garbled \cup short'
    <3>1. /\ block'[q] = "data" => key[q] \notin Plain \cup Garbled
          /\ block'[q] = "empty" => key[q] \in Plain \cup Garbled \cup short
      BY <1>2, <1>3 DEF BlobPart
    <3> QED BY <2>1, <3>1 DEF BlobPart, SignetBlock
  <2> QED BY <2>2, <2>3 DEF BlobPart
<1> QED BY <1>4, <1>5, <1>6, <1>7

\* Every step of the blob cacher.
LEMMA BlobStepFacts ==
  ASSUME RequestInv, NEW r \in Requester, BlobStep(r)
  PROVE  RequestInv' /\ RequestMove
<1>1. FetchRetries \in Nat \ {0}
  BY BlobCacherAssumption
<1>2. CASE Spawn(r)
  BY <1>2, WaitStep DEF Spawn, RequestInv, BlobTypeOK
<1>3. CASE CacheHit(r)
  <2>1. PICK i \in 1..Len(cache) : i = CHOOSE j \in 1..Len(cache) : cache[j][1] = key[r]
    <3>1. (CHOOSE j \in 1..Len(cache) : cache[j][1] = key[r]) \in 1..Len(cache)
      BY <1>3 DEF CacheHit, Cached
    <3> QED BY <3>1
  <2>2. cache[i][1] = key[r] /\ CachedBlobs(key[r]) = cache[i][2]
    BY <1>3, <2>1 DEF CacheHit, Cached, CachedBlobs
  <2>3. cache[i] \in Key \X Nat
    BY DEF RequestInv, BlobTypeOK
  <2>4. Complete(key[r], cache[i][2])
    BY <2>2 DEF RequestInv, BlobPart
  <2>5. PICK n \in Nat : n = cache[i][2]
    BY <2>3
  <2>6. key[r] \in Key
    BY <2>2, <2>3
  <2>7. short' = short /\ Complete(key[r], n)'
    BY <1>3, <2>4, <2>5 DEF CacheHit, Complete
  <2>8. /\ Respond(r, n) /\ cache' = Touch(key[r], n) /\ stage[r] = "lookup"
        /\ UNCHANGED <<serving, key, attempt, block>>
    BY <1>3, <2>2, <2>5 DEF CacheHit
  <2> QED BY <2>6, <2>7, <2>8, RespondStep
<1>4. CASE CacheMiss(r)
  <2>1. BlobTypeOK'
    BY <1>1, <1>4 DEF CacheMiss, RequestInv, BlobTypeOK
  <2> QED BY <1>4, <2>1, WaitStep DEF CacheMiss
<1>5. CASE SyncNotFound(r)
  BY <1>5, WaitStep DEF SyncNotFound, RequestInv, BlobTypeOK
<1>6. CASE Retry(r)
  <2>1. BlobTypeOK'
    BY <1>1, <1>6 DEF Retry, RequestInv, BlobTypeOK
  <2> QED BY <1>6, <2>1, WaitStep DEF Retry
<1>7. CASE GiveUp(r)
  BY <1>7, WaitStep DEF GiveUp, RequestInv, BlobTypeOK
<1>8. CASE SyncFound(r)
  <2>1. Count[key[r]] \in Nat
    BY <1>8, RequestTypes DEF SyncFound
  <2> QED BY <1>8, <2>1, FoundStep DEF SyncFound
<1>9. CASE SignetBlock(r)
  BY <1>9, SignetBlockStep
<1>10. ASSUME NEW s \in AsyncSource, Race(r, s)
       PROVE  RequestInv' /\ RequestMove
  <2>1. stage[r] = "race" /\ s \in pending[r]
    BY <1>10 DEF Race
  <2>2. key[r] \in Key /\ Count[key[r]] \in Nat
    BY <2>1, RequestTypes
  <2>3. PICK n \in Returns(s, key[r]) :
          IF n > 0 THEN Found(r, n)
          ELSE /\ pending' = [pending EXCEPT ![r] = @ \ {s}]
               /\ UNCHANGED <<serving, cache, stage, key, attempt, answer, block, short>>
    BY <1>10 DEF Race
  <2>4. n \in 0..Count[key[r]]
    <3>1. Returns(s, key[r]) \in {{Count[key[r]]}, 0..Count[key[r]], {0, Count[key[r]]}}
      BY DEF Returns, RequestInv, BlobTypeOK
    <3> QED BY <2>2, <2>3, <3>1
  <2>5. CASE n > 0
    BY <2>1, <2>2, <2>3, <2>4, <2>5, FoundStep
  <2>6. CASE ~(n > 0)
    <3>1. BlobTypeOK'
      BY <2>3, <2>6 DEF RequestInv, BlobTypeOK
    <3>2. stage' = [stage EXCEPT ![r] = "race"]
      BY <2>1, <2>3, <2>6 DEF RequestInv, BlobTypeOK
    <3> QED BY <2>1, <2>3, <2>6, <3>1, <3>2, WaitStep
  <2> QED BY <2>5, <2>6
<1> QED BY <1>2, <1>3, <1>4, <1>5, <1>6, <1>7, <1>8, <1>9, <1>10 DEF BlobStep, CacheTask

-------------------------------------------------------------------------------
(***************************************************************************)
(* The lookups.                                                            *)
(***************************************************************************)
\* Code that is neither empty nor a delegation is a contract's.
LEMMA CodeFacts ==
  ASSUME NEW s \in Seq(Block), NEW a
  PROVE  /\ AliasedCode(CodeAt(s, a)) <=> Deployed(s, Len(s), a)
         /\ CodeAt(s, a) = "contract" <=> Deployed(s, Len(s), a)
<1>1. ASSUME NEW i \in 1..Len(s), a \in Deploys[s[i]],
             NEW j \in 1..Len(s), a \in Delegates[s[j]]
      PROVE  FALSE
  <2>1. s[i] \in Block /\ s[j] \in Block
    OBVIOUS
  <2>2. \A b, d \in Block : Deploys[b] \cap Delegates[d] = {}
    BY BlockProcessorAssumption
  <2> QED BY <1>1, <2>1, <2>2
<1>2. CASE Deployed(s, Len(s), a)
  <2>1. CodeAt(s, a) = "contract"
    BY <1>1, <1>2 DEF CodeAt, Deployed
  <2> QED BY <1>2, <2>1 DEF AliasedCode
<1>3. CASE ~Deployed(s, Len(s), a)
  <2>1. CodeAt(s, a) \in {"delegation", "empty"}
    BY <1>3 DEF CodeAt, Deployed
  <2> QED BY <1>3, <2>1 DEF AliasedCode
<1> QED BY <1>2, <1>3

\* The types of the processor's state.
LEMMA ProcessorTypes ==
  ASSUME ProcessorInv
  PROVE  /\ host \in Seq(Block) /\ snapshot \in Seq(Block) /\ stored \in Seq(Block)
         /\ feed \in Seq(Block) /\ results \in Seq(Result)
         /\ Len(host) \in Nat /\ Len(stored) \in Nat /\ Len(feed) \in Nat
         /\ feed # <<>> => /\ Block0 \in Block /\ Block0 = feed[1] /\ Len(feed) > 0
                           /\ Submission[Block0] \in Key \cup {NoKey}
                           /\ Senders[Block0] \in SUBSET Address
<1>1. /\ host \in Seq(Block) /\ snapshot \in Seq(Block) /\ stored \in Seq(Block)
      /\ feed \in Seq(Block) /\ results \in Seq(Result)
  BY DEF ProcessorInv, TypeOK, AliasTypeOK
<1>2. Len(host) \in Nat /\ Len(stored) \in Nat /\ Len(feed) \in Nat
  BY <1>1
<1>3. feed # <<>> => Block0 \in Block /\ Block0 = feed[1] /\ Len(feed) > 0
  BY <1>1 DEF Block0
<1>4. feed # <<>> => /\ Submission[Block0] \in Key \cup {NoKey}
                     /\ Senders[Block0] \in SUBSET Address
  BY <1>3, BlockProcessorAssumption
<1> QED BY <1>1, <1>2, <1>3, <1>4

\* The chain of the block in hand: the stored blocks, then the block.
LEMMA OwnChain ==
  ASSUME ProcessorInv, feed # <<>>
  PROVE  /\ num[Block0] = Len(stored) + 1
         /\ IsChain(Append(stored, Block0))
<1>1. /\ stored \in Seq(Block) /\ Block0 \in Block /\ Block0 = feed[1]
      /\ Len(stored) \in Nat /\ Len(feed) \in Nat /\ Len(feed) > 0
  BY ProcessorTypes
<1>2. num[Block0] = Len(stored) + 1
  <2>1. 1 \in 1..Len(feed)
    BY <1>1
  <2>2. num[feed[1]] = Len(stored) + 1 + 1 - 1
    BY <2>1 DEF ProcessorInv, ChainPart, LinkedFrom
  <2> QED BY <1>1, <2>2
<1>3. stored # <<>> => parent[Block0] = stored[Len(stored)]
  BY <1>1 DEF ProcessorInv, ChainPart
<1>4. num[Block0] = 1 + Len(stored) /\ LinkedFrom(stored, 1)
  BY <1>1, <1>2 DEF ProcessorInv, ChainPart, IsChain
<1>5. LinkedFrom(Append(stored, Block0), 1)
  BY <1>1, <1>3, <1>4, LinkAppend
<1> QED BY <1>2, <1>5 DEF IsChain

\* While the block in hand is on the chain an oracle reads, the oracle finds
\* for a sender what the block's own chain has, whatever that chain has above
\* it and whatever is cached.
LEMMA LookupFacts ==
  ASSUME ProcessorInv, feed # <<>>, NEW a \in Senders[Block0],
         OnChain(IF oracle = "reth" THEN snapshot ELSE host, Block0)
  PROVE  ShouldAlias(a) <=> Deployed(Append(stored, Block0), Len(stored) + 1, a)
<1> DEFINE h == IF oracle = "reth" THEN snapshot ELSE host
           own == Append(stored, Block0)
           m == Len(stored) + 1
<1>1. /\ h \in Seq(Block) /\ stored \in Seq(Block) /\ Block0 \in Block
      /\ Len(stored) \in Nat /\ Senders[Block0] \in SUBSET Address
  BY ProcessorTypes
<1>2. /\ own \in Seq(Block) /\ Len(own) = m /\ own[m] = Block0
  BY <1>1
<1>3. IsChain(own) /\ num[Block0] = m
  BY OwnChain
<1>4. IsChain(h)
  BY DEF ProcessorInv, ChainPart, LookupPart
<1>5. PICK i \in 1..Len(h) : h[i] = Block0
  BY DEF OnChain
<1>6. m \in Nat \ {0} /\ Len(h) \in Nat
  BY <1>1
<1> HIDE DEF h, own, m
<1>7. i = m
  <2>1. num[h[i]] = 1 + i - 1
    BY <1>4 DEF IsChain, LinkedFrom
  <2> QED BY <1>3, <1>5, <1>6, <2>1
<1>8. ASSUME NEW j \in 1..m PROVE h[j] = own[j]
  <2>1. /\ h \in Seq(Block) /\ own \in Seq(Block) /\ m \in Nat
        /\ m <= Len(h) /\ m <= Len(own) /\ h[m] = own[m] /\ j \in 1..m
    BY <1>1, <1>2, <1>5, <1>6, <1>7
  <2> QED BY ONLY <1>3, <1>4, <2>1, ChainsShareBelow
<1>9. Deployed(own, m, a) => Deployed(h, Len(h), a)
  BY <1>5, <1>6, <1>7, <1>8 DEF Deployed
<1>10. AliasedCode(CodeAt(h, a)) <=> Deployed(h, Len(h), a)
  BY <1>1, CodeFacts
<1>11. ShouldAlias(a) => \E d \in Block : a \in Deploys[d]
  <2>1. Deployed(h, Len(h), a) => \E d \in Block : a \in Deploys[d]
    BY <1>1 DEF Deployed
  <2>2. a \in aliasCache => \E d \in Block : a \in Deploys[d]
    BY DEF ProcessorInv, LookupPart, Contracts
  <2> QED BY <1>10, <2>1, <2>2 DEF ShouldAlias, h
<1>12. (\E d \in Block : a \in Deploys[d]) => Deployed(own, m, a)
  <2>1. own \in [1..m -> Block]
    BY <1>2
  <2>2. \A b \in Block : \A s \in [1..num[b] -> Block] :
          IsChain(s) /\ s[num[b]] = b =>
            \A x \in Senders[b] : (\E d \in Block : x \in Deploys[d]) =>
                                   \E k \in 1..num[b] : x \in Deploys[s[k]]
    BY BlockProcessorAssumption
  <2> QED BY <1>1, <1>2, <1>3, <2>1, <2>2 DEF Deployed
<1>13. Deployed(h, Len(h), a) => ShouldAlias(a)
  BY <1>10 DEF ShouldAlias, h
<1> QED BY <1>9, <1>11, <1>12, <1>13 DEF own, m

-------------------------------------------------------------------------------
(***************************************************************************)
(* ProcessorInv is inductive.                                              *)
(***************************************************************************)
\* What is deployed up to a height is a matter of the blocks up to it.
LEMMA SameDeployed ==
  ASSUME NEW s, NEW t, NEW n, \A i \in 1..n : s[i] = t[i]
  PROVE  \A a : Deployed(s, n, a) <=> Deployed(t, n, a)
  BY DEF Deployed

\* What the invariant says of the first n stored blocks.
Kept(n) ==
  \A i \in 1..n :
    /\ \/ results[i].data = Published(stored[i])
       \/ Submission[stored[i]] \in short
    /\ results[i].current =>
         results[i].alias = {a \in Senders[stored[i]] : Deployed(stored, i, a)}

\* Stored blocks that are left alone stay as they were.
LEMMA KeptStays ==
  ASSUME NEW n \in Nat, Kept(n), short \subseteq short',
         \A i \in 1..n : stored'[i] = stored[i] /\ results'[i] = results[i]
  PROVE  Kept(n)'
<1>1. ASSUME NEW i \in 1..n
      PROVE  /\ \/ results'[i].data = Published(stored'[i])
                \/ Submission[stored'[i]] \in short'
             /\ results'[i].current =>
                  results'[i].alias = {a \in Senders[stored'[i]] : Deployed(stored', i, a)}
  <2>1. /\ \/ results[i].data = Published(stored[i])
           \/ Submission[stored[i]] \in short
        /\ results[i].current =>
             results[i].alias = {a \in Senders[stored[i]] : Deployed(stored, i, a)}
    BY DEF Kept
  <2>2. \A j \in 1..i : stored'[j] = stored[j]
    OBVIOUS
  <2>3. \A a : Deployed(stored', i, a) <=> Deployed(stored, i, a)
    BY <2>2, SameDeployed
  <2>4. stored'[i] = stored[i] /\ results'[i] = results[i]
    OBVIOUS
  <2> QED BY <2>1, <2>3, <2>4
<1> QED BY <1>1 DEF Kept, Deployed, Published

\* It holds before the first notification.
LEMMA InitHolds == Init => ProcessorInv
<1> SUFFICES ASSUME Init PROVE ProcessorInv
  OBVIOUS
<1> USE DEF Init
<1>1. TypeOK
  <2>1. BlobTypeOK
    BY BlobCacherAssumption DEF BlobInit, BlobTypeOK
  <2>2. AliasTypeOK
    BY DEF AliasInit, AliasTypeOK
  <2>3. reorgs \in 0..MaxReorgs
    BY BlockProcessorAssumption
  <2> QED BY <2>1, <2>2, <2>3 DEF TypeOK
<1>2. \A n : LinkedFrom(<<>>, n)
  BY DEF LinkedFrom
<1>3. ChainPart
  BY <1>2 DEF ChainPart, IsChain
<1>4. RequestPart
  BY DEF RequestPart, BlobInit
<1>5. SubmissionPart
  BY BlockProcessorAssumption DEF SubmissionPart, BlobInit
<1>6. BlobPart
  BY DEF BlobPart, BlobInit
<1>7. LookupPart
  BY <1>2 DEF LookupPart, AliasInit, IsChain
<1>8. StoredPart
  BY DEF StoredPart
<1> QED BY <1>1, <1>3, <1>4, <1>5, <1>6, <1>7, <1>8 DEF ProcessorInv

\* The host moves under the processor.
LEMMA HostMovesStep ==
  ASSUME ProcessorInv, NEW s \in Seq(Block), IsChain(s), HostMoves(s),
         reorgs' \in 0..MaxReorgs
  PROVE  ProcessorInv'
<1> USE DEF HostMoves, blobVars, requestVars, aliasVars
<1>1. TypeOK'
  <2>1. BlobTypeOK' /\ AliasTypeOK'
    BY DEF ProcessorInv, TypeOK, BlobTypeOK, AliasTypeOK
  <2>2. current' \in BOOLEAN
    OBVIOUS
  <2> QED BY <2>1, <2>2 DEF ProcessorInv, TypeOK
<1>2. ChainPart'
  BY DEF ProcessorInv, ChainPart
<1>3. RequestPart' /\ SubmissionPart' /\ BlobPart' /\ StoredPart'
  <2>1. RequestPart'
    BY DEF ProcessorInv, RequestPart
  <2>2. SubmissionPart'
    BY DEF ProcessorInv, SubmissionPart, Block0
  <2>3. BlobPart'
    BY DEF ProcessorInv, BlobPart, Complete
  <2>4. StoredPart'
    BY DEF ProcessorInv, StoredPart, Deployed, Published
  <2> QED BY <2>1, <2>2, <2>3, <2>4
<1>4. LookupPart'
  <2>1. (pc' = "alias" /\ current') =>
          OnChain(IF oracle' = "reth" THEN snapshot' ELSE host', Block0')
    <3> HAVE pc' = "alias" /\ current'
    <3>1. current /\ feed # <<>> /\ \E i \in 1..Len(s) : s[i] = Head(feed)
      BY DEF ProcessorInv, ChainPart
    <3>2. OnChain(IF oracle = "reth" THEN snapshot ELSE host, Block0)
      BY <3>1 DEF ProcessorInv, LookupPart
    <3>3. OnChain(s, Block0)
      BY <3>1 DEF OnChain, Block0
    <3>4. Block0' = Block0
      BY DEF Block0
    <3> QED BY <3>2, <3>3, <3>4
  <2>2. (pc' = "alias" /\ current') =>
          toAlias' = {a \in Senders[Block0'] \ toCheck' :
                       Deployed(Append(stored', Block0'), Len(stored') + 1, a)}
    BY DEF ProcessorInv, LookupPart, Block0
  <2>3. /\ aliasCache' \subseteq Contracts /\ IsChain(snapshot')
        /\ pc' = "alias" => toCheck' \subseteq Senders[Block0']
    BY DEF ProcessorInv, LookupPart, Block0
  <2> QED BY <2>1, <2>2, <2>3 DEF LookupPart, OnChain, Contracts, Deployed
<1> QED BY <1>1, <1>2, <1>3, <1>4 DEF ProcessorInv

\* It grows by a block, or loses some.
LEMMA HostStep == ASSUME ProcessorInv, HostExtend \/ HostReorg PROVE ProcessorInv'
<1>1. host \in Seq(Block) /\ Len(host) \in Nat /\ IsChain(host)
  BY ProcessorTypes DEF ProcessorInv, ChainPart
<1>2. reorgs \in 0..MaxReorgs /\ MaxReorgs \in Nat
  BY BlockProcessorAssumption DEF ProcessorInv, TypeOK
<1>3. CASE HostExtend
  <2>1. PICK b \in Block : /\ num[b] = Len(host) + 1
                           /\ host # <<>> => parent[b] = host[Len(host)]
                           /\ HostMoves(Append(host, b))
    BY <1>3 DEF HostExtend
  <2>2. num[b] = 1 + Len(host) /\ LinkedFrom(host, 1) /\ 1 \in Nat
    BY <1>1, <2>1 DEF IsChain
  <2>3. LinkedFrom(Append(host, b), 1)
    BY <1>1, <2>1, <2>2, LinkAppend
  <2>4. Append(host, b) \in Seq(Block) /\ IsChain(Append(host, b)) /\ reorgs' \in 0..MaxReorgs
    BY <1>1, <1>2, <1>3, <2>3 DEF IsChain, HostExtend
  <2> QED BY <2>1, <2>4, HostMovesStep
<1>4. CASE HostReorg
  <2>1. PICK n \in 0..(Len(host) - 1) : HostMoves(Prefix(host, n))
    BY <1>4 DEF HostReorg
  <2>2. n \in Nat /\ n <= Len(host)
    BY <1>1
  <2>3. Prefix(host, n) \in Seq(Block) /\ IsChain(Prefix(host, n))
    BY <1>1, <2>2, PrefixFacts, PrefixIsChain
  <2>4. reorgs' \in 0..MaxReorgs
    BY <1>2, <1>4 DEF HostReorg
  <2> QED BY <2>1, <2>3, <2>4, HostMovesStep
<1> QED BY <1>3, <1>4

\* A notification: the blocks the host no longer has are reverted.
LEMMA NotificationStep == ASSUME ProcessorInv, Notification PROVE ProcessorInv'
<1>1. /\ host \in Seq(Block) /\ stored \in Seq(Block) /\ results \in Seq(Result)
      /\ Len(host) \in Nat /\ Len(stored) \in Nat
      /\ IsChain(host) /\ IsChain(stored) /\ Len(results) = Len(stored)
  BY ProcessorTypes DEF ProcessorInv, ChainPart
<1>2. PICK n \in 0..Len(stored) :
        /\ Shared(n) /\ n < Len(host)
        /\ stored' = Prefix(stored, n)
        /\ results' = SubSeq(results, 1, n)
        /\ feed' = SubSeq(host, n + 1, Len(host))
  BY DEF Notification
<1>3. /\ pc' = "parent" /\ current' = TRUE
      /\ UNCHANGED <<host, reorgs, blobVars, aliasVars, toCheck, toAlias>>
  BY DEF Notification
<1>4. n \in Nat /\ n <= Len(stored) /\ n <= Len(results)
  BY <1>1
<1>5. /\ stored' \in Seq(Block) /\ Len(stored') = n
      /\ \A i \in 1..n : stored'[i] = stored[i]
  BY <1>1, <1>2, <1>4, PrefixFacts
<1>6. /\ results' \in Seq(Result) /\ Len(results') = n
      /\ \A i \in 1..n : results'[i] = results[i]
  BY <1>1, <1>2, <1>4, PrefixFacts DEF Prefix
<1>7. /\ feed' \in Seq(Block) /\ Len(feed') = Len(host) - n
      /\ \A i \in 1..(Len(host) - n) : feed'[i] = host[n + i]
  <2>1. host \in Seq(Block) /\ n \in Nat /\ n <= Len(host)
    BY <1>1, <1>2, <1>4
  <2> QED BY <1>2, <2>1, SuffixFacts
<1> USE DEF blobVars, requestVars, aliasVars
<1>8. TypeOK'
  <2>1. BlobTypeOK' /\ AliasTypeOK'
    BY <1>3 DEF ProcessorInv, TypeOK, BlobTypeOK, AliasTypeOK
  <2> QED BY <1>3, <1>5, <1>6, <1>7, <2>1 DEF ProcessorInv, TypeOK
<1>9. ChainPart'
  <2>1. IsChain(stored')
    BY <1>1, <1>2, <1>4, PrefixIsChain
  <2>2. LinkedFrom(feed', 1 + n)
    <3>1. PICK t \in Seq(Block) : t = feed'
      BY <1>7
    <3>2. LinkedFrom(host, 1) /\ 1 \in Nat /\ n + Len(t) <= Len(host)
      BY <1>1, <1>4, <1>7, <3>1 DEF IsChain
    <3>3. \A i \in 1..Len(t) : t[i] = host[n + i]
      BY <1>7, <3>1
    <3>4. LinkedFrom(t, 1 + n)
      <4>1. PICK d \in Nat : d = n
        BY <1>4
      <4>2. /\ host \in Seq(Block) /\ t \in Seq(Block) /\ d \in Nat
            /\ d + Len(t) <= Len(host) /\ LinkedFrom(host, 1) /\ 1 \in Nat
        BY <1>1, <3>2, <4>1
      <4>3. \A i \in 1..Len(t) : t[i] = host[d + i]
        BY <3>3, <4>1
      <4>4. LinkedFrom(t, 1 + d)
        BY ONLY <4>2, <4>3, LinkSegment
      <4> QED BY <4>1, <4>4
    <3> QED BY <3>1, <3>4
  <2>3. 1 + n = Len(stored') + 1 /\ feed' # <<>>
    <3>1. Len(host) - n > 0 /\ 1 + n = n + 1
      BY <1>1, <1>2, <1>4
    <3>2. Len(feed') > 0
      BY <1>7, <3>1
    <3> QED BY <1>5, <3>1, <3>2
  <2>4. stored' # <<>> => parent[feed'[1]] = stored'[Len(stored')]
    <3> HAVE stored' # <<>>
    <3>1. n \in 1..n /\ 1 \in 1..(Len(host) - n) /\ n + 1 \in 1..Len(host)
      BY <1>1, <1>2, <1>4, <1>5
    <3>2. parent[host[n + 1]] = host[n]
      <4>1. n + 1 > 1 /\ (n + 1) - 1 = n
        BY <3>1
      <4> QED BY <1>1, <3>1, <4>1 DEF IsChain, LinkedFrom
    <3>3. stored[n] = host[n]
      BY <1>2, <3>1 DEF Shared
    <3> QED BY <1>5, <1>7, <3>1, <3>2, <3>3
  <2> QED BY <1>1, <1>3, <1>5, <1>6, <2>1, <2>2, <2>3, <2>4 DEF ChainPart
<1>10. RequestPart' /\ BlobPart' /\ SubmissionPart'
  <2>1. RequestPart'
    BY <1>3 DEF ProcessorInv, RequestPart
  <2>2. BlobPart'
    BY <1>3 DEF ProcessorInv, BlobPart, Complete
  <2>3. SubmissionPart'
    BY <1>3 DEF ProcessorInv, SubmissionPart, Notification
  <2> QED BY <2>1, <2>2, <2>3
<1>11. LookupPart'
  BY <1>3 DEF ProcessorInv, LookupPart, Contracts
<1>12. StoredPart'
  <2>1. Kept(n)
    BY <1>4 DEF ProcessorInv, StoredPart, Kept
  <2>2. Kept(n)'
    BY <1>3, <1>4, <1>5, <1>6, <2>1, KeptStays
  <2> QED BY <1>5, <2>2 DEF StoredPart, Kept
<1> QED BY <1>8, <1>9, <1>10, <1>11, <1>12 DEF ProcessorInv

\* Steps that move the processor on and leave the stored blocks and the
\* notification alone.
LEMMA LocalStep ==
  ASSUME ProcessorInv, UNCHANGED <<host, reorgs, stored, results, feed>>,
         RequestInv', AliasTypeOK', pc # "idle",
         pc' \in {"parent", "blobs", "oracle", "alias", "execute", "failed"},
         toCheck' \subseteq Address, toAlias' \subseteq Address, current' \in BOOLEAN,
         short \subseteq short', SubmissionPart', LookupPart'
  PROVE  ProcessorInv'
<1>1. TypeOK'
  BY DEF ProcessorInv, TypeOK, RequestInv
<1>2. ChainPart'
  BY DEF ProcessorInv, ChainPart
<1>3. StoredPart'
  <2>1. Len(stored) \in Nat
    BY ProcessorTypes
  <2>2. Kept(Len(stored))
    BY DEF ProcessorInv, StoredPart, Kept
  <2>3. Kept(Len(stored))'
    <3>1. PICK n \in Nat : n = Len(stored)
      BY <2>1
    <3>2. Kept(n)'
      BY <2>2, <3>1, KeptStays
    <3> QED BY <3>1, <3>2
  <2> QED BY <2>3 DEF StoredPart, Kept
<1> QED BY <1>1, <1>2, <1>3 DEF ProcessorInv, RequestInv

\* The invariant of the requests is part of it.
LEMMA RequestsHold == ProcessorInv => RequestInv
  BY DEF ProcessorInv, TypeOK, RequestInv

\* The parent is read, or the blobs have come, or a lookup fails.
LEMMA ControlStep ==
  ASSUME ProcessorInv, ReadParent \/ HaveBlobs \/ OracleFails
  PROVE  ProcessorInv'
<1> USE DEF blobVars, requestVars, aliasVars
<1>1. /\ UNCHANGED <<host, reorgs, blobVars, aliasVars, stored, results, feed,
                     toCheck, toAlias, current>>
      /\ pc # "idle" /\ pc' \in {"blobs", "oracle", "failed"}
  BY DEF ReadParent, HaveBlobs, OracleFails
<1>2. RequestInv'
  <2>1. BlobTypeOK' /\ RequestPart'
    BY <1>1 DEF ProcessorInv, TypeOK, BlobTypeOK, RequestPart
  <2>2. BlobPart'
    BY <1>1 DEF ProcessorInv, BlobPart, Complete
  <2> QED BY <2>1, <2>2 DEF RequestInv
<1>3. AliasTypeOK' /\ LookupPart' /\ short \subseteq short'
  BY <1>1 DEF ProcessorInv, TypeOK, AliasTypeOK, LookupPart, Contracts
<1>4. toCheck' \subseteq Address /\ toAlias' \subseteq Address /\ current' \in BOOLEAN
  BY <1>1 DEF ProcessorInv, TypeOK
<1>5. SubmissionPart'
  <2>1. Block0' = Block0
    BY <1>1 DEF Block0
  <2>2. CASE ReadParent
    <3>1. stage[Node] = "idle"
      BY <2>2 DEF ProcessorInv, SubmissionPart, ReadParent
    <3>2. pc' = "oracle" => Submission[Block0] = NoKey
      BY <2>2 DEF ReadParent
    <3>3. pc' = "blobs" => Submission[Block0] # NoKey
      BY <2>2 DEF ReadParent
    <3> QED BY <1>1, <2>1, <3>1, <3>2, <3>3 DEF SubmissionPart
  <2>3. CASE HaveBlobs
    <3>1. pc = "blobs" /\ pc' \in {"oracle", "failed"}
      BY <2>3 DEF HaveBlobs
    <3>2. pc' = "oracle" => block[Node] \in {"data", "empty"}
      <4>1. block[Node] \in {"none", "data", "empty", "missing"}
        BY BlockProcessorAssumption DEF ProcessorInv, TypeOK, BlobTypeOK
      <4> QED BY <2>3, <4>1 DEF HaveBlobs
    <3>3. stage[Node] # "idle" => key[Node] = Submission[Block0]
      BY <3>1 DEF ProcessorInv, SubmissionPart
    <3> QED BY <1>1, <2>1, <3>1, <3>2, <3>3 DEF SubmissionPart
  <2>4. CASE OracleFails
    BY <2>4 DEF OracleFails, SubmissionPart
  <2> QED BY <2>2, <2>3, <2>4
<1> QED BY <1>1, <1>2, <1>3, <1>4, <1>5, LocalStep

\* The processor asks for the submission's blobs.
LEMMA AskStep == ASSUME ProcessorInv, AskForBlobs PROVE ProcessorInv'
<1> USE DEF aliasVars, processorVars
<1>1. PICK k : k = Submission[Block0]
  OBVIOUS
<1>2. /\ pc = "blobs" /\ feed # <<>> /\ k \in Key /\ Node \in Requester
  BY <1>1, ProcessorTypes, BlockProcessorAssumption
     DEF AskForBlobs, ProcessorInv, ChainPart, SubmissionPart
<1>3. /\ UNCHANGED <<host, reorgs, aliasVars, processorVars>>
      /\ UNCHANGED <<serving, cache, attempt, pending, answer, block, short>>
      /\ key' = [key EXCEPT ![Node] = k] /\ stage[Node] = "idle"
  BY <1>1 DEF AskForBlobs, Ask
<1>4. PICK st \in {"answered", "queued"} :
        /\ stage' = [stage EXCEPT ![Node] = st]
        /\ st = "answered" => k \in Plain
  BY <1>1 DEF AskForBlobs, Ask
<1>5. BlobTypeOK
  BY DEF ProcessorInv, TypeOK
<1>6. /\ stage'[Node] = st /\ key'[Node] = k
      /\ \A q \in Requester \ {Node} : stage'[q] = stage[q] /\ key'[q] = key[q]
  BY <1>2, <1>3, <1>4, <1>5 DEF BlobTypeOK
<1>7. BlobTypeOK'
  BY <1>2, <1>3, <1>4, <1>5 DEF BlobTypeOK
<1>8. block[Node] = "none"
  BY <1>2, <1>3 DEF ProcessorInv, RequestPart
<1>9. RequestPart'
  <2>1. ASSUME NEW r \in Requester
        PROVE  /\ stage'[r] # "idle" => key'[r] \in Key
               /\ stage'[r] = "idle" => answer'[r] = 0
               /\ block'[r] # "none" => stage'[r] \in {"answered", "dropped"}
    <3>1. CASE r = Node
      BY <1>2, <1>3, <1>4, <1>6, <1>8, <3>1
    <3>2. CASE r # Node
      BY <1>3, <1>6, <3>2 DEF ProcessorInv, RequestPart
    <3> QED BY <3>1, <3>2
  <2> QED BY <2>1 DEF RequestPart
<1>10. BlobPart'
  <2>1. \A i \in 1..Len(cache') : Complete(cache[i][1], cache[i][2])'
    BY <1>3 DEF ProcessorInv, BlobPart, Complete
  <2>2. ASSUME NEW r \in Requester
        PROVE  /\ (stage'[r] = "answered" /\ key'[r] \notin Plain) =>
                    Complete(key[r], answer[r])'
               /\ block'[r] = "data" => key'[r] \notin Plain \cup Garbled
               /\ block'[r] = "empty" => key'[r] \in Plain \cup Garbled \cup short'
    <3>1. CASE r = Node
      BY <1>3, <1>4, <1>6, <1>8, <3>1
    <3>2. CASE r # Node
      BY <1>3, <1>6, <3>2 DEF ProcessorInv, BlobPart, Complete
    <3> QED BY <3>1, <3>2
  <2> QED BY <2>1, <2>2 DEF BlobPart
<1>11. SubmissionPart'
  <2>1. Block0' = Block0 /\ pc' = "blobs"
    BY <1>2, <1>3 DEF Block0
  <2>2. Submission[Block0] # NoKey
    BY <1>2 DEF ProcessorInv, SubmissionPart
  <2> QED BY <1>1, <1>6, <2>1, <2>2 DEF SubmissionPart
<1>12. AliasTypeOK' /\ LookupPart'
  BY <1>2, <1>3 DEF ProcessorInv, TypeOK, AliasTypeOK, LookupPart, Contracts
<1>13. toCheck' \subseteq Address /\ toAlias' \subseteq Address /\ current' \in BOOLEAN
  BY <1>3 DEF ProcessorInv, TypeOK
<1> QED BY <1>2, <1>3, <1>7, <1>9, <1>10, <1>11, <1>12, <1>13, LocalStep DEF RequestInv

\* The blob cacher works on some request.
LEMMA BlobsStep == ASSUME ProcessorInv, Blobs PROVE ProcessorInv'
<1> USE DEF aliasVars, processorVars
<1>1. PICK r \in Requester : BlobStep(r)
  BY DEF Blobs
<1>2. UNCHANGED <<host, reorgs, aliasVars, processorVars>>
  BY DEF Blobs
<1>3. RequestInv' /\ RequestMove
  BY <1>1, RequestsHold, BlobStepFacts
<1>4. /\ key'[Node] = key[Node] /\ short \subseteq short'
      /\ stage[Node] = "idle" <=> stage'[Node] = "idle"
      /\ block[Node] # "none" => block'[Node] = block[Node]
  BY <1>3, BlockProcessorAssumption DEF RequestMove
<1>5. Block0' = Block0
  BY <1>2 DEF Block0
<1>6. SubmissionPart'
  BY <1>2, <1>4, <1>5 DEF ProcessorInv, SubmissionPart
<1>7. AliasTypeOK' /\ LookupPart'
  <2>1. AliasTypeOK'
    BY <1>2 DEF ProcessorInv, TypeOK, AliasTypeOK
  <2>2. LookupPart'
    BY <1>2 DEF ProcessorInv, LookupPart, OnChain, Deployed, Contracts, Block0
  <2> QED BY <2>1, <2>2
<1>8. TypeOK'
  BY <1>2, <1>3, <1>7 DEF ProcessorInv, TypeOK, RequestInv
<1>9. ChainPart'
  BY <1>2 DEF ProcessorInv, ChainPart
<1>10. StoredPart'
  <2>1. PICK n \in Nat : n = Len(stored)
    BY ProcessorTypes
  <2>2. Kept(n)'
    BY <1>2, <1>4, <2>1, KeptStays DEF ProcessorInv, StoredPart, Kept
  <2> QED BY <1>2, <2>1, <2>2 DEF StoredPart, Kept
<1> QED BY <1>3, <1>6, <1>7, <1>8, <1>9, <1>10 DEF ProcessorInv, RequestInv

\* The oracle is made, for the host as it is.
LEMMA OracleStep == ASSUME ProcessorInv, MakeOracle PROVE ProcessorInv'
<1> USE DEF blobVars, requestVars
<1>1. /\ pc = "oracle" /\ pc' = "alias" /\ feed # <<>>
      /\ UNCHANGED <<host, reorgs, blobVars, oracle, aliasCache, stored, results, feed>>
      /\ toCheck' = Senders[Block0] /\ toAlias' = {} /\ current' = OnHost(Block0)
      /\ snapshot' = IF oracle = "reth" THEN host ELSE <<>>
  BY DEF MakeOracle, CreateOracle, ProcessorInv, ChainPart
<1>2. RequestInv'
  <2>1. BlobTypeOK' /\ RequestPart'
    BY <1>1 DEF ProcessorInv, TypeOK, BlobTypeOK, RequestPart
  <2>2. BlobPart'
    BY <1>1 DEF ProcessorInv, BlobPart, Complete
  <2> QED BY <2>1, <2>2 DEF RequestInv
<1>3. Block0' = Block0 /\ Block0 \in Block /\ Senders[Block0] \in SUBSET Address
  BY <1>1, ProcessorTypes DEF Block0
<1>4. SubmissionPart'
  BY <1>1, <1>3 DEF ProcessorInv, SubmissionPart
<1>5. AliasTypeOK'
  BY <1>1, ProcessorTypes DEF ProcessorInv, TypeOK, AliasTypeOK
<1>6. current' \in BOOLEAN
  BY <1>1 DEF OnHost
<1>7. LookupPart'
  <2>1. IsChain(<<>>) /\ IsChain(host)
    BY DEF ProcessorInv, ChainPart, IsChain, LinkedFrom
  <2>2. IsChain(snapshot')
    BY <1>1, <2>1
  <2>3. current' => OnChain(IF oracle' = "reth" THEN snapshot' ELSE host', Block0')
    <3> HAVE current'
    <3>1. num[Block0] <= Len(host) /\ host[num[Block0]] = Block0
      BY <1>1 DEF OnHost
    <3>2. num[Block0] \in Nat \ {0} /\ Len(host) \in Nat
      BY <1>3, ProcessorTypes, HostChainAssumption
    <3>3. num[Block0] \in 1..Len(host)
      BY <3>1, <3>2
    <3>4. OnChain(host, Block0)
      BY <3>1, <3>3 DEF OnChain
    <3> QED BY <1>1, <1>3, <3>4
  <2>4. toAlias' = {a \in Senders[Block0'] \ toCheck' :
                      Deployed(Append(stored', Block0'), Len(stored') + 1, a)}
    BY <1>1, <1>3
  <2>5. aliasCache' \subseteq Contracts
    BY <1>1 DEF ProcessorInv, LookupPart
  <2> QED BY <1>1, <1>3, <2>2, <2>3, <2>4, <2>5
          DEF LookupPart, OnChain, Deployed, Contracts
<1>8. toCheck' \subseteq Address /\ toAlias' \subseteq Address /\ short \subseteq short'
  BY <1>1, <1>3
<1> QED BY <1>1, <1>2, <1>4, <1>5, <1>6, <1>7, <1>8, LocalStep

\* A sender is looked up.
LEMMA SenderStep == ASSUME ProcessorInv, CheckSender PROVE ProcessorInv'
<1> USE DEF blobVars, requestVars
<1>1. PICK a \in toCheck : /\ toCheck' = toCheck \ {a}
                           /\ toAlias' = IF ShouldAlias(a) THEN toAlias \cup {a}
                                         ELSE toAlias
                           /\ Learn(a)
  BY DEF CheckSender
<1>2. /\ pc = "alias" /\ feed # <<>>
      /\ UNCHANGED <<host, reorgs, blobVars, oracle, snapshot, stored, results, feed,
                     pc, current>>
  BY DEF CheckSender, ProcessorInv, ChainPart
<1>3. RequestInv'
  <2>1. BlobTypeOK' /\ RequestPart'
    BY <1>2 DEF ProcessorInv, TypeOK, BlobTypeOK, RequestPart
  <2>2. BlobPart'
    BY <1>2 DEF ProcessorInv, BlobPart, Complete
  <2> QED BY <2>1, <2>2 DEF RequestInv
<1>4. Block0' = Block0 /\ Block0 \in Block /\ Senders[Block0] \in SUBSET Address
  BY <1>2, ProcessorTypes DEF Block0
<1>5. SubmissionPart'
  BY <1>2, <1>4 DEF ProcessorInv, SubmissionPart
<1>6. /\ toCheck \subseteq Senders[Block0] /\ a \in Senders[Block0] /\ a \in Address
      /\ toAlias \subseteq Address /\ aliasCache \subseteq Contracts
  BY <1>1, <1>2, <1>4 DEF ProcessorInv, LookupPart, TypeOK
<1>7. oracle = "rpc" /\ ShouldAlias(a) => a \in Contracts
  <2>1. host \in Seq(Block) /\ Len(host) \in Nat
    BY ProcessorTypes
  <2>2. Deployed(host, Len(host), a) => \E d \in Block : a \in Deploys[d]
    BY <2>1 DEF Deployed
  <2>3. AliasedCode(CodeAt(host, a)) <=> Deployed(host, Len(host), a)
    BY <2>1, CodeFacts
  <2> QED BY <1>6, <2>2, <2>3 DEF ShouldAlias, Contracts
<1>8. aliasCache' \subseteq Contracts
  BY <1>1, <1>6, <1>7 DEF Learn
<1>9. AliasTypeOK'
  BY <1>2, <1>8 DEF ProcessorInv, TypeOK, AliasTypeOK, Contracts
<1>10. LookupPart'
  <2>1. current => toAlias' = {x \in Senders[Block0] \ toCheck' :
                                 Deployed(Append(stored, Block0), Len(stored) + 1, x)}
    <3> HAVE current
    <3>1. OnChain(IF oracle = "reth" THEN snapshot ELSE host, Block0)
      BY <1>2 DEF ProcessorInv, LookupPart
    <3>2. toAlias = {x \in Senders[Block0] \ toCheck :
                       Deployed(Append(stored, Block0), Len(stored) + 1, x)}
      BY <1>2 DEF ProcessorInv, LookupPart
    <3>3. ShouldAlias(a) <=> Deployed(Append(stored, Block0), Len(stored) + 1, a)
      BY <1>2, <1>6, <3>1, LookupFacts
    <3> QED BY <1>1, <1>6, <3>2, <3>3
  <2>2. current => OnChain(IF oracle = "reth" THEN snapshot ELSE host, Block0)
    BY <1>2 DEF ProcessorInv, LookupPart
  <2>3. IsChain(snapshot') /\ toCheck' \subseteq Senders[Block0]
    BY <1>1, <1>2, <1>6 DEF ProcessorInv, LookupPart
  <2> QED BY <1>2, <1>4, <1>8, <2>1, <2>2, <2>3
          DEF LookupPart, OnChain, Deployed, Contracts
<1>11. /\ toCheck' \subseteq Address /\ toAlias' \subseteq Address /\ current' \in BOOLEAN
       /\ short \subseteq short'
  BY <1>1, <1>2, <1>4, <1>6 DEF ProcessorInv, TypeOK
<1> QED BY <1>2, <1>3, <1>5, <1>9, <1>10, <1>11, LocalStep

\* The block is executed and stored, and its request released.
LEMMA ExecuteStep == ASSUME ProcessorInv, Execute PROVE ProcessorInv'
<1> DEFINE entry == [data |-> DataOf, alias |-> toAlias, current |-> current]
<1>1. /\ pc = "alias" /\ toCheck = {} /\ feed # <<>>
      /\ stored' = Append(stored, Block0) /\ results' = Append(results, entry)
      /\ feed' = Tail(feed) /\ pc' = IF Tail(feed) = <<>> THEN "idle" ELSE "parent"
      /\ toAlias' = {} /\ snapshot' = <<>> /\ current' = TRUE
      /\ UNCHANGED <<host, reorgs, oracle, aliasCache, toCheck>>
  BY DEF Execute, ProcessorInv, ChainPart
<1>2. /\ stage' = [stage EXCEPT ![Node] = "idle"] /\ key' = [key EXCEPT ![Node] = NoKey]
      /\ attempt' = [attempt EXCEPT ![Node] = 0] /\ answer' = [answer EXCEPT ![Node] = 0]
      /\ block' = [block EXCEPT ![Node] = "none"]
      /\ UNCHANGED <<serving, cache, pending, short>>
  BY DEF Execute, Release
<1>3. /\ stored \in Seq(Block) /\ results \in Seq(Result) /\ feed \in Seq(Block)
      /\ Block0 \in Block /\ Block0 = feed[1]
      /\ Len(stored) \in Nat /\ Len(feed) \in Nat /\ Len(feed) > 0
      /\ Submission[Block0] \in Key \cup {NoKey} /\ Senders[Block0] \in SUBSET Address
      /\ Len(results) = Len(stored) /\ Node \in Requester
  BY <1>1, ProcessorTypes, BlockProcessorAssumption DEF ProcessorInv, ChainPart
<1>4. /\ DataOf \in {"none", "data", "empty"}
      /\ DataOf = Published(Block0) \/ Submission[Block0] \in short
  <2>1. CASE Submission[Block0] = NoKey
    <3>1. NoKey \notin Plain \cup Garbled /\ NoKey \notin Key
      BY BlobCacherAssumption
    <3> QED BY <2>1, <3>1 DEF DataOf, Published
  <2>2. CASE Submission[Block0] # NoKey
    <3>1. block[Node] \in {"data", "empty"} /\ DataOf = block[Node]
      BY <1>1, <2>2 DEF ProcessorInv, SubmissionPart, DataOf
    <3>2. key[Node] = Submission[Block0]
      <4>1. stage[Node] # "idle"
        BY <1>3, <3>1 DEF ProcessorInv, RequestPart
      <4> QED BY <1>1, <4>1 DEF ProcessorInv, SubmissionPart
    <3>3. CASE block[Node] = "data"
      <4>1. Submission[Block0] \in Key \ (Plain \cup Garbled)
        BY <1>3, <2>2, <3>2, <3>3 DEF ProcessorInv, BlobPart
      <4> QED BY <2>2, <3>1, <3>3, <4>1 DEF Published
    <3>4. CASE block[Node] = "empty"
      <4>1. Submission[Block0] \in Plain \cup Garbled \cup short
        BY <1>3, <3>2, <3>4 DEF ProcessorInv, BlobPart
      <4>2. Submission[Block0] \in Plain \cup Garbled => Published(Block0) = "empty"
        BY <2>2 DEF Published
      <4> QED BY <3>1, <3>4, <4>1, <4>2
    <3> QED BY <3>1, <3>3, <3>4
  <2> QED BY <2>1, <2>2
<1>5. entry \in Result
  BY <1>4 DEF Result, ProcessorInv, TypeOK
<1> HIDE DEF entry
<1> DEFINE n == Len(stored)
<1>6. /\ stored' \in Seq(Block) /\ Len(stored') = n + 1
      /\ \A i \in 1..n : stored'[i] = stored[i]
      /\ stored'[n + 1] = Block0
  BY <1>1, <1>3, AppendFacts
<1>7. /\ results' \in Seq(Result) /\ Len(results') = n + 1
      /\ \A i \in 1..n : results'[i] = results[i]
      /\ results'[n + 1] = entry
  <2>1. /\ results' \in Seq(Result) /\ Len(results') = Len(results) + 1
        /\ \A i \in 1..Len(results) : results'[i] = results[i]
        /\ results'[Len(results) + 1] = entry
    BY <1>1, <1>3, <1>5, AppendFacts
  <2> QED BY <1>3, <2>1
<1>8. /\ feed' \in Seq(Block) /\ Len(feed') = Len(feed) - 1
      /\ \A i \in 1..(Len(feed) - 1) : feed'[i] = feed[i + 1]
  BY <1>1, <1>3, QueueFacts
<1>9. PICK m \in Nat : m = n
  BY <1>3
<1> HIDE DEF n
<1>10. BlobTypeOK'
  <2>1. 0 \in 0..FetchRetries
    BY BlobCacherAssumption
  <2> QED BY <1>2, <1>3, <2>1 DEF ProcessorInv, TypeOK, BlobTypeOK
<1>11. AliasTypeOK'
  BY <1>1 DEF ProcessorInv, TypeOK, AliasTypeOK
<1>12. TypeOK'
  BY <1>1, <1>6, <1>7, <1>8, <1>10, <1>11 DEF ProcessorInv, TypeOK
<1>13. ChainPart'
  <2>1. IsChain(stored')
    BY <1>1, OwnChain
  <2>2. LinkedFrom(feed', m + 2)
    <3>1. PICK t \in Seq(Block) : t = feed'
      BY <1>8
    <3>2. PICK p \in Nat : p = m + 1
      BY <1>9
    <3>3. /\ LinkedFrom(feed, p) /\ feed \in Seq(Block) /\ t \in Seq(Block) /\ p \in Nat
          /\ 1 + Len(t) <= Len(feed) /\ 1 \in Nat
      BY <1>3, <1>8, <1>9, <3>1, <3>2 DEF n, ProcessorInv, ChainPart
    <3>4. ASSUME NEW i \in 1..Len(t) PROVE t[i] = feed[1 + i]
      <4>1. i \in 1..(Len(feed) - 1) /\ i + 1 = 1 + i
        BY <1>8, <3>1
      <4> QED BY <1>8, <3>1, <4>1
    <3>5. LinkedFrom(t, p + 1)
      BY ONLY <3>3, <3>4, LinkSegment
    <3>6. p + 1 = m + 2
      BY <3>2
    <3> QED BY <3>1, <3>5, <3>6
  <2>3. m + 2 = Len(stored') + 1 /\ Len(results') = Len(stored')
    BY <1>6, <1>7, <1>9
  <2>4. feed' # <<>> => parent[feed'[1]] = stored'[Len(stored')]
    <3> HAVE feed' # <<>>
    <3>1. Len(feed') > 0
      BY <1>8
    <3>2. 2 \in 1..Len(feed) /\ 1 \in 1..(Len(feed) - 1) /\ 2 > 1 /\ 2 - 1 = 1 /\ 1 + 1 = 2
      BY <1>3, <1>8, <3>1
    <3>3. parent[feed[2]] = feed[1]
      BY <3>2 DEF ProcessorInv, ChainPart, LinkedFrom
    <3>4. feed'[1] = feed[2]
      BY <1>8, <3>2
    <3>5. stored'[Len(stored')] = feed[1]
      BY <1>3, <1>6
    <3> QED BY <3>3, <3>4, <3>5
  <2>5. IsChain(host)'
    BY <1>1 DEF ProcessorInv, ChainPart
  <2>6. pc' # "idle" => feed' # <<>>
    BY <1>1
  <2> QED BY <2>1, <2>2, <2>3, <2>4, <2>5, <2>6 DEF ChainPart
<1>14. /\ stage'[Node] = "idle" /\ block'[Node] = "none" /\ answer'[Node] = 0
       /\ \A q \in Requester \ {Node} : /\ stage'[q] = stage[q] /\ key'[q] = key[q]
                                        /\ answer'[q] = answer[q] /\ block'[q] = block[q]
  BY <1>2, <1>3 DEF ProcessorInv, TypeOK, BlobTypeOK
<1>15. RequestPart'
  <2>1. ASSUME NEW r \in Requester
        PROVE  /\ stage'[r] # "idle" => key'[r] \in Key
               /\ stage'[r] = "idle" => answer'[r] = 0
               /\ block'[r] # "none" => stage'[r] \in {"answered", "dropped"}
    BY <1>14 DEF ProcessorInv, RequestPart
  <2> QED BY <2>1 DEF RequestPart
<1>16. BlobPart'
  <2>1. \A i \in 1..Len(cache') : Complete(cache[i][1], cache[i][2])'
    BY <1>2 DEF ProcessorInv, BlobPart, Complete
  <2>2. ASSUME NEW r \in Requester
        PROVE  /\ (stage'[r] = "answered" /\ key'[r] \notin Plain) =>
                    Complete(key[r], answer[r])'
               /\ block'[r] = "data" => key'[r] \notin Plain \cup Garbled
               /\ block'[r] = "empty" => key'[r] \in Plain \cup Garbled \cup short'
    <3>1. CASE r = Node
      BY <1>14, <3>1
    <3>2. CASE r # Node
      BY <1>2, <1>14, <3>2 DEF ProcessorInv, BlobPart, Complete
    <3> QED BY <3>1, <3>2
  <2> QED BY <2>1, <2>2 DEF BlobPart
<1>17. SubmissionPart'
  BY <1>1, <1>14 DEF SubmissionPart
<1>18. LookupPart'
  BY <1>1 DEF ProcessorInv, LookupPart, IsChain, LinkedFrom, Contracts
<1>19. StoredPart'
  <2>1. Kept(m)'
    <3>1. Kept(m)
      BY <1>9 DEF n, ProcessorInv, StoredPart, Kept
    <3> QED BY <1>2, <1>6, <1>7, <1>9, <3>1, KeptStays
  <2>2. /\ entry.data = Published(Block0) \/ Submission[Block0] \in short
        /\ entry.current =>
             entry.alias = {a \in Senders[Block0] : Deployed(stored', m + 1, a)}
    <3>1. entry.data = DataOf /\ entry.alias = toAlias /\ entry.current = current
      BY DEF entry
    <3>2. current => toAlias = {a \in Senders[Block0] \ toCheck :
                                  Deployed(Append(stored, Block0), Len(stored) + 1, a)}
      BY <1>1 DEF ProcessorInv, LookupPart
    <3>3. current => toAlias = {a \in Senders[Block0] : Deployed(stored', m + 1, a)}
      BY <1>1, <1>9, <3>2 DEF n
    <3> QED BY <1>4, <3>1, <3>3
  <2>3. ASSUME NEW i \in 1..Len(stored')
        PROVE  /\ \/ results'[i].data = Published(stored'[i])
                  \/ Submission[stored'[i]] \in short'
               /\ results'[i].current =>
                    results'[i].alias = {a \in Senders[stored'[i]] : Deployed(stored', i, a)}
    <3>1. CASE i \in 1..m
      BY <2>1, <3>1 DEF Kept, Deployed, Published
    <3>2. CASE i = m + 1
      <4>1. stored'[i] = Block0 /\ results'[i] = entry /\ short' = short
        BY <1>2, <1>6, <1>7, <1>9, <3>2
      <4> QED BY <2>2, <3>2, <4>1
    <3>3. i \in 1..m \/ i = m + 1
      BY <1>6, <1>9
    <3> QED BY <3>1, <3>2, <3>3
  <2> QED BY <2>3 DEF StoredPart, Deployed, Published
<1> QED BY <1>12, <1>13, <1>15, <1>16, <1>17, <1>18, <1>19 DEF ProcessorInv

\* Every step of the specification.
LEMMA InvStep == ProcessorInv /\ [Next]_vars => ProcessorInv'
<1> SUFFICES ASSUME ProcessorInv, [Next]_vars PROVE ProcessorInv'
  OBVIOUS
<1>1. CASE UNCHANGED vars
  <2> USE <1>1 DEF vars, blobVars, requestVars, aliasVars, processorVars
  <2>1. TypeOK'
    BY DEF ProcessorInv, TypeOK, BlobTypeOK, AliasTypeOK
  <2>2. ChainPart' /\ RequestPart' /\ SubmissionPart'
    BY DEF ProcessorInv, ChainPart, RequestPart, SubmissionPart, Block0
  <2>3. BlobPart'
    BY DEF ProcessorInv, BlobPart, Complete
  <2>4. LookupPart'
    BY DEF ProcessorInv, LookupPart, OnChain, Deployed, Contracts, Block0
  <2>5. StoredPart'
    BY DEF ProcessorInv, StoredPart, Deployed, Published
  <2> QED BY <2>1, <2>2, <2>3, <2>4, <2>5 DEF ProcessorInv
<1> QED BY <1>1, HostStep, NotificationStep, ControlStep, AskStep, BlobsStep,
           OracleStep, SenderStep, ExecuteStep DEF Next, Process

-------------------------------------------------------------------------------
(***************************************************************************)
(* Theorems.                                                               *)
(***************************************************************************)
\* The invariant holds in every reachable state.
LEMMA InvHolds == Spec => []ProcessorInv
  BY InitHolds, InvStep, PTL DEF Spec

\* The cache keeps within its size, a request within its retries, and every
\* variable its type, whatever sources, retries and reorganisations do.
THEOREM TypeCorrect == Spec => []TypeOK
<1>1. ProcessorInv => TypeOK
  BY DEF ProcessorInv
<1> QED BY <1>1, InvHolds, PTL

\* process_block stores what the host block published, or the submission is one
\* some source was short of, for every cache size, number of retries and race
\* of sources.
THEOREM AlwaysStoredAsPublished == Spec => []StoredAsPublished
<1>1. ProcessorInv => StoredAsPublished
  BY DEF ProcessorInv, StoredPart, StoredAsPublished
<1> QED BY <1>1, InvHolds, PTL

\* The aliases process_block takes from either oracle are those of the block's
\* own chain, whatever the host added above it and whatever was cached on
\* other forks.
THEOREM AliasesAlwaysTheBlocks == Spec => []AliasesAreTheBlocks
<1>1. ASSUME ProcessorInv PROVE AliasesAreTheBlocks
  <2>1. ASSUME NEW i \in 1..Len(stored)
        PROVE  \A a : CodeAt(Prefix(stored, i), a) = "contract" <=> Deployed(stored, i, a)
    <3>1. stored \in Seq(Block) /\ i \in Nat /\ i <= Len(stored)
      BY <1>1, ProcessorTypes
    <3>2. /\ Prefix(stored, i) \in Seq(Block) /\ Len(Prefix(stored, i)) = i
          /\ \A j \in 1..i : Prefix(stored, i)[j] = stored[j]
      BY <3>1, PrefixFacts
    <3> TAKE a
    <3>3. CodeAt(Prefix(stored, i), a) = "contract" <=>
            Deployed(Prefix(stored, i), Len(Prefix(stored, i)), a)
      BY <3>2, CodeFacts
    <3> QED BY <3>2, <3>3, SameDeployed
  <2>2. ASSUME NEW i \in 1..Len(stored), results[i].current
        PROVE  results[i].alias = {a \in Senders[stored[i]] :
                                     CodeAt(Prefix(stored, i), a) = "contract"}
    BY <1>1, <2>1, <2>2 DEF ProcessorInv, StoredPart
  <2> QED BY <2>2 DEF AliasesAreTheBlocks
<1> QED BY <1>1, InvHolds, PTL
===============================================================================
