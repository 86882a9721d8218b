----------------------------- MODULE BlobCacher -----------------------------
(***************************************************************************)
(* signet-blobber: the cache task behind a CacheHandle, its fetcher with   *)
(* synchronous sources tried in order and asynchronous ones raced, bounded *)
(* retries, and the decoding of a submission's blobs.                      *)
(*                                                                         *)
(* A Key is the (slot, tx_hash) of a submission whose transaction carries  *)
(* blobs 1..Count[k].  The block's data end in blob Needs[k].  What a      *)
(* source returns is the first n of the blobs; 0 stands for Ok(None) or an *)
(* error, which the fetcher treats alike.                                  *)
(***************************************************************************)
EXTENDS Integers, Sequences, FiniteSets

CONSTANTS
  Requester,      \* holders of a CacheHandle
  Key, NoKey,     \* submissions; none
  Plain,          \* keys of transactions that are not EIP-4844
  Garbled,        \* keys whose blobs do not decode to the announced data
  Count, Needs,
  HasPool,        \* a synchronous source (a pool) is configured
  AsyncSource,    \* explorer, beacon, pylon
  Lenient,        \* sources that may return fewer blobs than asked for
  FetchRetries, CacheSize, QueueSize

ASSUME BlobCacherAssumption ==
  /\ NoKey \notin Key /\ Plain \subseteq Key /\ Garbled \subseteq Key
  /\ Count \in [Key -> Nat \ {0}] /\ Needs \in [Key -> Nat \ {0}]
  /\ \A k \in Key : Needs[k] <= Count[k]
  /\ HasPool \in BOOLEAN /\ Lenient \subseteq AsyncSource
  /\ FetchRetries \in Nat \ {0} /\ CacheSize \in Nat \ {0}
  /\ QueueSize \in Nat \ {0}

VARIABLES
  serving,      \* sources that, in this session, answer with all the blobs
  cache,        \* the LRU map, least recently used first
  stage,        \* where the handling of a request is
  key, attempt, pending,  \* the request, its attempt, sources not yet done
  answer,       \* blobs returned; 0 while there are none
  block,        \* what signet_block returned: data, empty or an error
  short         \* keys some source has returned too few blobs for

requestVars == <<stage, key, attempt, pending, answer, block>>
blobVars == <<serving, cache, requestVars, short>>

BlobTypeOK ==
  /\ serving \subseteq AsyncSource \ Lenient
  /\ cache \in Seq(Key \X Nat) /\ Len(cache) <= CacheSize
  /\ stage \in [Requester -> {"idle", "queued", "lookup", "sync", "race",
                              "answered", "dropped"}]
  /\ key \in [Requester -> Key \cup {NoKey}]
  /\ attempt \in [Requester -> 0..FetchRetries]
  /\ pending \in [Requester -> SUBSET AsyncSource]
  /\ answer \in [Requester -> Nat]
  /\ block \in [Requester -> {"none", "data", "empty", "missing"}]
  /\ short \subseteq Key

BlobInit ==
  /\ serving \in SUBSET (AsyncSource \ Lenient)
  /\ cache = <<>> /\ short = {}
  /\ stage = [r \in Requester |-> "idle"]
  /\ key = [r \in Requester |-> NoKey]
  /\ attempt = [r \in Requester |-> 0]
  /\ pending = [r \in Requester |-> {}]
  /\ answer = [r \in Requester |-> 0]
  /\ block = [r \in Requester |-> "none"]

(***************************************************************************)
(* The LRU map.                                                            *)
(***************************************************************************)
Cached(k) == \E i \in 1..Len(cache) : cache[i][1] = k

CachedBlobs(k) == LET i == CHOOSE j \in 1..Len(cache) : cache[j][1] = k
                  IN cache[i][2]

\* The entries of the other keys, in their order.
Others(k) ==
  LET i == CHOOSE j \in 1..Len(cache) : cache[j][1] = k
  IN IF Cached(k) THEN SubSeq(cache, 1, i - 1) \o SubSeq(cache, i + 1, Len(cache))
     ELSE cache

\* Mutant: nothing is evicted.
TouchKeepsAll(k, blobs) == Append(Others(k), <<k, blobs>>)

\* k becomes the most recently used entry, with these blobs.
Touch(k, blobs) ==
  LET kept == IF Len(Others(k)) = CacheSize THEN Tail(Others(k)) ELSE Others(k)
  IN Append(kept, <<k, blobs>>)

(***************************************************************************)
(* CacheHandle::fetch_and_decode.  A transaction without blobs is a decode *)
(* error before anything is asked for; the bounded channel may be full.    *)
(***************************************************************************)
Queued == {r \in Requester : stage[r] = "queued"}

Ask(r, k) ==
  /\ stage[r] = "idle"
  /\ key' = [key EXCEPT ![r] = k]
  /\ IF k \in Plain
       THEN stage' = [stage EXCEPT ![r] = "answered"]
       ELSE /\ Cardinality(Queued) < QueueSize
            /\ stage' = [stage EXCEPT ![r] = "queued"]
  /\ UNCHANGED <<serving, cache, attempt, pending, answer, block, short>>

\* task_future: each instruction is handled in a task of its own.
Spawn(r) ==
  /\ stage[r] = "queued"
  /\ stage' = [stage EXCEPT ![r] = "lookup"]
  /\ UNCHANGED <<serving, cache, key, attempt, pending, answer, block, short>>

\* The response goes to its receiver.
Respond(r, blobs) ==
  /\ answer' = [answer EXCEPT ![r] = blobs]
  /\ stage' = [stage EXCEPT ![r] = "answered"]
  /\ pending' = [pending EXCEPT ![r] = {}]

CacheHit(r) ==
  /\ stage[r] = "lookup" /\ Cached(key[r])
  /\ Respond(r, CachedBlobs(key[r]))
  /\ cache' = Touch(key[r], CachedBlobs(key[r]))
  /\ UNCHANGED <<serving, key, attempt, block, short>>

CacheMiss(r) ==
  /\ stage[r] = "lookup" /\ ~Cached(key[r])
  /\ attempt' = [attempt EXCEPT ![r] = 1]
  /\ stage' = [stage EXCEPT ![r] = "sync"]
  /\ UNCHANGED <<serving, cache, key, pending, answer, block, short>>

(***************************************************************************)
(* BlobFetcher::fetch_blobs, one attempt.                                  *)
(***************************************************************************)
\* A source returned blobs: they are cached and sent.
Found(r, blobs) ==
  /\ Respond(r, blobs)
  /\ cache' = Touch(key[r], blobs)
  /\ short' = IF blobs < Count[key[r]] THEN short \cup {key[r]} ELSE short
  /\ UNCHANGED <<serving, key, attempt, block>>

\* The pool has the transaction's sidecar.
SyncFound(r) ==
  /\ stage[r] = "sync" /\ HasPool
  /\ Found(r, Count[key[r]])

\* Every asynchronous source is asked at once.
SyncNotFound(r) ==
  /\ stage[r] = "sync"
  /\ pending' = [pending EXCEPT ![r] = AsyncSource]
  /\ stage' = [stage EXCEPT ![r] = "race"]
  /\ UNCHANGED <<serving, cache, key, attempt, answer, block, short>>

\* What source s may return for key k: nothing, all the blobs, or too few.
Returns(s, k) == CASE s \in serving -> {Count[k]}
                   [] s \in Lenient -> 0..Count[k]
                   [] OTHER         -> {0, Count[k]}

\* Mutant: the sources are awaited one after the other.
RaceInTurn(r, s) ==
  /\ stage[r] = "race" /\ pending[r] # {}
  /\ s = CHOOSE first \in pending[r] : TRUE
  /\ \E n \in Returns(s, key[r]) :
       IF n > 0 THEN Found(r, n)
       ELSE /\ pending' = [pending EXCEPT ![r] = @ \ {s}]
            /\ UNCHANGED <<serving, cache, stage, key, attempt, answer, block, short>>

\* select_all: the first source that completes is looked at, the rest go on.
Race(r, s) ==
  /\ stage[r] = "race" /\ s \in pending[r]
  /\ \E n \in Returns(s, key[r]) :
       IF n > 0 THEN Found(r, n)
       ELSE /\ pending' = [pending EXCEPT ![r] = @ \ {s}]
            /\ UNCHANGED <<serving, cache, stage, key, attempt, answer, block, short>>

\* All sources failed: sleep and try again, FETCH_RETRIES times in all.
Retry(r) ==
  /\ stage[r] = "race" /\ pending[r] = {} /\ attempt[r] < FetchRetries
  /\ attempt' = [attempt EXCEPT ![r] = @ + 1]
  /\ stage' = [stage EXCEPT ![r] = "sync"]
  /\ UNCHANGED <<serving, cache, key, pending, answer, block, short>>

\* The response channel is dropped unanswered.
GiveUp(r) ==
  /\ stage[r] = "race" /\ pending[r] = {} /\ attempt[r] = FetchRetries
  /\ stage' = [stage EXCEPT ![r] = "dropped"]
  /\ UNCHANGED <<serving, cache, key, attempt, pending, answer, block, short>>

(***************************************************************************)
(* CacheHandle::signet_block.                                              *)
(***************************************************************************)
\* decode_all, and the search for the data with the announced hash.
Decodes(k, blobs) == k \notin Garbled /\ k \notin Plain /\ blobs >= Needs[k]

\* Mutant: every error makes an empty block.
SignetBlockSwallows(r) ==
  /\ stage[r] \in {"answered", "dropped"} /\ block[r] = "none"
  /\ block' = [block EXCEPT ![r] =
                 IF stage[r] = "answered" /\ Decodes(key[r], answer[r])
                   THEN "data" ELSE "empty"]
  /\ UNCHANGED <<serving, cache, stage, key, attempt, pending, answer, short>>

\* Decode errors make an empty block, a fetch error is returned.
SignetBlock(r) ==
  /\ stage[r] \in {"answered", "dropped"} /\ block[r] = "none"
  /\ block' = [block EXCEPT ![r] =
                 CASE stage[r] = "dropped" -> "missing"
                   [] stage[r] = "answered" /\ Decodes(key[r], answer[r]) -> "data"
                   [] stage[r] = "answered" /\ ~Decodes(key[r], answer[r]) -> "empty"]
  /\ UNCHANGED <<serving, cache, stage, key, attempt, pending, answer, short>>

\* The caller has its block and may ask again.
Release(r) ==
  /\ stage' = [stage EXCEPT ![r] = "idle"]
  /\ key' = [key EXCEPT ![r] = NoKey]
  /\ attempt' = [attempt EXCEPT ![r] = 0]
  /\ answer' = [answer EXCEPT ![r] = 0]
  /\ block' = [block EXCEPT ![r] = "none"]
  /\ UNCHANGED <<serving, cache, pending, short>>

CacheTask(r) == \/ Spawn(r) \/ CacheHit(r) \/ CacheMiss(r)
                \/ SyncNotFound(r) \/ Retry(r) \/ GiveUp(r)

BlobStep(r) == \/ CacheTask(r) \/ SyncFound(r) \/ SignetBlock(r)
               \/ \E s \in AsyncSource : Race(r, s)
==============================================================================
