--------------------------- MODULE BlockProcessor ---------------------------
(***************************************************************************)
(* SignetBlockProcessor::process_block over the blob cacher and an alias   *)
(* oracle: a host block's submission is fetched and decoded, the senders   *)
(* of its transact events are looked up, and the rollup block is executed  *)
(* on the stored parent.  The processor is one task, the node's; the host  *)
(* moves on, and reorganises, between any two of its steps.                *)
(*                                                                         *)
(* What a rollup block holds is a function of its host block: its          *)
(* transactions come from the submission, its aliases from the senders.    *)
(***************************************************************************)
EXTENDS BlobCacher, AliasOracle

CONSTANTS
  Node,         \* the requester that stands for the processor, the only
                \* user of the handle in the node
  Submission,   \* Submission[b]: the key of b's BlockSubmitted event, or NoKey
  Senders,      \* Senders[b]: the host senders of b's transact events
  MaxReorgs     \* bound: reorganisations of the host chain

\* A contract sends only once it is deployed, on the chain of the block it
\* sends in, and a deployed address never belongs to a key (EIP-3607).
ASSUME BlockProcessorAssumption ==
  /\ Node \in Requester
  /\ Submission \in [Block -> Key \cup {NoKey}]
  /\ Senders \in [Block -> SUBSET Address]
  /\ \A b \in Block : \A s \in [1..num[b] -> Block] :
       IsChain(s) /\ s[num[b]] = b =>
         \A a \in Senders[b] : (\E d \in Block : a \in Deploys[d]) =>
                                \E i \in 1..num[b] : a \in Deploys[s[i]]
  /\ \A b, d \in Block : Deploys[b] \cap Delegates[d] = {}
  /\ MaxReorgs \in Nat

VARIABLES
  reorgs,              \* reorganisations so far
  stored, results,     \* rollup blocks in hot storage, and what is in them
  feed,                \* blocks of the notification in hand still to process
  pc,                  \* where process_block is
  toCheck, toAlias,    \* senders left to look up; those to be aliased
  current              \* the host has held the block through the lookups

processorVars == <<stored, results, feed, pc, toCheck, toAlias, current>>
vars == <<host, reorgs, blobVars, aliasVars, processorVars>>

Result == [data : {"none", "data", "empty"}, alias : SUBSET Address,
           current : BOOLEAN]

TypeOK ==
  /\ BlobTypeOK /\ AliasTypeOK
  /\ host \in Seq(Block) /\ reorgs \in 0..MaxReorgs
  /\ stored \in Seq(Block) /\ results \in Seq(Result)
  /\ feed \in Seq(Block)
  /\ pc \in {"idle", "parent", "blobs", "oracle", "alias", "execute", "failed"}
  /\ toCheck \subseteq Address /\ toAlias \subseteq Address
  /\ current \in BOOLEAN

Init ==
  /\ BlobInit /\ AliasInit
  /\ host = <<>> /\ reorgs = 0
  /\ stored = <<>> /\ results = <<>> /\ feed = <<>>
  /\ pc = "idle" /\ toCheck = {} /\ toAlias = {} /\ current = TRUE

(***************************************************************************)
(* The host, whose latest state the oracles read.                          *)
(***************************************************************************)
OnHost(b) == num[b] <= Len(host) /\ host[num[b]] = b

\* The host moves to chain s: a lookup from now on is against s.
HostMoves(s) ==
  /\ host' = s
  /\ current' = (current /\ (feed # <<>> => \E i \in 1..Len(s) : s[i] = Head(feed)))
  /\ UNCHANGED <<blobVars, aliasVars, stored, results, feed, pc, toCheck, toAlias>>

HostExtend ==
  /\ \E b \in Block : /\ num[b] = Len(host) + 1
                      /\ host # <<>> => parent[b] = host[Len(host)]
                      /\ HostMoves(Append(host, b))
  /\ UNCHANGED reorgs

HostReorg ==
  /\ reorgs < MaxReorgs
  /\ \E n \in 0..(Len(host) - 1) : HostMoves(Prefix(host, n))
  /\ reorgs' = reorgs + 1

(***************************************************************************)
(* The node: blocks that left the host chain are reverted, and the new     *)
(* ones are processed one by one.                                          *)
(***************************************************************************)
Shared(n) == \A i \in 1..n : i <= Len(host) /\ stored[i] = host[i]

Notification ==
  /\ pc = "idle" /\ feed = <<>>
  /\ \E n \in 0..Len(stored) :
       /\ Shared(n) /\ (n < Len(stored) => ~Shared(n + 1))
       /\ n < Len(host)
       /\ stored' = Prefix(stored, n)
       /\ results' = SubSeq(results, 1, n)
       /\ feed' = SubSeq(host, n + 1, Len(host))
  /\ pc' = "parent" /\ current' = TRUE
  /\ UNCHANGED <<host, reorgs, blobVars, aliasVars, toCheck, toAlias>>

(***************************************************************************)
(* run_evm.                                                                *)
(***************************************************************************)
Block0 == Head(feed)

\* The parent header is read: "parent ru block not present in DB" otherwise.
ReadParent ==
  /\ pc = "parent"
  /\ IF Len(stored) = num[Block0] - 1
       THEN pc' = IF Submission[Block0] = NoKey THEN "oracle" ELSE "blobs"
       ELSE pc' = "failed"
  /\ UNCHANGED <<host, reorgs, blobVars, aliasVars, stored, results, feed,
                 toCheck, toAlias, current>>

AskForBlobs ==
  /\ pc = "blobs" /\ Ask(Node, Submission[Block0])
  /\ UNCHANGED <<host, reorgs, aliasVars, processorVars>>

\* signet_block returned; a fetch error ends the processing, and the node.
HaveBlobs ==
  /\ pc = "blobs" /\ block[Node] # "none"
  /\ pc' = IF block[Node] = "missing" THEN "failed" ELSE "oracle"
  /\ UNCHANGED <<host, reorgs, blobVars, aliasVars, stored, results, feed,
                 toCheck, toAlias, current>>

MakeOracle ==
  /\ pc = "oracle"
  /\ CreateOracle
  /\ toCheck' = Senders[Block0] /\ toAlias' = {}
  /\ current' = OnHost(Block0)
  /\ pc' = "alias"
  /\ UNCHANGED <<host, reorgs, blobVars, stored, results, feed>>

\* One sender of the loop; each may be an RPC call.
CheckSender ==
  /\ pc = "alias"
  /\ \E a \in toCheck : /\ toCheck' = toCheck \ {a}
                        /\ toAlias' = IF ShouldAlias(a) THEN toAlias \cup {a}
                                      ELSE toAlias
                        /\ Learn(a)
  /\ UNCHANGED <<host, reorgs, blobVars, oracle, snapshot, stored, results, feed,
                 pc, current>>

\* A lookup fails: AliasError.
OracleFails ==
  /\ pc = "oracle" \/ (pc = "alias" /\ toCheck # {})
  /\ pc' = "failed"
  /\ UNCHANGED <<host, reorgs, blobVars, aliasVars, stored, results, feed,
                 toCheck, toAlias, current>>

\* The transactions the driver is given.
DataOf == IF Submission[Block0] = NoKey THEN "none" ELSE block[Node]

\* The driver runs the block on the parent's state and the node stores it.
Execute ==
  /\ pc = "alias" /\ toCheck = {}
  /\ stored' = Append(stored, Block0)
  /\ results' = Append(results, [data |-> DataOf, alias |-> toAlias,
                                 current |-> current])
  /\ Release(Node)
  /\ feed' = Tail(feed)
  /\ pc' = IF Tail(feed) = <<>> THEN "idle" ELSE "parent"
  /\ toAlias' = {} /\ snapshot' = <<>> /\ current' = TRUE
  /\ UNCHANGED <<host, reorgs, oracle, aliasCache, toCheck>>

Blobs ==
  /\ \E r \in Requester : BlobStep(r)
  /\ UNCHANGED <<host, reorgs, aliasVars, processorVars>>

Process == \/ Notification \/ ReadParent \/ AskForBlobs \/ HaveBlobs
           \/ MakeOracle \/ CheckSender \/ OracleFails \/ Execute

Next == HostExtend \/ HostReorg \/ Process \/ Blobs

Spec == Init /\ [][Next]_vars

\* The cache's tasks run, and the serving sources answer; nothing is asked of
\* the others, which may never return.
FairSpec ==
  /\ Spec
  /\ \A r \in Requester :
       /\ WF_vars(CacheTask(r) /\ UNCHANGED <<host, reorgs, aliasVars, processorVars>>)
       /\ \A s \in AsyncSource :
            WF_vars(/\ s \in serving /\ Race(r, s)
                    /\ UNCHANGED <<host, reorgs, aliasVars, processorVars>>)

(***************************************************************************)
(* Properties.                                                             *)
(***************************************************************************)
\* What host block b says its rollup block holds.
Published(b) == CASE Submission[b] = NoKey                      -> "none"
                  [] Submission[b] \in Plain \cup Garbled       -> "empty"
                  [] Submission[b] \in Key \ (Plain \cup Garbled) -> "data"

\* A stored block holds the transactions its host block published, whatever
\* sources failed or were retried: it is empty for a well-formed submission
\* only where some source returned too few of its blobs.
StoredAsPublished ==
  \A i \in 1..Len(stored) :
    \/ results[i].data = Published(stored[i])
    \/ Submission[stored[i]] \in short

\* Aliases do not depend on when a block is processed: if the host held the
\* block during the lookups, then whatever else the host's latest state holds
\* by then, and whatever the shared cache remembers of other forks, the
\* aliased senders are those that are contracts in the block's own state.
AliasesAreTheBlocks ==
  \A i \in 1..Len(stored) :
    results[i].current =>
      results[i].alias = {a \in Senders[stored[i]] :
                            CodeAt(Prefix(stored, i), a) = "contract"}

\* With one source that serves it, a request is answered with blobs, although
\* the other sources never return.
AnsweredDespiteHangs ==
  \A r \in Requester :
    serving # {} /\ stage[r] = "queued" ~> stage[r] = "answered" /\ answer[r] > 0
=============================================================================
