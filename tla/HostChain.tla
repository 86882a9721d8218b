------------------------------ MODULE HostChain ------------------------------
(***************************************************************************)
(* Host blocks, host chains, and the height arithmetic that pairs a host   *)
(* block with the rollup block derived from it.                            *)
(*                                                                         *)
(* A block stands for its hash: its number and its parent are functions of *)
(* it, as they are of a block hash.  A chain is the sequence of its blocks *)
(* from host block 1 on, so that position and block number coincide.       *)
(***************************************************************************)
EXTENDS Integers, Sequences

CONSTANTS
  Block,        \* host block hashes
  num,          \* num[b]: the number in b's header
  parent,       \* parent[b]: the parent hash in b's header
  DeployHeight  \* SignetSystemConstants::host_deploy_height

ASSUME HostChainAssumption ==
  /\ num \in [Block -> Nat \ {0}]
  /\ parent \in [Block -> Block]
  /\ DeployHeight \in Nat \ {0}

(***************************************************************************)
(* s is a hash-linked run of blocks whose first block has number n.        *)
(***************************************************************************)
LinkedFrom(s, n) ==
  \A i \in 1..Len(s) : /\ num[s[i]] = n + i - 1
                       /\ i > 1 => parent[s[i]] = s[i - 1]

IsChain(s) == LinkedFrom(s, 1)

Prefix(s, n) == SubSeq(s, 1, n)

\* An absent Option<u64> height.  It is below every deploy height.
NoHeight == -1

(***************************************************************************)
(* The pairing functions of SignetSystemConstants (crate signet-types).    *)
(* The rollup genesis, block 0, is paired with the deploy block.           *)
(***************************************************************************)
\* host_block_to_rollup_block_num(h).unwrap_or_default()
RollupOfHost(h) == IF h >= DeployHeight THEN h - DeployHeight ELSE 0

\* pair_ru(n).host
HostOfRollup(n) == n + DeployHeight
==============================================================================
