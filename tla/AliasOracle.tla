---------------------------- MODULE AliasOracle ----------------------------
(***************************************************************************)
(* The alias oracles: does an address hold non-delegation code on the      *)
(* host?  The reth oracle is a state provider opened at the host's latest  *)
(* block when it is created.  The RPC oracle asks for the code at latest   *)
(* for each address, and keeps the positive answers in a cache shared by   *)
(* all its clones.                                                         *)
(*                                                                         *)
(* Addresses are contracts, which get their code in the block that deploys *)
(* them, or owned by a key, in which case they may set an EIP-7702         *)
(* delegation.  A reorganisation undoes a deployment.                      *)
(***************************************************************************)
EXTENDS HostChain

CONSTANTS
  Address,
  Deploys,     \* Deploys[b]: the contracts b deploys
  Delegates    \* Delegates[b]: the addresses that set a delegation in b

ASSUME AliasOracleAssumption ==
  /\ Deploys \in [Block -> SUBSET Address]
  /\ Delegates \in [Block -> SUBSET Address]

VARIABLES
  host,         \* the host's canonical chain
  oracle,       \* which oracle the node is built with
  snapshot,     \* the chain behind the reth oracle's state provider
  aliasCache    \* the RPC oracle's cache

aliasVars == <<oracle, snapshot, aliasCache>>

AliasTypeOK ==
  /\ oracle \in {"reth", "rpc"} /\ snapshot \in Seq(Block)
  /\ aliasCache \subseteq Address

AliasInit ==
  /\ oracle \in {"reth", "rpc"} /\ snapshot = <<>> /\ aliasCache = {}

\* The code of address a in the state after chain s.
CodeAt(s, a) ==
  CASE \E i \in 1..Len(s) : a \in Deploys[s[i]]   -> "contract"
    [] \E i \in 1..Len(s) : a \in Delegates[s[i]] -> "delegation"
    [] OTHER                                      -> "empty"

\* Mutant: a delegation is code like any other.
AliasedCodeAny(code) == code # "empty"

\* should_alias_bytecode, and the end of check_alias.
AliasedCode(code) == code \notin {"empty", "delegation"}

\* AliasOracleFactory::create: the RPC oracle is a clone of itself.
CreateOracle ==
  /\ snapshot' = IF oracle = "reth" THEN host ELSE <<>>
  /\ UNCHANGED <<oracle, aliasCache>>

\* What should_alias answers for a now.
ShouldAlias(a) ==
  IF oracle = "reth" THEN AliasedCode(CodeAt(snapshot, a))
  ELSE a \in aliasCache \/ AliasedCode(CodeAt(host, a))

\* Mutant: every address looked up is cached.
LearnAll(a) == aliasCache' = aliasCache \cup {a}

\* Only a positive answer of the RPC oracle is kept.
Learn(a) ==
  aliasCache' = IF oracle = "rpc" /\ ShouldAlias(a)
                  THEN aliasCache \cup {a} ELSE aliasCache
=============================================================================
