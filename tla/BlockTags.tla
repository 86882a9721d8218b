------------------------------ MODULE BlockTags ------------------------------
(***************************************************************************)
(* signet_rpc::BlockTags: the rollup heights behind the RPC tags "latest", *)
(* "safe" and "finalized".  Each is an AtomicU64 of its own, stored and    *)
(* loaded separately, so every store below is a step that an RPC reader    *)
(* can observe the middle of.                                              *)
(***************************************************************************)
EXTENDS Integers

VARIABLES latest, safe, finalized

tags == <<latest, safe, finalized>>

TagsTypeOK == latest \in Nat /\ safe \in Nat /\ finalized \in Nat

\* ChainNotifier::new: BlockTags::new(0, 0, 0)
TagsInit == latest = 0 /\ safe = 0 /\ finalized = 0

TagsReset == latest' = 0 /\ safe' = 0 /\ finalized' = 0

AtMost(n, cap) == IF n <= cap THEN n ELSE cap

(***************************************************************************)
(* update_all(latest, safe, finalized): plain stores, in this order.       *)
(***************************************************************************)
StoreFinalized(n) == finalized' = n /\ UNCHANGED <<latest, safe>>
StoreSafe(n)      == safe' = n /\ UNCHANGED <<latest, finalized>>
StoreLatest(n)    == latest' = n /\ UNCHANGED <<safe, finalized>>

(***************************************************************************)
(* rewind_to(ancestor): fetch_min on each, in the same order.              *)
(***************************************************************************)
CapFinalized(ancestor) == StoreFinalized(AtMost(finalized, ancestor))
CapSafe(ancestor)      == StoreSafe(AtMost(safe, ancestor))
CapLatest(ancestor)    == StoreLatest(AtMost(latest, ancestor))
==============================================================================
