----------------------------- MODULE RollupChain -----------------------------
(***************************************************************************)
(* What the signet node promises its readers: one rollup chain, derived    *)
(* from consecutive linked host blocks above the deploy height.  It grows  *)
(* a block at a time, is rewound as a whole, and is never rewound below    *)
(* the height last published as final.                                     *)
(***************************************************************************)
EXTENDS HostChain

VARIABLES chain, final

Init == chain = <<>> /\ final = 0

\* A block derived from the host block that follows the chain's last one.
Follows(b) == /\ num[b] = DeployHeight + Len(chain) + 1
              /\ chain # <<>> => parent[b] = chain[Len(chain)]

Extend == \E b \in Block : /\ Follows(b)
                           /\ chain' = Append(chain, b)
                           /\ UNCHANGED final

Rewind == \E n \in final..Len(chain) : /\ chain' = Prefix(chain, n)
                                       /\ UNCHANGED final

\* A mark always names a block of the chain, 0 being the genesis.
Mark == final' \in 0..Len(chain) /\ UNCHANGED chain

Next == Extend \/ Rewind \/ Mark

Spec == Init /\ [][Next]_<<chain, final>>
==============================================================================
