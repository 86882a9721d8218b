--------------------------- MODULE MCSubscriptions ---------------------------
(***************************************************************************)
(* Small instance of Subscriptions: rollup blocks <<height, branch>>, with *)
(* a second branch from the genesis.  Block 2 of branch 0 has no matching  *)
(* log.                                                                    *)
(***************************************************************************)
EXTENDS Subscriptions

CONSTANT TopHeight   \* bound: chain length

Tree == (1..TopHeight) \X (0..1)

TreeNum == [b \in Tree |-> b[1]]

TreeParent == [b \in Tree |-> IF b[1] = 1 THEN b ELSE <<b[1] - 1, b[2]>>]

SilentBlocks == {<<2, 0>>}
==============================================================================
