--------------------------- MODULE MCChainFilters ---------------------------
(***************************************************************************)
(* Small instances of ChainFilters.  A block is <<height, branch>>: two    *)
(* chains that share no block.                                             *)
(***************************************************************************)
EXTENDS ChainFilters

CONSTANT TopHeight   \* bound: chain length

Tree == (1..TopHeight) \X {0, 1}

TreeNum == [b \in Tree |-> b[1]]

TreeParent == [b \in Tree |-> IF b[1] = 1 THEN b ELSE <<b[1] - 1, b[2]>>]
=============================================================================
