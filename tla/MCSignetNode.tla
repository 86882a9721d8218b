---------------------------- MODULE MCSignetNode ----------------------------
(***************************************************************************)
(* Small instances of SignetNode.  A host block is <<height, branch>>.     *)
(* Branch 0 is one chain; branch 1 leaves it after block 2, branch 2 after *)
(* block 1.                                                                *)
(***************************************************************************)
EXTENDS SignetNode

CONSTANT TopHeight   \* bound: host chain length

Tree == ((1..TopHeight) \X {0}) \cup ((3..TopHeight) \X {1})
          \cup ((2..TopHeight) \X {2})

BranchPoint(b) == b[1] = 1 \/ (b[1] = 2 /\ b[2] = 2) \/ (b[1] = 3 /\ b[2] = 1)

TreeNum == [b \in Tree |-> b[1]]

TreeParent ==
  [b \in Tree |-> IF b[1] = 1 THEN b
                  ELSE <<b[1] - 1, IF BranchPoint(b) THEN 0 ELSE b[2]>>]
==============================================================================
