-------------------------- MODULE MCRpcHostNotifier --------------------------
(***************************************************************************)
(* Small instances of RpcHostNotifier.  A host block is <<height, branch>>: *)
(* branch 0 is one chain, branch 1 leaves it after block ForkHeight and    *)
(* branch 2 after the block below.                                         *)
(***************************************************************************)
EXTENDS RpcHostNotifier

CONSTANTS TopHeight,    \* bound: host chain length
          ForkHeight    \* where branch 1 leaves branch 0

First == [branch \in {1, 2} |-> IF branch = 1 THEN ForkHeight + 1 ELSE ForkHeight]

Tree == {b \in (1..TopHeight) \X (0..2) : b[2] = 0 \/ b[1] >= First[b[2]]}

TreeNum == [b \in Tree |-> b[1]]

TreeParent ==
  [b \in Tree |-> IF b[1] = 1 THEN b
                  ELSE IF b[2] # 0 /\ b[1] = First[b[2]] THEN <<b[1] - 1, 0>>
                  ELSE <<b[1] - 1, b[2]>>]
==============================================================================
