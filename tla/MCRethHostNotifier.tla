------------------------- MODULE MCRethHostNotifier -------------------------
(***************************************************************************)
(* Small instance of RethHostNotifier.  A host block is <<height, branch>>; *)
(* branch 1 leaves branch 0 after block ForkHeight.                        *)
(***************************************************************************)
EXTENDS RethHostNotifier

CONSTANTS TopHeight,    \* bound: host chain length
          ForkHeight

Tree == {b \in (1..TopHeight) \X (0..1) : b[2] = 0 \/ b[1] > ForkHeight}

TreeNum == [b \in Tree |-> b[1]]

TreeParent ==
  [b \in Tree |-> IF b[1] = 1 THEN b
                  ELSE IF b[1] = ForkHeight + 1 THEN <<b[1] - 1, 0>>
                  ELSE <<b[1] - 1, b[2]>>]
=============================================================================
