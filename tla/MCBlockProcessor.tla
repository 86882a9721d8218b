-------------------------- MODULE MCBlockProcessor --------------------------
(***************************************************************************)
(* Small instance of BlockProcessor.  Two host branches share block 1.     *)
(* Contract c is deployed in block 2 of branch 0, and only in block 3 of   *)
(* branch 1; e is owned by a key and delegates in block 1.  Both branches  *)
(* include submission k1 (the same transaction in the same slot); k2 is    *)
(* garbled, k3 has no blobs.                                               *)
(***************************************************************************)
EXTENDS BlockProcessor

CONSTANTS c, e, k1, k2, k3

Tree == {<<1, 0>>, <<2, 0>>, <<3, 0>>, <<2, 1>>, <<3, 1>>}

TreeNum == [b \in Tree |-> b[1]]

TreeParent == [b \in Tree |-> IF b[1] <= 2 THEN <<1, 0>> ELSE <<b[1] - 1, b[2]>>]

TreeDeploys == [b \in Tree |-> IF b \in {<<2, 0>>, <<3, 1>>} THEN {c} ELSE {}]

TreeDelegates == [b \in Tree |-> IF b = <<1, 0>> THEN {e} ELSE {}]

TreeSenders == [b \in Tree |-> CASE b = <<2, 0>> -> {c, e}
                                 [] b = <<3, 0>> -> {c}
                                 [] b = <<3, 1>> -> {c, e}
                                 [] OTHER        -> {}]

TreeSubmission == [b \in Tree |-> CASE b[1] = 2     -> k1
                                    [] b = <<3, 0>> -> k2
                                    [] b = <<3, 1>> -> k3
                                    [] OTHER        -> NoKey]

BlobCount == [k \in Key |-> 2]

BlobNeeds == [k \in Key |-> 2]
=============================================================================
