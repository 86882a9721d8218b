---------------------------- MODULE MCRpcReaders ----------------------------
(***************************************************************************)
(* Small instance of RpcReaders.  A block is <<height, branch>>; branch 1  *)
(* leaves branch 0 after genesis.  One transaction is in both branches, at *)
(* different heights, and one lies behind a magic signature.               *)
(***************************************************************************)
EXTENDS RpcReaders

CONSTANTS TopHeight,    \* bound: chain length
          c1, c2

Tree == {b \in (1..TopHeight) \X (0..1) : b[2] = 0 \/ b[1] > 1}

TreeNum == [b \in Tree |-> b[1]]

TreeParent == [b \in Tree |-> IF b[1] <= 2 THEN <<1, 0>> ELSE <<b[1] - 1, b[2]>>]

Txs == {"t1", "t2"}

TxBlocks == [t \in Txs |-> IF t = "t1" THEN {<<2, 0>>, <<3, 1>>} ELSE {<<2, 0>>}]

\* The operations whose reads are not the first reads of another's.
Distinct ==
  {op \in Op : ~\E o \in Op : IsStrictPrefix(Program[op], Program[o]) /\ Ids(op) \subseteq Ids(o)}

\* One of each group with the same reads, by hash where one of them is.
Called == Distinct \ {"estimateGas", "createAccessList", "traceCall", "traceCallMany",
                      "traceRawTx", "traceBlock", "replayBlock", "debugTraceTx", "replayTx"}

\* One client calls everything, with the fee endpoints apart; two share the
\* semaphore.
Loads == {
  [c \in Client |-> IF c = c1 THEN Called \ Fees ELSE {}],
  [c \in Client |-> IF c = c1 THEN Called \cap Fees ELSE {}],
  [c \in Client |-> {"debugTraceRlp"}]}
=============================================================================
