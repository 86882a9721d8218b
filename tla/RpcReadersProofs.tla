--------------------------- MODULE RpcReadersProofs ---------------------------
(***************************************************************************)
(* Theorems about RpcReaders, for every set of clients, every workload,    *)
(* every chain and every number of reverts: what an answer was read from,  *)
(* that stored blocks are found, that tracing is bounded and that a cached *)
(* tip is of its window.                                                   *)
(***************************************************************************)
EXTENDS RpcReaders, HostChainProofs, FiniteSetTheorems

-------------------------------------------------------------------------------
(***************************************************************************)
(* The reads of a handler come in stages.                                  *)
(***************************************************************************)
Stage(s) ==
  CASE s = "permit" -> 0
    [] s = "start" -> 1
    [] s = "open" -> 2
    [] s = "fromTag" -> 3
    [] s \in {"resolve", "coldTxByHash", "coldReceiptByHash", "toTag", "filterRange",
              "latest", "snapHeader", "evm", "account"} -> 4
    [] s = "cacheTip" -> 5
    [] s \in {"hotHeader", "filterHeader", "coldTxByIndex", "history", "cacheGet"} -> 6
    [] s \in {"coldTxs", "coldHeader", "coldReceipts", "coldLogs", "window"} -> 7
    [] s \in {"stateBefore", "windowLoop"} -> 8
    [] s \in {"traceTx", "setTip"} -> 9
    [] s = "setBlock" -> 10
    [] s \in {"coldHeaderOpt", "coldTxAgain"} -> 11
    [] OTHER -> 12

\* The handlers that read through one hot storage reader.
ReaderOps == {"headerBy", "runCall", "estimateGas", "createAccessList", "debugTraceCall",
              "traceCall", "traceCallMany", "traceRawTx", "callBundle"}

\* The reads of a kind of handler.
Steps(op) ==
  CASE op = "account" -> {"open", "account"}
    [] op \in ReaderOps -> {"permit", "start", "open", "snapHeader", "evm"}
    [] op \in ByTx -> {"permit", "coldTxByHash", "coldReceiptByHash", "hotHeader", "coldTxs",
                       "stateBefore", "traceTx", "coldTxAgain", "coldHeaderOpt"}
    [] op \in Fees -> {"latest", "cacheTip", "cacheGet", "window", "windowLoop", "setTip",
                       "setBlock", "coldHeaderOpt"}
    [] op = "getLogs" -> {"fromTag", "toTag", "coldLogs"}
    [] op = "traceFilter" -> {"permit", "filterRange", "filterHeader", "coldTxs",
                              "stateBefore", "filterLoop"}
    [] op = "feeHistory" -> {"resolve", "history", "coldTxs", "coldReceipts", "historyLoop"}
    [] OTHER -> {"permit", "resolve", "hotHeader", "coldTxByIndex", "coldTxs", "coldHeader",
                 "coldReceipts", "stateBefore", "coldHeaderOpt"}

\* The reads to come.
Coming(t) == UNION {t[i] : i \in 1..Len(t)}

\* A join is of one stage, and the stages go up.
Ordered(t) ==
  \A i, j \in 1..Len(t) : \A s \in t[i], u \in t[j] :
    /\ i < j => Stage(s) < Stage(u)
    /\ i = j => Stage(s) = Stage(u)

JoinsOf(op) == (SUBSET Steps(op)) \ {{}}

IsPlan(op, t) == t \in Seq(JoinsOf(op)) /\ Ordered(t)

\* The reads that set what the answer is about, those among them that set n,
\* and those that use n.
Setters == {"resolve", "coldTxByHash", "coldReceiptByHash", "toTag", "filterRange",
            "latest", "snapHeader", "evm", "account", "fromTag"}

NSetters == {"resolve", "coldTxByHash", "coldReceiptByHash", "latest", "fromTag"}

NUsers == {"hotHeader", "filterHeader", "coldTxByIndex", "history", "coldTxs", "coldHeader",
           "coldReceipts", "coldLogs", "stateBefore", "coldHeaderOpt", "coldTxAgain"}

FromReader == {"snapHeader", "evm", "account"}

-------------------------------------------------------------------------------
(***************************************************************************)
(* The inductive invariant: the stores, each request, the semaphore, the   *)
(* cache.                                                                  *)
(***************************************************************************)
StoresInv ==
  /\ chain \in Seq(Block) /\ cold \in Seq(Block) /\ latest \in Nat \ {0}
  /\ npc \in {"idle", "commit", "truncate", "rewind"}
  /\ target \in Nat /\ reorgs \in 0..MaxReorgs
  /\ IsChain(chain) /\ IsChain(cold) /\ chain # <<>> /\ cold # <<>>
  /\ \A i \in 1..Len(cold) : i <= Len(chain) => cold[i] = chain[i]
  /\ npc # "truncate" => Len(cold) <= Len(chain)
  /\ Reverting => target = Len(chain) /\ reorgs > 0
  /\ ~Reverting => latest <= Len(chain)
  /\ npc = "idle" => latest = Len(chain)

\* A request is a record like NoRequest.
IsRequest(r) ==
  /\ DOMAIN r = DOMAIN NoRequest
  /\ r.op \in Op /\ r.id \in Ids(r.op) /\ r.out \in Outcomes
  /\ r.n \in Nat /\ r.hi \in Nat /\ r.snap \in Seq(Block)
  /\ r.from \subseteq Block /\ r.base \subseteq Block /\ r.body \subseteq Block

\* What the reads to come, C, need is there, and the first ones find nothing.
NeedsInv(r, C) ==
  /\ "filterRange" \in C => C \subseteq {"permit", "filterRange", "filterLoop"}
  /\ "history" \in C => C \subseteq {"resolve", "history", "historyLoop"}
  /\ \A s, u \in C \cap (Setters \ {"fromTag"}) : s = u
  /\ "latest" \in C => "cacheGet" \in C /\ "setTip" \in C /\ "cacheTip" \notin C
  /\ r.op \in ReaderOps \cup {"account"} /\ C # {} => C \cap FromReader # {}
  /\ C \cap FromReader # {} /\ "open" \notin C => r.snap # <<>>
  /\ C \cap NUsers # {} /\ C \cap NSetters = {} => r.n >= 1
  /\ C \cap Setters # {} =>
       /\ r.from = {} /\ r.base = {} /\ r.body = {} /\ r.hi = 0
       /\ r.whole /\ ~r.settled

\* The snapshot is a chain, and part of hot storage until a revert.
SnapInv(r) ==
  /\ IsChain(r.snap)
  /\ ~r.rewound => /\ Len(r.snap) <= Len(chain)
                   /\ \A i \in 1..Len(r.snap) : r.snap[i] = chain[i]

\* An answer that came from one reader.
FromOneReader(r) ==
  r.op \in ReaderOps \cup {"account"} =>
    \E b \in Block : r.from = {b} /\ (r.id[1] = "hash" => b = r.id[2])

\* What was read from several stores.
PartsInv(r) ==
  /\ Reverting => r.rewound
  /\ r.settled => ~r.rewound /\ r.n <= Len(cold) /\ r.hi <= Len(cold) /\ r.whole
  /\ ~r.rewound /\ r.op \notin Fees => r.from \cup r.base \subseteq Range(chain)
  /\ ~r.rewound /\ r.op \in OneBlock =>
       /\ \A b \in r.from : num[b] = r.n \/ (r.op = "account" /\ num[b] < r.n)
       /\ \A b \in r.base : num[b] + 1 = r.n \/ (num[b] = 1 /\ r.n = 1)
  /\ ~r.rewound /\ r.op \in ByTx /\ r.n >= 1 =>
       r.n <= Len(cold) /\ cold[r.n] \in TxIn[r.id[2]]

\* The block or transaction that was asked for, when both stores had it.
StoredInv(r, C) ==
  r.stored =>
    /\ ~r.rewound /\ Stored(r.id) /\ r.n <= Len(cold) /\ r.hi <= Len(cold)
    /\ r.snap # <<>> /\ r.id[1] = "number" => r.id[2] <= Len(r.snap)
    /\ r.snap # <<>> /\ r.id[1] = "hash" => r.id[2] \in Range(r.snap)
    /\ r.op \in ByTx =>
         /\ r.body \subseteq TxIn[r.id[2]]
         /\ "traceTx" \in C /\ "coldTxs" \notin C => r.body # {}

\* A reason to report it as missing all the same.
MayMiss(r) == r.stored => r.id[1] = "tx" /\ r.id[2] \in BehindMagic

\* A tracing handler past the semaphore holds a permit.
PermitInv(r) ==
  /\ NeedsPermit(r.op) /\ r.todo # <<>> /\ "permit" \notin Head(r.todo) /\ ~r.gone => r.holds
  /\ r.holds => "permit" \notin Coming(r.todo) /\ r.op \notin Fees

\* All that holds of a request in flight or answered.
ActiveInv(r) ==
  /\ IsRequest(r) /\ IsPlan(r.op, r.todo)
  /\ r.out # "none" => r.todo = <<>>
  /\ NeedsInv(r, Coming(r.todo)) /\ StoredInv(r, Coming(r.todo))
  /\ SnapInv(r) /\ PartsInv(r) /\ PermitInv(r)
  /\ r.out = "ok" => FromOneReader(r)
  /\ r.out = "absent" => MayMiss(r)

RequestInv(r) == r = NoRequest \/ ActiveInv(r)

Holders == {c \in Client : req[c].holds}

SemaphoreInv ==
  /\ permits \in Nat /\ permits + Cardinality(Holders) = MaxTracing
  /\ queue \in Seq(Client)
  /\ \A i, j \in 1..Len(queue) : queue[i] = queue[j] => i = j
  /\ \A i \in 1..Len(queue) : Reads(queue[i], "permit")

Window(n) == {chain[i] : i \in WindowStart(n)..n}

\* Client c alone asks for fees.
Alone(c) == \A d \in Client \ {c} : mayCall[d] \cap Fees = {}

\* A cached tip that can still be used is of its window.
CacheFresh ==
  /\ cacheBlock <= latest
  /\ cacheBlock = latest => cacheTip \subseteq Window(latest)

\* What a fee request has read, and what the cache holds meanwhile.
FeeInv(r, C) ==
  r.op \in Fees =>
    /\ r.n <= latest /\ r.hi <= r.n /\ r.from \subseteq Window(r.n)
    /\ C # {} /\ "latest" \notin C =>
         /\ r.n >= 1 /\ cacheBlock <= r.n
         /\ cacheBlock = r.n => cacheTip \subseteq Window(r.n)
         /\ "cacheTip" \in C => cacheBlock = r.n
         /\ "cacheGet" \notin C /\ "setBlock" \in C => cacheBlock < r.n
         /\ "setTip" \notin C /\ "setBlock" \in C => cacheTip \subseteq Window(r.n)

CacheInv ==
  /\ cacheBlock \in Nat /\ cacheTip \subseteq Block
  /\ reorgs = 0 =>
       \A c \in Client : Alone(c) => CacheFresh /\ FeeInv(req[c], Coming(req[c].todo))

CallsInv ==
  /\ mayCall \in Workloads
  /\ \A c \in Client : req[c].op # "none" => req[c].op \in mayCall[c]

RequestsInv == DOMAIN req = Client /\ \A c \in Client : RequestInv(req[c])

IInv == StoresInv /\ RequestsInv /\ SemaphoreInv /\ CacheInv /\ CallsInv

-------------------------------------------------------------------------------
(***************************************************************************)
(* The programs.                                                           *)
(***************************************************************************)
\* What the stages are.
LEMMA StageFacts ==
  /\ Stage("permit") = 0 /\ Stage("start") = 1 /\ Stage("open") = 2 /\ Stage("fromTag") = 3
  /\ \A s \in {"resolve", "coldTxByHash", "coldReceiptByHash", "toTag", "filterRange",
               "latest", "snapHeader", "evm", "account"} : Stage(s) = 4
  /\ Stage("cacheTip") = 5
  /\ \A s \in {"hotHeader", "filterHeader", "coldTxByIndex", "history", "cacheGet"} :
       Stage(s) = 6
  /\ \A s \in {"coldTxs", "coldHeader", "coldReceipts", "coldLogs", "window"} : Stage(s) = 7
  /\ Stage("stateBefore") = 8 /\ Stage("windowLoop") = 8
  /\ Stage("traceTx") = 9 /\ Stage("setTip") = 9 /\ Stage("setBlock") = 10
  /\ Stage("coldHeaderOpt") = 11 /\ Stage("coldTxAgain") = 11
  /\ Stage("historyLoop") = 12 /\ Stage("filterLoop") = 12
  /\ \A s : Stage(s) \in 0..12
  BY DEF Stage

\* The operations.
LEMMA OpFacts ==
  Op = {"block", "blockTxCount", "blockReceipts", "headerBy", "txByHash", "rawTxByHash",
        "txByIndex", "rawTxByIndex", "receipt", "account", "runCall", "estimateGas",
        "createAccessList", "getLogs", "feeHistory", "gasPrice", "maxPriorityFee", "debugTraceBlock",
        "debugTraceTx", "debugTraceRlp", "rawBlock", "rawReceipts", "rawHeader", "debugTraceCall",
        "rawTx", "traceBlock", "traceTx", "replayBlock", "replayTx", "traceCall",
        "traceCallMany", "traceRawTx", "traceFilter", "callBundle"}
  BY DEF Op, Program

\* A join is of one stage.
OfStage(a, k) == \A s \in a : Stage(s) = k

\* A plan of one join.
LEMMA Plan1 ==
  ASSUME NEW op, NEW a \in JoinsOf(op), NEW ak \in Nat, OfStage(a, ak)
  PROVE  IsPlan(op, <<a>>) /\ Coming(<<a>>) = a
<1>1. IsPlan(op, <<a>>)
  BY DEF IsPlan, Ordered, OfStage, JoinsOf
<1>2. Coming(<<a>>) = a
  BY DEF Coming
<1> QED BY <1>1, <1>2

\* A plan of two joins of ascending stages.
LEMMA Plan2 ==
  ASSUME NEW op, NEW a \in JoinsOf(op), NEW ak \in Nat, OfStage(a, ak),
         NEW b \in JoinsOf(op), NEW bk \in Nat, OfStage(b, bk),
         ak < bk
  PROVE  IsPlan(op, <<a, b>>) /\ Coming(<<a, b>>) = a \cup b
<1>1. IsPlan(op, <<a, b>>)
  BY DEF IsPlan, Ordered, OfStage, JoinsOf
<1>2. Coming(<<a, b>>) = a \cup b
  BY DEF Coming
<1> QED BY <1>1, <1>2

\* A plan of three joins of ascending stages.
LEMMA Plan3 ==
  ASSUME NEW op, NEW a \in JoinsOf(op), NEW ak \in Nat, OfStage(a, ak),
         NEW b \in JoinsOf(op), NEW bk \in Nat, OfStage(b, bk),
         NEW c \in JoinsOf(op), NEW ck \in Nat, OfStage(c, ck),
         ak < bk, bk < ck
  PROVE  IsPlan(op, <<a, b, c>>) /\ Coming(<<a, b, c>>) = a \cup b \cup c
<1>1. IsPlan(op, <<a, b, c>>)
  BY DEF IsPlan, Ordered, OfStage, JoinsOf
<1>2. Coming(<<a, b, c>>) = a \cup b \cup c
  BY DEF Coming
<1> QED BY <1>1, <1>2

\* A plan of four joins of ascending stages.
LEMMA Plan4 ==
  ASSUME NEW op, NEW a \in JoinsOf(op), NEW ak \in Nat, OfStage(a, ak),
         NEW b \in JoinsOf(op), NEW bk \in Nat, OfStage(b, bk),
         NEW c \in JoinsOf(op), NEW ck \in Nat, OfStage(c, ck),
         NEW d \in JoinsOf(op), NEW dk \in Nat, OfStage(d, dk),
         ak < bk, bk < ck, ck < dk
  PROVE  IsPlan(op, <<a, b, c, d>>) /\ Coming(<<a, b, c, d>>) = a \cup b \cup c \cup d
<1>1. IsPlan(op, <<a, b, c, d>>)
  BY DEF IsPlan, Ordered, OfStage, JoinsOf
<1>2. Coming(<<a, b, c, d>>) = a \cup b \cup c \cup d
  BY DEF Coming
<1> QED BY <1>1, <1>2

\* A plan of five joins of ascending stages.
LEMMA Plan5 ==
  ASSUME NEW op, NEW a \in JoinsOf(op), NEW ak \in Nat, OfStage(a, ak),
         NEW b \in JoinsOf(op), NEW bk \in Nat, OfStage(b, bk),
         NEW c \in JoinsOf(op), NEW ck \in Nat, OfStage(c, ck),
         NEW d \in JoinsOf(op), NEW dk \in Nat, OfStage(d, dk),
         NEW e \in JoinsOf(op), NEW ek \in Nat, OfStage(e, ek),
         ak < bk, bk < ck, ck < dk, dk < ek
  PROVE  IsPlan(op, <<a, b, c, d, e>>) /\ Coming(<<a, b, c, d, e>>) = a \cup b \cup c \cup d \cup e
<1>1. IsPlan(op, <<a, b, c, d, e>>)
  BY DEF IsPlan, Ordered, OfStage, JoinsOf
<1>2. Coming(<<a, b, c, d, e>>) = a \cup b \cup c \cup d \cup e
  BY DEF Coming
<1> QED BY <1>1, <1>2

\* A plan of six joins of ascending stages.
LEMMA Plan6 ==
  ASSUME NEW op, NEW a \in JoinsOf(op), NEW ak \in Nat, OfStage(a, ak),
         NEW b \in JoinsOf(op), NEW bk \in Nat, OfStage(b, bk),
         NEW c \in JoinsOf(op), NEW ck \in Nat, OfStage(c, ck),
         NEW d \in JoinsOf(op), NEW dk \in Nat, OfStage(d, dk),
         NEW e \in JoinsOf(op), NEW ek \in Nat, OfStage(e, ek),
         NEW f \in JoinsOf(op), NEW fk \in Nat, OfStage(f, fk),
         ak < bk, bk < ck, ck < dk, dk < ek, ek < fk
  PROVE  IsPlan(op, <<a, b, c, d, e, f>>) /\ Coming(<<a, b, c, d, e, f>>) = a \cup b \cup c \cup d \cup e \cup f
<1>1. IsPlan(op, <<a, b, c, d, e, f>>)
  BY DEF IsPlan, Ordered, OfStage, JoinsOf
<1>2. Coming(<<a, b, c, d, e, f>>) = a \cup b \cup c \cup d \cup e \cup f
  BY DEF Coming
<1> QED BY <1>1, <1>2

\* A plan of seven joins of ascending stages.
LEMMA Plan7 ==
  ASSUME NEW op, NEW a \in JoinsOf(op), NEW ak \in Nat, OfStage(a, ak),
         NEW b \in JoinsOf(op), NEW bk \in Nat, OfStage(b, bk),
         NEW c \in JoinsOf(op), NEW ck \in Nat, OfStage(c, ck),
         NEW d \in JoinsOf(op), NEW dk \in Nat, OfStage(d, dk),
         NEW e \in JoinsOf(op), NEW ek \in Nat, OfStage(e, ek),
         NEW f \in JoinsOf(op), NEW fk \in Nat, OfStage(f, fk),
         NEW g \in JoinsOf(op), NEW gk \in Nat, OfStage(g, gk),
         ak < bk, bk < ck, ck < dk, dk < ek, ek < fk, fk < gk
  PROVE  IsPlan(op, <<a, b, c, d, e, f, g>>) /\ Coming(<<a, b, c, d, e, f, g>>) = a \cup b \cup c \cup d \cup e \cup f \cup g
<1>1. IsPlan(op, <<a, b, c, d, e, f, g>>)
  BY DEF IsPlan, Ordered, OfStage, JoinsOf
<1>2. Coming(<<a, b, c, d, e, f, g>>) = a \cup b \cup c \cup d \cup e \cup f \cup g
  BY DEF Coming
<1> QED BY <1>1, <1>2

\* What holds of a handler that has read nothing.
Begins(op, t) ==
  LET C == Coming(t)
  IN /\ IsPlan(op, t) /\ t # <<>>
     /\ "filterRange" \in C => C \subseteq {"permit", "filterRange", "filterLoop"}
     /\ "history" \in C => C \subseteq {"resolve", "history", "historyLoop"}
     /\ \A s, u \in C \cap (Setters \ {"fromTag"}) : s = u
     /\ op \in ReaderOps \cup {"account"} => C \cap FromReader # {}
     /\ C \cap FromReader # {} => "open" \in C
     /\ C \cap NUsers # {} => C \cap NSetters # {}
     /\ op \in Fees => "latest" \in C
     /\ "latest" \in C => "cacheGet" \in C /\ "setTip" \in C /\ "cacheTip" \notin C
     /\ "traceTx" \in C => "coldTxs" \in C

\* EthBlock begins in order: every read comes after those it needs.
LEMMA BeginsBlock ==
  ASSUME NEW op \in {"block"}
  PROVE  Begins(op, Program[op])
<1> DEFINE a == {"resolve"}
           b == {"coldHeader", "coldTxs"}
<1>1. /\ a \in JoinsOf(op) /\ b \in JoinsOf(op)
  BY DEF JoinsOf, Steps, ReaderOps, ByTx, Fees
<1>2. /\ OfStage(a, 4) /\ OfStage(b, 7)
  BY StageFacts DEF OfStage
<1>3. Program[op] = <<a, b>>
  BY DEF Program, EthBlock
<1> HIDE DEF a, b
<1>4. IsPlan(op, <<a, b>>) /\ Coming(<<a, b>>) = a \cup b
  BY ONLY <1>1, <1>2, Plan2
<1>5. IsPlan(op, Program[op]) /\ Coming(Program[op]) = a \cup b
  BY <1>3, <1>4
<1> QED BY <1>3, <1>5 DEF Begins, ReaderOps, FromReader, NUsers, NSetters, Setters, Fees, a, b

\* EthBlockTxCount begins in order: every read comes after those it needs.
LEMMA BeginsBlockTxCount ==
  ASSUME NEW op \in {"blockTxCount"}
  PROVE  Begins(op, Program[op])
<1> DEFINE a == {"resolve"}
           b == {"coldTxs"}
<1>1. /\ a \in JoinsOf(op) /\ b \in JoinsOf(op)
  BY DEF JoinsOf, Steps, ReaderOps, ByTx, Fees
<1>2. /\ OfStage(a, 4) /\ OfStage(b, 7)
  BY StageFacts DEF OfStage
<1>3. Program[op] = <<a, b>>
  BY DEF Program, EthBlockTxCount
<1> HIDE DEF a, b
<1>4. IsPlan(op, <<a, b>>) /\ Coming(<<a, b>>) = a \cup b
  BY ONLY <1>1, <1>2, Plan2
<1>5. IsPlan(op, Program[op]) /\ Coming(Program[op]) = a \cup b
  BY <1>3, <1>4
<1> QED BY <1>3, <1>5 DEF Begins, ReaderOps, FromReader, NUsers, NSetters, Setters, Fees, a, b

\* EthBlockReceipts begins in order: every read comes after those it needs.
LEMMA BeginsBlockReceipts ==
  ASSUME NEW op \in {"blockReceipts"}
  PROVE  Begins(op, Program[op])
<1> DEFINE a == {"resolve"}
           b == {"coldHeader", "coldTxs", "coldReceipts"}
<1>1. /\ a \in JoinsOf(op) /\ b \in JoinsOf(op)
  BY DEF JoinsOf, Steps, ReaderOps, ByTx, Fees
<1>2. /\ OfStage(a, 4) /\ OfStage(b, 7)
  BY StageFacts DEF OfStage
<1>3. Program[op] = <<a, b>>
  BY DEF Program, EthBlockReceipts
<1> HIDE DEF a, b
<1>4. IsPlan(op, <<a, b>>) /\ Coming(<<a, b>>) = a \cup b
  BY ONLY <1>1, <1>2, Plan2
<1>5. IsPlan(op, Program[op]) /\ Coming(Program[op]) = a \cup b
  BY <1>3, <1>4
<1> QED BY <1>3, <1>5 DEF Begins, ReaderOps, FromReader, NUsers, NSetters, Setters, Fees, a, b

\* EthHeaderBy begins in order: every read comes after those it needs.
LEMMA BeginsHeaderBy ==
  ASSUME NEW op \in {"headerBy"}
  PROVE  Begins(op, Program[op])
<1> DEFINE a == {"open"}
           b == {"snapHeader"}
<1>1. /\ a \in JoinsOf(op) /\ b \in JoinsOf(op)
  BY DEF JoinsOf, Steps, ReaderOps, ByTx, Fees
<1>2. /\ OfStage(a, 2) /\ OfStage(b, 4)
  BY StageFacts DEF OfStage
<1>3. Program[op] = <<a, b>>
  BY DEF Program, EthHeaderBy
<1> HIDE DEF a, b
<1>4. IsPlan(op, <<a, b>>) /\ Coming(<<a, b>>) = a \cup b
  BY ONLY <1>1, <1>2, Plan2
<1>5. IsPlan(op, Program[op]) /\ Coming(Program[op]) = a \cup b
  BY <1>3, <1>4
<1> QED BY <1>3, <1>5 DEF Begins, ReaderOps, FromReader, NUsers, NSetters, Setters, Fees, a, b

\* EthTransactionByHash begins in order: every read comes after those it needs.
LEMMA BeginsTxByHash ==
  ASSUME NEW op \in {"txByHash"}
  PROVE  Begins(op, Program[op])
<1> DEFINE a == {"coldTxByHash"}
           b == {"coldHeaderOpt"}
<1>1. /\ a \in JoinsOf(op) /\ b \in JoinsOf(op)
  BY DEF JoinsOf, Steps, ReaderOps, ByTx, Fees
<1>2. /\ OfStage(a, 4) /\ OfStage(b, 11)
  BY StageFacts DEF OfStage
<1>3. Program[op] = <<a, b>>
  BY DEF Program, EthTransactionByHash
<1> HIDE DEF a, b
<1>4. IsPlan(op, <<a, b>>) /\ Coming(<<a, b>>) = a \cup b
  BY ONLY <1>1, <1>2, Plan2
<1>5. IsPlan(op, Program[op]) /\ Coming(Program[op]) = a \cup b
  BY <1>3, <1>4
<1> QED BY <1>3, <1>5 DEF Begins, ReaderOps, FromReader, NUsers, NSetters, Setters, Fees, a, b

\* EthRawTransactionByHash and DebugRawTransaction
\* begin in order: every read comes after those it needs.
LEMMA BeginsRawTxByHash ==
  ASSUME NEW op \in {"rawTxByHash", "rawTx"}
  PROVE  Begins(op, Program[op])
<1> DEFINE a == {"coldTxByHash"}
<1>1. /\ a \in JoinsOf(op)
  BY DEF JoinsOf, Steps, ReaderOps, ByTx, Fees
<1>2. /\ OfStage(a, 4)
  BY StageFacts DEF OfStage
<1>3. Program[op] = <<a>>
  BY DEF Program, EthRawTransactionByHash, DebugRawTransaction
<1> HIDE DEF a
<1>4. IsPlan(op, <<a>>) /\ Coming(<<a>>) = a
  BY ONLY <1>1, <1>2, Plan1
<1>5. IsPlan(op, Program[op]) /\ Coming(Program[op]) = a
  BY <1>3, <1>4
<1> QED BY <1>3, <1>5 DEF Begins, ReaderOps, FromReader, NUsers, NSetters, Setters, Fees, a

\* EthTransactionByIndex begins in order: every read comes after those it needs.
LEMMA BeginsTxByIndex ==
  ASSUME NEW op \in {"txByIndex"}
  PROVE  Begins(op, Program[op])
<1> DEFINE a == {"resolve"}
           b == {"coldTxByIndex"}
           c == {"coldHeaderOpt"}
<1>1. /\ a \in JoinsOf(op) /\ b \in JoinsOf(op) /\ c \in JoinsOf(op)
  BY DEF JoinsOf, Steps, ReaderOps, ByTx, Fees
<1>2. /\ OfStage(a, 4) /\ OfStage(b, 6) /\ OfStage(c, 11)
  BY StageFacts DEF OfStage
<1>3. Program[op] = <<a, b, c>>
  BY DEF Program, EthTransactionByIndex
<1> HIDE DEF a, b, c
<1>4. IsPlan(op, <<a, b, c>>) /\ Coming(<<a, b, c>>) = a \cup b \cup c
  BY ONLY <1>1, <1>2, Plan3
<1>5. IsPlan(op, Program[op]) /\ Coming(Program[op]) = a \cup b \cup c
  BY <1>3, <1>4
<1> QED BY <1>3, <1>5 DEF Begins, ReaderOps, FromReader, NUsers, NSetters, Setters, Fees, a, b, c

\* EthRawTransactionByIndex begins in order: every read comes after those it needs.
LEMMA BeginsRawTxByIndex ==
  ASSUME NEW op \in {"rawTxByIndex"}
  PROVE  Begins(op, Program[op])
<1> DEFINE a == {"resolve"}
           b == {"coldTxByIndex"}
<1>1. /\ a \in JoinsOf(op) /\ b \in JoinsOf(op)
  BY DEF JoinsOf, Steps, ReaderOps, ByTx, Fees
<1>2. /\ OfStage(a, 4) /\ OfStage(b, 6)
  BY StageFacts DEF OfStage
<1>3. Program[op] = <<a, b>>
  BY DEF Program, EthRawTransactionByIndex
<1> HIDE DEF a, b
<1>4. IsPlan(op, <<a, b>>) /\ Coming(<<a, b>>) = a \cup b
  BY ONLY <1>1, <1>2, Plan2
<1>5. IsPlan(op, Program[op]) /\ Coming(Program[op]) = a \cup b
  BY <1>3, <1>4
<1> QED BY <1>3, <1>5 DEF Begins, ReaderOps, FromReader, NUsers, NSetters, Setters, Fees, a, b

\* EthTransactionReceipt begins in order: every read comes after those it needs.
LEMMA BeginsReceipt ==
  ASSUME NEW op \in {"receipt"}
  PROVE  Begins(op, Program[op])
<1> DEFINE a == {"coldReceiptByHash"}
           b == {"coldTxAgain", "coldHeaderOpt"}
<1>1. /\ a \in JoinsOf(op) /\ b \in JoinsOf(op)
  BY DEF JoinsOf, Steps, ReaderOps, ByTx, Fees
<1>2. /\ OfStage(a, 4) /\ OfStage(b, 11)
  BY StageFacts DEF OfStage
<1>3. Program[op] = <<a, b>>
  BY DEF Program, EthTransactionReceipt
<1> HIDE DEF a, b
<1>4. IsPlan(op, <<a, b>>) /\ Coming(<<a, b>>) = a \cup b
  BY ONLY <1>1, <1>2, Plan2
<1>5. IsPlan(op, Program[op]) /\ Coming(Program[op]) = a \cup b
  BY <1>3, <1>4
<1> QED BY <1>3, <1>5 DEF Begins, ReaderOps, FromReader, NUsers, NSetters, Setters, Fees, a, b

\* EthAccount begins in order: every read comes after those it needs.
LEMMA BeginsAccount ==
  ASSUME NEW op \in {"account"}
  PROVE  Begins(op, Program[op])
<1> DEFINE a == {"open"}
           b == {"account"}
<1>1. /\ a \in JoinsOf(op) /\ b \in JoinsOf(op)
  BY DEF JoinsOf, Steps, ReaderOps, ByTx, Fees
<1>2. /\ OfStage(a, 2) /\ OfStage(b, 4)
  BY StageFacts DEF OfStage
<1>3. Program[op] = <<a, b>>
  BY DEF Program, EthAccount
<1> HIDE DEF a, b
<1>4. IsPlan(op, <<a, b>>) /\ Coming(<<a, b>>) = a \cup b
  BY ONLY <1>1, <1>2, Plan2
<1>5. IsPlan(op, Program[op]) /\ Coming(Program[op]) = a \cup b
  BY <1>3, <1>4
<1> QED BY <1>3, <1>5 DEF Begins, ReaderOps, FromReader, NUsers, NSetters, Setters, Fees, a, b

\* EthRunCall, EthEstimateGas and EthCreateAccessList
\* begin in order: every read comes after those it needs.
LEMMA BeginsRunCall ==
  ASSUME NEW op \in {"runCall", "estimateGas", "createAccessList"}
  PROVE  Begins(op, Program[op])
<1> DEFINE a == {"open"}
           b == {"evm"}
<1>1. /\ a \in JoinsOf(op) /\ b \in JoinsOf(op)
  BY DEF JoinsOf, Steps, ReaderOps, ByTx, Fees
<1>2. /\ OfStage(a, 2) /\ OfStage(b, 4)
  BY StageFacts DEF OfStage
<1>3. Program[op] = <<a, b>>
  BY DEF Program, EthRunCall, EthEstimateGas, EthCreateAccessList
<1> HIDE DEF a, b
<1>4. IsPlan(op, <<a, b>>) /\ Coming(<<a, b>>) = a \cup b
  BY ONLY <1>1, <1>2, Plan2
<1>5. IsPlan(op, Program[op]) /\ Coming(Program[op]) = a \cup b
  BY <1>3, <1>4
<1> QED BY <1>3, <1>5 DEF Begins, ReaderOps, FromReader, NUsers, NSetters, Setters, Fees, a, b

\* EthGetLogs begins in order: every read comes after those it needs.
LEMMA BeginsGetLogs ==
  ASSUME NEW op \in {"getLogs"}
  PROVE  Begins(op, Program[op])
<1> DEFINE a == {"fromTag"}
           b == {"toTag"}
           c == {"coldLogs"}
<1>1. /\ a \in JoinsOf(op) /\ b \in JoinsOf(op) /\ c \in JoinsOf(op)
  BY DEF JoinsOf, Steps, ReaderOps, ByTx, Fees
<1>2. /\ OfStage(a, 3) /\ OfStage(b, 4) /\ OfStage(c, 7)
  BY StageFacts DEF OfStage
<1>3. Program[op] = <<a, b, c>>
  BY DEF Program, EthGetLogs
<1> HIDE DEF a, b, c
<1>4. IsPlan(op, <<a, b, c>>) /\ Coming(<<a, b, c>>) = a \cup b \cup c
  BY ONLY <1>1, <1>2, Plan3
<1>5. IsPlan(op, Program[op]) /\ Coming(Program[op]) = a \cup b \cup c
  BY <1>3, <1>4
<1> QED BY <1>3, <1>5 DEF Begins, ReaderOps, FromReader, NUsers, NSetters, Setters, Fees, a, b, c

\* EthFeeHistory begins in order: every read comes after those it needs.
LEMMA BeginsFeeHistory ==
  ASSUME NEW op \in {"feeHistory"}
  PROVE  Begins(op, Program[op])
<1> DEFINE a == {"resolve"}
           b == {"history"}
           c == {"historyLoop"}
<1>1. /\ a \in JoinsOf(op) /\ b \in JoinsOf(op) /\ c \in JoinsOf(op)
  BY DEF JoinsOf, Steps, ReaderOps, ByTx, Fees
<1>2. /\ OfStage(a, 4) /\ OfStage(b, 6) /\ OfStage(c, 12)
  BY StageFacts DEF OfStage
<1>3. Program[op] = <<a, b, c>>
  BY DEF Program, EthFeeHistory
<1> HIDE DEF a, b, c
<1>4. IsPlan(op, <<a, b, c>>) /\ Coming(<<a, b, c>>) = a \cup b \cup c
  BY ONLY <1>1, <1>2, Plan3
<1>5. IsPlan(op, Program[op]) /\ Coming(Program[op]) = a \cup b \cup c
  BY <1>3, <1>4
<1> QED BY <1>3, <1>5 DEF Begins, ReaderOps, FromReader, NUsers, NSetters, Setters, Fees, a, b, c

\* EthGasPrice begins in order: every read comes after those it needs.
LEMMA BeginsGasPrice ==
  ASSUME NEW op \in {"gasPrice"}
  PROVE  Begins(op, Program[op])
<1> DEFINE a == {"latest"}
           b == {"cacheGet"}
           c == {"window"}
           d == {"windowLoop"}
           e == {"setTip"}
           f == {"setBlock"}
           g == {"coldHeaderOpt"}
<1>1. /\ a \in JoinsOf(op) /\ b \in JoinsOf(op) /\ c \in JoinsOf(op) /\ d \in JoinsOf(op) /\ e \in JoinsOf(op) /\ f \in JoinsOf(op) /\ g \in JoinsOf(op)
  BY DEF JoinsOf, Steps, ReaderOps, ByTx, Fees
<1>2. /\ OfStage(a, 4) /\ OfStage(b, 6) /\ OfStage(c, 7) /\ OfStage(d, 8) /\ OfStage(e, 9) /\ OfStage(f, 10) /\ OfStage(g, 11)
  BY StageFacts DEF OfStage
<1>3. Program[op] = <<a, b, c, d, e, f, g>>
  BY DEF Program, EthGasPrice
<1> HIDE DEF a, b, c, d, e, f, g
<1>4. IsPlan(op, <<a, b, c, d, e, f, g>>) /\ Coming(<<a, b, c, d, e, f, g>>) = a \cup b \cup c \cup d \cup e \cup f \cup g
  BY ONLY <1>1, <1>2, Plan7
<1>5. IsPlan(op, Program[op]) /\ Coming(Program[op]) = a \cup b \cup c \cup d \cup e \cup f \cup g
  BY <1>3, <1>4
<1> QED BY <1>3, <1>5 DEF Begins, ReaderOps, FromReader, NUsers, NSetters, Setters, Fees, a, b, c, d, e, f, g

\* EthMaxPriorityFee begins in order: every read comes after those it needs.
LEMMA BeginsMaxPriorityFee ==
  ASSUME NEW op \in {"maxPriorityFee"}
  PROVE  Begins(op, Program[op])
<1> DEFINE a == {"latest"}
           b == {"cacheGet"}
           c == {"window"}
           d == {"windowLoop"}
           e == {"setTip"}
           f == {"setBlock"}
<1>1. /\ a \in JoinsOf(op) /\ b \in JoinsOf(op) /\ c \in JoinsOf(op) /\ d \in JoinsOf(op) /\ e \in JoinsOf(op) /\ f \in JoinsOf(op)
  BY DEF JoinsOf, Steps, ReaderOps, ByTx, Fees
<1>2. /\ OfStage(a, 4) /\ OfStage(b, 6) /\ OfStage(c, 7) /\ OfStage(d, 8) /\ OfStage(e, 9) /\ OfStage(f, 10)
  BY StageFacts DEF OfStage
<1>3. Program[op] = <<a, b, c, d, e, f>>
  BY DEF Program, EthMaxPriorityFee
<1> HIDE DEF a, b, c, d, e, f
<1>4. IsPlan(op, <<a, b, c, d, e, f>>) /\ Coming(<<a, b, c, d, e, f>>) = a \cup b \cup c \cup d \cup e \cup f
  BY ONLY <1>1, <1>2, Plan6
<1>5. IsPlan(op, Program[op]) /\ Coming(Program[op]) = a \cup b \cup c \cup d \cup e \cup f
  BY <1>3, <1>4
<1> QED BY <1>3, <1>5 DEF Begins, ReaderOps, FromReader, NUsers, NSetters, Setters, Fees, a, b, c, d, e, f

\* DebugTraceBlock, TraceBlock and TraceReplayBlock
\* begin in order: every read comes after those it needs.
LEMMA BeginsDebugTraceBlock ==
  ASSUME NEW op \in {"debugTraceBlock", "traceBlock", "replayBlock"}
  PROVE  Begins(op, Program[op])
<1> DEFINE a == {"permit"}
           b == {"resolve"}
           c == {"hotHeader"}
           d == {"coldTxs"}
           e == {"stateBefore"}
<1>1. /\ a \in JoinsOf(op) /\ b \in JoinsOf(op) /\ c \in JoinsOf(op) /\ d \in JoinsOf(op) /\ e \in JoinsOf(op)
  BY DEF JoinsOf, Steps, ReaderOps, ByTx, Fees
<1>2. /\ OfStage(a, 0) /\ OfStage(b, 4) /\ OfStage(c, 6) /\ OfStage(d, 7) /\ OfStage(e, 8)
  BY StageFacts DEF OfStage
<1>3. Program[op] = <<a, b, c, d, e>>
  BY DEF Program, DebugTraceBlock, TraceBlock, TraceReplayBlock
<1> HIDE DEF a, b, c, d, e
<1>4. IsPlan(op, <<a, b, c, d, e>>) /\ Coming(<<a, b, c, d, e>>) = a \cup b \cup c \cup d \cup e
  BY ONLY <1>1, <1>2, Plan5
<1>5. IsPlan(op, Program[op]) /\ Coming(Program[op]) = a \cup b \cup c \cup d \cup e
  BY <1>3, <1>4
<1> QED BY <1>3, <1>5 DEF Begins, ReaderOps, FromReader, NUsers, NSetters, Setters, Fees, a, b, c, d, e

\* DebugTraceTransaction, TraceTransaction and TraceReplayTransaction
\* begin in order: every read comes after those it needs.
LEMMA BeginsDebugTraceTx ==
  ASSUME NEW op \in {"debugTraceTx", "traceTx", "replayTx"}
  PROVE  Begins(op, Program[op])
<1> DEFINE a == {"permit"}
           b == {"coldTxByHash"}
           c == {"hotHeader"}
           d == {"coldTxs"}
           e == {"stateBefore"}
           f == {"traceTx"}
<1>1. /\ a \in JoinsOf(op) /\ b \in JoinsOf(op) /\ c \in JoinsOf(op) /\ d \in JoinsOf(op) /\ e \in JoinsOf(op) /\ f \in JoinsOf(op)
  BY DEF JoinsOf, Steps, ReaderOps, ByTx, Fees
<1>2. /\ OfStage(a, 0) /\ OfStage(b, 4) /\ OfStage(c, 6) /\ OfStage(d, 7) /\ OfStage(e, 8) /\ OfStage(f, 9)
  BY StageFacts DEF OfStage
<1>3. Program[op] = <<a, b, c, d, e, f>>
  BY DEF Program, DebugTraceTransaction, TraceTransaction, TraceReplayTransaction
<1> HIDE DEF a, b, c, d, e, f
<1>4. IsPlan(op, <<a, b, c, d, e, f>>) /\ Coming(<<a, b, c, d, e, f>>) = a \cup b \cup c \cup d \cup e \cup f
  BY ONLY <1>1, <1>2, Plan6
<1>5. IsPlan(op, Program[op]) /\ Coming(Program[op]) = a \cup b \cup c \cup d \cup e \cup f
  BY <1>3, <1>4
<1> QED BY <1>3, <1>5 DEF Begins, ReaderOps, FromReader, NUsers, NSetters, Setters, Fees, a, b, c, d, e, f

\* DebugTraceBlockRlp begins in order: every read comes after those it needs.
LEMMA BeginsDebugTraceRlp ==
  ASSUME NEW op \in {"debugTraceRlp"}
  PROVE  Begins(op, Program[op])
<1> DEFINE a == {"permit"}
           b == {"resolve"}
           c == {"stateBefore"}
<1>1. /\ a \in JoinsOf(op) /\ b \in JoinsOf(op) /\ c \in JoinsOf(op)
  BY DEF JoinsOf, Steps, ReaderOps, ByTx, Fees
<1>2. /\ OfStage(a, 0) /\ OfStage(b, 4) /\ OfStage(c, 8)
  BY StageFacts DEF OfStage
<1>3. Program[op] = <<a, b, c>>
  BY DEF Program, DebugTraceBlockRlp
<1> HIDE DEF a, b, c
<1>4. IsPlan(op, <<a, b, c>>) /\ Coming(<<a, b, c>>) = a \cup b \cup c
  BY ONLY <1>1, <1>2, Plan3
<1>5. IsPlan(op, Program[op]) /\ Coming(Program[op]) = a \cup b \cup c
  BY <1>3, <1>4
<1> QED BY <1>3, <1>5 DEF Begins, ReaderOps, FromReader, NUsers, NSetters, Setters, Fees, a, b, c

\* DebugRawBlock begins in order: every read comes after those it needs.
LEMMA BeginsRawBlock ==
  ASSUME NEW op \in {"rawBlock"}
  PROVE  Begins(op, Program[op])
<1> DEFINE a == {"resolve"}
           b == {"hotHeader"}
           c == {"coldTxs"}
<1>1. /\ a \in JoinsOf(op) /\ b \in JoinsOf(op) /\ c \in JoinsOf(op)
  BY DEF JoinsOf, Steps, ReaderOps, ByTx, Fees
<1>2. /\ OfStage(a, 4) /\ OfStage(b, 6) /\ OfStage(c, 7)
  BY StageFacts DEF OfStage
<1>3. Program[op] = <<a, b, c>>
  BY DEF Program, DebugRawBlock
<1> HIDE DEF a, b, c
<1>4. IsPlan(op, <<a, b, c>>) /\ Coming(<<a, b, c>>) = a \cup b \cup c
  BY ONLY <1>1, <1>2, Plan3
<1>5. IsPlan(op, Program[op]) /\ Coming(Program[op]) = a \cup b \cup c
  BY <1>3, <1>4
<1> QED BY <1>3, <1>5 DEF Begins, ReaderOps, FromReader, NUsers, NSetters, Setters, Fees, a, b, c

\* DebugRawReceipts begins in order: every read comes after those it needs.
LEMMA BeginsRawReceipts ==
  ASSUME NEW op \in {"rawReceipts"}
  PROVE  Begins(op, Program[op])
<1> DEFINE a == {"resolve"}
           b == {"coldReceipts"}
<1>1. /\ a \in JoinsOf(op) /\ b \in JoinsOf(op)
  BY DEF JoinsOf, Steps, ReaderOps, ByTx, Fees
<1>2. /\ OfStage(a, 4) /\ OfStage(b, 7)
  BY StageFacts DEF OfStage
<1>3. Program[op] = <<a, b>>
  BY DEF Program, DebugRawReceipts
<1> HIDE DEF a, b
<1>4. IsPlan(op, <<a, b>>) /\ Coming(<<a, b>>) = a \cup b
  BY ONLY <1>1, <1>2, Plan2
<1>5. IsPlan(op, Program[op]) /\ Coming(Program[op]) = a \cup b
  BY <1>3, <1>4
<1> QED BY <1>3, <1>5 DEF Begins, ReaderOps, FromReader, NUsers, NSetters, Setters, Fees, a, b

\* DebugRawHeader begins in order: every read comes after those it needs.
LEMMA BeginsRawHeader ==
  ASSUME NEW op \in {"rawHeader"}
  PROVE  Begins(op, Program[op])
<1> DEFINE a == {"resolve"}
           b == {"hotHeader"}
<1>1. /\ a \in JoinsOf(op) /\ b \in JoinsOf(op)
  BY DEF JoinsOf, Steps, ReaderOps, ByTx, Fees
<1>2. /\ OfStage(a, 4) /\ OfStage(b, 6)
  BY StageFacts DEF OfStage
<1>3. Program[op] = <<a, b>>
  BY DEF Program, DebugRawHeader
<1> HIDE DEF a, b
<1>4. IsPlan(op, <<a, b>>) /\ Coming(<<a, b>>) = a \cup b
  BY ONLY <1>1, <1>2, Plan2
<1>5. IsPlan(op, Program[op]) /\ Coming(Program[op]) = a \cup b
  BY <1>3, <1>4
<1> QED BY <1>3, <1>5 DEF Begins, ReaderOps, FromReader, NUsers, NSetters, Setters, Fees, a, b

\* DebugTraceCall, TraceCall, TraceCallMany and TraceRawTransaction
\* begin in order: every read comes after those it needs.
LEMMA BeginsDebugTraceCall ==
  ASSUME NEW op \in {"debugTraceCall", "traceCall", "traceCallMany", "traceRawTx"}
  PROVE  Begins(op, Program[op])
<1> DEFINE a == {"permit"}
           b == {"open"}
           c == {"evm"}
<1>1. /\ a \in JoinsOf(op) /\ b \in JoinsOf(op) /\ c \in JoinsOf(op)
  BY DEF JoinsOf, Steps, ReaderOps, ByTx, Fees
<1>2. /\ OfStage(a, 0) /\ OfStage(b, 2) /\ OfStage(c, 4)
  BY StageFacts DEF OfStage
<1>3. Program[op] = <<a, b, c>>
  BY DEF Program, DebugTraceCall, TraceCall, TraceCallMany, TraceRawTransaction
<1> HIDE DEF a, b, c
<1>4. IsPlan(op, <<a, b, c>>) /\ Coming(<<a, b, c>>) = a \cup b \cup c
  BY ONLY <1>1, <1>2, Plan3
<1>5. IsPlan(op, Program[op]) /\ Coming(Program[op]) = a \cup b \cup c
  BY <1>3, <1>4
<1> QED BY <1>3, <1>5 DEF Begins, ReaderOps, FromReader, NUsers, NSetters, Setters, Fees, a, b, c

\* TraceFilter begins in order: every read comes after those it needs.
LEMMA BeginsTraceFilter ==
  ASSUME NEW op \in {"traceFilter"}
  PROVE  Begins(op, Program[op])
<1> DEFINE a == {"permit"}
           b == {"filterRange"}
           c == {"filterLoop"}
<1>1. /\ a \in JoinsOf(op) /\ b \in JoinsOf(op) /\ c \in JoinsOf(op)
  BY DEF JoinsOf, Steps, ReaderOps, ByTx, Fees
<1>2. /\ OfStage(a, 0) /\ OfStage(b, 4) /\ OfStage(c, 12)
  BY StageFacts DEF OfStage
<1>3. Program[op] = <<a, b, c>>
  BY DEF Program, TraceFilter
<1> HIDE DEF a, b, c
<1>4. IsPlan(op, <<a, b, c>>) /\ Coming(<<a, b, c>>) = a \cup b \cup c
  BY ONLY <1>1, <1>2, Plan3
<1>5. IsPlan(op, Program[op]) /\ Coming(Program[op]) = a \cup b \cup c
  BY <1>3, <1>4
<1> QED BY <1>3, <1>5 DEF Begins, ReaderOps, FromReader, NUsers, NSetters, Setters, Fees, a, b, c

\* SignetCallBundle begins in order: every read comes after those it needs.
LEMMA BeginsCallBundle ==
  ASSUME NEW op \in {"callBundle"}
  PROVE  Begins(op, Program[op])
<1> DEFINE a == {"start"}
           b == {"open"}
           c == {"evm"}
<1>1. /\ a \in JoinsOf(op) /\ b \in JoinsOf(op) /\ c \in JoinsOf(op)
  BY DEF JoinsOf, Steps, ReaderOps, ByTx, Fees
<1>2. /\ OfStage(a, 1) /\ OfStage(b, 2) /\ OfStage(c, 4)
  BY StageFacts DEF OfStage
<1>3. Program[op] = <<a, b, c>>
  BY DEF Program, SignetCallBundle
<1> HIDE DEF a, b, c
<1>4. IsPlan(op, <<a, b, c>>) /\ Coming(<<a, b, c>>) = a \cup b \cup c
  BY ONLY <1>1, <1>2, Plan3
<1>5. IsPlan(op, Program[op]) /\ Coming(Program[op]) = a \cup b \cup c
  BY <1>3, <1>4
<1> QED BY <1>3, <1>5 DEF Begins, ReaderOps, FromReader, NUsers, NSetters, Setters, Fees, a, b, c

\* Every handler.
LEMMA ProgramFacts == \A op \in Op : Begins(op, Program[op])
  BY OpFacts, BeginsBlock, BeginsBlockTxCount, BeginsBlockReceipts, BeginsHeaderBy,
     BeginsTxByHash, BeginsRawTxByHash, BeginsTxByIndex, BeginsRawTxByIndex,
     BeginsReceipt, BeginsAccount, BeginsRunCall, BeginsGetLogs,
     BeginsFeeHistory, BeginsGasPrice, BeginsMaxPriorityFee, BeginsDebugTraceBlock,
     BeginsDebugTraceTx, BeginsDebugTraceRlp, BeginsRawBlock, BeginsRawReceipts,
     BeginsRawHeader, BeginsDebugTraceCall, BeginsTraceFilter, BeginsCallBundle

-------------------------------------------------------------------------------
(***************************************************************************)
(* The reads to come.                                                      *)
(***************************************************************************)
\* The plan once read s of its first join is done.
Rest(t, s) ==
  LET join == Head(t) \ {s}
  IN IF join = {} THEN Tail(t) ELSE <<join>> \o Tail(t)

\* The plan is over when nothing is to come.
LEMMA ComingNothing ==
  ASSUME NEW op, NEW t, IsPlan(op, t)
  PROVE  Coming(t) = {} <=> t = <<>>
<1>1. t \in Seq(JoinsOf(op))
  BY DEF IsPlan
<1>2. CASE t = <<>>
  BY <1>2 DEF Coming
<1>3. CASE t # <<>>
  <2>1. 1 \in 1..Len(t) /\ t[1] \in JoinsOf(op)
    BY <1>1, <1>3
  <2> QED BY <2>1, <1>3 DEF Coming, JoinsOf
<1> QED BY <1>2, <1>3

\* The first join is of the handler's reads, and of the lowest stage.
LEMMA HeadFacts ==
  ASSUME NEW op, NEW t, IsPlan(op, t), t # <<>>, NEW s \in Head(t)
  PROVE  /\ s \in Steps(op) /\ s \in Coming(t)
         /\ \A u \in Coming(t) : Stage(s) <= Stage(u)
<1>1. t \in Seq(JoinsOf(op)) /\ Ordered(t) /\ 1 \in 1..Len(t) /\ Head(t) = t[1]
  BY DEF IsPlan
<1>2. s \in t[1] /\ t[1] \in JoinsOf(op)
  BY <1>1
<1>3. s \in Steps(op) /\ s \in Coming(t)
  BY <1>1, <1>2 DEF Coming, JoinsOf
<1>4. ASSUME NEW u \in Coming(t) PROVE Stage(s) <= Stage(u)
  <2>1. PICK j \in 1..Len(t) : u \in t[j]
    BY DEF Coming
  <2>2. 1 < j \/ 1 = j
    BY <1>1, <2>1
  <2>3. Stage(s) < Stage(u) \/ Stage(s) = Stage(u)
    BY <1>1, <1>2, <2>1, <2>2 DEF Ordered
  <2>4. Stage(s) \in Int /\ Stage(u) \in Int
    BY StageFacts
  <2> QED BY <2>3, <2>4
<1> QED BY <1>3, <1>4

\* A later part of a plan is one.
LEMMA LaterPlan ==
  ASSUME NEW op, NEW t, IsPlan(op, t), NEW k \in Nat, k >= 1
  PROVE  /\ IsPlan(op, SubSeq(t, k, Len(t)))
         /\ Coming(SubSeq(t, k, Len(t))) \subseteq Coming(t)
<1> DEFINE u == SubSeq(t, k, Len(t))
<1>1. t \in Seq(JoinsOf(op)) /\ Ordered(t) /\ Len(t) \in Nat
  BY DEF IsPlan
<1>2. /\ u \in Seq(JoinsOf(op)) /\ Len(u) \in Nat
      /\ \A i \in 1..Len(u) : i + k - 1 \in 1..Len(t) /\ u[i] = t[i + k - 1]
  BY <1>1
<1>3. Ordered(u)
  <2>1. SUFFICES ASSUME NEW i \in 1..Len(u), NEW j \in 1..Len(u), NEW s \in u[i], NEW v \in u[j]
                 PROVE  (i < j => Stage(s) < Stage(v)) /\ (i = j => Stage(s) = Stage(v))
    BY DEF Ordered
  <2>2. PICK a \in 1..Len(t), b \in 1..Len(t) : a = i + k - 1 /\ b = j + k - 1 /\ u[i] = t[a] /\ u[j] = t[b]
    BY <1>2
  <2>3. (i < j => a < b) /\ (i = j => a = b)
    BY <1>1, <1>2, <2>2
  <2> QED BY <1>1, <2>2, <2>3 DEF Ordered
<1>4. Coming(u) \subseteq Coming(t)
  BY <1>2 DEF Coming
<1> QED BY <1>2, <1>3, <1>4 DEF IsPlan

\* A join of an earlier stage may be put before a plan.
LEMMA ConsPlan ==
  ASSUME NEW op, NEW t, IsPlan(op, t), NEW a \in JoinsOf(op),
         \A s, v \in a : Stage(s) = Stage(v),
         \A s \in a, v \in Coming(t) : Stage(s) < Stage(v)
  PROVE  IsPlan(op, <<a>> \o t) /\ Coming(<<a>> \o t) = a \cup Coming(t)
<1> DEFINE u == <<a>> \o t
<1>1. t \in Seq(JoinsOf(op)) /\ Ordered(t) /\ Len(t) \in Nat
  BY DEF IsPlan
<1>2. /\ u \in Seq(JoinsOf(op)) /\ Len(u) = Len(t) + 1 /\ u[1] = a
      /\ \A i \in 2..Len(u) : i - 1 \in 1..Len(t) /\ u[i] = t[i - 1]
  BY <1>1
<1> HIDE DEF u
<1>3. Ordered(u)
  <2>1. SUFFICES ASSUME NEW i \in 1..Len(u), NEW j \in 1..Len(u), NEW s \in u[i], NEW v \in u[j]
                 PROVE  (i < j => Stage(s) < Stage(v)) /\ (i = j => Stage(s) = Stage(v))
    BY DEF Ordered
  <2>2. CASE i = 1 /\ j = 1
    BY <1>2, <2>2
  <2>3. CASE i = 1 /\ j > 1
    <3>1. j \in 2..Len(u)
      BY <1>1, <1>2, <2>3
    <3>2. v \in Coming(t)
      BY <1>2, <3>1 DEF Coming
    <3> QED BY <1>2, <2>3, <3>2
  <2>4. CASE i > 1 /\ j > 1
    <3>1. PICK p \in 1..Len(t), q \in 1..Len(t) : p = i - 1 /\ q = j - 1 /\ u[i] = t[p] /\ u[j] = t[q]
      BY <1>1, <1>2, <2>4
    <3>2. (i < j => p < q) /\ (i = j => p = q)
      BY <1>1, <1>2, <3>1
    <3> QED BY <1>1, <3>1, <3>2 DEF Ordered
  <2>5. CASE i > 1 /\ j = 1
    BY <1>1, <1>2, <2>5
  <2> QED BY <1>1, <1>2, <2>2, <2>3, <2>4, <2>5
<1>4. Coming(u) = a \cup Coming(t)
  <2>1. ASSUME NEW s \in Coming(u) PROVE s \in a \cup Coming(t)
    <3>1. PICK i \in 1..Len(u) : s \in u[i]
      BY DEF Coming
    <3>2. CASE i = 1
      BY <1>2, <3>1, <3>2
    <3>3. CASE i # 1
      <4>1. i \in 2..Len(u)
        BY <1>1, <1>2, <3>3
      <4> QED BY <1>2, <3>1, <4>1 DEF Coming
    <3> QED BY <3>2, <3>3
  <2>2. 1 \in 1..Len(u)
    BY <1>1, <1>2
  <2>3. ASSUME NEW s \in a PROVE s \in Coming(u)
    BY <1>2, <2>2, <2>3 DEF Coming
  <2>4. ASSUME NEW s \in Coming(t) PROVE s \in Coming(u)
    <3>1. PICK i \in 1..Len(t) : s \in t[i]
      BY DEF Coming
    <3>2. PICK j \in 2..Len(u) : j - 1 = i
      BY <1>1, <1>2
    <3>3. u[j] = t[j - 1] /\ j \in 1..Len(u)
      BY <1>1, <1>2
    <3>4. u[j] = t[i]
      BY <3>2, <3>3
    <3> QED BY <3>1, <3>3, <3>4 DEF Coming
  <2> QED BY <2>1, <2>3, <2>4
<1> QED BY <1>2, <1>3, <1>4 DEF IsPlan, u

\* A read that is done is no longer to come; the others are.
LEMMA RestFacts ==
  ASSUME NEW op, NEW t, IsPlan(op, t), t # <<>>, NEW s \in Head(t)
  PROVE  IsPlan(op, Rest(t, s)) /\ Coming(Rest(t, s)) = Coming(t) \ {s}
<1> DEFINE a == Head(t)  b == Tail(t)
<1>1. t \in Seq(JoinsOf(op)) /\ Ordered(t) /\ Len(t) \in Nat /\ 1 \in 1..Len(t) /\ a = t[1]
  BY DEF IsPlan
<1>2. b = SubSeq(t, 2, Len(t))
  BY <1>1
<1>3. IsPlan(op, b)
  <2>1. 2 \in Nat /\ 2 >= 1
    OBVIOUS
  <2>2. IsPlan(op, SubSeq(t, 2, Len(t)))
    BY <2>1, LaterPlan
  <2> QED BY <1>2, <2>2
<1>4. /\ b \in Seq(JoinsOf(op)) /\ Len(b) = Len(t) - 1
      /\ \A i \in 1..Len(b) : i + 1 \in 2..Len(t) /\ b[i] = t[i + 1]
  BY <1>1
<1> HIDE DEF a, b
<1>5. Coming(t) = a \cup Coming(b)
  <2>1. ASSUME NEW u \in Coming(t) PROVE u \in a \cup Coming(b)
    <3>1. PICK i \in 1..Len(t) : u \in t[i]
      BY DEF Coming
    <3>2. CASE i = 1
      BY <1>1, <3>1, <3>2
    <3>3. CASE i # 1
      <4>1. PICK j \in 1..Len(b) : j + 1 = i
        BY <1>1, <1>4, <3>3
      <4> QED BY <1>4, <3>1, <4>1 DEF Coming
    <3> QED BY <3>2, <3>3
  <2>2. ASSUME NEW u \in Coming(b) PROVE u \in Coming(t)
    <3>1. PICK i \in 1..Len(b) : u \in b[i]
      BY DEF Coming
    <3>2. i + 1 \in 1..Len(t) /\ u \in t[i + 1]
      BY <1>1, <1>4, <3>1
    <3> QED BY <3>2 DEF Coming
  <2>3. a \subseteq Coming(t)
    BY <1>1 DEF Coming
  <2> QED BY <2>1, <2>2, <2>3
<1>6. \A u \in a, v \in Coming(b) : Stage(u) < Stage(v)
  <2>1. SUFFICES ASSUME NEW u \in a, NEW v \in Coming(b) PROVE Stage(u) < Stage(v)
    OBVIOUS
  <2>2. PICK i \in 1..Len(b) : v \in b[i]
    BY DEF Coming
  <2>3. PICK j \in 1..Len(t) : j = i + 1 /\ v \in t[j] /\ 1 < j
    BY <1>1, <1>4, <2>2
  <2> QED BY <1>1, <2>3 DEF Ordered
<1>7. \A u, v \in a : Stage(u) = Stage(v)
  BY <1>1 DEF Ordered
<1>8. s \in a /\ s \notin Coming(b)
  <2>1. s \in a
    BY DEF a
  <2>2. ~(Stage(s) < Stage(s))
    BY StageFacts
  <2> QED BY <2>1, <2>2, <1>6
<1>9. CASE a \ {s} = {}
  <2>1. Rest(t, s) = b
    BY <1>9 DEF Rest, a, b
  <2>2. a = {s}
    BY <1>8, <1>9
  <2> QED BY <2>1, <2>2, <1>3, <1>5, <1>8
<1>10. CASE a \ {s} # {}
  <2>1. Rest(t, s) = <<a \ {s}>> \o b
    BY <1>10 DEF Rest, a, b
  <2>2. a \in JoinsOf(op)
    BY <1>1
  <2>3. a \ {s} \in JoinsOf(op)
    BY <2>2, <1>10 DEF JoinsOf
  <2>4. (\A u, v \in a \ {s} : Stage(u) = Stage(v)) /\ (\A u \in a \ {s}, v \in Coming(b) : Stage(u) < Stage(v))
    BY <1>6, <1>7
  <2>5. IsPlan(op, <<a \ {s}>> \o b) /\ Coming(<<a \ {s}>> \o b) = (a \ {s}) \cup Coming(b)
    BY <1>3, <2>3, <2>4, ConsPlan
  <2> QED BY <2>1, <2>5, <1>5, <1>8
<1> QED BY <1>9, <1>10

\* From the sixth join on, five stages have passed.
LEMMA SixthOn ==
  ASSUME NEW op, NEW t, IsPlan(op, t), t # <<>>, NEW s \in Head(t), Stage(s) = 6,
         NEW u \in Coming(SubSeq(t, 6, Len(t)))
  PROVE  Stage(u) >= 11
<1>1. t \in Seq(JoinsOf(op)) /\ Ordered(t) /\ Len(t) \in Nat /\ s \in t[1]
  BY DEF IsPlan
<1> DEFINE v == SubSeq(t, 6, Len(t))
<1>2. Len(v) \in Nat /\ \A i \in 1..Len(v) : i + 5 \in 6..Len(t) /\ v[i] = t[i + 5]
  BY <1>1
<1>3. PICK j \in 1..Len(v) : u \in v[j]
  BY DEF Coming
<1>4. PICK i \in 1..Len(t) : i >= 6 /\ u \in t[i]
  BY <1>1, <1>2, <1>3
<1>5. /\ 2 \in 1..Len(t) /\ 3 \in 1..Len(t) /\ 4 \in 1..Len(t) /\ 5 \in 1..Len(t)
      /\ 1 \in 1..Len(t) /\ 5 < i
  BY <1>1, <1>4
<1>6. \A k \in 1..Len(t) : t[k] # {}
  BY <1>1 DEF JoinsOf
<1>7. PICK s2 \in t[2], s3 \in t[3], s4 \in t[4], s5 \in t[5] : TRUE
  BY <1>5, <1>6
<1>8. \A x : Stage(x) \in Int
  BY StageFacts
<1>9. Stage(s) < Stage(s2) /\ Stage(s2) < Stage(s3) /\ Stage(s3) < Stage(s4) /\ Stage(s4) < Stage(s5)
  BY <1>1, <1>5, <1>7 DEF Ordered
<1>10. Stage(s5) < Stage(u)
  BY <1>1, <1>4, <1>5, <1>7 DEF Ordered
<1> QED BY <1>8, <1>9, <1>10

\* The loop of trace_filter puts three reads before the rest.
LEMMA ThreeBefore ==
  ASSUME NEW S, NEW t \in Seq(S), NEW a \in S, NEW b \in S, NEW c \in S
  PROVE  <<a, b, c>> \o t = <<a>> \o (<<b>> \o (<<c>> \o t))
<1> DEFINE u == <<a, b, c>> \o t  w == <<c>> \o t  x == <<b>> \o w  y == <<a>> \o x
<1>1. u \in Seq(S) /\ Len(u) = Len(t) + 3 /\ u[1] = a /\ u[2] = b /\ u[3] = c
      /\ \A i \in 4..Len(u) : u[i] = t[i - 3]
  OBVIOUS
<1>2. w \in Seq(S) /\ Len(w) = Len(t) + 1 /\ w[1] = c /\ \A i \in 2..Len(w) : w[i] = t[i - 1]
  OBVIOUS
<1> HIDE DEF u, w
<1>3. x \in Seq(S) /\ Len(x) = Len(w) + 1 /\ x[1] = b /\ \A i \in 2..Len(x) : x[i] = w[i - 1]
  BY <1>2
<1> HIDE DEF x
<1>4. y \in Seq(S) /\ Len(y) = Len(x) + 1 /\ y[1] = a /\ \A i \in 2..Len(y) : y[i] = x[i - 1]
  BY <1>3
<1> HIDE DEF y
<1>5. Len(t) \in Nat /\ Len(y) = Len(u)
  BY <1>1, <1>2, <1>3, <1>4
<1>6. ASSUME NEW i \in 1..Len(u) PROVE u[i] = y[i]
  <2>1. CASE i = 1
    BY <2>1, <1>1, <1>4
  <2>2. CASE i = 2
    BY <2>2, <1>1, <1>2, <1>3, <1>4, <1>5
  <2>3. CASE i = 3
    BY <2>3, <1>1, <1>2, <1>3, <1>4, <1>5
  <2>4. CASE i >= 4
    <3>1. y[i] = x[i - 1] /\ i - 1 \in 2..Len(x)
      BY <1>1, <1>2, <1>3, <1>4, <1>5, <2>4
    <3>2. x[i - 1] = w[(i - 1) - 1] /\ (i - 1) - 1 \in 2..Len(w)
      BY <3>1, <1>1, <1>2, <1>3, <1>5, <2>4
    <3>3. w[(i - 1) - 1] = t[((i - 1) - 1) - 1]
      BY <3>2, <1>2
    <3>4. ((i - 1) - 1) - 1 = i - 3
      OBVIOUS
    <3> QED BY <1>1, <1>5, <2>4, <3>1, <3>2, <3>3, <3>4
  <2> QED BY <1>1, <1>5, <2>1, <2>2, <2>3, <2>4
<1>7. u \in Seq(S) /\ y \in Seq(S) /\ Len(u) = Len(y) /\ \A i \in 1..Len(u) : u[i] = y[i]
  BY <1>1, <1>4, <1>5, <1>6
<1>8. u = y
  BY ONLY <1>7
<1> QED BY <1>8 DEF u, w, x, y

-------------------------------------------------------------------------------
(***************************************************************************)
(* Requests, field by field.                                               *)
(***************************************************************************)
\* The fields.
LEMMA RecordFacts ==
  /\ DOMAIN NoRequest = {"op", "id", "todo", "out", "n", "hi", "snap", "from", "base", "body",
                         "whole", "settled", "stored", "holds", "gone", "rewound"}
  /\ NoRequest.op = "none" /\ NoRequest.todo = <<>> /\ NoRequest.out = "none"
  /\ NoRequest.n = 0 /\ NoRequest.hi = 0 /\ NoRequest.snap = <<>> /\ NoRequest.from = {}
  /\ NoRequest.base = {} /\ NoRequest.body = {} /\ NoRequest.whole = TRUE
  /\ NoRequest.settled = FALSE /\ NoRequest.stored = FALSE /\ NoRequest.holds = FALSE
  /\ NoRequest.gone = FALSE /\ NoRequest.rewound = FALSE
  BY DEF NoRequest

\* The fields that neither a read done nor an answer changes.
SameAsked(q, r) ==
  /\ DOMAIN q = DOMAIN r
  /\ q.op = r.op /\ q.id = r.id /\ q.stored = r.stored /\ q.rewound = r.rewound

SameContent(q, r) ==
  /\ q.n = r.n /\ q.from = r.from /\ q.base = r.base
  /\ q.whole = r.whole /\ q.settled = r.settled /\ q.gone = r.gone

\* An answer.
LEMMA EndsOk ==
  ASSUME NEW r, DOMAIN r = DOMAIN NoRequest
  PROVE  LET q == Ends(r, "ok")
         IN /\ SameAsked(q, r) /\ SameContent(q, r)
            /\ q.todo = <<>> /\ q.out = "ok" /\ q.snap = <<>> /\ q.body = {} /\ q.hi = 0
            /\ q.holds = FALSE
  BY RecordFacts DEF Ends, SameAsked, SameContent

\* A read done.
LEMMA AdvanceFacts ==
  ASSUME NEW r, DOMAIN r = DOMAIN NoRequest, IsPlan(r.op, r.todo), r.todo # <<>>,
         NEW s \in Head(r.todo)
  PROVE  LET q == Advance(r, s)
         IN /\ SameAsked(q, r) /\ SameContent(q, r)
            /\ IsPlan(q.op, q.todo) /\ Coming(q.todo) = Coming(r.todo) \ {s}
            /\ Coming(r.todo) \ {s} = {} =>
                 /\ q.todo = <<>> /\ q.out = "ok" /\ q.snap = <<>> /\ q.body = {} /\ q.hi = 0
                 /\ q.holds = FALSE
            /\ Coming(r.todo) \ {s} # {} =>
                 /\ q.out = r.out /\ q.snap = r.snap /\ q.body = r.body /\ q.hi = r.hi
                 /\ q.holds = r.holds
<1> DEFINE rest == Rest(r.todo, s)
<1>1. IsPlan(r.op, rest) /\ Coming(rest) = Coming(r.todo) \ {s}
  BY RestFacts
<1>2. Coming(rest) = {} <=> rest = <<>>
  BY <1>1, ComingNothing
<1>3. Advance(r, s) = IF rest = <<>> THEN Ends(r, "ok") ELSE [r EXCEPT !.todo = rest]
  BY DEF Advance, Rest
<1> HIDE DEF rest
<1>4. CASE rest = <<>>
  <2>1. Advance(r, s) = Ends(r, "ok")
    BY <1>3, <1>4
  <2> DEFINE q == Ends(r, "ok")
  <2>2. /\ SameAsked(q, r) /\ SameContent(q, r)
        /\ q.todo = <<>> /\ q.out = "ok" /\ q.snap = <<>> /\ q.body = {} /\ q.hi = 0
        /\ q.holds = FALSE
    BY EndsOk
  <2> HIDE DEF q
  <2>3. IsPlan(q.op, q.todo) /\ Coming(q.todo) = Coming(r.todo) \ {s}
    BY <1>1, <1>4, <2>2 DEF SameAsked
  <2> QED BY <1>1, <1>2, <1>4, <2>1, <2>2, <2>3 DEF q
<1>5. CASE rest # <<>>
  <2> DEFINE q == [r EXCEPT !.todo = rest]
  <2>1. Advance(r, s) = q
    BY <1>3, <1>5
  <2>2. /\ SameAsked(q, r) /\ SameContent(q, r) /\ q.todo = rest
        /\ q.out = r.out /\ q.snap = r.snap /\ q.body = r.body /\ q.hi = r.hi
        /\ q.holds = r.holds
    BY RecordFacts DEF SameAsked, SameContent
  <2> HIDE DEF q
  <2>3. IsPlan(q.op, q.todo) /\ Coming(q.todo) = Coming(r.todo) \ {s}
    BY <1>1, <2>2 DEF SameAsked
  <2> QED BY <1>1, <1>2, <1>5, <2>1, <2>2, <2>3
<1> QED BY <1>4, <1>5

\* What a request names.
LEMMA IdFacts ==
  ASSUME NEW op \in Op, NEW id \in Ids(op)
  PROVE  /\ op \in ByTx => id[1] = "tx" /\ id[2] \in Tx
         /\ op \in ByRange => id[1] = "range" /\ id[2] \in Nat /\ id[3] \in Nat
         /\ op \in Fees => id[1] = "latest"
         /\ op \notin ByTx \cup ByRange =>
              /\ id[1] \in {"latest", "number", "hash"}
              /\ id[1] = "number" => id[2] \in Nat \ {0}
              /\ id[1] = "hash" => id[2] \in Block
<1>1. Heights \subseteq Nat \ {0} /\ RlpHeights \subseteq Nat \ {0}
  BY HostChainAssumption, RpcReadersAssumption DEF Heights
<1>2. CASE op \in ByTx
  <2>1. Ids(op) = {<<"tx", t>> : t \in Tx}
    BY <1>2 DEF Ids, ByTx, ByRange, Fees, NotByHash
  <2> QED BY <1>2, <2>1 DEF ByTx, ByRange, Fees
<1>3. CASE op \in ByRange
  <2>1. op \notin ByTx
    BY <1>3 DEF ByTx, ByRange
  <2>2. Ids(op) = {<<"range", lo, hi>> : lo \in Heights \cup {0}, hi \in Heights \cup {0}}
    BY <1>3, <2>1 DEF Ids, ByTx, ByRange, Fees, NotByHash
  <2>3. PICK lo \in Heights \cup {0}, hi \in Heights \cup {0} : id = <<"range", lo, hi>>
    BY <2>2
  <2> QED BY <1>1, <1>3, <2>1, <2>3 DEF ByRange, Fees
<1>4. CASE op \in Fees
  <2>1. op \notin ByTx \cup ByRange
    BY <1>4 DEF ByTx, ByRange, Fees
  <2>2. Ids(op) = {<<"latest">>}
    BY <1>4, <2>1 DEF Ids, ByTx, ByRange, Fees, NotByHash
  <2> QED BY <1>4, <2>1, <2>2
<1>5. CASE op = "debugTraceRlp"
  BY <1>1, <1>5 DEF Ids, ByTx, ByRange, Fees
<1>6. CASE op \in NotByHash
  BY <1>1, <1>6 DEF Ids, ByTx, ByRange, Fees, NotByHash
<1>7. CASE op \notin ByTx \cup ByRange \cup Fees \cup NotByHash \cup {"debugTraceRlp"}
  BY <1>1, <1>7 DEF Ids
<1> QED BY <1>2, <1>3, <1>4, <1>5, <1>6, <1>7

\* Whose reads they are.
LEMMA StepKinds ==
  ASSUME NEW op, NEW s \in Steps(op)
  PROVE  /\ s \in {"snapHeader", "evm"} => op \in ReaderOps
         /\ s = "account" => op = "account"
         /\ s \in {"start", "open"} => op \in ReaderOps \cup {"account"}
         /\ s \in {"coldTxByHash", "coldReceiptByHash", "traceTx", "coldTxAgain"} => op \in ByTx
         /\ s \in {"latest", "cacheTip", "cacheGet", "window", "windowLoop", "setTip",
                   "setBlock"} => op \in Fees
         /\ s \in {"fromTag", "toTag", "coldLogs"} => op = "getLogs"
         /\ s \in {"filterRange", "filterHeader", "filterLoop"} => op = "traceFilter"
         /\ s \in {"history", "historyLoop"} => op = "feeHistory"
         /\ s \in {"resolve", "coldHeader", "coldReceipts", "coldTxByIndex"} =>
              op \notin ReaderOps \cup {"account"} \cup ByTx \cup Fees \cup ByRange
         /\ s \in {"hotHeader", "coldTxs", "stateBefore"} =>
              op \notin ReaderOps \cup {"account"} \cup Fees
         /\ s \in {"permit", "hotHeader"} => op \notin Fees \cup {"feeHistory", "getLogs", "account"}
         /\ s = "hotHeader" => op # "traceFilter"
         /\ s \in {"coldTxByIndex", "coldHeader"} => op # "feeHistory"
         /\ s = "coldHeaderOpt" =>
              op \notin ReaderOps \cup {"account", "feeHistory"} \cup ByRange
  BY DEF Steps, ReaderOps, ByTx, Fees, ByRange

\* The kinds of handler.
LEMMA Kinds ==
  /\ (ReaderOps \cup {"account"}) \cap (ByTx \cup Fees \cup ByRange \cup {"feeHistory"}) = {}
  /\ ByTx \cap (Fees \cup ByRange \cup {"feeHistory", "account"}) = {}
  /\ Fees \cap (ByRange \cup {"feeHistory", "account"}) = {}
  /\ OneBlock \cap (Fees \cup ByRange \cup {"feeHistory"}) = {}
  /\ ByRange = {"getLogs", "traceFilter"} /\ "none" \notin Op /\ "none" \notin Fees
  /\ Fees \subseteq Op
  BY OpFacts DEF OneBlock, ReaderOps, ByTx, Fees, ByRange

\* The handlers that open one reader are those of its kinds.
LEMMA ReaderKinds == OneReader \subseteq ReaderOps \cup {"account"}
<1>1. SUFFICES ASSUME NEW op \in Op, {"open"} \in Range(Program[op])
               PROVE  op \in ReaderOps \cup {"account"}
  BY DEF OneReader
<1>2. IsPlan(op, Program[op])
  BY ProgramFacts DEF Begins
<1>3. Program[op] \in Seq(JoinsOf(op))
  BY <1>2 DEF IsPlan
<1> DEFINE t == Program[op]
<1>4. PICK i \in DOMAIN t : t[i] = {"open"}
  BY <1>1 DEF Range
<1> HIDE DEF t
<1>5. {"open"} \in JoinsOf(op)
  <2>1. t \in Seq(JoinsOf(op))
    BY <1>3 DEF t
  <2>2. i \in 1..Len(t)
    BY <2>1
  <2>3. t[i] \in JoinsOf(op)
    BY <2>1, <2>2
  <2> QED BY <2>3, <1>4
<1>6. "open" \in Steps(op)
  BY <1>5 DEF JoinsOf
<1> QED BY <1>6, StepKinds

\* A handler that needs a permit asks for it first.
LEMMA PermitFirst ==
  ASSUME NEW op \in Op, NeedsPermit(op)
  PROVE  "permit" \in Head(Program[op])
<1> DEFINE t == Program[op]
<1>1. IsPlan(op, t) /\ t # <<>>
  BY ProgramFacts DEF Begins
<1>2. t \in Seq(JoinsOf(op)) /\ Ordered(t)
  BY <1>1 DEF IsPlan
<1>3. PICK i \in DOMAIN t : t[i] = {"permit"}
  BY DEF NeedsPermit, Range
<1> HIDE DEF t
<1>4. i \in 1..Len(t) /\ 1 \in 1..Len(t) /\ Head(t) = t[1] /\ t[1] # {}
  BY <1>1, <1>2, <1>3 DEF JoinsOf
<1>5. CASE i = 1
  BY <1>3, <1>4, <1>5 DEF t
<1>6. CASE i # 1
  <2>1. PICK u \in t[1] : TRUE
    BY <1>4
  <2>2. 1 < i /\ "permit" \in t[i]
    BY <1>3, <1>4, <1>6
  <2>3. Stage(u) < Stage("permit")
    BY <1>2, <1>4, <2>1, <2>2 DEF Ordered
  <2>4. Stage(u) \in 0..12 /\ Stage("permit") = 0
    BY StageFacts
  <2> QED BY <2>3, <2>4
<1> QED BY <1>5, <1>6

\* A request that fails.
LEMMA Failed ==
  ASSUME NEW r, ActiveInv(r), NEW out \in {"absent", "error"}, out = "absent" => MayMiss(r)
  PROVE  ActiveInv(Ends(r, out)) /\ Ends(r, out).op = r.op /\ ~Ends(r, out).holds
<1> DEFINE q == Ends(r, out)
<1>1. /\ DOMAIN q = DOMAIN NoRequest
      /\ q.op = r.op /\ q.id = r.id /\ q.stored = r.stored /\ q.rewound = r.rewound
      /\ q.todo = <<>> /\ q.out = out /\ q.n = 0 /\ q.hi = 0 /\ q.snap = <<>>
      /\ q.from = {} /\ q.base = {} /\ q.body = {} /\ q.whole = TRUE
      /\ q.settled = FALSE /\ q.holds = FALSE /\ q.gone = FALSE
  BY RecordFacts DEF Ends
<1> HIDE DEF q
<1>2. IsRequest(q) /\ IsPlan(q.op, q.todo) /\ Coming(q.todo) = {}
  <2>1. IsRequest(q)
    BY <1>1 DEF ActiveInv, IsRequest, Outcomes
  <2>2. IsPlan(q.op, q.todo)
    BY <1>1 DEF IsPlan, Ordered
  <2> QED BY <1>1, <2>1, <2>2, ComingNothing
<1>3. NeedsInv(q, {}) /\ SnapInv(q)
  BY <1>1 DEF NeedsInv, SnapInv, IsChain, LinkedFrom
<1>4. StoredInv(q, {})
  BY <1>1 DEF ActiveInv, StoredInv
<1>5. PartsInv(q)
  BY <1>1 DEF ActiveInv, PartsInv
<1>6. PermitInv(q) /\ (q.out = "ok" => FromOneReader(q)) /\ (q.out = "absent" => MayMiss(q))
  BY <1>1 DEF PermitInv, MayMiss
<1>7. ActiveInv(q)
  BY <1>1, <1>2, <1>3, <1>4, <1>5, <1>6 DEF ActiveInv
<1> QED BY <1>1, <1>7 DEF q

\* What a read has to leave behind for the request to go on or to be answered.
Ready(r, C) ==
  /\ NeedsInv(r, C) /\ StoredInv(r, C) /\ SnapInv(r) /\ PartsInv(r)
  /\ NeedsPermit(r.op) /\ ~r.gone => r.holds
  /\ r.holds => "permit" \notin C /\ r.op \notin Fees
  /\ C = {} => FromOneReader(r)

\* A request after a read.
LEMMA Advanced ==
  ASSUME NEW r, IsRequest(r), IsPlan(r.op, r.todo), r.todo # <<>>, r.out = "none",
         NEW s \in Head(r.todo), Ready(r, Coming(r.todo) \ {s})
  PROVE  ActiveInv(Advance(r, s))
<1> DEFINE q == Advance(r, s)  C == Coming(r.todo) \ {s}
<1>1. DOMAIN r = DOMAIN NoRequest
  BY DEF IsRequest
<1>2. /\ SameAsked(q, r) /\ SameContent(q, r) /\ IsPlan(q.op, q.todo) /\ Coming(q.todo) = C
      /\ C = {} =>
           /\ q.todo = <<>> /\ q.out = "ok" /\ q.snap = <<>> /\ q.body = {} /\ q.hi = 0
           /\ q.holds = FALSE
      /\ C # {} =>
           /\ q.out = r.out /\ q.snap = r.snap /\ q.body = r.body /\ q.hi = r.hi
           /\ q.holds = r.holds
  BY <1>1, AdvanceFacts
<1> HIDE DEF q, C
<1>3. q.out # "none" => q.todo = <<>>
  BY <1>2
<1>4. NeedsPermit(r.op) /\ ~r.gone => r.holds
  BY DEF Ready, C
<1>5. CASE C = {}
  <2>1. IsRequest(q)
    <3>0. q.snap = <<>> /\ q.out = "ok" /\ q.hi = 0 /\ q.body = {}
      BY <1>2, <1>5
    <3>1. q.snap \in Seq(Block) /\ q.out \in Outcomes /\ q.hi \in Nat /\ q.body \subseteq Block
      BY <3>0 DEF Outcomes
    <3>2. /\ DOMAIN q = DOMAIN NoRequest /\ q.op \in Op /\ q.id \in Ids(q.op)
          /\ q.n \in Nat /\ q.from \subseteq Block /\ q.base \subseteq Block
      BY <1>2 DEF IsRequest, SameAsked, SameContent
    <3> QED BY <3>1, <3>2 DEF IsRequest
  <2>2. NeedsInv(q, C) /\ SnapInv(q)
    BY <1>2, <1>5 DEF NeedsInv, SnapInv, IsChain, LinkedFrom
  <2>3. StoredInv(q, C)
    BY <1>2, <1>5 DEF Ready, StoredInv, SameAsked, SameContent, C
  <2>4. PartsInv(q)
    BY <1>2, <1>5 DEF Ready, PartsInv, SameAsked, SameContent, C
  <2>5. PermitInv(q)
    BY <1>2, <1>5 DEF PermitInv
  <2>6. FromOneReader(q) /\ q.out # "absent"
    BY <1>2, <1>5 DEF Ready, FromOneReader, SameAsked, SameContent, C
  <2> QED BY <1>2, <1>3, <2>1, <2>2, <2>3, <2>4, <2>5, <2>6 DEF ActiveInv, q
<1>6. CASE C # {}
  <2>1. IsRequest(q)
    BY <1>2, <1>6 DEF IsRequest, SameAsked, SameContent
  <2>2. NeedsInv(q, C)
    BY <1>2, <1>6 DEF Ready, NeedsInv, SameAsked, SameContent, C
  <2>3. SnapInv(q)
    BY <1>2, <1>6 DEF Ready, SnapInv, SameAsked, C
  <2>4. StoredInv(q, C)
    BY <1>2, <1>6 DEF Ready, StoredInv, SameAsked, SameContent, C
  <2>5. PartsInv(q)
    BY <1>2, <1>6 DEF Ready, PartsInv, SameAsked, SameContent, C
  <2>6. PermitInv(q)
    BY <1>2, <1>4, <1>6 DEF Ready, PermitInv, SameAsked, SameContent, C
  <2>7. q.out # "ok" /\ q.out # "absent"
    BY <1>2, <1>6
  <2> QED BY <1>2, <1>3, <2>1, <2>2, <2>3, <2>4, <2>5, <2>6, <2>7 DEF ActiveInv, q
<1> QED BY <1>5, <1>6

-------------------------------------------------------------------------------
(***************************************************************************)
(* The permits.                                                            *)
(***************************************************************************)
\* The clients that hold one are finitely many.
LEMMA HoldersFinite == IsFiniteSet(Holders) /\ Cardinality(Holders) \in Nat
<1>1. Holders \subseteq Client /\ IsFiniteSet(Client)
  BY RpcReadersAssumption DEF Holders
<1>2. IsFiniteSet(Holders)
  BY <1>1, FS_Subset
<1> QED BY <1>2, FS_CardinalityType

\* A permit more is out.
LEMMA PermitTaken ==
  ASSUME RequestsInv, NEW c \in Client, NEW r, req' = [req EXCEPT ![c] = r],
         r.holds, ~req[c].holds
  PROVE  Cardinality(Holders') = Cardinality(Holders) + 1
<1>1. Holders' = Holders \cup {c} /\ c \notin Holders
  BY DEF Holders, RequestsInv
<1> QED BY <1>1, HoldersFinite, FS_AddElement

\* A permit less.
LEMMA PermitDropped ==
  ASSUME RequestsInv, NEW c \in Client, NEW r, req' = [req EXCEPT ![c] = r],
         ~r.holds, req[c].holds
  PROVE  Cardinality(Holders') = Cardinality(Holders) - 1
<1>1. Holders' = Holders \ {c} /\ c \in Holders
  BY DEF Holders, RequestsInv
<1> QED BY <1>1, HoldersFinite, FS_RemoveElement

\* None taken or dropped.
LEMMA PermitsSame ==
  ASSUME RequestsInv, NEW c \in Client, NEW r, req' = [req EXCEPT ![c] = r],
         r.holds <=> req[c].holds
  PROVE  Holders' = Holders
  BY DEF Holders, RequestsInv

\* The clients that wait keep waiting.
LEMMA QueueSame ==
  ASSUME RequestsInv, SemaphoreInv, NEW c \in Client, NEW r, req' = [req EXCEPT ![c] = r],
         queue' = queue, c \notin Range(queue)
  PROVE  /\ queue' \in Seq(Client)
         /\ \A i, j \in 1..Len(queue') : queue'[i] = queue'[j] => i = j
         /\ \A i \in 1..Len(queue') : Reads(queue[i], "permit")'
<1>1. \A i \in 1..Len(queue) : queue[i] \in Client /\ queue[i] # c
  BY DEF SemaphoreInv, Range
<1>2. \A i \in 1..Len(queue) : req'[queue[i]] = req[queue[i]]
  BY <1>1 DEF RequestsInv
<1>3. \A i \in 1..Len(queue) : Reads(queue[i], "permit")'
  BY <1>2 DEF SemaphoreInv, Reads
<1> QED BY <1>3 DEF SemaphoreInv

\* A client that goes on with its request leaves the semaphore in order.
LEMMA BecomesSemaphore ==
  ASSUME RequestsInv, SemaphoreInv, NEW c \in Client, NEW r, Becomes(c, r),
         r.holds => req[c].holds, c \notin Range(queue)
  PROVE  SemaphoreInv'
<1>1. req' = [req EXCEPT ![c] = r] /\ queue' = queue
  BY DEF Becomes
<1>2. /\ queue' \in Seq(Client)
      /\ \A i, j \in 1..Len(queue') : queue'[i] = queue'[j] => i = j
      /\ \A i \in 1..Len(queue') : Reads(queue[i], "permit")'
  BY <1>1, QueueSame
<1>3. permits \in Nat /\ permits + Cardinality(Holders) = MaxTracing
  BY DEF SemaphoreInv
<1>4. permits' \in Nat /\ permits' + Cardinality(Holders') = MaxTracing
  <2>1. CASE r.holds <=> req[c].holds
    <3>1. Holders' = Holders
      BY <1>1, <2>1, PermitsSame
    <3>2. permits' = permits
      BY <2>1 DEF Becomes, Returned
    <3> QED BY <1>3, <3>1, <3>2
  <2>2. CASE ~(r.holds <=> req[c].holds)
    <3>1. ~r.holds /\ req[c].holds
      BY <2>2
    <3>2. Cardinality(Holders') = Cardinality(Holders) - 1
      BY <1>1, <3>1, PermitDropped
    <3>3. permits' = permits + 1
      BY <3>1 DEF Becomes, Returned
    <3> QED BY <1>3, <3>2, <3>3, HoldersFinite
  <2> QED BY <2>1, <2>2
<1> QED BY <1>2, <1>4 DEF SemaphoreInv

-------------------------------------------------------------------------------
(***************************************************************************)
(* A step of one client.                                                   *)
(***************************************************************************)
\* The stores stay as they are.
LEMMA StoresSame ==
  ASSUME StoresInv, UNCHANGED nodeVars
  PROVE  StoresInv'
  BY DEF StoresInv, nodeVars, Reverting

\* What holds of a request holds while the stores stay as they are.
LEMMA RequestSame ==
  ASSUME NEW r, RequestInv(r), UNCHANGED nodeVars
  PROVE  RequestInv(r)'
<1>1. chain' = chain /\ cold' = cold /\ npc' = npc
  BY DEF nodeVars
<1>2. SnapInv(r) => SnapInv(r)'
  BY <1>1 DEF SnapInv
<1>3. PartsInv(r) => PartsInv(r)'
  BY <1>1 DEF PartsInv, Reverting
<1>4. Stored(r.id)' <=> Stored(r.id)
  BY <1>1 DEF Stored, FindTx
<1>5. StoredInv(r, Coming(r.todo)) => StoredInv(r, Coming(r.todo))'
  BY <1>1, <1>4 DEF StoredInv
<1> QED BY <1>2, <1>3, <1>5 DEF RequestInv, ActiveInv

\* What holds of a fee request holds while stores and cache stay.
LEMMA FeeSame ==
  ASSUME NEW r, NEW C, UNCHANGED <<nodeVars, cacheVars>>
  PROVE  (FeeInv(r, C)' <=> FeeInv(r, C)) /\ (CacheFresh' <=> CacheFresh)
  BY DEF FeeInv, CacheFresh, Window, nodeVars, cacheVars

\* Every request but that of client c stays.
LEMMA RequestsStep ==
  ASSUME IInv, NEW c \in Client, NEW r, req' = [req EXCEPT ![c] = r], UNCHANGED nodeVars,
         RequestInv(r)
  PROVE  RequestsInv'
<1>1. DOMAIN req = Client /\ \A d \in Client : RequestInv(req[d])
  BY DEF IInv, RequestsInv
<1>2. DOMAIN req' = Client
  BY <1>1
<1>3. ASSUME NEW d \in Client PROVE RequestInv(req[d])'
  <2>1. CASE d = c
    <3>1. RequestInv(r)'
      BY RequestSame
    <3>2. req'[d] = r
      BY <1>1, <2>1
    <3> QED BY <3>1, <3>2
  <2>2. CASE d # c
    <3> DEFINE q == req[d]
    <3>1. RequestInv(q)
      BY <1>1
    <3>2. req'[d] = q
      BY <1>1, <2>2
    <3> HIDE DEF q
    <3>3. PICK p : p = q
      OBVIOUS
    <3>4. RequestInv(p)'
      BY <3>1, <3>3, RequestSame
    <3>5. req'[d] = p
      BY <3>2, <3>3
    <3> QED BY <3>4, <3>5
  <2> QED BY <2>1, <2>2
<1> QED BY <1>2, <1>3 DEF RequestsInv

\* The cache stays, and no other client's fee request is touched.
LEMMA CacheStep ==
  ASSUME IInv, NEW c \in Client, NEW r, req' = [req EXCEPT ![c] = r],
         UNCHANGED <<nodeVars, cacheVars, mayCall>>, r.op \in {req[c].op, "none"},
         reorgs = 0 /\ Alone(c) /\ CacheFresh /\ FeeInv(req[c], Coming(req[c].todo)) =>
           FeeInv(r, Coming(r.todo))
  PROVE  CacheInv' /\ CallsInv'
<1>1. DOMAIN req = Client /\ CacheInv /\ CallsInv
  BY DEF IInv, RequestsInv
<1>2. /\ reorgs' = reorgs /\ mayCall' = mayCall /\ cacheBlock' = cacheBlock
      /\ cacheTip' = cacheTip
  BY DEF nodeVars, cacheVars
<1>3. req'[c] = r /\ \A d \in Client \ {c} : req'[d] = req[d]
  BY <1>1
<1>4. CallsInv'
  BY <1>1, <1>2, <1>3 DEF CallsInv
<1>5. ASSUME reorgs = 0, NEW d \in Client, Alone(d)
      PROVE  CacheFresh' /\ FeeInv(req[d], Coming(req[d].todo))'
  <2>1. CacheFresh /\ FeeInv(req[d], Coming(req[d].todo))
    BY <1>1, <1>5 DEF CacheInv
  <2>2. PICK q : q = req'[d]
    OBVIOUS
  <2>3. FeeInv(q, Coming(q.todo))
    BY <1>3, <1>5, <2>1, <2>2
  <2>4. FeeInv(q, Coming(q.todo))' /\ CacheFresh'
    BY <2>1, <2>3, FeeSame
  <2> QED BY <2>2, <2>4
<1>6. \A d \in Client : Alone(d)' => Alone(d)
  BY <1>2 DEF Alone
<1>7. CacheInv'
  BY <1>1, <1>2, <1>5, <1>6 DEF CacheInv
<1> QED BY <1>4, <1>7

\* A step that changes one request and no cached tip.
LEMMA Became ==
  ASSUME IInv, NEW c \in Client, NEW r, Becomes(c, r), RequestInv(r),
         r.op \in {req[c].op, "none"}, r.holds => req[c].holds, c \notin Range(queue),
         reorgs = 0 /\ Alone(c) /\ CacheFresh /\ FeeInv(req[c], Coming(req[c].todo)) =>
           FeeInv(r, Coming(r.todo))
  PROVE  IInv'
<1>1. /\ req' = [req EXCEPT ![c] = r] /\ UNCHANGED nodeVars
      /\ UNCHANGED <<nodeVars, cacheVars, mayCall>>
  BY DEF Becomes
<1>2. StoresInv'
  BY <1>1, StoresSame DEF IInv
<1>3. RequestsInv'
  BY <1>1, RequestsStep
<1>4. SemaphoreInv'
  BY BecomesSemaphore DEF IInv
<1>5. CacheInv' /\ CallsInv'
  BY <1>1, CacheStep
<1> QED BY <1>2, <1>3, <1>4, <1>5 DEF IInv

\* A client that reads something else than the permit does not wait for it.
LEMMA NotWaiting ==
  ASSUME IInv, NEW c \in Client, NEW s, Reads(c, s), Stage(s) > 0
  PROVE  /\ c \notin Range(queue) /\ ActiveInv(req[c]) /\ req[c].out = "none"
         /\ s \in Steps(req[c].op) /\ s \in Coming(req[c].todo)
         /\ \A u \in Coming(req[c].todo) : Stage(s) <= Stage(u)
         /\ "permit" \notin Coming(req[c].todo)
         /\ NeedsPermit(req[c].op) /\ ~req[c].gone => req[c].holds
         /\ req[c].todo # <<>> /\ s \in Head(req[c].todo)
         /\ req[c].op \in Op /\ req[c].id \in Ids(req[c].op)
<1> DEFINE r == req[c]
<1>1. r.todo # <<>> /\ s \in Head(r.todo)
  BY DEF Reads
<1>2. r # NoRequest
  BY <1>1, RecordFacts
<1>3. ActiveInv(r)
  BY <1>2 DEF IInv, RequestsInv, RequestInv
<1>4. IsPlan(r.op, r.todo) /\ r.out = "none" /\ r.op \in Op /\ r.id \in Ids(r.op)
  BY <1>1, <1>3 DEF ActiveInv, IsRequest
<1>5. /\ s \in Steps(r.op) /\ s \in Coming(r.todo)
      /\ \A u \in Coming(r.todo) : Stage(s) <= Stage(u)
  BY <1>1, <1>4, HeadFacts
<1>6. "permit" \notin Coming(r.todo)
  <2>1. Stage("permit") = 0 /\ Stage(s) \in Int
    BY StageFacts
  <2> QED BY <1>5, <2>1
<1>7. "permit" \notin Head(r.todo)
  BY <1>1, <1>4, <1>6, HeadFacts
<1>8. NeedsPermit(r.op) /\ ~r.gone => r.holds
  BY <1>1, <1>3, <1>7 DEF ActiveInv, PermitInv
<1>9. c \notin Range(queue)
  <2>1. SUFFICES ASSUME c \in Range(queue) PROVE FALSE
    OBVIOUS
  <2>2. PICK i \in 1..Len(queue) : queue[i] = c
    BY <2>1 DEF Range, IInv, SemaphoreInv
  <2>3. Reads(c, "permit")
    BY <2>2 DEF IInv, SemaphoreInv
  <2> QED BY <2>3, <1>7 DEF Reads
<1> QED BY <1>1, <1>3, <1>4, <1>5, <1>6, <1>8, <1>9

\* A read after which the request goes on or is answered.  Its effect is in r.
LEMMA ReadDone ==
  ASSUME IInv, NEW c \in Client, NEW s, Reads(c, s), Stage(s) > 0,
         NEW r, Becomes(c, Advance(r, s)),
         IsRequest(r), SameAsked(r, req[c]), r.todo = req[c].todo, r.out = req[c].out,
         r.gone = req[c].gone, r.holds = req[c].holds,
         NeedsInv(r, Coming(r.todo) \ {s}), StoredInv(r, Coming(r.todo) \ {s}),
         SnapInv(r), PartsInv(r), Coming(r.todo) \ {s} = {} => FromOneReader(r),
         reorgs = 0 /\ Alone(c) /\ CacheFresh /\ FeeInv(req[c], Coming(req[c].todo)) =>
           FeeInv(r, Coming(r.todo) \ {s})
  PROVE  IInv'
<1>1. /\ c \notin Range(queue) /\ ActiveInv(req[c]) /\ req[c].out = "none"
      /\ s \in Head(r.todo) /\ r.todo # <<>> /\ "permit" \notin Coming(r.todo)
      /\ NeedsPermit(r.op) /\ ~r.gone => r.holds
  BY NotWaiting DEF SameAsked
<1>2. IsPlan(r.op, r.todo) /\ (r.holds => r.op \notin Fees)
  BY <1>1 DEF ActiveInv, PermitInv, SameAsked
<1>3. Ready(r, Coming(r.todo) \ {s})
  BY <1>1, <1>2 DEF Ready
<1>4. ActiveInv(Advance(r, s))
  BY <1>1, <1>2, <1>3, Advanced
<1> DEFINE q == Advance(r, s)
<1>5. /\ SameAsked(q, r) /\ SameContent(q, r) /\ Coming(q.todo) = Coming(r.todo) \ {s}
      /\ q.holds => r.holds
      /\ q.hi \in {0, r.hi}
  BY <1>1, <1>2, AdvanceFacts DEF IsRequest
<1>6. q.op = req[c].op
  BY <1>5 DEF SameAsked
<1>7. RequestInv(q)
  BY <1>4 DEF RequestInv
<1>8. FeeInv(r, Coming(r.todo) \ {s}) => FeeInv(q, Coming(q.todo))
  BY <1>5 DEF FeeInv, SameAsked, SameContent, IsRequest
<1> HIDE DEF q
<1>9. Becomes(c, q)
  BY DEF q
<1> QED BY <1>1, <1>5, <1>6, <1>7, <1>8, <1>9, Became

\* A read after which the request fails.
LEMMA ReadFailed ==
  ASSUME IInv, NEW c \in Client, ActiveInv(req[c]), c \notin Range(queue),
         NEW out \in {"absent", "error"}, out = "absent" => MayMiss(req[c]),
         Becomes(c, Ends(req[c], out))
  PROVE  IInv'
<1> DEFINE q == Ends(req[c], out)
<1>1. ActiveInv(q) /\ q.op = req[c].op /\ ~q.holds
  BY Failed
<1>2. RequestInv(q)
  BY <1>1 DEF RequestInv
<1>3. q.n = 0 /\ q.hi = 0 /\ q.from = {} /\ q.todo = <<>>
  BY RecordFacts DEF Ends
<1> HIDE DEF q
<1>4. Coming(q.todo) = {}
  BY <1>3 DEF Coming
<1>5. FeeInv(req[c], Coming(req[c].todo)) => FeeInv(q, Coming(q.todo))
  BY <1>3, <1>4 DEF FeeInv, IInv, StoresInv
<1>6. Becomes(c, q)
  BY DEF q
<1> QED BY <1>1, <1>2, <1>5, <1>6, Became

-------------------------------------------------------------------------------
(***************************************************************************)
(* The reads that come after the answer's block is known.                  *)
(***************************************************************************)
\* A block of cold storage.
LEMMA ColdBlock ==
  ASSUME StoresInv, NEW n \in Nat, n >= 1, n <= Len(cold)
  PROVE  /\ cold[n] \in Block /\ num[cold[n]] = n /\ cold[n] \in Range(cold)
         /\ ~Reverting => n <= Len(chain) /\ cold[n] = chain[n] /\ cold[n] \in Range(chain)
<1>1. cold \in Seq(Block) /\ n \in 1..Len(cold) /\ chain \in Seq(Block)
  BY DEF StoresInv
<1>2. cold[n] \in Block /\ num[cold[n]] = n /\ cold[n] \in Range(cold)
  BY <1>1 DEF StoresInv, IsChain, LinkedFrom, Range
<1>3. ASSUME ~Reverting
      PROVE  n <= Len(chain) /\ cold[n] = chain[n] /\ cold[n] \in Range(chain)
  <2>1. n \in 1..Len(chain) /\ cold[n] = chain[n]
    BY <1>1, <1>3 DEF StoresInv, Reverting
  <2> QED BY <1>1, <2>1 DEF Range
<1> QED BY <1>2, <1>3

\* A block of hot storage.
LEMMA HotBlock ==
  ASSUME StoresInv, NEW n \in Nat, n >= 1, n <= Len(chain)
  PROVE  chain[n] \in Block /\ num[chain[n]] = n /\ chain[n] \in Range(chain)
<1>1. chain \in Seq(Block) /\ n \in 1..Len(chain)
  BY DEF StoresInv
<1> QED BY <1>1 DEF StoresInv, IsChain, LinkedFrom, Range

\* A block that is in cold storage has its place there.
LEMMA ColdPlace ==
  ASSUME StoresInv, NEW b \in Range(cold)
  PROVE  b \in Block /\ num[b] \in Nat \ {0} /\ num[b] <= Len(cold) /\ cold[num[b]] = b
<1>1. cold \in Seq(Block)
  BY DEF StoresInv
<1>2. PICK i \in 1..Len(cold) : b = cold[i]
  BY <1>1 DEF Range
<1>3. num[cold[i]] = 1 + i - 1
  BY DEF StoresInv, IsChain, LinkedFrom
<1> QED BY <1>1, <1>2, <1>3

\* Fewer reads to come.
LEMMA StoredFewer ==
  ASSUME NEW r, NEW C, StoredInv(r, C), NEW s, s # "coldTxs"
  PROVE  StoredInv(r, C \ {s})
  BY DEF StoredInv

\* After stage 4 nothing is to come that sets what the answer is about.
LEMMA LateNeeds ==
  ASSUME NEW op, NEW C \in SUBSET Steps(op), NEW s \in C, Stage(s) > 4,
         \A u \in C : Stage(s) <= Stage(u)
  PROVE  C \cap Setters = {} /\ C \cap NSetters = {} /\ C \cap FromReader = {} /\ "open" \notin C
         /\ op \notin ReaderOps \cup {"account"} /\ "filterRange" \notin C
<1>1. \A u \in Setters \cup {"open"} : Stage(u) <= 4
  BY StageFacts DEF Setters
<1>2. \A u : Stage(u) \in Int
  BY StageFacts
<1>3. C \cap (Setters \cup {"open"}) = {}
  BY <1>1, <1>2
<1>4. op \notin ReaderOps \cup {"account"}
  <2>1. SUFFICES ASSUME op \in ReaderOps \cup {"account"} PROVE FALSE
    OBVIOUS
  <2>2. s \in {"permit", "start", "open", "snapHeader", "evm", "account"}
    BY <2>1 DEF Steps, ReaderOps, ByTx, Fees
  <2> QED BY <2>2, StageFacts
<1> QED BY <1>3, <1>4 DEF Setters, NSetters, FromReader

\* A read that leaves the height and the snapshot alone.
LEMMA LateRead ==
  ASSUME IInv, NEW c \in Client, NEW s, Reads(c, s), Stage(s) > 4,
         NEW r, Becomes(c, Advance(r, s)),
         IsRequest(r), SameAsked(r, req[c]), r.todo = req[c].todo, r.out = req[c].out,
         r.gone = req[c].gone, r.holds = req[c].holds, r.n = req[c].n, r.snap = req[c].snap,
         StoredInv(r, Coming(r.todo) \ {s}), PartsInv(r),
         reorgs = 0 /\ Alone(c) /\ CacheFresh /\ FeeInv(req[c], Coming(req[c].todo)) =>
           FeeInv(r, Coming(r.todo) \ {s})
  PROVE  IInv'
<1> DEFINE C == Coming(r.todo)
<1>0. Stage(s) > 0
  BY StageFacts
<1>1. /\ ActiveInv(req[c]) /\ s \in Steps(r.op) /\ s \in C /\ \A u \in C : Stage(s) <= Stage(u)
  BY <1>0, NotWaiting DEF SameAsked
<1>2. C \subseteq Steps(r.op)
  BY <1>1 DEF ActiveInv, IsPlan, JoinsOf, Coming, SameAsked
<1>3. C \cap Setters = {} /\ C \cap NSetters = {} /\ C \cap FromReader = {} /\ "open" \notin C
      /\ r.op \notin ReaderOps \cup {"account"} /\ "filterRange" \notin C
  BY <1>1, <1>2, LateNeeds
<1>4. NeedsInv(req[c], C)
  BY <1>1 DEF ActiveInv
<1>5. NeedsInv(r, C \ {s})
  BY <1>3, <1>4 DEF NeedsInv, SameAsked, Setters
<1>6. SnapInv(r)
  BY <1>1 DEF ActiveInv, SnapInv, SameAsked
<1>7. FromOneReader(r)
  BY <1>3 DEF FromOneReader
<1> QED BY <1>0, <1>5, <1>6, <1>7, ReadDone

\* What is to come uses a height that is known.
LEMMA LateHeight ==
  ASSUME IInv, NEW c \in Client, NEW s \in NUsers, Reads(c, s)
  PROVE  req[c].n >= 1 /\ req[c].n \in Nat /\ Stage(s) > 4 /\ Stage(s) > 0
<1> DEFINE r == req[c]  C == Coming(r.todo)
<1>0. Stage(s) > 4 /\ Stage(s) > 0
  BY StageFacts DEF NUsers
<1>1. /\ ActiveInv(r) /\ s \in Steps(r.op) /\ s \in C /\ \A u \in C : Stage(s) <= Stage(u)
  BY <1>0, NotWaiting
<1>2. C \subseteq Steps(r.op)
  BY <1>1 DEF ActiveInv, IsPlan, JoinsOf, Coming
<1>3. C \cap NSetters = {}
  BY <1>0, <1>1, <1>2, LateNeeds
<1>4. NeedsInv(r, C) /\ IsRequest(r)
  BY <1>1 DEF ActiveInv
<1> QED BY <1>0, <1>1, <1>3, <1>4 DEF NeedsInv, IsRequest

\* A part of block n keeps the parts together.
LEMMA PartRead ==
  ASSUME StoresInv, NEW r, IsRequest(r), PartsInv(r), r.n >= 1, NEW C, StoredInv(r, C)
  PROVE  LET q == PartOf(r, r.n) IN IsRequest(q) /\ PartsInv(q) /\ StoredInv(q, C)
<1> DEFINE q == PartOf(r, r.n)
<1>0. r.n \in Nat /\ Len(cold) \in Nat
  BY DEF IsRequest, StoresInv
<1>1. /\ SameAsked(q, r) /\ q.todo = r.todo /\ q.out = r.out /\ q.n = r.n /\ q.hi = r.hi
      /\ q.snap = r.snap /\ q.base = r.base /\ q.body = r.body
      /\ q.settled = r.settled /\ q.holds = r.holds /\ q.gone = r.gone
      /\ InCold(r.n) => q.from = r.from \cup {cold[r.n]} /\ q.whole = r.whole
      /\ ~InCold(r.n) => q.from = r.from /\ q.whole = FALSE
  BY RecordFacts DEF IsRequest, PartOf, SameAsked
<1> HIDE DEF q
<1>2. r.n <= Len(cold) =>
        /\ cold[r.n] \in Block /\ num[cold[r.n]] = r.n
        /\ ~Reverting => cold[r.n] \in Range(chain)
  BY <1>0, ColdBlock
<1>3. IsRequest(q)
  BY <1>1, <1>2 DEF IsRequest, SameAsked, InCold
<1>4. PartsInv(q)
  <2>1. Reverting => q.rewound
    BY <1>1 DEF PartsInv, SameAsked
  <2>2. q.settled => ~q.rewound /\ q.n <= Len(cold) /\ q.hi <= Len(cold) /\ q.whole
    BY <1>1 DEF PartsInv, SameAsked, InCold
  <2>3. ~q.rewound /\ q.op \notin Fees => q.from \cup q.base \subseteq Range(chain)
    BY <1>1, <1>2 DEF PartsInv, SameAsked, InCold
  <2>4. ~q.rewound /\ q.op \in OneBlock =>
          /\ \A b \in q.from : num[b] = q.n \/ (q.op = "account" /\ num[b] < q.n)
          /\ \A b \in q.base : num[b] + 1 = q.n \/ (num[b] = 1 /\ q.n = 1)
    BY <1>1, <1>2 DEF PartsInv, SameAsked, InCold
  <2>5. ~q.rewound /\ q.op \in ByTx /\ q.n >= 1 => q.n <= Len(cold) /\ cold[q.n] \in TxIn[q.id[2]]
    BY <1>1 DEF PartsInv, SameAsked
  <2> QED BY <2>1, <2>2, <2>3, <2>4, <2>5 DEF PartsInv
<1>5. StoredInv(q, C)
  BY <1>1 DEF StoredInv, SameAsked
<1> QED BY <1>3, <1>4, <1>5 DEF q

\* A part of block n is read, for a handler that needs it or not.
LEMMA PartDone ==
  ASSUME IInv, NEW c \in Client, NEW s \in NUsers \ {"coldTxs"}, Reads(c, s),
         Becomes(c, Advance(PartOf(req[c], req[c].n), s)),
         reorgs = 0 /\ Alone(c) /\ CacheFresh /\ FeeInv(req[c], Coming(req[c].todo)) =>
           FeeInv(PartOf(req[c], req[c].n), Coming(req[c].todo) \ {s})
  PROVE  IInv'
<1> DEFINE r == req[c]  q == PartOf(r, r.n)  C == Coming(r.todo)
<1>1. r.n >= 1 /\ r.n \in Nat /\ Stage(s) > 4 /\ Stage(s) > 0
  BY LateHeight
<1>2. ActiveInv(r) /\ StoresInv
  BY <1>1, NotWaiting DEF IInv
<1>3. IsRequest(r) /\ PartsInv(r) /\ StoredInv(r, C \ {s})
  BY <1>2, StoredFewer DEF ActiveInv
<1>4. IsRequest(q) /\ PartsInv(q) /\ StoredInv(q, C \ {s})
  BY <1>1, <1>2, <1>3, PartRead
<1>5. /\ SameAsked(q, r) /\ q.todo = r.todo /\ q.out = r.out /\ q.n = r.n /\ q.snap = r.snap
      /\ q.holds = r.holds /\ q.gone = r.gone
  BY <1>3, RecordFacts DEF IsRequest, PartOf, SameAsked
<1> HIDE DEF q
<1>6. Becomes(c, Advance(q, s))
  BY DEF q
<1>7. reorgs = 0 /\ Alone(c) /\ CacheFresh /\ FeeInv(req[c], Coming(req[c].todo)) =>
        FeeInv(q, Coming(q.todo) \ {s})
  BY <1>5 DEF q
<1> QED BY <1>1, <1>4, <1>5, <1>6, <1>7, LateRead

\* Fee handlers aside, the cache is not concerned.
LEMMA NoFee ==
  ASSUME NEW r, NEW C, r.op \notin Fees
  PROVE  FeeInv(r, C)
  BY DEF FeeInv

\* get_receipts_in_block: the receipts are of the block resolved, or empty.
LEMMA StepReadColdReceipts ==
  ASSUME IInv, NEW c \in Client, ReadColdReceipts(c)
  PROVE  IInv'
<1>1. "coldReceipts" \in NUsers \ {"coldTxs"} /\ Stage("coldReceipts") > 0
  BY StageFacts DEF NUsers
<1>2. /\ Reads(c, "coldReceipts")
      /\ Becomes(c, Advance(PartOf(req[c], req[c].n), "coldReceipts"))
  BY DEF ReadColdReceipts
<1>3. "coldReceipts" \in Steps(req[c].op) /\ ActiveInv(req[c])
  BY <1>1, <1>2, NotWaiting
<1>4. req[c].op \notin Fees
  BY <1>3, StepKinds
<1>5. PartOf(req[c], req[c].n).op = req[c].op
  BY <1>3, RecordFacts DEF ActiveInv, IsRequest, PartOf
<1> QED BY <1>1, <1>2, <1>4, <1>5, NoFee, PartDone

\* get_header_by_number: a stored block is found.
LEMMA StepReadColdHeader ==
  ASSUME IInv, NEW c \in Client, ReadColdHeader(c)
  PROVE  IInv'
<1> DEFINE r == req[c]
<1>1. "coldHeader" \in NUsers \ {"coldTxs"} /\ Stage("coldHeader") > 0
  BY StageFacts DEF NUsers
<1>2. Reads(c, "coldHeader")
  BY DEF ReadColdHeader
<1>3. "coldHeader" \in Steps(r.op) /\ ActiveInv(r) /\ c \notin Range(queue)
  BY <1>1, <1>2, NotWaiting
<1>4. CASE InCold(r.n)
  <2>1. Becomes(c, Advance(PartOf(r, r.n), "coldHeader"))
    BY <1>4 DEF ReadColdHeader
  <2>2. r.op \notin Fees
    BY <1>3, StepKinds
  <2>3. PartOf(r, r.n).op = r.op
    BY <1>3, RecordFacts DEF ActiveInv, IsRequest, PartOf
  <2> QED BY <1>1, <1>2, <2>1, <2>2, <2>3, NoFee, PartDone
<1>5. CASE ~InCold(r.n)
  <2>1. Becomes(c, Ends(r, "absent"))
    BY <1>5 DEF ReadColdHeader
  <2>2. MayMiss(r)
    BY <1>3, <1>5 DEF ActiveInv, StoredInv, MayMiss, InCold
  <2> QED BY <1>3, <2>1, <2>2, ReadFailed
<1> QED BY <1>4, <1>5

\* get_tx_by_block_and_index: a stored block is found.
LEMMA StepReadTxByIndex ==
  ASSUME IInv, NEW c \in Client, ReadTxByIndex(c)
  PROVE  IInv'
<1> DEFINE r == req[c]
<1>1. "coldTxByIndex" \in NUsers \ {"coldTxs"} /\ Stage("coldTxByIndex") > 0
  BY StageFacts DEF NUsers
<1>2. Reads(c, "coldTxByIndex")
  BY DEF ReadTxByIndex
<1>3. "coldTxByIndex" \in Steps(r.op) /\ ActiveInv(r) /\ c \notin Range(queue)
  BY <1>1, <1>2, NotWaiting
<1>4. CASE InCold(r.n)
  <2>1. Becomes(c, Advance(PartOf(r, r.n), "coldTxByIndex"))
    BY <1>4 DEF ReadTxByIndex
  <2>2. r.op \notin Fees
    BY <1>3, StepKinds
  <2>3. PartOf(r, r.n).op = r.op
    BY <1>3, RecordFacts DEF ActiveInv, IsRequest, PartOf
  <2> QED BY <1>1, <1>2, <2>1, <2>2, <2>3, NoFee, PartDone
<1>5. CASE ~InCold(r.n)
  <2>1. Becomes(c, Ends(r, "absent"))
    BY <1>5 DEF ReadTxByIndex
  <2>2. MayMiss(r)
    BY <1>3, <1>5 DEF ActiveInv, StoredInv, MayMiss, InCold
  <2> QED BY <1>3, <2>1, <2>2, ReadFailed
<1> QED BY <1>4, <1>5

\* The smaller and the larger of two numbers.
LEMMA MinOfTwo ==
  ASSUME NEW a \in Int, NEW b \in Int
  PROVE  Min({a, b}) \in {a, b} /\ Min({a, b}) <= a /\ Min({a, b}) <= b
<1>1. \E x \in {a, b} : \A y \in {a, b} : x <= y
  <2>1. CASE a <= b
    BY <2>1
  <2>2. CASE b <= a
    BY <2>2
  <2> QED BY <2>1, <2>2
<1>2. Min({a, b}) \in {a, b} /\ \A y \in {a, b} : Min({a, b}) <= y
  BY <1>1 DEF Min
<1> QED BY <1>2

\* The greater of two.
LEMMA MaxOfTwo ==
  ASSUME NEW a \in Int, NEW b \in Int
  PROVE  Max({a, b}) \in {a, b} /\ Max({a, b}) >= a /\ Max({a, b}) >= b
<1>1. \E x \in {a, b} : \A y \in {a, b} : x >= y
  <2>1. CASE a >= b
    BY <2>1
  <2>2. CASE b >= a
    BY <2>2
  <2> QED BY <2>1, <2>2
<1>2. Max({a, b}) \in {a, b} /\ \A y \in {a, b} : Max({a, b}) >= y
  BY <1>1 DEF Max
<1> QED BY <1>2

\* The window that ends at n.
LEMMA WindowFacts ==
  ASSUME NEW n \in Nat
  PROVE  WindowStart(n) \in Nat /\ WindowStart(n) >= 1 /\ (n >= 1 => WindowStart(n) <= n)
<1> DEFINE k == n - OracleBlocks + 1
<1>1. k \in Int /\ 1 \in Int /\ k <= n
  BY RpcReadersAssumption
<1>2. Max({1, k}) \in {1, k} /\ Max({1, k}) >= 1
  BY <1>1, MaxOfTwo
<1> QED BY <1>1, <1>2 DEF WindowStart

\* The header for the base fee, of the block resolved or missing; a tip
\* computed before it stays of its window.
LEMMA StepReadBaseFee ==
  ASSUME IInv, NEW c \in Client, ReadBaseFee(c)
  PROVE  IInv'
<1> DEFINE r == req[c]  q == PartOf(r, r.n)  C == Coming(r.todo)  s == "coldHeaderOpt"
<1>1. s \in NUsers \ {"coldTxs"} /\ Stage(s) = 11 /\ Stage(s) > 0
  BY StageFacts DEF NUsers
<1>2. Reads(c, s) /\ Becomes(c, Advance(q, s))
  BY DEF ReadBaseFee
<1>3. /\ s \in Steps(r.op) /\ ActiveInv(r) /\ s \in C
      /\ \A u \in C : Stage(s) <= Stage(u)
  BY <1>1, <1>2, NotWaiting
<1>4. ASSUME reorgs = 0, FeeInv(r, C) PROVE FeeInv(q, C \ {s})
  <2>1. r.op \in Fees => C \ {s} = {}
    <3>1. SUFFICES ASSUME r.op \in Fees, NEW u \in C, u # s PROVE FALSE
      OBVIOUS
    <3>2. u \in Steps(r.op)
      BY <1>3 DEF ActiveInv, IsPlan, JoinsOf, Coming
    <3>3. Steps(r.op) = {"latest", "cacheTip", "cacheGet", "window", "windowLoop", "setTip",
                         "setBlock", "coldHeaderOpt"}
      BY <3>1 DEF Steps, ReaderOps, ByTx, Fees
    <3>4. Stage(u) < 11
      BY <3>1, <3>2, <3>3, StageFacts
    <3>5. Stage(u) \in Int /\ 11 <= Stage(u)
      BY <1>1, <1>3, StageFacts
    <3> QED BY <3>4, <3>5
  <2>2. StoresInv /\ ~Reverting /\ r.n \in Nat /\ r.n >= 1
    BY <1>1, <1>2, <1>4, LateHeight DEF IInv, StoresInv
  <2>3. r.n <= Len(cold) => cold[r.n] = chain[r.n]
    BY <2>2, ColdBlock
  <2>4. chain[r.n] \in Window(r.n)
    BY <2>2, WindowFacts DEF Window
  <2>5. q.op = r.op /\ q.n = r.n /\ q.hi = r.hi
        /\ q.from = IF r.n <= Len(cold) THEN r.from \cup {cold[r.n]} ELSE r.from
    BY <1>3, RecordFacts DEF ActiveInv, IsRequest, PartOf, InCold
  <2> HIDE DEF q
  <2>6. q.op \in Fees => q.n <= latest /\ q.hi <= q.n /\ q.from \subseteq Window(q.n) /\ C \ {s} = {}
    BY <1>4, <2>1, <2>3, <2>4, <2>5 DEF FeeInv
  <2> QED BY <2>6 DEF FeeInv
<1> QED BY <1>1, <1>2, <1>4, PartDone

\* get_transactions_in_block: the body of a stored block holds the transaction
\* that is to be traced.
LEMMA StepReadColdTxs ==
  ASSUME IInv, NEW c \in Client, ReadColdTxs(c)
  PROVE  IInv'
<1> DEFINE r == req[c]  p == PartOf(r, r.n)  C == Coming(r.todo)  s == "coldTxs"
           b == IF InCold(r.n) THEN {cold[r.n]} ELSE {}
           q == [p EXCEPT !.body = b]
<1>1. s \in NUsers
  BY DEF NUsers
<1>2. Reads(c, s) /\ Becomes(c, Advance(q, s))
  BY DEF ReadColdTxs
<1>3. r.n >= 1 /\ r.n \in Nat /\ Stage(s) > 4 /\ Stage(s) > 0
  BY <1>1, <1>2, LateHeight
<1>4. s \in Steps(r.op) /\ ActiveInv(r) /\ StoresInv
  BY <1>2, <1>3, NotWaiting DEF IInv
<1>5. IsRequest(r) /\ PartsInv(r) /\ StoredInv(r, C)
  BY <1>4 DEF ActiveInv
<1>6. IsRequest(p) /\ PartsInv(p) /\ StoredInv(p, C)
  BY <1>3, <1>4, <1>5, PartRead
<1>7. /\ SameAsked(p, r) /\ p.todo = r.todo /\ p.out = r.out /\ p.n = r.n /\ p.snap = r.snap
      /\ p.holds = r.holds /\ p.gone = r.gone
  BY <1>5, RecordFacts DEF IsRequest, PartOf, SameAsked
<1> HIDE DEF p
<1>8. /\ SameAsked(q, p) /\ SameContent(q, p) /\ q.todo = p.todo /\ q.out = p.out /\ q.snap = p.snap
      /\ q.hi = p.hi /\ q.holds = p.holds /\ q.body = b
  BY <1>6, RecordFacts DEF IsRequest, SameAsked, SameContent
<1>9. b \subseteq Block /\ (r.n <= Len(cold) => b = {cold[r.n]})
  BY <1>3, <1>4, ColdBlock DEF InCold
<1> HIDE DEF q, b
<1>10. IsRequest(q)
  BY <1>6, <1>8, <1>9 DEF IsRequest, SameAsked, SameContent
<1>11. PartsInv(q)
  BY <1>6, <1>8 DEF PartsInv, SameAsked, SameContent
<1>12. StoredInv(q, C \ {s})
  <2>1. ASSUME q.stored
        PROVE  /\ ~q.rewound /\ Stored(q.id) /\ q.n <= Len(cold) /\ q.hi <= Len(cold)
               /\ q.snap # <<>> /\ q.id[1] = "number" => q.id[2] <= Len(q.snap)
               /\ q.snap # <<>> /\ q.id[1] = "hash" => q.id[2] \in Range(q.snap)
               /\ q.op \in ByTx /\ q.n >= 1 => cold[q.n] \in TxIn[q.id[2]]
    BY <1>6, <1>8, <1>11, <2>1 DEF StoredInv, PartsInv, SameAsked, SameContent
  <2>2. ASSUME q.stored, q.op \in ByTx
        PROVE  q.body \subseteq TxIn[q.id[2]] /\ q.body # {}
    <3>1. q.n = r.n /\ q.body = {cold[r.n]}
      BY <1>7, <1>8, <1>9, <2>1, <2>2 DEF SameContent
    <3> QED BY <1>3, <2>1, <2>2, <3>1
  <2> QED BY <2>1, <2>2 DEF StoredInv
<1>13. /\ SameAsked(q, r) /\ q.todo = r.todo /\ q.out = r.out /\ q.n = r.n /\ q.snap = r.snap
       /\ q.holds = r.holds /\ q.gone = r.gone
  BY <1>7, <1>8 DEF SameAsked, SameContent
<1>14. FeeInv(q, C \ {s})
  <2>1. r.op \notin Fees
    BY <1>4, StepKinds
  <2> QED BY <2>1, <1>13, NoFee DEF SameAsked
<1> QED BY <1>2, <1>3, <1>10, <1>11, <1>12, <1>13, <1>14, LateRead

\* A transaction is found in one block.
LEMMA OneBlockOfTx ==
  ASSUME StoresInv, NEW t \in Tx, NEW a \in FindTx(t), NEW b \in FindTx(t)
  PROVE  a = b
<1> DEFINE k == Len(cold)
<1>1. cold \in Seq(Block) /\ k \in Nat /\ k >= 1
  BY DEF StoresInv
<1>2. cold[k] \in Block /\ num[cold[k]] = k
  BY <1>1, ColdBlock
<1>3. k \in Heights /\ cold \in [1..k -> Block] /\ IsChain(cold)
  BY <1>1, <1>2 DEF Heights, StoresInv
<1>4. \A i, j \in 1..k : cold[i] \in TxIn[t] /\ cold[j] \in TxIn[t] => i = j
  BY <1>3, OncePerChain
<1>5. PICK i \in 1..k, j \in 1..k : a = cold[i] /\ b = cold[j]
  BY <1>1 DEF FindTx, Range
<1> QED BY <1>4, <1>5 DEF FindTx

\* transaction_receipt reads the transaction again, from the same block.
LEMMA StepReadTxOfReceipt ==
  ASSUME IInv, NEW c \in Client, ReadTxOfReceipt(c)
  PROVE  IInv'
<1> DEFINE r == req[c]  C == Coming(r.todo)  s == "coldTxAgain"  found == FindTx(r.id[2])
           q == [r EXCEPT !.from = @ \cup found]
<1>1. Stage(s) > 4 /\ Stage(s) > 0 /\ Reads(c, s)
  BY StageFacts DEF ReadTxOfReceipt
<1>2. /\ s \in Steps(r.op) /\ ActiveInv(r) /\ StoresInv /\ c \notin Range(queue) /\ s \in C
      /\ r.op \in Op /\ r.id \in Ids(r.op) /\ (\A u \in C : Stage(s) <= Stage(u))
  BY <1>1, NotWaiting DEF IInv
<1>3. r.op \in ByTx
  BY <1>2, StepKinds
<1>4. r.op \notin Fees /\ r.op # "account" /\ r.id[2] \in Tx
  BY <1>2, <1>3, IdFacts, Kinds
<1>5. CASE found = {}
  <2>1. Becomes(c, Ends(r, "error"))
    BY <1>5 DEF ReadTxOfReceipt
  <2> QED BY <1>2, <2>1, ReadFailed
<1>6. CASE found # {}
  <2>1. Becomes(c, Advance(q, s))
    BY <1>6 DEF ReadTxOfReceipt
  <2>2. IsRequest(r) /\ PartsInv(r) /\ StoredInv(r, C \ {s})
    BY <1>2, StoredFewer DEF ActiveInv
  <2>3. /\ SameAsked(q, r) /\ q.todo = r.todo /\ q.out = r.out /\ q.n = r.n /\ q.hi = r.hi
        /\ q.snap = r.snap /\ q.base = r.base /\ q.body = r.body /\ q.whole = r.whole
        /\ q.settled = r.settled /\ q.holds = r.holds /\ q.gone = r.gone
        /\ q.from = r.from \cup found
    BY <2>2, RecordFacts DEF IsRequest, SameAsked
  <2> HIDE DEF q
  <2>4. ASSUME NEW b \in found, r.n >= 1
        PROVE  b \in Block /\ (~r.rewound => num[b] = r.n /\ b \in Range(chain))
    <3>1. b \in Range(cold)
      BY DEF FindTx
    <3>2. b \in Block /\ num[b] \in Nat \ {0} /\ num[b] <= Len(cold) /\ cold[num[b]] = b
      BY <1>2, <3>1, ColdPlace
    <3>3. ASSUME ~r.rewound PROVE num[b] = r.n /\ b \in Range(chain)
      <4>1. r.n <= Len(cold) /\ cold[r.n] \in TxIn[r.id[2]] /\ ~Reverting /\ r.n \in Nat
        BY <1>3, <2>2, <2>4, <3>3 DEF PartsInv, IsRequest
      <4>2. num[cold[r.n]] = r.n /\ cold[r.n] \in Range(cold) /\ cold[r.n] \in Range(chain)
        BY <1>2, <2>4, <4>1, ColdBlock
      <4>3. cold[r.n] \in found
        BY <4>1, <4>2 DEF FindTx
      <4>4. cold[r.n] = b
        BY <1>2, <1>4, <4>3, OneBlockOfTx
      <4> QED BY <4>2, <4>4
    <3> QED BY <3>2, <3>3
  <2>5. r.n >= 1
    <3>1. s \in NUsers
      BY DEF NUsers
    <3> QED BY <1>1, <3>1, LateHeight
  <2>6. IsRequest(q)
    BY <2>2, <2>3, <2>4, <2>5 DEF IsRequest, SameAsked
  <2>7. PartsInv(q)
    BY <2>2, <2>3, <2>4, <2>5 DEF PartsInv, SameAsked
  <2>8. StoredInv(q, C \ {s})
    BY <2>2, <2>3 DEF StoredInv, SameAsked
  <2>9. FeeInv(q, C \ {s})
    BY <1>4, <2>3, NoFee DEF SameAsked
  <2> QED BY <1>1, <2>1, <2>3, <2>6, <2>7, <2>8, <2>9, LateRead
<1> QED BY <1>5, <1>6

\* resolve_header of a number: hot storage has what cold storage has.
LEMMA StepReadHotHeader ==
  ASSUME IInv, NEW c \in Client, ReadHotHeader(c)
  PROVE  IInv'
<1> DEFINE r == req[c]  C == Coming(r.todo)  s == "hotHeader"
           q == [r EXCEPT !.from = @ \cup {chain[r.n]}]
<1>1. s \in NUsers /\ Reads(c, s)
  BY DEF NUsers, ReadHotHeader
<1>2. r.n >= 1 /\ r.n \in Nat /\ Stage(s) > 4 /\ Stage(s) > 0
  BY <1>1, LateHeight
<1>3. s \in Steps(r.op) /\ ActiveInv(r) /\ StoresInv /\ c \notin Range(queue)
  BY <1>1, <1>2, NotWaiting DEF IInv
<1>4. IsRequest(r) /\ PartsInv(r) /\ StoredInv(r, C \ {s}) /\ StoredInv(r, C)
  BY <1>3, StoredFewer DEF ActiveInv
<1>5. CASE r.n > Len(chain)
  <2>1. Becomes(c, Ends(r, "absent"))
    BY <1>5 DEF ReadHotHeader
  <2>2. ~r.stored
    <3>1. SUFFICES ASSUME r.stored PROVE FALSE
      OBVIOUS
    <3>2. r.n <= Len(cold) /\ ~Reverting
      BY <1>4, <3>1 DEF StoredInv, PartsInv
    <3>3. Len(cold) <= Len(chain) /\ Len(cold) \in Nat /\ Len(chain) \in Nat
      BY <1>3, <3>2 DEF StoresInv, Reverting
    <3> QED BY <1>2, <1>5, <3>2, <3>3
  <2>3. MayMiss(r)
    BY <2>2 DEF MayMiss
  <2> QED BY <1>3, <2>1, <2>3, ReadFailed
<1>6. CASE ~(r.n > Len(chain))
  <2>1. Becomes(c, Advance(q, s))
    BY <1>6 DEF ReadHotHeader
  <2>2. chain[r.n] \in Block /\ num[chain[r.n]] = r.n /\ chain[r.n] \in Range(chain)
    <3>1. r.n <= Len(chain)
      BY <1>2, <1>3, <1>6 DEF StoresInv
    <3> QED BY <1>2, <1>3, <3>1, HotBlock
  <2>3. /\ SameAsked(q, r) /\ q.todo = r.todo /\ q.out = r.out /\ q.n = r.n /\ q.hi = r.hi
        /\ q.snap = r.snap /\ q.base = r.base /\ q.body = r.body /\ q.whole = r.whole
        /\ q.settled = r.settled /\ q.holds = r.holds /\ q.gone = r.gone
        /\ q.from = r.from \cup {chain[r.n]}
    BY <1>4, RecordFacts DEF IsRequest, SameAsked
  <2> HIDE DEF q
  <2>4. IsRequest(q)
    BY <1>4, <2>2, <2>3 DEF IsRequest, SameAsked
  <2>5. PartsInv(q)
    BY <1>4, <2>2, <2>3 DEF PartsInv, SameAsked
  <2>6. StoredInv(q, C \ {s})
    BY <1>4, <2>3 DEF StoredInv, SameAsked
  <2>7. FeeInv(q, C \ {s})
    <3>1. r.op \notin Fees
      BY <1>3, StepKinds
    <3> QED BY <3>1, <2>3, NoFee DEF SameAsked
  <2> QED BY <1>1, <1>2, <2>1, <2>3, <2>4, <2>5, <2>6, <2>7, LateRead
<1> QED BY <1>5, <1>6

\* saturating_sub(1), with genesis at 1.
LEMMA BeforeFacts ==
  ASSUME NEW n \in Nat, n >= 1
  PROVE  Before(n) \in Nat /\ Before(n) >= 1 /\ (Before(n) + 1 = n \/ (Before(n) = 1 /\ n = 1))
<1>1. n - 1 \in Int /\ 1 \in Int
  OBVIOUS
<1>2. Max({n - 1, 1}) \in {n - 1, 1} /\ Max({n - 1, 1}) >= n - 1 /\ Max({n - 1, 1}) >= 1
  BY <1>1, MaxOfTwo
<1> QED BY <1>2 DEF Before

\* revm_state_at_height: the state is that before the block, genesis aside.
LEMMA StepReadStateBefore ==
  ASSUME IInv, NEW c \in Client, ReadStateBefore(c)
  PROVE  IInv'
<1> DEFINE r == req[c]  C == Coming(r.todo)  s == "stateBefore"  m == Before(r.n)
           q == [r EXCEPT !.base = @ \cup {chain[m]}]
<1>1. s \in NUsers /\ Reads(c, s)
  BY DEF NUsers, ReadStateBefore
<1>2. r.n >= 1 /\ r.n \in Nat /\ Stage(s) > 4 /\ Stage(s) > 0
  BY <1>1, LateHeight
<1>3. s \in Steps(r.op) /\ ActiveInv(r) /\ StoresInv /\ c \notin Range(queue)
  BY <1>1, <1>2, NotWaiting DEF IInv
<1>4. IsRequest(r) /\ PartsInv(r) /\ StoredInv(r, C \ {s})
  BY <1>3, StoredFewer DEF ActiveInv
<1>5. CASE m > Len(chain)
  <2>1. Becomes(c, Ends(r, "error"))
    BY <1>5 DEF ReadStateBefore
  <2> QED BY <1>3, <2>1, ReadFailed
<1>6. CASE ~(m > Len(chain))
  <2>1. Becomes(c, Advance(q, s))
    BY <1>6 DEF ReadStateBefore
  <2>2. m \in Nat /\ m >= 1 /\ (m + 1 = r.n \/ (m = 1 /\ r.n = 1))
    BY <1>2, BeforeFacts
  <2>3. chain[m] \in Block /\ num[chain[m]] = m /\ chain[m] \in Range(chain)
    <3>1. m <= Len(chain)
      BY <1>3, <1>6, <2>2 DEF StoresInv
    <3> QED BY <1>3, <2>2, <3>1, HotBlock
  <2>4. /\ SameAsked(q, r) /\ q.todo = r.todo /\ q.out = r.out /\ q.n = r.n /\ q.hi = r.hi
        /\ q.snap = r.snap /\ q.from = r.from /\ q.body = r.body /\ q.whole = r.whole
        /\ q.settled = r.settled /\ q.holds = r.holds /\ q.gone = r.gone
        /\ q.base = r.base \cup {chain[m]}
    BY <1>4, RecordFacts DEF IsRequest, SameAsked
  <2> HIDE DEF q, m
  <2>5. IsRequest(q)
    BY <1>4, <2>3, <2>4 DEF IsRequest, SameAsked
  <2>6. PartsInv(q)
    BY <1>4, <2>2, <2>3, <2>4 DEF PartsInv, SameAsked
  <2>7. StoredInv(q, C \ {s})
    BY <1>4, <2>4 DEF StoredInv, SameAsked
  <2>8. FeeInv(q, C \ {s})
    <3>1. r.op \notin Fees
      BY <1>3, StepKinds
    <3> QED BY <3>1, <2>4, NoFee DEF SameAsked
  <2> QED BY <1>1, <1>2, <2>1, <2>4, <2>5, <2>6, <2>7, <2>8, LateRead
<1> QED BY <1>5, <1>6

\* A stored transaction is among those of the block read.
LEMMA StepFindAndTrace ==
  ASSUME IInv, NEW c \in Client, FindAndTrace(c)
  PROVE  IInv'
<1> DEFINE r == req[c]  C == Coming(r.todo)  s == "traceTx"  t == r.id[2]
           hit == r.body # {} /\ r.body \subseteq TxIn[t] /\ t \notin BehindMagic
<1>1. Stage(s) > 4 /\ Stage(s) > 0 /\ Stage(s) = 9 /\ Reads(c, s) /\ Stage("coldTxs") = 7
  BY StageFacts DEF FindAndTrace
<1>2. /\ s \in Steps(r.op) /\ ActiveInv(r) /\ c \notin Range(queue) /\ s \in C
      /\ r.op \in Op /\ r.id \in Ids(r.op) /\ (\A u \in C : Stage(s) <= Stage(u))
  BY <1>1, NotWaiting
<1>3. r.op \in ByTx
  BY <1>2, StepKinds
<1>4. r.id[1] = "tx" /\ r.op \notin Fees
  BY <1>2, <1>3, IdFacts, Kinds
<1>5. IsRequest(r) /\ PartsInv(r) /\ StoredInv(r, C) /\ StoredInv(r, C \ {s})
  BY <1>2, StoredFewer DEF ActiveInv
<1>6. CASE hit
  <2>1. Becomes(c, Advance(r, s))
    BY <1>6 DEF FindAndTrace
  <2>2. FeeInv(r, C \ {s}) /\ SameAsked(r, r)
    BY <1>4, NoFee DEF SameAsked
  <2> QED BY <1>1, <1>5, <2>1, <2>2, LateRead
<1>7. CASE ~hit
  <2>1. Becomes(c, Ends(r, "absent"))
    BY <1>7 DEF FindAndTrace
  <2>2. "coldTxs" \notin C
    BY <1>1, <1>2
  <2>3. r.stored => r.body # {} /\ r.body \subseteq TxIn[t]
    BY <1>2, <1>3, <1>5, <2>2 DEF StoredInv
  <2>4. MayMiss(r)
    BY <1>4, <1>7, <2>3 DEF MayMiss
  <2> QED BY <1>2, <2>1, <2>4, ReadFailed
<1> QED BY <1>6, <1>7

\* A range that ends in cold storage.
LEMMA UpToCold ==
  ASSUME StoresInv, NEW h \in Nat
  PROVE  LET k == Min({h, Len(cold)})
         IN k \in Nat /\ k <= Len(cold) /\ k <= h /\ Len(cold) \in Nat
<1>1. PICK n \in Nat : n = Len(cold)
  BY DEF StoresInv
<1>2. Min({h, n}) \in {h, n} /\ Min({h, n}) <= h /\ Min({h, n}) <= n
  BY MinOfTwo
<1> QED BY <1>1, <1>2

\* stream_logs: none of the blocks in the range is missing once settled.
LEMMA StepReadLogs ==
  ASSUME IInv, NEW c \in Client, ReadLogs(c)
  PROVE  IInv'
<1> DEFINE r == req[c]  C == Coming(r.todo)  s == "coldLogs"
           k == Min({r.hi, Len(cold)})
           b == {cold[i] : i \in r.n..k}
           q == [r EXCEPT !.from = b, !.whole = InCold(r.hi)]
<1>1. s \in NUsers /\ Reads(c, s) /\ Becomes(c, Advance(q, s))
  BY DEF NUsers, ReadLogs
<1>2. r.n >= 1 /\ r.n \in Nat /\ Stage(s) > 4 /\ Stage(s) > 0
  BY <1>1, LateHeight
<1>3. s \in Steps(r.op) /\ ActiveInv(r) /\ StoresInv
  BY <1>1, <1>2, NotWaiting DEF IInv
<1>4. IsRequest(r) /\ PartsInv(r) /\ StoredInv(r, C \ {s})
  BY <1>3, StoredFewer DEF ActiveInv
<1>5. r.op = "getLogs"
  BY <1>3, StepKinds
<1>6. r.op \notin Fees /\ r.op \notin OneBlock /\ r.op \notin ByTx
  BY <1>5, Kinds
<1>7. k \in Nat /\ k <= Len(cold) /\ Len(cold) \in Nat
  BY <1>3, <1>4, UpToCold DEF IsRequest
<1>8. ASSUME NEW x \in b PROVE x \in Block /\ (~Reverting => x \in Range(chain))
  <2>1. PICK i \in r.n..k : x = cold[i]
    OBVIOUS
  <2>2. i \in Nat /\ i >= 1 /\ i <= Len(cold)
    BY <1>2, <1>7
  <2> QED BY <1>3, <2>1, <2>2, ColdBlock
<1>9. /\ SameAsked(q, r) /\ q.todo = r.todo /\ q.out = r.out /\ q.n = r.n /\ q.hi = r.hi
      /\ q.snap = r.snap /\ q.base = r.base /\ q.body = r.body
      /\ q.settled = r.settled /\ q.holds = r.holds /\ q.gone = r.gone
      /\ q.from = b /\ (q.whole <=> InCold(r.hi))
  BY <1>4, RecordFacts DEF IsRequest, SameAsked
<1> HIDE DEF q, b
<1>10. IsRequest(q)
  BY <1>4, <1>8, <1>9 DEF IsRequest, SameAsked
<1>11. PartsInv(q)
  BY <1>4, <1>6, <1>8, <1>9 DEF PartsInv, SameAsked, InCold
<1>12. StoredInv(q, C \ {s})
  BY <1>4, <1>9 DEF StoredInv, SameAsked
<1>13. FeeInv(q, C \ {s})
  BY <1>6, <1>9, NoFee DEF SameAsked
<1> QED BY <1>1, <1>2, <1>9, <1>10, <1>11, <1>12, <1>13, LateRead

-------------------------------------------------------------------------------
(***************************************************************************)
(* The reads that find out what the answer is about.                       *)
(***************************************************************************)
\* A place of a chain.
LEMMA ChainPlace ==
  ASSUME NEW t \in Seq(Block), IsChain(t)
  PROVE  /\ \A n \in 1..Len(t) : t[n] \in Block /\ num[t[n]] = n /\ t[n] \in Range(t)
         /\ \A b \in Range(t) : num[b] \in 1..Len(t) /\ t[num[b]] = b
<1>1. ASSUME NEW n \in 1..Len(t) PROVE t[n] \in Block /\ num[t[n]] = n /\ t[n] \in Range(t)
  <2>1. num[t[n]] = 1 + n - 1
    BY DEF IsChain, LinkedFrom
  <2> QED BY <2>1 DEF Range
<1>2. ASSUME NEW b \in Range(t) PROVE num[b] \in 1..Len(t) /\ t[num[b]] = b
  <2>1. PICK n \in 1..Len(t) : b = t[n]
    BY DEF Range
  <2> QED BY <1>1, <2>1
<1> QED BY <1>1, <1>2

\* What is stored is a block or a transaction that was named.
LEMMA StoredNames ==
  ASSUME NEW r, NEW C, StoredInv(r, C), r.stored
  PROVE  /\ ~r.rewound /\ r.id[1] \in {"number", "hash", "tx"}
         /\ r.id[1] = "number" => r.id[2] <= Len(cold)
         /\ r.id[1] = "hash" => r.id[2] \in Range(cold)
         /\ r.id[1] = "tx" => FindTx(r.id[2]) # {}
  BY DEF StoredInv, Stored

\* Without a revert, what is in cold storage is in hot storage.
LEMMA ColdInHot ==
  ASSUME StoresInv, ~Reverting
  PROVE  /\ Len(cold) <= Len(chain) /\ Len(cold) \in Nat /\ Len(chain) \in Nat
         /\ \A b \in Range(cold) : b \in Range(chain)
<1>1. Len(cold) <= Len(chain) /\ Len(cold) \in Nat /\ Len(chain) \in Nat
  BY DEF StoresInv, Reverting
<1>2. ASSUME NEW b \in Range(cold) PROVE b \in Range(chain)
  <2>1. num[b] \in Nat \ {0} /\ num[b] <= Len(cold) /\ cold[num[b]] = b
    BY ColdPlace
  <2> QED BY <2>1, ColdBlock
<1> QED BY <1>1, <1>2

\* Nothing was read before, and nothing else is to be found out.
LEMMA SetterFacts ==
  ASSUME IInv, NEW c \in Client, NEW s \in Setters \ {"fromTag"}, Reads(c, s)
  PROVE  LET r == req[c]  C == Coming(r.todo)
         IN /\ Stage(s) > 0 /\ StoresInv /\ ActiveInv(r) /\ c \notin Range(queue)
            /\ s \in Steps(r.op) /\ s \in C /\ C \subseteq Steps(r.op)
            /\ r.op \in Op /\ r.id \in Ids(r.op)
            /\ r.from = {} /\ r.base = {} /\ r.body = {} /\ r.hi = 0 /\ r.whole /\ ~r.settled
            /\ (C \ {s}) \cap Setters = {} /\ "open" \notin C
            /\ r.op \in ReaderOps \cup {"account"} => C \ {s} = {}
            /\ \A u \in C : 4 <= Stage(u)
<1> DEFINE r == req[c]  C == Coming(r.todo)
<1>1. Stage(s) = 4 /\ Stage(s) > 0 /\ Stage("fromTag") = 3 /\ Stage("open") = 2
      /\ Stage("permit") = 0 /\ Stage("start") = 1
  BY StageFacts DEF Setters
<1>2. /\ ActiveInv(r) /\ c \notin Range(queue) /\ s \in Steps(r.op) /\ s \in C
      /\ \A u \in C : Stage(s) <= Stage(u)
      /\ r.op \in Op /\ r.id \in Ids(r.op)
  BY <1>1, NotWaiting
<1>3. NeedsInv(r, C) /\ C \subseteq Steps(r.op)
  BY <1>2 DEF ActiveInv, IsPlan, JoinsOf, Coming
<1>4. "fromTag" \notin C /\ "open" \notin C /\ "permit" \notin C /\ "start" \notin C
  BY <1>1, <1>2
<1> HIDE DEF C
<1>5. (C \ {s}) \cap Setters = {}
  BY <1>2, <1>3, <1>4 DEF NeedsInv
<1>6. r.from = {} /\ r.base = {} /\ r.body = {} /\ r.hi = 0 /\ r.whole /\ ~r.settled
  BY <1>2, <1>3 DEF NeedsInv
<1>7. ASSUME r.op \in ReaderOps \cup {"account"} PROVE C \ {s} = {}
  <2>1. Steps(r.op) \subseteq {"permit", "start", "open", "snapHeader", "evm", "account"}
    BY <1>7 DEF Steps, ReaderOps, ByTx, Fees
  <2>2. C \subseteq Setters
    BY <1>3, <1>4, <2>1 DEF Setters
  <2> QED BY <1>5, <2>2
<1>8. \A u \in C : 4 <= Stage(u)
  BY <1>1, <1>2
<1> QED BY <1>1, <1>2, <1>3, <1>4, <1>5, <1>6, <1>7, <1>8 DEF IInv, C

\* Such a read is done.
LEMMA SetDone ==
  ASSUME IInv, NEW c \in Client, NEW s \in Setters \ {"fromTag"}, Reads(c, s),
         NEW q, Becomes(c, Advance(q, s)),
         IsRequest(q), SameAsked(q, req[c]), q.todo = req[c].todo, q.out = req[c].out,
         q.gone = req[c].gone, q.holds = req[c].holds, q.snap = req[c].snap,
         (Coming(q.todo) \ {s}) \cap NUsers # {} => q.n >= 1,
         StoredInv(q, Coming(q.todo) \ {s}), PartsInv(q),
         Coming(q.todo) \ {s} = {} => FromOneReader(q),
         reorgs = 0 /\ Alone(c) /\ CacheFresh /\ FeeInv(req[c], Coming(req[c].todo)) =>
           FeeInv(q, Coming(q.todo) \ {s})
  PROVE  IInv'
<1> DEFINE C == Coming(q.todo)  D == C \ {s}
<1>1. /\ Stage(s) > 0 /\ ActiveInv(req[c]) /\ D \cap Setters = {} /\ "open" \notin C
      /\ q.op \in ReaderOps \cup {"account"} => D = {}
  BY SetterFacts DEF SameAsked
<1>2. NeedsInv(req[c], C) /\ SnapInv(req[c])
  BY <1>1 DEF ActiveInv
<1>3. /\ "filterRange" \notin D /\ "latest" \notin D /\ D \cap FromReader = {}
      /\ D \cap NSetters = {}
  BY <1>1 DEF Setters, NSetters, FromReader
<1> HIDE DEF C
<1>4. NeedsInv(q, D)
  <2>1. "history" \in D => D \subseteq {"resolve", "history", "historyLoop"}
    BY <1>2 DEF NeedsInv
  <2>2. D \cap NUsers # {} => q.n >= 1
    BY DEF C
  <2> QED BY <1>1, <1>3, <2>1, <2>2 DEF NeedsInv
<1>5. SnapInv(q)
  BY <1>2 DEF SnapInv, SameAsked
<1> QED BY <1>1, <1>4, <1>5, ReadDone DEF C

\* What an id resolves to.
LEMMA HeightFacts ==
  ASSUME StoresInv, NEW r, IsRequest(r), r.op \notin ByTx \cup ByRange,
         NEW t \in Seq(Block), IsChain(t)
  PROVE  LET n == HeightIn(r.id, t)
         IN /\ n \in Nat
            /\ r.id[1] # "hash" => n >= 1
            /\ r.id[1] = "number" => n = r.id[2]
            /\ r.id[1] = "hash" /\ n # 0 =>
                 n <= Len(t) /\ t[n] = r.id[2] /\ num[r.id[2]] = n
            /\ r.id[1] = "hash" /\ n = 0 => r.id[2] \notin Range(t)
            /\ r.id[1] \in {"latest", "number", "hash"}
<1> DEFINE n == HeightIn(r.id, t)
<1>1. /\ r.id[1] \in {"latest", "number", "hash"}
      /\ r.id[1] = "number" => r.id[2] \in Nat \ {0}
      /\ r.id[1] = "hash" => r.id[2] \in Block
  BY IdFacts DEF IsRequest
<1>2. CASE r.id[1] = "hash"
  <2>1. CASE r.id[2] \in Range(t)
    <3>1. n = num[r.id[2]]
      BY <1>2, <2>1 DEF HeightIn
    <3>2. num[r.id[2]] \in 1..Len(t) /\ t[num[r.id[2]]] = r.id[2]
      BY <2>1, ChainPlace
    <3> QED BY <1>1, <1>2, <3>1, <3>2
  <2>2. CASE r.id[2] \notin Range(t)
    <3>1. n = 0
      BY <1>2, <2>2 DEF HeightIn
    <3> QED BY <1>1, <1>2, <2>2, <3>1
  <2> QED BY <2>1, <2>2
<1>3. CASE r.id[1] = "number"
  <2>1. n = r.id[2]
    BY <1>3 DEF HeightIn, ResolveBlockTag
  <2> QED BY <1>1, <1>3, <2>1
<1>4. CASE r.id[1] = "latest"
  <2>1. n = latest
    BY <1>4 DEF HeightIn, ResolveBlockTag
  <2> QED BY <1>1, <1>4, <2>1 DEF StoresInv
<1> QED BY <1>1, <1>2, <1>3, <1>4

\* The block that was asked for, where both stores have it.
LEMMA StoredHeight ==
  ASSUME StoresInv, NEW r, NEW C, IsRequest(r), StoredInv(r, C), PartsInv(r), r.stored,
         r.op \notin ByTx \cup ByRange, NEW t \in Seq(Block), IsChain(t),
         r.id[1] = "hash" => r.id[2] \in Range(t)
  PROVE  /\ HeightIn(r.id, t) >= 1 /\ HeightIn(r.id, t) <= Len(cold)
         /\ r.id[1] = "number" \/ r.id[1] = "hash"
<1> DEFINE n == HeightIn(r.id, t)
<1>1. /\ n \in Nat /\ (r.id[1] # "hash" => n >= 1) /\ (r.id[1] = "number" => n = r.id[2])
      /\ r.id[1] = "hash" /\ n # 0 => num[r.id[2]] = n
      /\ r.id[1] = "hash" /\ n = 0 => r.id[2] \notin Range(t)
      /\ r.id[1] \in {"latest", "number", "hash"}
  BY HeightFacts
<1>2. /\ r.id[1] \in {"number", "hash", "tx"}
      /\ r.id[1] = "number" => r.id[2] <= Len(cold)
      /\ r.id[1] = "hash" => r.id[2] \in Range(cold)
  BY StoredNames
<1>3. r.id[1] = "hash" => num[r.id[2]] <= Len(cold)
  BY <1>2, ColdPlace
<1> QED BY <1>1, <1>2, <1>3

\* resolve_block_id: what is stored gets a height that cold storage has.
LEMMA StepResolveBlockId ==
  ASSUME IInv, NEW c \in Client, ResolveBlockId(c)
  PROVE  IInv'
<1> DEFINE r == req[c]  C == Coming(r.todo)  s == "resolve"  n == HeightIn(r.id, chain)
           q == At(r, n)
<1>1. s \in Setters \ {"fromTag"} /\ Reads(c, s)
  BY DEF Setters, ResolveBlockId
<1>2. /\ Stage(s) > 0 /\ StoresInv /\ ActiveInv(r) /\ c \notin Range(queue)
      /\ s \in Steps(r.op)
      /\ r.from = {} /\ r.base = {} /\ r.body = {} /\ r.hi = 0 /\ r.whole /\ ~r.settled
  BY <1>1, SetterFacts
<1>3. r.op \notin ReaderOps \cup {"account"} \cup ByTx \cup Fees \cup ByRange
  BY <1>2, StepKinds
<1>4. IsRequest(r) /\ PartsInv(r) /\ StoredInv(r, C) /\ StoredInv(r, C \ {s})
  BY <1>2, StoredFewer DEF ActiveInv
<1>5. chain \in Seq(Block) /\ IsChain(chain)
  BY <1>2 DEF StoresInv
<1>6. n \in Nat
  BY <1>2, <1>3, <1>4, <1>5, HeightFacts
<1>7. r.stored => n >= 1 /\ n <= Len(cold)
  <2>1. SUFFICES ASSUME r.stored PROVE n >= 1 /\ n <= Len(cold)
    OBVIOUS
  <2>2. ~Reverting /\ (r.id[1] = "hash" => r.id[2] \in Range(cold))
    BY <1>4, <2>1, StoredNames DEF PartsInv
  <2>3. r.id[1] = "hash" => r.id[2] \in Range(chain)
    BY <1>2, <2>2, ColdInHot
  <2> QED BY <1>2, <1>3, <1>4, <1>5, <2>1, <2>3, StoredHeight
<1>8. CASE n = 0
  <2>1. Becomes(c, Ends(r, "absent"))
    BY <1>8 DEF ResolveBlockId
  <2>2. MayMiss(r)
    BY <1>7, <1>8 DEF MayMiss
  <2> QED BY <1>2, <2>1, <2>2, ReadFailed
<1>9. CASE n # 0
  <2>1. Becomes(c, Advance(q, s))
    BY <1>9 DEF ResolveBlockId
  <2>2. /\ SameAsked(q, r) /\ q.todo = r.todo /\ q.out = r.out /\ q.n = n /\ q.hi = r.hi
        /\ q.snap = r.snap /\ q.base = r.base /\ q.body = r.body /\ q.whole = r.whole
        /\ (q.settled <=> n <= Len(cold) /\ ~r.rewound) /\ q.holds = r.holds /\ q.gone = r.gone
        /\ q.from = r.from
    BY <1>4, RecordFacts DEF IsRequest, SameAsked, At
  <2> HIDE DEF q, n
  <2>3. IsRequest(q)
    BY <1>4, <1>6, <2>2 DEF IsRequest, SameAsked
  <2>4. PartsInv(q)
    BY <1>2, <1>3, <1>4, <2>2 DEF PartsInv, SameAsked, StoresInv
  <2>5. StoredInv(q, C \ {s})
    BY <1>3, <1>4, <1>7, <2>2 DEF StoredInv, SameAsked
  <2>6. FeeInv(q, C \ {s}) /\ FromOneReader(q)
    BY <1>3, <2>2, NoFee DEF SameAsked, FromOneReader
  <2>7. q.n >= 1
    BY <1>6, <1>9, <2>2
  <2> QED BY <1>1, <2>1, <2>2, <2>3, <2>4, <2>5, <2>6, <2>7, SetDone
<1> QED BY <1>8, <1>9

\* An answer from the snapshot of one reader, of the height or, of an account,
\* at the tip below it.
LEMMA FromSnapshot ==
  ASSUME IInv, NEW c \in Client, NEW s \in FromReader, Reads(c, s), NEW n, NEW k, NEW q,
         n = HeightIn(req[c].id, req[c].snap), n >= 1,
         k \in 1..Len(req[c].snap), k <= n, n <= Len(req[c].snap) => k = n,
         s # "account" => k = n,
         q = [At(req[c], n) EXCEPT !.from = {req[c].snap[k]}],
         Becomes(c, Advance(q, s))
  PROVE  IInv'
<1> DEFINE r == req[c]  C == Coming(r.todo)  b == r.snap[k]
<1>1. s \in Setters \ {"fromTag"}
  BY DEF Setters, FromReader
<1>2. /\ Stage(s) > 0 /\ StoresInv /\ ActiveInv(r) /\ c \notin Range(queue)
      /\ s \in Steps(r.op)
      /\ r.from = {} /\ r.base = {} /\ r.body = {} /\ r.hi = 0 /\ r.whole /\ ~r.settled
      /\ r.op \in ReaderOps \cup {"account"} => C \ {s} = {}
  BY <1>1, SetterFacts
<1>3. r.op \in ReaderOps \cup {"account"} /\ (s # "account" => r.op # "account")
      /\ (s = "account" => r.op = "account")
  <2>1. "account" \notin ReaderOps
    BY DEF ReaderOps
  <2> QED BY <1>2, <2>1, StepKinds DEF FromReader
<1>4. r.op \notin ByTx \cup ByRange /\ r.op \notin Fees
  BY <1>3, Kinds
<1>5. IsRequest(r) /\ PartsInv(r) /\ StoredInv(r, C) /\ StoredInv(r, C \ {s})
      /\ IsChain(r.snap) /\ r.snap \in Seq(Block) /\ SnapInv(r)
  BY <1>2, StoredFewer DEF ActiveInv, IsRequest, FromReader, SnapInv
<1>6. /\ n \in Nat
      /\ r.id[1] = "hash" /\ n # 0 => n <= Len(r.snap) /\ r.snap[n] = r.id[2]
  BY <1>2, <1>4, <1>5, HeightFacts
<1>7. b \in Block /\ num[b] = k /\ (r.id[1] = "hash" => b = r.id[2])
  <2>1. b \in Block /\ num[b] = k
    BY <1>5, ChainPlace
  <2> QED BY <1>6, <2>1
<1>8. ~r.rewound => b \in Range(chain)
  <2>1. SUFFICES ASSUME ~r.rewound PROVE b \in Range(chain)
    OBVIOUS
  <2>2. Len(r.snap) <= Len(chain) /\ b = chain[k] /\ Len(r.snap) \in Nat /\ Len(chain) \in Nat
    BY <1>2, <1>5, <2>1 DEF SnapInv, StoresInv
  <2>3. k \in Nat /\ k >= 1 /\ k <= Len(chain)
    BY <2>2
  <2> QED BY <1>2, <2>2, <2>3, HotBlock
<1>9. r.stored => n <= Len(cold)
  <2>1. SUFFICES ASSUME r.stored PROVE n <= Len(cold)
    OBVIOUS
  <2>2. r.snap # <<>>
    BY <1>5
  <2>3. r.id[1] = "hash" => r.id[2] \in Range(r.snap)
    BY <1>5, <2>1, <2>2 DEF StoredInv
  <2> QED BY <1>2, <1>4, <1>5, <2>1, <2>3, StoredHeight
<1>10. /\ SameAsked(q, r) /\ q.todo = r.todo /\ q.out = r.out /\ q.n = n /\ q.hi = r.hi
       /\ q.snap = r.snap /\ q.base = r.base /\ q.body = r.body /\ q.whole = r.whole
       /\ (q.settled <=> n <= Len(cold) /\ ~r.rewound) /\ q.holds = r.holds /\ q.gone = r.gone
       /\ q.from = {b}
  BY <1>5, RecordFacts DEF IsRequest, SameAsked, At
<1> HIDE DEF b
<1>11. IsRequest(q)
  BY <1>5, <1>6, <1>7, <1>10 DEF IsRequest, SameAsked
<1>12. PartsInv(q)
  <2>1. num[b] = n \/ (r.op = "account" /\ num[b] < n)
    BY <1>3, <1>6, <1>7
  <2>2. Reverting => q.rewound
    BY <1>5, <1>10 DEF PartsInv, SameAsked
  <2>3. q.settled => ~q.rewound /\ q.n <= Len(cold) /\ q.hi <= Len(cold) /\ q.whole
    <3>1. q.hi = 0 /\ Len(cold) \in Nat /\ q.rewound = r.rewound
      BY <1>2, <1>10 DEF SameAsked, StoresInv
    <3>2. q.whole
      BY <1>2, <1>10
    <3> QED BY <1>10, <3>1, <3>2
  <2>a. /\ q.from = {b} /\ q.base = {} /\ q.n = n /\ q.op = r.op /\ q.rewound = r.rewound
    BY <1>2, <1>10 DEF SameAsked
  <2>4. ~q.rewound => q.from \cup q.base \subseteq Range(chain)
    BY ONLY <1>8, <2>a
  <2>5. /\ \A x \in q.from : num[x] = q.n \/ (q.op = "account" /\ num[x] < q.n)
        /\ q.base = {} /\ q.op \notin ByTx
    BY ONLY <1>4, <2>1, <2>a
  <2> QED BY <2>2, <2>3, <2>4, <2>5 DEF PartsInv
<1>13. StoredInv(q, C \ {s})
  <2>1. /\ q.op \notin ByTx /\ q.stored = r.stored /\ q.n = n /\ q.hi = r.hi
        /\ q.snap = r.snap /\ q.id = r.id /\ q.rewound = r.rewound
    BY <1>4, <1>10 DEF SameAsked
  <2>2. StoredInv(r, C)
    BY <1>5
  <2> QED BY ONLY <1>9, <2>1, <2>2 DEF StoredInv
<1>14. FeeInv(q, C \ {s}) /\ FromOneReader(q)
  <2>1. q.op \notin Fees /\ q.from = {b} /\ q.id = r.id
    BY <1>4, <1>10 DEF SameAsked
  <2>2. FeeInv(q, C \ {s})
    BY ONLY <2>1 DEF FeeInv
  <2>3. FromOneReader(q)
    BY ONLY <1>7, <2>1 DEF FromOneReader
  <2> QED BY <2>2, <2>3
<1>15. C \ {s} = {}
  BY <1>2, <1>3
<1> QED BY <1>1, <1>10, <1>11, <1>12, <1>13, <1>14, <1>15, SetDone

\* The snapshot has the block that was asked for, if both stores had it.
LEMMA SnapshotHas ==
  ASSUME IInv, NEW c \in Client, NEW s \in FromReader, Reads(c, s), req[c].stored
  PROVE  HeightIn(req[c].id, req[c].snap) \in 1..Len(req[c].snap)
<1> DEFINE r == req[c]  C == Coming(r.todo)  n == HeightIn(r.id, r.snap)
<1>1. s \in Setters \ {"fromTag"}
  BY DEF Setters, FromReader
<1>2. /\ StoresInv /\ ActiveInv(r) /\ s \in Steps(r.op) /\ s \in C /\ "open" \notin C
  BY <1>1, SetterFacts
<1>3. r.op \notin ByTx \cup ByRange
  BY <1>2, StepKinds, Kinds DEF FromReader
<1>4. IsRequest(r) /\ PartsInv(r) /\ StoredInv(r, C) /\ NeedsInv(r, C)
      /\ IsChain(r.snap) /\ r.snap \in Seq(Block)
  BY <1>2 DEF ActiveInv, IsRequest, SnapInv
<1>5. r.snap # <<>>
  BY <1>2, <1>4 DEF NeedsInv
<1>6. /\ r.id[1] = "number" => r.id[2] <= Len(r.snap)
      /\ r.id[1] = "hash" => r.id[2] \in Range(r.snap)
  BY <1>4, <1>5 DEF StoredInv
<1>7. n >= 1 /\ (r.id[1] = "number" \/ r.id[1] = "hash")
  BY <1>2, <1>3, <1>4, <1>6, StoredHeight
<1>8. /\ n \in Nat /\ (r.id[1] = "number" => n = r.id[2])
      /\ r.id[1] = "hash" /\ n # 0 => n <= Len(r.snap)
  BY <1>2, <1>3, <1>4, HeightFacts
<1> QED BY <1>4, <1>6, <1>7, <1>8

\* The heights a snapshot is asked for.
LEMMA SnapshotHeight ==
  ASSUME IInv, NEW c \in Client, NEW s \in FromReader, Reads(c, s)
  PROVE  /\ HeightIn(req[c].id, req[c].snap) \in Nat /\ Len(req[c].snap) \in Nat \ {0}
         /\ ActiveInv(req[c]) /\ c \notin Range(queue)
<1> DEFINE r == req[c]  C == Coming(r.todo)
<1>1. s \in Setters \ {"fromTag"}
  BY DEF Setters, FromReader
<1>2. /\ StoresInv /\ ActiveInv(r) /\ s \in Steps(r.op) /\ s \in C /\ "open" \notin C
      /\ c \notin Range(queue)
  BY <1>1, SetterFacts
<1>3. r.op \notin ByTx \cup ByRange
  BY <1>2, StepKinds, Kinds DEF FromReader
<1>4. IsRequest(r) /\ NeedsInv(r, C) /\ IsChain(r.snap) /\ r.snap \in Seq(Block)
  BY <1>2 DEF ActiveInv, IsRequest, SnapInv
<1>5. r.snap # <<>>
  BY <1>2, <1>4 DEF NeedsInv
<1>6. HeightIn(r.id, r.snap) \in Nat
  BY <1>2, <1>3, <1>4, HeightFacts
<1> QED BY <1>2, <1>4, <1>5, <1>6

\* resolve_header on the reader: one block, that of the hash asked for.
LEMMA StepResolveHeader ==
  ASSUME IInv, NEW c \in Client, ResolveHeader(c)
  PROVE  IInv'
<1> DEFINE r == req[c]  s == "snapHeader"  n == HeightIn(r.id, r.snap)
           q == [At(r, n) EXCEPT !.from = {r.snap[n]}]
<1>1. s \in FromReader /\ s # "account" /\ Reads(c, s)
  BY DEF FromReader, ResolveHeader
<1>2. n \in Nat /\ Len(r.snap) \in Nat \ {0} /\ ActiveInv(r) /\ c \notin Range(queue)
  BY <1>1, SnapshotHeight
<1>3. CASE n \notin 1..Len(r.snap)
  <2>1. Becomes(c, Ends(r, "absent"))
    BY <1>3 DEF ResolveHeader
  <2>2. MayMiss(r)
    BY <1>1, <1>3, SnapshotHas DEF MayMiss
  <2> QED BY <1>2, <2>1, <2>2, ReadFailed
<1>4. CASE n \in 1..Len(r.snap)
  <2>1. Becomes(c, Advance(q, s))
    BY <1>4 DEF ResolveHeader
  <2>2. PICK m, p : m = n /\ p = q
    OBVIOUS
  <2>3. /\ m = HeightIn(req[c].id, req[c].snap) /\ m >= 1 /\ m \in 1..Len(req[c].snap) /\ m <= m
        /\ p = [At(req[c], m) EXCEPT !.from = {req[c].snap[m]}] /\ Becomes(c, Advance(p, s))
    BY <1>2, <1>4, <2>1, <2>2
  <2> QED BY <1>1, <2>3, FromSnapshot
<1> QED BY <1>3, <1>4

\* resolve_evm_block: header and state are of one snapshot.
LEMMA StepResolveEvmBlock ==
  ASSUME IInv, NEW c \in Client, ResolveEvmBlock(c)
  PROVE  IInv'
<1> DEFINE r == req[c]  s == "evm"  n == HeightIn(r.id, r.snap)
           q == [At(r, n) EXCEPT !.from = {r.snap[n]}]
<1>1. s \in FromReader /\ s # "account" /\ Reads(c, s)
  BY DEF FromReader, ResolveEvmBlock
<1>2. n \in Nat /\ Len(r.snap) \in Nat \ {0} /\ ActiveInv(r) /\ c \notin Range(queue)
  BY <1>1, SnapshotHeight
<1>3. CASE n \notin 1..Len(r.snap)
  <2>1. Becomes(c, Ends(r, "absent"))
    BY <1>3 DEF ResolveEvmBlock
  <2>2. MayMiss(r)
    BY <1>1, <1>3, SnapshotHas DEF MayMiss
  <2> QED BY <1>2, <2>1, <2>2, ReadFailed
<1>4. CASE n \in 1..Len(r.snap)
  <2>0. {r.snap[n], EvmState(r, n)} = {r.snap[n]}
    BY DEF EvmState
  <2>1. Becomes(c, Advance(q, s))
    BY <1>4, <2>0 DEF ResolveEvmBlock
  <2>2. PICK m, p : m = n /\ p = q
    OBVIOUS
  <2>3. /\ m = HeightIn(req[c].id, req[c].snap) /\ m >= 1 /\ m \in 1..Len(req[c].snap) /\ m <= m
        /\ p = [At(req[c], m) EXCEPT !.from = {req[c].snap[m]}] /\ Becomes(c, Advance(p, s))
    BY <1>2, <1>4, <2>1, <2>2
  <2> QED BY <1>1, <2>3, FromSnapshot
<1> QED BY <1>3, <1>4

\* hot_reader_at_block: the state of one block of the snapshot.
LEMMA StepReadAccount ==
  ASSUME IInv, NEW c \in Client, ReadAccount(c)
  PROVE  IInv'
<1> DEFINE r == req[c]  s == "account"  n == HeightIn(r.id, r.snap)
           k == Min({n, Len(r.snap)})
           q == [At(r, n) EXCEPT !.from = {r.snap[k]}]
<1>1. s \in FromReader /\ Reads(c, s)
  BY DEF FromReader, ReadAccount
<1>2. n \in Nat /\ Len(r.snap) \in Nat \ {0} /\ ActiveInv(r) /\ c \notin Range(queue)
  BY <1>1, SnapshotHeight
<1>3. CASE n = 0
  <2>1. Becomes(c, Ends(r, "absent"))
    BY <1>3 DEF ReadAccount
  <2>2. MayMiss(r)
    BY <1>1, <1>3, SnapshotHas DEF MayMiss
  <2> QED BY <1>2, <2>1, <2>2, ReadFailed
<1>4. CASE n # 0
  <2>1. Becomes(c, Advance(q, s))
    BY <1>4 DEF ReadAccount
  <2>2. PICK m \in Nat, l \in Nat : m = n /\ l = Len(r.snap)
    BY <1>2
  <2>3. Min({m, l}) \in {m, l} /\ Min({m, l}) <= m /\ Min({m, l}) <= l
    BY MinOfTwo
  <2>4. PICK j : j = Min({m, l})
    OBVIOUS
  <2>5. j \in 1..l /\ j <= m /\ (m <= l => j = m)
    BY <1>2, <1>4, <2>2, <2>3, <2>4
  <2>6. PICK p : p = q
    OBVIOUS
  <2>7. /\ m = HeightIn(req[c].id, req[c].snap) /\ m >= 1 /\ j \in 1..Len(req[c].snap) /\ j <= m
        /\ m <= Len(req[c].snap) => j = m
        /\ p = [At(req[c], m) EXCEPT !.from = {req[c].snap[j]}] /\ Becomes(c, Advance(p, s))
    BY <1>2, <1>4, <2>1, <2>2, <2>4, <2>5, <2>6
  <2> QED BY <1>1, <2>7, FromSnapshot
<1> QED BY <1>3, <1>4

\* get_tx_by_hash, get_receipt: the block number that comes with the
\* transaction is that of the block it is in.
LEMMA StepReadColdTx ==
  ASSUME IInv, NEW c \in Client, ReadColdTx(c)
  PROVE  IInv'
<1> DEFINE r == req[c]  C == Coming(r.todo)  found == FindTx(r.id[2])
           b == CHOOSE b \in found : TRUE
           q == [At(r, num[b]) EXCEPT !.from = {b}]
<1>1. PICK s \in {"coldTxByHash", "coldReceiptByHash"} :
        /\ Reads(c, s)
        /\ Becomes(c, IF found = {} THEN Ends(r, "absent") ELSE Advance(q, s))
  BY DEF ReadColdTx
<1>2. s \in Setters \ {"fromTag"} /\ s # "coldTxs"
  BY DEF Setters
<1>3. /\ Stage(s) > 0 /\ StoresInv /\ ActiveInv(r) /\ c \notin Range(queue)
      /\ s \in Steps(r.op) /\ r.op \in Op /\ r.id \in Ids(r.op)
      /\ r.from = {} /\ r.base = {} /\ r.body = {} /\ r.hi = 0 /\ r.whole /\ ~r.settled
  BY <1>1, <1>2, SetterFacts
<1>4. r.op \in ByTx
  BY <1>3, StepKinds
<1>5. r.op \notin Fees /\ r.op \notin ReaderOps \cup {"account"} /\ r.id[1] = "tx"
  BY <1>3, <1>4, Kinds, IdFacts
<1>6. IsRequest(r) /\ PartsInv(r) /\ StoredInv(r, C) /\ StoredInv(r, C \ {s})
  BY <1>2, <1>3, StoredFewer DEF ActiveInv
<1>7. CASE found = {}
  <2>1. Becomes(c, Ends(r, "absent"))
    BY <1>1, <1>7
  <2>2. MayMiss(r)
    BY <1>5, <1>6, <1>7, StoredNames DEF MayMiss
  <2> QED BY <1>3, <2>1, <2>2, ReadFailed
<1>8. CASE found # {}
  <2>1. Becomes(c, Advance(q, s))
    BY <1>1, <1>8
  <2>2. b \in TxIn[r.id[2]] /\ b \in Range(cold)
    BY <1>8 DEF FindTx
  <2> HIDE DEF b
  <2>3. b \in Block /\ num[b] \in Nat \ {0} /\ num[b] <= Len(cold) /\ cold[num[b]] = b
    BY <1>3, <2>2, ColdPlace
  <2>4. ~Reverting => b \in Range(chain)
    BY <1>3, <2>2, ColdInHot
  <2>5. /\ SameAsked(q, r) /\ q.todo = r.todo /\ q.out = r.out /\ q.n = num[b] /\ q.hi = r.hi
        /\ q.snap = r.snap /\ q.base = r.base /\ q.body = r.body /\ q.whole = r.whole
        /\ (q.settled <=> num[b] <= Len(cold) /\ ~r.rewound) /\ q.holds = r.holds
        /\ q.gone = r.gone /\ q.from = {b}
    BY <1>6, RecordFacts DEF IsRequest, SameAsked, At
  <2> HIDE DEF q
  <2>6. IsRequest(q)
    BY <1>6, <2>3, <2>5 DEF IsRequest, SameAsked
  <2>7. PartsInv(q)
    <3>1. Reverting => q.rewound
      BY <1>6, <2>5 DEF PartsInv, SameAsked
    <3>2. q.hi = 0 /\ Len(cold) \in Nat /\ q.rewound = r.rewound /\ q.base = {}
      BY <1>3, <2>5 DEF SameAsked, StoresInv
    <3>3. q.whole
      BY <1>3, <2>5
    <3>4. q.settled => ~q.rewound /\ q.n <= Len(cold) /\ q.hi <= Len(cold) /\ q.whole
      BY <2>5, <3>2, <3>3
    <3>5. ~q.rewound => q.from \cup q.base \subseteq Range(chain)
      BY <2>4, <2>5, <3>1, <3>2
    <3>6. (\A x \in q.from : num[x] = q.n) /\ (\A x \in q.base : FALSE)
      BY <2>5, <3>2
    <3>7. q.n <= Len(cold) /\ cold[q.n] \in TxIn[q.id[2]]
      BY <2>2, <2>3, <2>5 DEF SameAsked
    <3> QED BY <3>1, <3>4, <3>5, <3>6, <3>7 DEF PartsInv
  <2>8. StoredInv(q, C \ {s})
    BY <1>6, <2>3, <2>5 DEF StoredInv, SameAsked
  <2>9. FeeInv(q, C \ {s}) /\ FromOneReader(q)
    BY <1>5, <2>5, NoFee DEF SameAsked, FromOneReader
  <2>10. q.n >= 1
    BY <2>3, <2>5
  <2> QED BY <1>1, <1>2, <2>1, <2>5, <2>6, <2>7, <2>8, <2>9, <2>10, SetDone
<1> QED BY <1>7, <1>8

\* What is to come of a handler that reads through one reader.
LEMMA ReaderPlan ==
  ASSUME IInv, NEW c \in Client, NEW s \in {"start", "open"}, Reads(c, s)
  PROVE  LET r == req[c]  C == Coming(r.todo)
         IN /\ StoresInv /\ ActiveInv(r) /\ c \notin Range(queue) /\ Stage(s) > 0
            /\ r.op \in ReaderOps \cup {"account"} /\ r.op \notin ByTx \cup ByRange \cup Fees
            /\ C \cap FromReader # {} /\ C \ {s} # {} /\ C \cap NUsers = {}
            /\ "filterRange" \notin C /\ "history" \notin C /\ "latest" \notin C
            /\ (C \ {s}) \cap FromReader = C \cap FromReader
            /\ (C \ {s}) \cap Setters = C \cap Setters
<1> DEFINE r == req[c]  C == Coming(r.todo)
<1>1. Stage(s) > 0
  BY StageFacts
<1>2. ActiveInv(r) /\ c \notin Range(queue) /\ s \in Steps(r.op) /\ s \in C
  BY <1>1, NotWaiting
<1>3. r.op \in ReaderOps \cup {"account"}
  BY <1>2, StepKinds
<1>4. r.op \notin ByTx \cup ByRange \cup Fees
  BY <1>3, Kinds
<1>5. NeedsInv(r, C) /\ C \subseteq Steps(r.op)
  BY <1>2 DEF ActiveInv, IsPlan, JoinsOf, Coming
<1>6. Steps(r.op) \subseteq {"permit", "start", "open", "snapHeader", "evm", "account"}
  BY <1>3 DEF Steps, ReaderOps, ByTx, Fees
<1> HIDE DEF C
<1>7. C \cap FromReader # {}
  BY <1>2, <1>3, <1>5 DEF NeedsInv
<1>8. C \cap NUsers = {} /\ "filterRange" \notin C /\ "history" \notin C /\ "latest" \notin C
  BY <1>5, <1>6 DEF NUsers
<1>9. s \notin FromReader /\ s \notin Setters
  BY DEF FromReader, Setters
<1>10. C \ {s} # {}
  BY <1>7, <1>9
<1> QED BY <1>1, <1>2, <1>3, <1>4, <1>7, <1>8, <1>9, <1>10 DEF IInv, C

\* hot_reader: the snapshot is hot storage as it is now.
LEMMA StepOpenReader ==
  ASSUME IInv, NEW c \in Client, OpenReader(c)
  PROVE  IInv'
<1> DEFINE r == req[c]  C == Coming(r.todo)  s == "open"  q == [r EXCEPT !.snap = chain]
<1>1. Reads(c, s) /\ Becomes(c, Advance(q, s)) /\ s \in {"start", "open"} /\ s # "coldTxs"
  BY DEF OpenReader
<1>2. /\ StoresInv /\ ActiveInv(r) /\ c \notin Range(queue) /\ Stage(s) > 0
      /\ r.op \in ReaderOps \cup {"account"} /\ r.op \notin ByTx \cup ByRange \cup Fees
      /\ C \cap FromReader # {} /\ C \ {s} # {} /\ C \cap NUsers = {}
      /\ "filterRange" \notin C /\ "history" \notin C /\ "latest" \notin C
      /\ (C \ {s}) \cap FromReader = C \cap FromReader
      /\ (C \ {s}) \cap Setters = C \cap Setters
  BY <1>1, ReaderPlan
<1>3. IsRequest(r) /\ PartsInv(r) /\ StoredInv(r, C \ {s}) /\ NeedsInv(r, C)
  BY <1>1, <1>2, StoredFewer DEF ActiveInv
<1>4. chain \in Seq(Block) /\ chain # <<>> /\ IsChain(chain) /\ Len(chain) \in Nat
  BY <1>2 DEF StoresInv
<1>5. /\ SameAsked(q, r) /\ SameContent(q, r) /\ q.todo = r.todo /\ q.out = r.out /\ q.hi = r.hi
      /\ q.snap = chain /\ q.body = r.body /\ q.holds = r.holds
  BY <1>3, RecordFacts DEF IsRequest, SameAsked, SameContent
<1> HIDE DEF q, C
<1>6. IsRequest(q)
  BY <1>3, <1>4, <1>5 DEF IsRequest, SameAsked, SameContent
<1>7. NeedsInv(q, C \ {s})
  <2>1. \A x, u \in (C \ {s}) \cap (Setters \ {"fromTag"}) : x = u
    BY <1>3 DEF NeedsInv
  <2>2. (C \ {s}) \cap Setters # {} =>
          q.from = {} /\ q.base = {} /\ q.body = {} /\ q.hi = 0 /\ q.whole /\ ~q.settled
    BY <1>2, <1>3, <1>5 DEF NeedsInv, SameContent
  <2>3. /\ "filterRange" \notin C \ {s} /\ "history" \notin C \ {s} /\ "latest" \notin C \ {s}
        /\ (C \ {s}) \cap FromReader # {} /\ (C \ {s}) \cap NUsers = {} /\ q.snap # <<>>
    BY <1>2, <1>4, <1>5
  <2> QED BY <2>1, <2>2, <2>3 DEF NeedsInv
<1>8. SnapInv(q)
  BY <1>4, <1>5 DEF SnapInv
<1>9. PartsInv(q)
  BY <1>3, <1>5 DEF PartsInv, SameAsked, SameContent
<1>10. StoredInv(q, C \ {s})
  <2>1. ASSUME r.stored
        PROVE  /\ r.id[1] = "number" => r.id[2] <= Len(chain)
               /\ r.id[1] = "hash" => r.id[2] \in Range(chain)
    <3>1. /\ ~Reverting /\ (r.id[1] = "number" => r.id[2] <= Len(cold))
          /\ r.id[1] = "hash" => r.id[2] \in Range(cold)
      BY <1>3, <2>1, StoredNames DEF PartsInv
    <3>2. Len(cold) <= Len(chain) /\ Len(cold) \in Nat /\ Len(chain) \in Nat
          /\ \A b \in Range(cold) : b \in Range(chain)
      BY <1>2, <3>1, ColdInHot
    <3>3. r.id[1] = "number" => r.id[2] \in Nat
      BY <1>2, <1>3, IdFacts DEF IsRequest
    <3> QED BY <3>1, <3>2, <3>3
  <2> QED BY <1>2, <1>3, <1>5, <2>1 DEF StoredInv, SameAsked, SameContent
<1>11. FeeInv(q, C \ {s})
  BY <1>2, <1>5, NoFee DEF SameAsked
<1>12. q.gone = r.gone /\ Coming(q.todo) = C
  BY <1>5 DEF SameContent, C
<1> QED BY <1>1, <1>2, <1>5, <1>6, <1>7, <1>8, <1>9, <1>10, <1>11, <1>12, ReadDone

\* The timeout of a bundle: nothing was read so far.
LEMMA StepBundleTimeout ==
  ASSUME IInv, NEW c \in Client, BundleTimeout(c)
  PROVE  IInv'
<1> DEFINE r == req[c]  C == Coming(r.todo)  s == "start"
<1>1. /\ Reads(c, s) /\ s \in {"start", "open"} /\ s # "coldTxs"
      /\ Becomes(c, Advance(r, s)) \/ Becomes(c, Ends(r, "error"))
  BY DEF BundleTimeout
<1>2. /\ StoresInv /\ ActiveInv(r) /\ c \notin Range(queue) /\ Stage(s) > 0
      /\ r.op \in ReaderOps \cup {"account"} /\ r.op \notin ByTx \cup ByRange \cup Fees
      /\ C \cap FromReader # {} /\ C \ {s} # {} /\ C \cap NUsers = {}
      /\ "filterRange" \notin C /\ "history" \notin C /\ "latest" \notin C
      /\ (C \ {s}) \cap FromReader = C \cap FromReader
      /\ (C \ {s}) \cap Setters = C \cap Setters
  BY <1>1, ReaderPlan
<1>3. /\ IsRequest(r) /\ PartsInv(r) /\ SnapInv(r) /\ StoredInv(r, C \ {s}) /\ NeedsInv(r, C)
  BY <1>1, <1>2, StoredFewer DEF ActiveInv
<1>4. CASE Becomes(c, Ends(r, "error"))
  BY <1>2, <1>4, ReadFailed
<1>5. CASE Becomes(c, Advance(r, s))
  <2>1. NeedsInv(r, C \ {s})
    <3> HIDE DEF C, r
    <3> QED BY <1>2, <1>3 DEF NeedsInv
  <2>2. FeeInv(r, C \ {s}) /\ SameAsked(r, r)
    BY <1>2, NoFee DEF SameAsked
  <2> QED BY <1>1, <1>2, <1>3, <1>5, <2>1, <2>2, ReadDone
<1> QED BY <1>1, <1>4, <1>5

-------------------------------------------------------------------------------
(***************************************************************************)
(* Ranges.                                                                 *)
(***************************************************************************)
\* A range or the latest block is not a block that was asked for by name.
LEMMA NotNamed ==
  ASSUME NEW r, NEW C, IsRequest(r), r.op \in ByRange \cup Fees, StoredInv(r, C)
  PROVE  ~r.stored
<1>1. r.id[1] \in {"range", "latest"}
  BY IdFacts DEF IsRequest
<1> QED BY <1>1, StoredNames

\* A bound left open is the latest block.
LEMMA OrLatestFacts ==
  ASSUME StoresInv, NEW n \in Nat
  PROVE  OrLatest(n) \in Nat \ {0} /\ (n # 0 => OrLatest(n) = n)
  BY DEF OrLatest, StoresInv

\* The lower bound of get_logs.
LEMMA StepResolveFrom ==
  ASSUME IInv, NEW c \in Client, ResolveFrom(c)
  PROVE  IInv'
<1> DEFINE r == req[c]  C == Coming(r.todo)  s == "fromTag"  n == OrLatest(r.id[2])
           q == [r EXCEPT !.n = n]
<1>1. Reads(c, s) /\ Becomes(c, Advance(q, s)) /\ Stage(s) > 0 /\ s # "coldTxs"
  BY StageFacts DEF ResolveFrom
<1>2. /\ StoresInv /\ ActiveInv(r) /\ c \notin Range(queue) /\ s \in Steps(r.op) /\ s \in C
      /\ r.op \in Op /\ r.id \in Ids(r.op)
  BY <1>1, NotWaiting DEF IInv
<1>3. r.op = "getLogs"
  BY <1>2, StepKinds
<1>4. r.op \in ByRange /\ r.op \notin Fees /\ r.op \notin OneBlock /\ r.op \notin ByTx
      /\ r.op \notin ReaderOps \cup {"account"}
  BY <1>3, Kinds
<1>5. /\ IsRequest(r) /\ PartsInv(r) /\ SnapInv(r) /\ StoredInv(r, C \ {s}) /\ NeedsInv(r, C)
      /\ C \subseteq Steps(r.op)
  <2>1. C \subseteq Steps(r.op)
    BY <1>2 DEF ActiveInv, IsPlan, JoinsOf, Coming
  <2> QED BY <1>1, <1>2, <2>1, StoredFewer DEF ActiveInv
<1>6. ~r.stored /\ n \in Nat \ {0}
  BY <1>2, <1>4, <1>5, NotNamed, OrLatestFacts, IdFacts
<1>7. C \subseteq {"fromTag", "toTag", "coldLogs"}
  BY <1>3, <1>5 DEF Steps, ReaderOps, ByTx, Fees
<1>8. /\ SameAsked(q, r) /\ q.todo = r.todo /\ q.out = r.out /\ q.n = n /\ q.hi = r.hi
      /\ q.snap = r.snap /\ q.base = r.base /\ q.body = r.body /\ q.whole = r.whole
      /\ q.settled = r.settled /\ q.holds = r.holds /\ q.gone = r.gone /\ q.from = r.from
  BY <1>5, RecordFacts DEF IsRequest, SameAsked
<1>9. /\ r.from = {} /\ r.base = {} /\ r.body = {} /\ r.hi = 0 /\ r.whole /\ ~r.settled
  <2>1. s \in Setters
    BY DEF Setters
  <2> QED BY <1>2, <1>5, <2>1 DEF NeedsInv
<1> HIDE DEF q, n, C
<1>10. IsRequest(q)
  BY <1>5, <1>6, <1>8 DEF IsRequest, SameAsked
<1>11. NeedsInv(q, C \ {s})
  <2>1. \A x, u \in (C \ {s}) \cap (Setters \ {"fromTag"}) : x = u
    BY <1>5 DEF NeedsInv
  <2>2. q.from = {} /\ q.base = {} /\ q.body = {} /\ q.hi = 0 /\ q.whole /\ ~q.settled /\ q.n >= 1
    BY <1>6, <1>8, <1>9
  <2>3. /\ "filterRange" \notin C \ {s} /\ "history" \notin C \ {s} /\ "latest" \notin C \ {s}
        /\ (C \ {s}) \cap FromReader = {} /\ q.op \notin ReaderOps \cup {"account"}
    BY <1>4, <1>7, <1>8 DEF FromReader, SameAsked
  <2> QED BY <2>1, <2>2, <2>3 DEF NeedsInv
<1>12. SnapInv(q)
  BY <1>5, <1>8 DEF SnapInv, SameAsked
<1>13. PartsInv(q)
  BY <1>4, <1>5, <1>8, <1>9 DEF PartsInv, SameAsked
<1>14. StoredInv(q, C \ {s})
  BY <1>6, <1>8 DEF StoredInv, SameAsked
<1>15. FeeInv(q, C \ {s}) /\ FromOneReader(q) /\ Coming(q.todo) = C
  BY <1>4, <1>8, NoFee DEF SameAsked, FromOneReader, C
<1> QED BY <1>1, <1>8, <1>10, <1>11, <1>12, <1>13, <1>14, <1>15, ReadDone

\* The bounds of a range are set.
LEMMA RangeSet ==
  ASSUME IInv, NEW c \in Client, NEW s \in {"toTag", "filterRange"}, Reads(c, s),
         NEW n \in Nat, NEW hi \in Nat, n <= hi,
         (Coming(req[c].todo) \ {s}) \cap NUsers # {} => n >= 1,
         NEW q, q = [req[c] EXCEPT !.n = n, !.hi = hi,
                                   !.settled = InCold(hi) /\ ~req[c].rewound],
         Becomes(c, Advance(q, s))
  PROVE  IInv'
<1> DEFINE r == req[c]  C == Coming(r.todo)
<1>1. s \in Setters \ {"fromTag"} /\ s # "coldTxs"
  BY DEF Setters
<1>2. /\ StoresInv /\ ActiveInv(r) /\ s \in Steps(r.op)
      /\ r.from = {} /\ r.base = {} /\ r.body = {} /\ r.hi = 0 /\ r.whole /\ ~r.settled
  BY <1>1, SetterFacts
<1>3. r.op \in ByRange
  BY <1>2, StepKinds, Kinds
<1>4. r.op \notin Fees /\ r.op \notin OneBlock /\ r.op \notin ByTx
      /\ r.op \notin ReaderOps \cup {"account"}
  BY <1>3, Kinds
<1>5. IsRequest(r) /\ PartsInv(r) /\ StoredInv(r, C \ {s})
  BY <1>1, <1>2, StoredFewer DEF ActiveInv
<1>6. ~r.stored
  BY <1>3, <1>5, NotNamed
<1>7. /\ SameAsked(q, r) /\ q.todo = r.todo /\ q.out = r.out /\ q.n = n /\ q.hi = hi
      /\ q.snap = r.snap /\ q.base = r.base /\ q.body = r.body /\ q.whole = r.whole
      /\ (q.settled <=> hi <= Len(cold) /\ ~r.rewound)
      /\ q.holds = r.holds /\ q.gone = r.gone /\ q.from = r.from
  BY <1>5, RecordFacts DEF IsRequest, SameAsked, InCold
<1>8. IsRequest(q)
  BY <1>5, <1>7 DEF IsRequest, SameAsked
<1>9. PartsInv(q)
  <2>1. q.settled => ~q.rewound /\ q.n <= Len(cold) /\ q.hi <= Len(cold)
    <3>1. Len(cold) \in Nat
      BY <1>2 DEF StoresInv
    <3> QED BY <1>7, <3>1 DEF SameAsked
  <2>2. q.whole
    BY <1>2, <1>7
  <2> QED BY <1>4, <1>5, <1>7, <2>1, <2>2 DEF PartsInv, SameAsked
<1>10. StoredInv(q, C \ {s})
  BY <1>6, <1>7 DEF StoredInv, SameAsked
<1>11. FeeInv(q, C \ {s}) /\ FromOneReader(q)
  BY <1>4, <1>7, NoFee DEF SameAsked, FromOneReader
<1> QED BY <1>1, <1>7, <1>8, <1>9, <1>10, <1>11, SetDone

\* The upper bound of get_logs.
LEMMA StepResolveTo ==
  ASSUME IInv, NEW c \in Client, ResolveTo(c)
  PROVE  IInv'
<1> DEFINE r == req[c]  C == Coming(r.todo)  s == "toTag"  to == OrLatest(r.id[3])
           bad == r.n > to \/ to - r.n >= MaxRange
           q == [r EXCEPT !.hi = to, !.settled = InCold(to) /\ ~r.rewound]
<1>1. s \in Setters \ {"fromTag"} /\ s \in {"toTag", "filterRange"} /\ Reads(c, s)
  BY DEF Setters, ResolveTo
<1>2. /\ StoresInv /\ ActiveInv(r) /\ c \notin Range(queue) /\ s \in Steps(r.op) /\ s \in C
      /\ r.op \in Op /\ r.id \in Ids(r.op) /\ (C \ {s}) \cap Setters = {}
  BY <1>1, SetterFacts
<1>3. r.op \in ByRange
  BY <1>2, StepKinds, Kinds
<1>4. to \in Nat /\ r.n \in Nat /\ IsRequest(r) /\ NeedsInv(r, C)
  BY <1>2, <1>3, OrLatestFacts, IdFacts DEF ActiveInv, IsRequest
<1>5. CASE bad
  <2>1. Becomes(c, Ends(r, "error"))
    BY <1>5 DEF ResolveTo
  <2> QED BY <1>2, <2>1, ReadFailed
<1>6. CASE ~bad
  <2>1. Becomes(c, Advance(q, s)) /\ r.n <= to
    BY <1>4, <1>6 DEF ResolveTo
  <2>2. (C \ {s}) \cap NUsers # {} => r.n >= 1
    <3>1. C \cap NSetters = {}
      BY <1>2 DEF Setters, NSetters
    <3> QED BY <1>4, <3>1 DEF NeedsInv
  <2>3. q = [r EXCEPT !.n = r.n, !.hi = to, !.settled = InCold(to) /\ ~r.rewound]
    BY <1>4, RecordFacts DEF IsRequest
  <2>4. PICK n \in Nat, hi \in Nat : n = r.n /\ hi = to
    BY <1>4
  <2>p. PICK p : p = q
    OBVIOUS
  <2>5. /\ n <= hi /\ ((C \ {s}) \cap NUsers # {} => n >= 1) /\ Becomes(c, Advance(p, s))
        /\ p = [req[c] EXCEPT !.n = n, !.hi = hi, !.settled = InCold(hi) /\ ~req[c].rewound]
    BY <2>1, <2>2, <2>3, <2>4, <2>p
  <2> QED BY <1>1, <2>5, RangeSet
<1> QED BY <1>5, <1>6

\* The bounds of trace_filter.
LEMMA StepTraceFilterRange ==
  ASSUME IInv, NEW c \in Client, TraceFilterRange(c)
  PROVE  IInv'
<1> DEFINE r == req[c]  C == Coming(r.todo)  s == "filterRange"
           start == IF r.id[2] = 0 THEN 1 ELSE r.id[2]
           end == OrLatest(r.id[3])
           none == start > latest \/ end > latest
           bad == start > end \/ end - start + 1 > MaxRange
           q == [r EXCEPT !.n = start - 1, !.hi = end, !.settled = InCold(end) /\ ~r.rewound]
<1>1. s \in Setters \ {"fromTag"} /\ s \in {"toTag", "filterRange"} /\ Reads(c, s)
  BY DEF Setters, TraceFilterRange
<1>2. /\ StoresInv /\ ActiveInv(r) /\ c \notin Range(queue) /\ s \in Steps(r.op) /\ s \in C
      /\ r.op \in Op /\ r.id \in Ids(r.op) /\ (C \ {s}) \cap Setters = {}
  BY <1>1, SetterFacts
<1>3. r.op \in ByRange
  BY <1>2, StepKinds, Kinds
<1>4. IsRequest(r) /\ NeedsInv(r, C) /\ ~r.stored
  BY <1>2, <1>3, NotNamed DEF ActiveInv
<1>5. start \in Nat \ {0} /\ end \in Nat
  BY <1>2, <1>3, OrLatestFacts, IdFacts
<1>6. CASE none
  <2>1. Becomes(c, Ends(r, "absent"))
    BY <1>6 DEF TraceFilterRange
  <2>2. MayMiss(r)
    BY <1>4 DEF MayMiss
  <2> QED BY <1>2, <2>1, <2>2, ReadFailed
<1>7. CASE ~none /\ bad
  <2>1. Becomes(c, Ends(r, "error"))
    BY <1>7 DEF TraceFilterRange
  <2> QED BY <1>2, <2>1, ReadFailed
<1>8. CASE ~none /\ ~bad
  <2>1. Becomes(c, Advance(q, s))
    BY <1>8 DEF TraceFilterRange
  <2>2. start - 1 \in Nat /\ start - 1 <= end
    BY <1>5, <1>8
  <2>3. (C \ {s}) \cap NUsers = {}
    <3>1. C \subseteq {"permit", "filterRange", "filterLoop"}
      BY <1>2, <1>4 DEF NeedsInv
    <3> QED BY <3>1 DEF NUsers
  <2>4. PICK n \in Nat, hi \in Nat : n = start - 1 /\ hi = end
    BY <1>5, <2>2
  <2>p. PICK p : p = q
    OBVIOUS
  <2>5. /\ n <= hi /\ (C \ {s}) \cap NUsers = {} /\ Becomes(c, Advance(p, s))
        /\ p = [req[c] EXCEPT !.n = n, !.hi = hi, !.settled = InCold(hi) /\ ~req[c].rewound]
    BY <2>1, <2>2, <2>3, <2>4, <2>p
  <2> QED BY <1>1, <2>5, RangeSet
<1> QED BY <1>6, <1>7, <1>8

\* get_headers for a fee history: the whole range is in cold storage.
LEMMA StepReadHistory ==
  ASSUME IInv, NEW c \in Client, ReadHistory(c)
  PROVE  IInv'
<1> DEFINE r == req[c]  C == Coming(r.todo)  s == "history"  w == WindowStart(r.n)
           b == {cold[i] : i \in w..r.n}
           q == [r EXCEPT !.from = b, !.hi = r.n, !.n = w - 1]
<1>1. s \in NUsers /\ Reads(c, s) /\ s # "coldTxs"
  BY DEF NUsers, ReadHistory
<1>2. r.n >= 1 /\ r.n \in Nat /\ Stage(s) > 4 /\ Stage(s) > 0
  BY <1>1, LateHeight
<1>3. /\ StoresInv /\ ActiveInv(r) /\ c \notin Range(queue) /\ s \in Steps(r.op) /\ s \in C
      /\ (\A u \in C : Stage(s) <= Stage(u))
  BY <1>1, <1>2, NotWaiting DEF IInv
<1>4. r.op = "feeHistory"
  BY <1>3, StepKinds
<1>5. r.op \notin Fees /\ r.op \notin OneBlock /\ r.op \notin ByTx
      /\ r.op \notin ReaderOps \cup {"account"}
  BY <1>4, Kinds
<1>6. CASE ~InCold(r.n)
  <2>1. Becomes(c, Ends(r, "error"))
    BY <1>6 DEF ReadHistory
  <2> QED BY <1>3, <2>1, ReadFailed
<1>7. CASE InCold(r.n)
  <2>1. Becomes(c, Advance(q, s))
    BY <1>7 DEF ReadHistory
  <2>2. /\ IsRequest(r) /\ PartsInv(r) /\ SnapInv(r) /\ StoredInv(r, C \ {s}) /\ NeedsInv(r, C)
        /\ C \subseteq Steps(r.op)
    <3>1. C \subseteq Steps(r.op)
      BY <1>3 DEF ActiveInv, IsPlan, JoinsOf, Coming
    <3> QED BY <1>1, <1>3, <3>1, StoredFewer DEF ActiveInv
  <2>3. w \in Nat /\ w >= 1 /\ w <= r.n /\ w - 1 \in Nat /\ w - 1 <= r.n
    <3>1. w \in Nat /\ w >= 1 /\ w <= r.n
      BY <1>2, WindowFacts
    <3> QED BY <1>2, <3>1
  <2>4. r.n <= Len(cold) /\ Len(cold) \in Nat
    BY <1>3, <1>7 DEF InCold, StoresInv
  <2>5. ASSUME NEW x \in b PROVE x \in Block /\ (~Reverting => x \in Range(chain))
    <3>1. PICK i \in w..r.n : x = cold[i]
      OBVIOUS
    <3>2. i \in Nat /\ i >= 1 /\ i <= Len(cold)
      BY <1>2, <2>3, <2>4
    <3> QED BY <1>3, <3>1, <3>2, ColdBlock
  <2>6. /\ SameAsked(q, r) /\ q.todo = r.todo /\ q.out = r.out /\ q.n = w - 1 /\ q.hi = r.n
        /\ q.snap = r.snap /\ q.base = r.base /\ q.body = r.body /\ q.whole = r.whole
        /\ q.settled = r.settled /\ q.holds = r.holds /\ q.gone = r.gone /\ q.from = b
    BY <2>2, RecordFacts DEF IsRequest, SameAsked
  <2>7. C \cap Setters = {} /\ C \cap NSetters = {} /\ C \cap FromReader = {}
        /\ "filterRange" \notin C /\ "latest" \notin C
    <3>0. /\ C \in SUBSET Steps(r.op) /\ s \in C /\ Stage(s) > 4
          /\ \A u \in C : Stage(s) <= Stage(u)
      BY <1>2, <1>3, <2>2
    <3> HIDE DEF C, s, r
    <3>1. C \cap Setters = {} /\ C \cap NSetters = {} /\ C \cap FromReader = {}
          /\ "filterRange" \notin C
      BY <3>0, LateNeeds
    <3> QED BY <3>1 DEF Setters
  <2> HIDE DEF q, w, b, C
  <2>8. IsRequest(q)
    BY <1>2, <2>2, <2>3, <2>5, <2>6 DEF IsRequest, SameAsked
  <2>9. NeedsInv(q, C \ {s})
    <3>1. C \subseteq {"resolve", "history", "historyLoop"}
      BY <1>3, <2>2 DEF NeedsInv
    <3>2. (C \ {s}) \cap NUsers = {}
      BY <3>1 DEF NUsers
    <3> QED BY <1>5, <2>6, <2>7, <3>2 DEF NeedsInv, SameAsked
  <2>10. SnapInv(q)
    BY <2>2, <2>6 DEF SnapInv, SameAsked
  <2>11. PartsInv(q)
    <3>1. q.settled => ~q.rewound /\ q.n <= Len(cold) /\ q.hi <= Len(cold)
      BY <1>2, <2>2, <2>3, <2>4, <2>6 DEF PartsInv, SameAsked
    <3>2. q.settled => q.whole
      BY <2>2, <2>6 DEF PartsInv
    <3> QED BY <1>5, <2>2, <2>5, <2>6, <3>1, <3>2 DEF PartsInv, SameAsked
  <2>12. StoredInv(q, C \ {s})
    <3>1. q.n <= Len(cold) /\ q.hi <= Len(cold)
      BY <1>2, <2>3, <2>4, <2>6
    <3> QED BY <1>5, <2>2, <2>6, <3>1 DEF StoredInv, SameAsked
  <2>13. FeeInv(q, C \ {s}) /\ FromOneReader(q) /\ Coming(q.todo) = C
    BY <1>5, <2>6, NoFee DEF SameAsked, FromOneReader, C
  <2> QED BY <1>1, <1>2, <2>1, <2>6, <2>8, <2>9, <2>10, <2>11, <2>12, <2>13, ReadDone
<1> QED BY <1>6, <1>7

\* A step after which other reads are to come, none of which finds out what
\* the answer is about.
LEMMA LateJump ==
  ASSUME IInv, NEW c \in Client, NEW s, Reads(c, s), Stage(s) > 4,
         NEW q, Becomes(c, q),
         IsRequest(q), SameAsked(q, req[c]), q.out = req[c].out,
         q.gone = req[c].gone, q.holds = req[c].holds, q.snap = req[c].snap,
         IsPlan(q.op, q.todo), \A u \in Coming(q.todo) : 4 < Stage(u),
         "history" \notin Coming(q.todo),
         Coming(q.todo) \cap NUsers # {} => q.n >= 1,
         StoredInv(q, Coming(q.todo)), PartsInv(q),
         reorgs = 0 /\ Alone(c) /\ CacheFresh /\ FeeInv(req[c], Coming(req[c].todo)) =>
           FeeInv(q, Coming(q.todo))
  PROVE  IInv'
<1> DEFINE r == req[c]  C == Coming(r.todo)  D == Coming(q.todo)
<1>0. Stage(s) > 0
  BY StageFacts
<1>1. /\ ActiveInv(r) /\ r.out = "none" /\ c \notin Range(queue)
      /\ s \in Steps(r.op) /\ s \in C /\ (\A u \in C : Stage(s) <= Stage(u))
      /\ NeedsPermit(r.op) /\ ~r.gone => r.holds
  BY <1>0, NotWaiting
<1>2. C \subseteq Steps(r.op)
  BY <1>1 DEF ActiveInv, IsPlan, JoinsOf, Coming
<1>3. r.op \notin ReaderOps \cup {"account"}
  BY <1>1, <1>2, LateNeeds
<1>4. D \cap Setters = {} /\ "permit" \notin D
  <2>1. \A u \in Setters \cup {"permit"} : Stage(u) <= 4
    BY StageFacts DEF Setters
  <2>2. \A u : Stage(u) \in Int
    BY StageFacts
  <2> QED BY <2>1, <2>2
<1> HIDE DEF D
<1>5. NeedsInv(q, D)
  <2>1. D \cap FromReader = {} /\ "filterRange" \notin D /\ "latest" \notin D
    BY <1>4 DEF Setters, FromReader
  <2>2. q.op \notin ReaderOps \cup {"account"}
    BY <1>3 DEF SameAsked
  <2>3. "history" \notin D /\ (D \cap NUsers # {} => q.n >= 1)
    BY DEF D
  <2> QED BY <1>4, <2>1, <2>2, <2>3 DEF NeedsInv
<1>6. SnapInv(q)
  BY <1>1 DEF ActiveInv, SnapInv, SameAsked
<1>7. PermitInv(q)
  <2>1. q.holds => q.op \notin Fees
    BY <1>1 DEF ActiveInv, PermitInv, SameAsked
  <2>2. NeedsPermit(q.op) /\ ~q.gone => q.holds
    BY <1>1 DEF SameAsked
  <2> QED BY <1>4, <2>1, <2>2 DEF PermitInv, D
<1>8. ActiveInv(q)
  BY <1>1, <1>5, <1>6, <1>7 DEF ActiveInv, D
<1>9. RequestInv(q) /\ q.op = req[c].op
  BY <1>8 DEF RequestInv, SameAsked
<1> QED BY <1>1, <1>9, Became

\* trace_filter skips a height without a header; the skip jumps over the
\* reads of that block.
LEMMA StepReadFilterHeader ==
  ASSUME IInv, NEW c \in Client, ReadFilterHeader(c)
  PROVE  IInv'
<1> DEFINE r == req[c]  C == Coming(r.todo)  s == "filterHeader"
           p == [r EXCEPT !.todo = SubSeq(@, 4, Len(@)), !.whole = FALSE]
           q == [r EXCEPT !.from = @ \cup {chain[r.n]}]
<1>1. s \in NUsers /\ Reads(c, s) /\ s # "coldTxs"
  BY DEF NUsers, ReadFilterHeader
<1>2. r.n >= 1 /\ r.n \in Nat /\ Stage(s) > 4 /\ Stage(s) > 0 /\ Stage(s) = 6
  BY <1>1, LateHeight, StageFacts
<1>3. /\ s \in Steps(r.op) /\ ActiveInv(r) /\ StoresInv /\ c \notin Range(queue) /\ s \in C
      /\ \A u \in C : Stage(s) <= Stage(u)
  BY <1>1, <1>2, NotWaiting DEF IInv
<1>4. IsRequest(r) /\ PartsInv(r) /\ StoredInv(r, C \ {s}) /\ StoredInv(r, C)
      /\ IsPlan(r.op, r.todo)
  BY <1>1, <1>3, StoredFewer DEF ActiveInv
<1>5. r.op = "traceFilter"
  BY <1>3, StepKinds
<1>6. r.op \in ByRange /\ r.op \notin Fees /\ r.op \notin OneBlock /\ r.op \notin ByTx
  BY <1>5, Kinds
<1>7. ~r.stored
  BY <1>4, <1>6, NotNamed
<1>8. CASE r.n > Len(chain)
  <2>1. Becomes(c, p)
    BY <1>8 DEF ReadFilterHeader
  <2>2. /\ SameAsked(p, r) /\ p.out = r.out /\ p.n = r.n /\ p.hi = r.hi
        /\ p.snap = r.snap /\ p.base = r.base /\ p.body = r.body /\ p.whole = FALSE
        /\ p.settled = r.settled /\ p.holds = r.holds /\ p.gone = r.gone /\ p.from = r.from
        /\ p.todo = SubSeq(r.todo, 4, Len(r.todo))
    BY <1>4, RecordFacts DEF IsRequest, SameAsked
  <2>3. IsPlan(r.op, SubSeq(r.todo, 4, Len(r.todo)))
        /\ Coming(SubSeq(r.todo, 4, Len(r.todo))) \subseteq C
    <3>1. 4 \in Nat /\ 4 >= 1
      OBVIOUS
    <3> QED BY <1>4, <3>1, LaterPlan
  <2> HIDE DEF p, C
  <2>4. IsPlan(p.op, p.todo) /\ Coming(p.todo) \subseteq C
    BY <2>2, <2>3 DEF SameAsked
  <2>5. \A u \in Coming(p.todo) : 4 < Stage(u)
    BY <1>2, <1>3, <2>4, StageFacts
  <2>6. "history" \notin Coming(p.todo)
    <3>1. C \subseteq Steps(r.op)
      BY <1>4 DEF IsPlan, JoinsOf, Coming, C
    <3>2. "history" \notin Steps(r.op)
      BY <1>5 DEF Steps, ReaderOps, ByTx, Fees
    <3> QED BY <2>4, <3>1, <3>2
  <2>7. IsRequest(p) /\ p.n >= 1
    BY <1>2, <1>4, <2>2 DEF IsRequest, SameAsked
  <2>8. PartsInv(p)
    <3>1. ~r.settled
      <4>1. SUFFICES ASSUME r.settled PROVE FALSE
        OBVIOUS
      <4>2. r.n <= Len(cold) /\ ~Reverting
        BY <1>4, <4>1 DEF PartsInv
      <4>3. Len(cold) <= Len(chain) /\ Len(cold) \in Nat /\ Len(chain) \in Nat
        BY <1>3, <4>2, ColdInHot
      <4> QED BY <1>2, <1>8, <4>2, <4>3
    <3> QED BY <1>4, <1>6, <2>2, <3>1 DEF PartsInv, SameAsked
  <2>9. StoredInv(p, Coming(p.todo)) /\ FeeInv(p, Coming(p.todo))
    BY <1>6, <1>7, <2>2, NoFee DEF StoredInv, SameAsked
  <2> QED BY <1>1, <1>2, <2>1, <2>2, <2>4, <2>5, <2>6, <2>7, <2>8, <2>9, LateJump
<1>9. CASE ~(r.n > Len(chain))
  <2>1. Becomes(c, Advance(q, s))
    BY <1>9 DEF ReadFilterHeader
  <2>2. chain[r.n] \in Block /\ num[chain[r.n]] = r.n /\ chain[r.n] \in Range(chain)
    <3>1. r.n <= Len(chain)
      BY <1>2, <1>3, <1>9 DEF StoresInv
    <3> QED BY <1>2, <1>3, <3>1, HotBlock
  <2>3. /\ SameAsked(q, r) /\ q.todo = r.todo /\ q.out = r.out /\ q.n = r.n /\ q.hi = r.hi
        /\ q.snap = r.snap /\ q.base = r.base /\ q.body = r.body /\ q.whole = r.whole
        /\ q.settled = r.settled /\ q.holds = r.holds /\ q.gone = r.gone
        /\ q.from = r.from \cup {chain[r.n]}
    BY <1>4, RecordFacts DEF IsRequest, SameAsked
  <2> HIDE DEF q
  <2>4. IsRequest(q)
    BY <1>4, <2>2, <2>3 DEF IsRequest, SameAsked
  <2>5. PartsInv(q)
    BY <1>4, <1>6, <2>2, <2>3 DEF PartsInv, SameAsked
  <2>6. StoredInv(q, C \ {s}) /\ FeeInv(q, C \ {s})
    BY <1>6, <1>7, <2>3, NoFee DEF StoredInv, SameAsked
  <2> QED BY <1>1, <1>2, <2>1, <2>3, <2>4, <2>5, <2>6, LateRead
<1> QED BY <1>8, <1>9

\* A loop moves to the next height.
LEMMA LoopNext ==
  ASSUME IInv, NEW c \in Client, NEW s \in {"filterLoop", "historyLoop"}, Reads(c, s),
         NEW t, NEW q, req[c].n < req[c].hi,
         q = [req[c] EXCEPT !.n = @ + 1, !.todo = t], Becomes(c, q),
         IsPlan(req[c].op, t), \A u \in Coming(t) : 4 < Stage(u), "history" \notin Coming(t)
  PROVE  IInv'
<1> DEFINE r == req[c]  C == Coming(r.todo)
<1>1. Stage(s) > 4 /\ Stage(s) > 0
  BY StageFacts
<1>2. s \in Steps(r.op) /\ ActiveInv(r) /\ StoresInv
  BY <1>1, NotWaiting DEF IInv
<1>3. IsRequest(r) /\ PartsInv(r) /\ StoredInv(r, C)
  BY <1>2 DEF ActiveInv
<1>4. r.op \in {"traceFilter", "feeHistory"}
  BY <1>2, StepKinds
<1>5. r.op \notin Fees /\ r.op \notin OneBlock /\ r.op \notin ByTx
  BY <1>4, Kinds
<1>6. /\ SameAsked(q, r) /\ q.out = r.out /\ q.n = r.n + 1 /\ q.hi = r.hi
      /\ q.snap = r.snap /\ q.base = r.base /\ q.body = r.body /\ q.whole = r.whole
      /\ q.settled = r.settled /\ q.holds = r.holds /\ q.gone = r.gone /\ q.from = r.from
      /\ q.todo = t
  BY <1>3, RecordFacts DEF IsRequest, SameAsked
<1>7. r.n \in Nat /\ r.hi \in Nat /\ r.n + 1 <= r.hi /\ Len(cold) \in Nat
  BY <1>2, <1>3 DEF IsRequest, StoresInv
<1>8. IsRequest(q) /\ q.n >= 1
  BY <1>3, <1>6, <1>7 DEF IsRequest, SameAsked
<1>9. PartsInv(q)
  <2>1. q.settled => ~q.rewound /\ q.n <= Len(cold) /\ q.hi <= Len(cold)
    BY <1>3, <1>6, <1>7 DEF PartsInv, SameAsked
  <2>2. q.settled => q.whole
    BY <1>3, <1>6 DEF PartsInv
  <2> QED BY <1>3, <1>5, <1>6, <2>1, <2>2 DEF PartsInv, SameAsked
<1>10. StoredInv(q, Coming(q.todo))
  <2>1. r.stored => q.n <= Len(cold) /\ q.hi <= Len(cold)
    BY <1>3, <1>6, <1>7 DEF StoredInv
  <2> QED BY <1>3, <1>5, <1>6, <2>1 DEF StoredInv, SameAsked
<1>11. FeeInv(q, Coming(q.todo)) /\ IsPlan(q.op, q.todo)
  BY <1>5, <1>6, NoFee DEF SameAsked
<1> QED BY <1>1, <1>6, <1>8, <1>9, <1>10, <1>11, LateJump

\* A loop ends.
LEMMA LoopEnds ==
  ASSUME IInv, NEW c \in Client, NEW s \in {"filterLoop", "historyLoop"}, Reads(c, s),
         Becomes(c, Advance(req[c], s))
  PROVE  IInv'
<1> DEFINE r == req[c]  C == Coming(r.todo)
<1>1. Stage(s) > 4 /\ Stage(s) > 0 /\ s # "coldTxs"
  BY StageFacts
<1>2. s \in Steps(r.op) /\ ActiveInv(r)
  BY <1>1, NotWaiting
<1>3. IsRequest(r) /\ PartsInv(r) /\ StoredInv(r, C \ {s})
  BY <1>1, <1>2, StoredFewer DEF ActiveInv
<1>4. r.op \notin Fees
  BY <1>2, StepKinds, Kinds
<1>5. FeeInv(r, C \ {s}) /\ SameAsked(r, r)
  BY <1>4, NoFee DEF SameAsked
<1> QED BY <1>1, <1>3, <1>5, LateRead

\* What is to come at the end of a loop is of the last stage.
LEMMA LoopPlan ==
  ASSUME IInv, NEW c \in Client, NEW s \in {"filterLoop", "historyLoop"}, Reads(c, s)
  PROVE  LET r == req[c]
         IN /\ IsPlan(r.op, r.todo) /\ \A u \in Coming(r.todo) : Stage(u) = 12
            /\ s \in Steps(r.op) /\ DOMAIN r = DOMAIN NoRequest
<1> DEFINE r == req[c]  C == Coming(r.todo)
<1>1. Stage(s) = 12 /\ Stage(s) > 0
  BY StageFacts
<1>2. s \in Steps(r.op) /\ ActiveInv(r) /\ (\A u \in C : Stage(s) <= Stage(u))
  BY <1>1, NotWaiting
<1>3. \A u : Stage(u) \in 0..12
  BY StageFacts
<1> QED BY <1>1, <1>2, <1>3 DEF ActiveInv, IsRequest

\* The loop of trace_filter stays within its range.
LEMMA StepTraceFilterLoop ==
  ASSUME IInv, NEW c \in Client, TraceFilterLoop(c)
  PROVE  IInv'
<1> DEFINE r == req[c]  s == "filterLoop"
           a == {"filterHeader"}  b == {"coldTxs"}  d == {"stateBefore"}
           t3 == <<d>> \o r.todo  t2 == <<b>> \o t3  t == <<a>> \o t2
           q == [r EXCEPT !.n = @ + 1, !.todo = t]
<1>1. s \in {"filterLoop", "historyLoop"} /\ Reads(c, s)
  BY DEF TraceFilterLoop
<1>2. /\ IsPlan(r.op, r.todo) /\ (\A u \in Coming(r.todo) : Stage(u) = 12)
      /\ s \in Steps(r.op) /\ DOMAIN r = DOMAIN NoRequest
  BY <1>1, LoopPlan
<1>3. CASE ~(r.n < r.hi)
  <2>1. Becomes(c, Advance(r, s))
    BY <1>3 DEF TraceFilterLoop, Iterate
  <2> QED BY <1>1, <2>1, LoopEnds
<1>4. CASE r.n < r.hi
  <2>1. r.op = "traceFilter"
    BY <1>2, StepKinds
  <2>2. a \in JoinsOf(r.op) /\ b \in JoinsOf(r.op) /\ d \in JoinsOf(r.op)
    BY <2>1 DEF JoinsOf, Steps, ReaderOps, ByTx, Fees
  <2>3. r.todo \in Seq(JoinsOf(r.op))
    BY <1>2 DEF IsPlan
  <2>4. /\ OfStage(a, 6) /\ OfStage(b, 7) /\ OfStage(d, 8)
    BY StageFacts DEF OfStage
  <2>5. Becomes(c, [r EXCEPT !.n = @ + 1, !.todo = <<a, b, d>> \o @])
    BY <1>4 DEF TraceFilterLoop, Iterate
  <2>6. "history" \notin a \cup b \cup d
    OBVIOUS
  <2> HIDE DEF a, b, d
  <2>7. <<a, b, d>> \o r.todo = t
    BY ONLY <2>2, <2>3, ThreeBefore
  <2>8. Becomes(c, q)
    BY <2>5, <2>7
  <2>9. IsPlan(r.op, t3) /\ Coming(t3) = d \cup Coming(r.todo)
    <3>1. /\ \A x, v \in d : Stage(x) = Stage(v)
          /\ \A x \in d, v \in Coming(r.todo) : Stage(x) < Stage(v)
      BY <1>2, <2>4 DEF OfStage
    <3> QED BY <1>2, <2>2, <3>1, ConsPlan
  <2> HIDE DEF t3
  <2>10. IsPlan(r.op, t2) /\ Coming(t2) = b \cup Coming(t3)
    <3>1. /\ \A x, v \in b : Stage(x) = Stage(v)
          /\ \A x \in b, v \in Coming(t3) : Stage(x) < Stage(v)
      BY <1>2, <2>4, <2>9 DEF OfStage
    <3> QED BY <2>2, <2>9, <3>1, ConsPlan
  <2> HIDE DEF t2
  <2>11. IsPlan(r.op, t) /\ Coming(t) = a \cup Coming(t2)
    <3>1. /\ \A x, v \in a : Stage(x) = Stage(v)
          /\ \A x \in a, v \in Coming(t2) : Stage(x) < Stage(v)
      BY <1>2, <2>4, <2>9, <2>10 DEF OfStage
    <3> QED BY <2>2, <2>10, <3>1, ConsPlan
  <2> HIDE DEF t
  <2>12. (\A u \in Coming(t) : 4 < Stage(u)) /\ "history" \notin Coming(t)
    <3>1. Stage("history") = 6
      BY StageFacts
    <3> QED BY <1>2, <2>4, <2>6, <2>9, <2>10, <2>11, <3>1 DEF OfStage
  <2>13. PICK p, v : p = q /\ v = t
    OBVIOUS
  <2>14. /\ p = [req[c] EXCEPT !.n = @ + 1, !.todo = v] /\ Becomes(c, p)
         /\ IsPlan(req[c].op, v) /\ (\A u \in Coming(v) : 4 < Stage(u)) /\ "history" \notin Coming(v)
    BY <2>8, <2>11, <2>12, <2>13
  <2> QED BY <1>1, <1>4, <2>14, LoopNext
<1> QED BY <1>3, <1>4

\* The loop of fee_history stays within its range.
LEMMA StepFeeHistoryLoop ==
  ASSUME IInv, NEW c \in Client, FeeHistoryLoop(c)
  PROVE  IInv'
<1> DEFINE r == req[c]  s == "historyLoop"
           a == {"coldTxs", "coldReceipts"}
           t == <<a>> \o r.todo
           q == [r EXCEPT !.n = @ + 1, !.todo = t]
<1>1. s \in {"filterLoop", "historyLoop"} /\ Reads(c, s)
  BY DEF FeeHistoryLoop
<1>2. /\ IsPlan(r.op, r.todo) /\ (\A u \in Coming(r.todo) : Stage(u) = 12)
      /\ s \in Steps(r.op) /\ DOMAIN r = DOMAIN NoRequest
  BY <1>1, LoopPlan
<1>3. CASE ~(r.n < r.hi)
  <2>1. Becomes(c, Advance(r, s))
    BY <1>3 DEF FeeHistoryLoop, Iterate
  <2> QED BY <1>1, <2>1, LoopEnds
<1>4. CASE r.n < r.hi
  <2>1. r.op = "feeHistory"
    BY <1>2, StepKinds
  <2>2. a \in JoinsOf(r.op)
    BY <2>1 DEF JoinsOf, Steps, ReaderOps, ByTx, Fees
  <2>3. OfStage(a, 7) /\ "history" \notin a
    BY StageFacts DEF OfStage
  <2>4. Becomes(c, q)
    BY <1>4 DEF FeeHistoryLoop, Iterate
  <2> HIDE DEF a
  <2>5. IsPlan(r.op, t) /\ Coming(t) = a \cup Coming(r.todo)
    <3>1. /\ \A x, v \in a : Stage(x) = Stage(v)
          /\ \A x \in a, v \in Coming(r.todo) : Stage(x) < Stage(v)
      BY <1>2, <2>3 DEF OfStage
    <3> QED BY <1>2, <2>2, <3>1, ConsPlan
  <2> HIDE DEF t
  <2>6. (\A u \in Coming(t) : 4 < Stage(u)) /\ "history" \notin Coming(t)
    <3>1. Stage("history") = 6
      BY StageFacts
    <3> QED BY <1>2, <2>3, <2>5, <3>1 DEF OfStage
  <2>7. PICK p, v : p = q /\ v = t
    OBVIOUS
  <2>8. /\ p = [req[c] EXCEPT !.n = @ + 1, !.todo = v] /\ Becomes(c, p)
        /\ IsPlan(req[c].op, v) /\ (\A u \in Coming(v) : 4 < Stage(u)) /\ "history" \notin Coming(v)
    BY <2>4, <2>5, <2>6, <2>7
  <2> QED BY <1>1, <1>4, <2>8, LoopNext
<1> QED BY <1>3, <1>4

-------------------------------------------------------------------------------
(***************************************************************************)
(* The gas oracle.                                                         *)
(***************************************************************************)
\* A fee handler that is past the latest tag.
LEMMA FeeLate ==
  ASSUME IInv, NEW c \in Client,
         NEW s \in {"cacheTip", "cacheGet", "window", "windowLoop", "setTip", "setBlock"},
         Reads(c, s)
  PROVE  LET r == req[c]  C == Coming(r.todo)
         IN /\ Stage(s) > 4 /\ Stage(s) > 0 /\ StoresInv /\ ActiveInv(r) /\ c \notin Range(queue)
            /\ s \in C /\ C \subseteq Steps(r.op) /\ (\A u \in C : Stage(s) <= Stage(u))
            /\ r.op \in Fees /\ r.op \notin ByTx /\ r.op \notin OneBlock /\ ~r.stored
            /\ IsRequest(r) /\ PartsInv(r) /\ IsPlan(r.op, r.todo) /\ NeedsInv(r, C)
            /\ "latest" \notin C /\ C # {} /\ C \cap NSetters = {}
            /\ ~r.holds /\ r.n \in Nat /\ r.hi \in Nat /\ r.from \subseteq Block
            /\ SameAsked(r, r)
<1> DEFINE r == req[c]  C == Coming(r.todo)
<1>1. Stage(s) > 4 /\ Stage(s) > 0 /\ Stage("latest") = 4
  BY StageFacts
<1>2. /\ ActiveInv(r) /\ s \in Steps(r.op) /\ s \in C /\ c \notin Range(queue)
      /\ \A u \in C : Stage(s) <= Stage(u)
  BY <1>1, NotWaiting
<1>3. C \subseteq Steps(r.op)
  BY <1>2 DEF ActiveInv, IsPlan, JoinsOf, Coming
<1>4. r.op \in Fees
  BY <1>2, StepKinds
<1>5. r.op \notin ByTx /\ r.op \notin OneBlock
  BY <1>4, Kinds
<1>6. C \cap NSetters = {}
  BY <1>1, <1>2, <1>3, LateNeeds
<1>7. /\ IsRequest(r) /\ PartsInv(r) /\ IsPlan(r.op, r.todo) /\ NeedsInv(r, C)
      /\ StoredInv(r, C) /\ PermitInv(r)
  BY <1>2 DEF ActiveInv
<1>8. ~r.stored
  BY <1>4, <1>7, NotNamed
<1>9. ~r.holds /\ r.n \in Nat /\ r.hi \in Nat /\ r.from \subseteq Block
  BY <1>4, <1>7 DEF PermitInv, IsRequest
<1>10. "latest" \notin C
  BY <1>6 DEF NSetters
<1> QED BY <1>1, <1>2, <1>3, <1>4, <1>5, <1>6, <1>7, <1>8, <1>9, <1>10 DEF IInv, SameAsked

\* A block of cold storage in the window that ends at n.
LEMMA InWindow ==
  ASSUME StoresInv, ~Reverting, NEW n \in Nat, NEW i \in WindowStart(n)..n, i <= Len(cold)
  PROVE  cold[i] \in Window(n)
<1>1. WindowStart(n) \in Nat /\ WindowStart(n) >= 1
  BY WindowFacts
<1>2. i \in Nat /\ i >= 1
  BY <1>1
<1>3. cold[i] = chain[i]
  BY <1>2, ColdBlock
<1> QED BY <1>3 DEF Window

\* suggest_tip_cap reads the latest tag; the cache holds no later block.
LEMMA StepReadLatest ==
  ASSUME IInv, NEW c \in Client, ReadLatest(c)
  PROVE  IInv'
<1> DEFINE r == req[c]  C == Coming(r.todo)  s == "latest"  q == At(r, latest)
<1>1. s \in Setters \ {"fromTag"} /\ Reads(c, s) /\ Becomes(c, Advance(q, s)) /\ s # "coldTxs"
  BY DEF Setters, ReadLatest
<1>2. /\ StoresInv /\ ActiveInv(r) /\ s \in Steps(r.op) /\ s \in C
      /\ r.from = {} /\ r.base = {} /\ r.body = {} /\ r.hi = 0 /\ r.whole /\ ~r.settled
  BY <1>1, SetterFacts
<1>3. r.op \in Fees
  BY <1>2, StepKinds
<1>4. r.op \notin OneBlock /\ r.op \notin ByTx /\ r.op \notin ReaderOps \cup {"account"}
  BY <1>3, Kinds
<1>5. IsRequest(r) /\ PartsInv(r) /\ StoredInv(r, C \ {s}) /\ NeedsInv(r, C)
  BY <1>1, <1>2, StoredFewer DEF ActiveInv
<1>6. ~r.stored /\ latest \in Nat \ {0} /\ Len(cold) \in Nat
  BY <1>2, <1>3, <1>5, NotNamed DEF StoresInv
<1>7. /\ SameAsked(q, r) /\ q.todo = r.todo /\ q.out = r.out /\ q.n = latest /\ q.hi = r.hi
      /\ q.snap = r.snap /\ q.base = r.base /\ q.body = r.body /\ q.whole = r.whole
      /\ (q.settled <=> latest <= Len(cold) /\ ~r.rewound) /\ q.holds = r.holds
      /\ q.gone = r.gone /\ q.from = r.from
  BY <1>5, RecordFacts DEF IsRequest, SameAsked, At
<1> HIDE DEF q, C
<1>8. IsRequest(q) /\ q.n >= 1
  BY <1>5, <1>6, <1>7 DEF IsRequest, SameAsked
<1>9. PartsInv(q)
  <2>1. q.hi = 0 /\ q.rewound = r.rewound /\ (Reverting => q.rewound) /\ q.op = r.op
    BY <1>2, <1>5, <1>7 DEF SameAsked, PartsInv
  <2>2. q.whole
    BY <1>2, <1>7
  <2>3. q.settled => ~q.rewound /\ q.n <= Len(cold) /\ q.hi <= Len(cold) /\ q.whole
    BY <1>6, <1>7, <2>1, <2>2
  <2> QED BY <1>3, <1>4, <2>1, <2>3 DEF PartsInv
<1>10. StoredInv(q, C \ {s}) /\ FromOneReader(q)
  BY <1>4, <1>6, <1>7 DEF StoredInv, SameAsked, FromOneReader
<1>11. ASSUME CacheFresh PROVE FeeInv(q, C \ {s})
  <2>1. "cacheGet" \in C \ {s} /\ "setTip" \in C \ {s} /\ "cacheTip" \notin C \ {s}
    BY <1>2, <1>5 DEF NeedsInv
  <2>2. q.n = latest /\ q.hi <= q.n /\ q.from = {} /\ q.n >= 1
    BY <1>2, <1>6, <1>7
  <2> QED BY <1>11, <1>6, <2>1, <2>2 DEF FeeInv, CacheFresh
<1>12. Coming(q.todo) = C
  BY <1>7 DEF C
<1> QED BY <1>1, <1>7, <1>8, <1>9, <1>10, <1>11, <1>12, SetDone

\* GasOracleCache::get, the block: a hit is a hit for the tag read.
LEMMA StepCacheGetBlock ==
  ASSUME IInv, NEW c \in Client, CacheGetBlock(c)
  PROVE  IInv'
<1> DEFINE r == req[c]  C == Coming(r.todo)  s == "cacheGet"
           a == {"cacheTip"}  u6 == SubSeq(r.todo, 6, Len(r.todo))  t == <<a>> \o u6
           q == [r EXCEPT !.todo = t]
<1>1. Reads(c, s) /\ s # "coldTxs"
      /\ s \in {"cacheTip", "cacheGet", "window", "windowLoop", "setTip", "setBlock"}
  BY DEF CacheGetBlock
<1>2. /\ Stage(s) > 4 /\ Stage(s) > 0 /\ StoresInv /\ ActiveInv(r) /\ c \notin Range(queue)
      /\ s \in C /\ C \subseteq Steps(r.op) /\ (\A u \in C : Stage(s) <= Stage(u))
      /\ r.op \in Fees /\ r.op \notin ByTx /\ r.op \notin OneBlock /\ ~r.stored
      /\ IsRequest(r) /\ PartsInv(r) /\ IsPlan(r.op, r.todo) /\ NeedsInv(r, C)
      /\ "latest" \notin C /\ C # {} /\ C \cap NSetters = {}
      /\ ~r.holds /\ r.n \in Nat /\ r.hi \in Nat /\ r.from \subseteq Block
      /\ SameAsked(r, r)
  BY <1>1, FeeLate
<1>3. CASE CacheHit(r)
  <2>1. Becomes(c, q)
    BY <1>3 DEF CacheGetBlock
  <2>2. Stage(s) = 6 /\ OfStage(a, 5) /\ a \in JoinsOf(r.op)
    <3>1. Stage(s) = 6 /\ OfStage(a, 5)
      BY StageFacts DEF OfStage
    <3>2. a \in JoinsOf(r.op)
      BY <1>2 DEF JoinsOf, Steps, ReaderOps, ByTx, Fees
    <3> QED BY <3>1, <3>2
  <2>3. IsPlan(r.op, u6) /\ Coming(u6) \subseteq C
    <3>1. 6 \in Nat /\ 6 >= 1
      OBVIOUS
    <3> QED BY <1>2, <3>1, LaterPlan
  <2>4. \A u \in Coming(u6) : Stage(u) >= 11
    <3>1. r.todo # <<>> /\ s \in Head(r.todo)
      BY <1>1 DEF Reads
    <3>2. SUFFICES ASSUME NEW u \in Coming(u6) PROVE Stage(u) >= 11
      OBVIOUS
    <3> QED BY <1>2, <2>2, <3>1, SixthOn
  <2>5. /\ SameAsked(q, r) /\ q.out = r.out /\ q.n = r.n /\ q.hi = r.hi
        /\ q.snap = r.snap /\ q.base = r.base /\ q.body = r.body /\ q.whole = r.whole
        /\ q.settled = r.settled /\ q.holds = r.holds /\ q.gone = r.gone /\ q.from = r.from
        /\ q.todo = t
    BY <1>2, RecordFacts DEF IsRequest, SameAsked
  <2>6. a = {"cacheTip"}
    OBVIOUS
  <2> HIDE DEF q, a, u6, C
  <2>7. \A u : Stage(u) \in Int
    BY StageFacts
  <2>8. IsPlan(r.op, t) /\ Coming(t) = a \cup Coming(u6)
    <3>1. /\ \A x, v \in a : Stage(x) = Stage(v)
          /\ \A x \in a, v \in Coming(u6) : Stage(x) < Stage(v)
      BY <2>2, <2>4, <2>7 DEF OfStage
    <3> QED BY <2>2, <2>3, <3>1, ConsPlan
  <2> HIDE DEF t
  <2>9. /\ IsPlan(q.op, q.todo) /\ Coming(q.todo) = a \cup Coming(u6)
    BY <2>5, <2>8 DEF SameAsked
  <2>10. \A u \in Coming(q.todo) : 4 < Stage(u)
    BY <2>2, <2>4, <2>7, <2>9 DEF OfStage
  <2>11. /\ "history" \notin Coming(q.todo) /\ "setBlock" \notin Coming(q.todo)
         /\ "latest" \notin Coming(q.todo)
    <3>1. Stage("history") = 6 /\ Stage("setBlock") = 10 /\ Stage("latest") = 4
      BY StageFacts
    <3> QED BY <2>2, <2>4, <2>9, <3>1 DEF OfStage
  <2>12. Coming(q.todo) \cap NUsers # {} => q.n >= 1
    <3>1. SUFFICES ASSUME NEW u \in Coming(q.todo) \cap NUsers PROVE q.n >= 1
      OBVIOUS
    <3>2. u \in C
      BY <2>3, <2>6, <2>9, <3>1 DEF NUsers
    <3> QED BY <1>2, <2>5, <3>1, <3>2 DEF NeedsInv
  <2>13. IsRequest(q)
    BY <1>2, <2>5 DEF IsRequest, SameAsked
  <2>14. PartsInv(q)
    BY <1>2, <2>5 DEF PartsInv, SameAsked
  <2>15. StoredInv(q, Coming(q.todo))
    BY <1>2, <2>5 DEF StoredInv, SameAsked
  <2>16. ASSUME FeeInv(r, C) PROVE FeeInv(q, Coming(q.todo))
    BY <1>2, <1>3, <2>5, <2>11, <2>16 DEF FeeInv, SameAsked, CacheHit
  <2> QED BY <1>1, <1>2, <2>1, <2>5, <2>9, <2>10, <2>11, <2>12, <2>13, <2>14, <2>15, <2>16,
             LateJump DEF C
<1>4. CASE ~CacheHit(r)
  <2>1. Becomes(c, Advance(r, s))
    BY <1>4 DEF CacheGetBlock
  <2>2. StoredInv(r, C \ {s})
    BY <1>2 DEF StoredInv
  <2>3. ASSUME FeeInv(r, C) PROVE FeeInv(r, C \ {s})
    <3>1. cacheBlock \in Nat
      BY DEF IInv, CacheInv
    <3> HIDE DEF C, r
    <3> QED BY <1>2, <1>4, <2>3, <3>1 DEF FeeInv, CacheHit
  <2> QED BY <1>1, <1>2, <2>1, <2>2, <2>3, LateRead
<1> QED BY <1>3, <1>4

\* A fee handler reads something new.
LEMMA FeeRead ==
  ASSUME IInv, NEW c \in Client,
         NEW s \in {"cacheTip", "window"}, Reads(c, s),
         NEW from \in SUBSET Block, NEW hi \in Nat, NEW q,
         q = [req[c] EXCEPT !.from = from, !.hi = hi], Becomes(c, Advance(q, s)),
         hi <= Len(cold) \/ hi = req[c].hi,
         reorgs = 0 /\ FeeInv(req[c], Coming(req[c].todo)) =>
           from \subseteq Window(req[c].n) /\ hi <= req[c].n
  PROVE  IInv'
<1> DEFINE r == req[c]  C == Coming(r.todo)
<1>1. s \in {"cacheTip", "cacheGet", "window", "windowLoop", "setTip", "setBlock"}
  OBVIOUS
<1>2. /\ Stage(s) > 4 /\ Stage(s) > 0 /\ StoresInv
      /\ r.op \in Fees /\ r.op \notin ByTx /\ r.op \notin OneBlock /\ ~r.stored
      /\ IsRequest(r) /\ PartsInv(r) /\ "latest" \notin C /\ C # {} /\ r.hi \in Nat
      /\ s \in C /\ (\A u \in C : Stage(s) <= Stage(u))
  BY <1>1, FeeLate
<1>3. /\ SameAsked(q, r) /\ q.todo = r.todo /\ q.out = r.out /\ q.n = r.n /\ q.hi = hi
      /\ q.snap = r.snap /\ q.base = r.base /\ q.body = r.body /\ q.whole = r.whole
      /\ q.settled = r.settled /\ q.holds = r.holds /\ q.gone = r.gone /\ q.from = from
  BY <1>2, RecordFacts DEF IsRequest, SameAsked
<1>4. IsRequest(q)
  BY <1>2, <1>3 DEF IsRequest, SameAsked
<1>5. PartsInv(q)
  <2>1. r.settled => hi <= Len(cold)
    BY <1>2 DEF PartsInv
  <2> QED BY <1>2, <1>3, <2>1 DEF PartsInv, SameAsked
<1>6. StoredInv(q, C \ {s})
  BY <1>2, <1>3 DEF StoredInv, SameAsked
<1>7. ASSUME reorgs = 0, FeeInv(r, C) PROVE FeeInv(q, C \ {s})
  <2>1. "cacheGet" \notin C \/ s = "cacheTip"
    BY <1>2, StageFacts
  <2> HIDE DEF C, r
  <2> QED BY <1>2, <1>3, <1>7, <2>1 DEF FeeInv, SameAsked, C, r
<1> QED BY <1>2, <1>3, <1>4, <1>5, <1>6, <1>7, LateRead

\* GasOracleCache::get, the tip: still that of the block compared.
LEMMA StepCacheGetTip ==
  ASSUME IInv, NEW c \in Client, CacheGetTip(c)
  PROVE  IInv'
<1> DEFINE r == req[c]  C == Coming(r.todo)  s == "cacheTip"
           q == [r EXCEPT !.from = cacheTip]
<1>1. Reads(c, s) /\ Becomes(c, Advance(q, s)) /\ s \in {"cacheTip", "window"}
      /\ s \in {"cacheTip", "cacheGet", "window", "windowLoop", "setTip", "setBlock"}
  BY DEF CacheGetTip
<1>2. /\ IsRequest(r) /\ r.hi \in Nat /\ r.op \in Fees /\ s \in C /\ "latest" \notin C
  BY <1>1, FeeLate
<1>3. q = [r EXCEPT !.from = cacheTip, !.hi = r.hi]
  BY <1>2, RecordFacts DEF IsRequest
<1>4. cacheTip \in SUBSET Block
  BY DEF IInv, CacheInv
<1>5. FeeInv(r, C) => cacheTip \subseteq Window(r.n) /\ r.hi <= r.n
  BY <1>2 DEF FeeInv
<1>6. PICK from \in SUBSET Block, hi \in Nat : from = cacheTip /\ hi = r.hi
  BY <1>2, <1>4
<1>p. PICK p : p = q
  OBVIOUS
<1>7. /\ p = [req[c] EXCEPT !.from = from, !.hi = hi] /\ Becomes(c, Advance(p, s))
      /\ hi = req[c].hi
      /\ FeeInv(req[c], Coming(req[c].todo)) => from \subseteq Window(req[c].n) /\ hi <= req[c].n
  BY <1>1, <1>3, <1>5, <1>6, <1>p
<1> QED BY <1>1, <1>7, FeeRead

\* get_headers of the window.
LEMMA StepReadWindow ==
  ASSUME IInv, NEW c \in Client, ReadWindow(c)
  PROVE  IInv'
<1> DEFINE r == req[c]  C == Coming(r.todo)  s == "window"
           last == Min({r.n, Len(cold)})
           b == {cold[i] : i \in WindowStart(r.n)..last}
           q == [r EXCEPT !.from = b, !.hi = last]
<1>1. Reads(c, s) /\ Becomes(c, Advance(q, s)) /\ s \in {"cacheTip", "window"}
      /\ s \in {"cacheTip", "cacheGet", "window", "windowLoop", "setTip", "setBlock"}
  BY DEF ReadWindow
<1>2. /\ IsRequest(r) /\ r.n \in Nat /\ StoresInv
  BY <1>1, FeeLate
<1>3. last \in Nat /\ last <= Len(cold) /\ last <= r.n /\ Len(cold) \in Nat
  BY <1>2, UpToCold
<1>4. WindowStart(r.n) \in Nat /\ WindowStart(r.n) >= 1
  BY <1>2, WindowFacts
<1> HIDE DEF last
<1>5. ASSUME NEW x \in b PROVE x \in Block /\ (~Reverting => x \in Window(r.n))
  <2>1. PICK i \in WindowStart(r.n)..last : x = cold[i]
    OBVIOUS
  <2>2. i \in Nat /\ i >= 1 /\ i <= Len(cold) /\ i \in WindowStart(r.n)..r.n
    BY <1>2, <1>3, <1>4
  <2>3. x \in Block
    BY <1>2, <2>1, <2>2, ColdBlock
  <2>4. ~Reverting => x \in Window(r.n)
    BY <1>2, <2>1, <2>2, InWindow
  <2> QED BY <2>3, <2>4
<1>6. reorgs = 0 => ~Reverting
  BY <1>2 DEF StoresInv
<1> HIDE DEF b
<1>7. PICK from \in SUBSET Block, hi \in Nat : from = b /\ hi = last
  BY <1>3, <1>5
<1>p. PICK p : p = q
  OBVIOUS
<1>8. /\ p = [req[c] EXCEPT !.from = from, !.hi = hi] /\ Becomes(c, Advance(p, s))
      /\ hi <= Len(cold)
      /\ reorgs = 0 => from \subseteq Window(req[c].n) /\ hi <= req[c].n
  BY <1>1, <1>3, <1>5, <1>6, <1>7, <1>p
<1> QED BY <1>1, <1>8, FeeRead

\* The transactions of the window.
LEMMA StepReadWindowTxs ==
  ASSUME IInv, NEW c \in Client, ReadWindowTxs(c)
  PROVE  IInv'
<1> DEFINE r == req[c]  C == Coming(r.todo)  s == "windowLoop"
           q == [PartOf(r, r.hi) EXCEPT !.hi = @ - 1]
<1>1. Reads(c, s)
      /\ s \in {"cacheTip", "cacheGet", "window", "windowLoop", "setTip", "setBlock"}
  BY DEF ReadWindowTxs
<1>2. /\ Stage(s) > 4 /\ Stage(s) > 0 /\ StoresInv /\ s \in C
      /\ r.op \in Fees /\ r.op \notin ByTx /\ r.op \notin OneBlock /\ ~r.stored
      /\ IsRequest(r) /\ PartsInv(r) /\ IsPlan(r.op, r.todo) /\ NeedsInv(r, C)
      /\ "latest" \notin C /\ C # {} /\ C \cap NSetters = {}
      /\ r.n \in Nat /\ r.hi \in Nat /\ r.from \subseteq Block /\ SameAsked(r, r)
      /\ (\A u \in C : Stage(s) <= Stage(u)) /\ C \subseteq Steps(r.op)
  BY <1>1, FeeLate
<1>3. "cacheGet" \notin C /\ "cacheTip" \notin C /\ \A u \in C : 4 < Stage(u)
  <2>1. Stage(s) = 8 /\ Stage("cacheGet") = 6 /\ Stage("cacheTip") = 5
    BY StageFacts
  <2>2. \A u : Stage(u) \in Int
    BY StageFacts
  <2> QED BY <1>2, <2>1, <2>2
<1>4. CASE r.hi < WindowStart(r.n)
  <2>1. Becomes(c, Advance(r, s))
    BY <1>4 DEF ReadWindowTxs
  <2>2. StoredInv(r, C \ {s})
    BY <1>2 DEF StoredInv
  <2>3. ASSUME FeeInv(r, C) PROVE FeeInv(r, C \ {s})
    <3> HIDE DEF C, r
    <3> QED BY <1>2, <1>3, <2>3 DEF FeeInv
  <2> QED BY <1>1, <1>2, <2>1, <2>2, <2>3, LateRead
<1>5. CASE ~(r.hi < WindowStart(r.n))
  <2>1. Becomes(c, q)
    BY <1>5 DEF ReadWindowTxs
  <2>2. WindowStart(r.n) \in Nat /\ WindowStart(r.n) >= 1
    BY <1>2, WindowFacts
  <2>3. r.hi >= 1 /\ r.hi - 1 \in Nat /\ r.hi >= WindowStart(r.n)
    BY <1>2, <1>5, <2>2
  <2>4. /\ SameAsked(q, r) /\ q.todo = r.todo /\ q.out = r.out /\ q.n = r.n /\ q.hi = r.hi - 1
        /\ q.snap = r.snap /\ q.base = r.base /\ q.body = r.body
        /\ q.settled = r.settled /\ q.holds = r.holds /\ q.gone = r.gone
        /\ InCold(r.hi) => q.from = r.from \cup {cold[r.hi]} /\ q.whole = r.whole
        /\ ~InCold(r.hi) => q.from = r.from /\ q.whole = FALSE
    BY <1>2, RecordFacts DEF IsRequest, SameAsked, PartOf
  <2> HIDE DEF q, C
  <2>5. r.hi <= Len(cold) => cold[r.hi] \in Block
    BY <1>2, <2>3, ColdBlock
  <2>6. IsRequest(q)
    BY <1>2, <2>3, <2>4, <2>5 DEF IsRequest, SameAsked, InCold
  <2>7. PartsInv(q)
    <3>1. Len(cold) \in Nat
      BY <1>2 DEF StoresInv
    <3>2. q.settled => ~q.rewound /\ q.n <= Len(cold) /\ q.hi <= Len(cold) /\ q.whole
      BY <1>2, <2>4, <3>1 DEF PartsInv, SameAsked, InCold
    <3> QED BY <1>2, <2>4, <3>2 DEF PartsInv, SameAsked
  <2>8. StoredInv(q, C)
    BY <1>2, <2>4 DEF StoredInv, SameAsked
  <2>9. ASSUME reorgs = 0, FeeInv(r, C) PROVE FeeInv(q, C)
    <3>1. ~Reverting /\ r.hi <= r.n /\ r.from \subseteq Window(r.n)
      BY <1>2, <2>9 DEF StoresInv, FeeInv
    <3>2. r.hi \in WindowStart(r.n)..r.n
      BY <1>2, <2>2, <2>3, <3>1
    <3>3. r.hi <= Len(cold) => cold[r.hi] \in Window(r.n)
      BY <1>2, <3>1, <3>2, InWindow
    <3>4. q.from \subseteq Window(q.n) /\ q.hi <= q.n
      BY <1>2, <2>4, <3>1, <3>3 DEF InCold
    <3> QED BY <1>2, <2>4, <2>9, <3>4 DEF FeeInv, SameAsked
  <2>10. "history" \notin C /\ Coming(q.todo) = C /\ IsPlan(q.op, q.todo)
    <3>1. "history" \notin Steps(r.op)
      BY <1>2 DEF Steps, ReaderOps, ByTx, Fees
    <3> QED BY <1>2, <2>4, <3>1 DEF C, SameAsked
  <2>11. C \cap NUsers # {} => q.n >= 1
    BY <1>2, <2>4 DEF NeedsInv
  <2> QED BY <1>1, <1>2, <1>3, <2>1, <2>4, <2>6, <2>7, <2>8, <2>9, <2>10, <2>11, LateJump DEF C
<1> QED BY <1>4, <1>5

\* A fee handler writes the cache.  No other client that asks for fees alone
\* is there to see it.
LEMMA CacheSet ==
  ASSUME IInv, NEW c \in Client, NEW s \in {"setTip", "setBlock"}, Reads(c, s),
         NEW r, r = req[c], req' = [req EXCEPT ![c] = Advance(@, s)],
         UNCHANGED <<nodeVars, permits, queue, mayCall>>,
         cacheBlock' \in Nat, cacheTip' \subseteq Block,
         CacheFresh /\ FeeInv(r, Coming(r.todo)) =>
           CacheFresh' /\ FeeInv(r, Coming(r.todo) \ {s})'
  PROVE  IInv'
<1> DEFINE C == Coming(r.todo)  q == Advance(r, s)
<1>1. s \in {"cacheTip", "cacheGet", "window", "windowLoop", "setTip", "setBlock"}
      /\ s # "coldTxs"
  OBVIOUS
<1>2. /\ Stage(s) > 4 /\ Stage(s) > 0 /\ StoresInv /\ ActiveInv(r) /\ c \notin Range(queue)
      /\ s \in C /\ C \subseteq Steps(r.op) /\ (\A u \in C : Stage(s) <= Stage(u))
      /\ r.op \in Fees /\ r.op \notin ByTx /\ r.op \notin OneBlock /\ ~r.stored
      /\ IsRequest(r) /\ PartsInv(r) /\ IsPlan(r.op, r.todo) /\ NeedsInv(r, C)
      /\ ~r.holds
  BY <1>1, FeeLate
<1>3. r.todo # <<>> /\ s \in Head(r.todo) /\ r.out = "none" /\ DOMAIN req = Client
      /\ (NeedsPermit(r.op) /\ ~r.gone => r.holds)
  BY <1>2, NotWaiting DEF IInv, RequestsInv
<1>4. /\ C \cap Setters = {} /\ C \cap NSetters = {} /\ C \cap FromReader = {} /\ "open" \notin C
      /\ r.op \notin ReaderOps \cup {"account"} /\ "filterRange" \notin C
  <2>1. C \in SUBSET Steps(r.op)
    BY <1>2
  <2> HIDE DEF C
  <2> QED BY <1>2, <2>1, LateNeeds
<1>5. Ready(r, C \ {s})
  <2>1. NeedsInv(r, C \ {s})
    <3> HIDE DEF C
    <3> QED BY <1>2, <1>4 DEF NeedsInv, Setters
  <2>2. StoredInv(r, C \ {s}) /\ SnapInv(r) /\ FromOneReader(r)
    BY <1>2, <1>4 DEF StoredInv, ActiveInv, FromOneReader
  <2> QED BY <1>2, <1>3, <2>1, <2>2 DEF Ready
<1>6. ActiveInv(q)
  BY <1>2, <1>3, <1>5, Advanced
<1>7. /\ SameAsked(q, r) /\ SameContent(q, r) /\ Coming(q.todo) = C \ {s}
      /\ ~q.holds /\ q.hi \in {0, r.hi}
  BY <1>2, <1>3, AdvanceFacts DEF IsRequest
<1> HIDE DEF q
<1>8. req' = [req EXCEPT ![c] = q] /\ UNCHANGED nodeVars
  BY <1>3 DEF q
<1>9. RequestsInv'
  BY <1>6, <1>8, RequestsStep DEF RequestInv
<1>10. StoresInv'
  BY <1>2, <1>8, StoresSame
<1>11. SemaphoreInv'
  <2>1. RequestsInv /\ SemaphoreInv /\ queue' = queue /\ permits' = permits
    BY DEF IInv
  <2>2. Holders' = Holders
    BY <1>2, <1>7, <1>8, <2>1, PermitsSame
  <2>3. /\ queue' \in Seq(Client)
        /\ \A i, j \in 1..Len(queue') : queue'[i] = queue'[j] => i = j
        /\ \A i \in 1..Len(queue') : Reads(queue[i], "permit")'
    BY <1>2, <1>8, <2>1, QueueSame
  <2> QED BY <2>1, <2>2, <2>3 DEF SemaphoreInv
<1>12. CallsInv'
  <2>1. CallsInv /\ mayCall' = mayCall
    BY DEF IInv
  <2> QED BY <1>3, <1>7, <1>8, <2>1 DEF CallsInv, SameAsked
<1>13. CacheInv'
  <2>1. ASSUME reorgs' = 0, NEW d \in Client, Alone(d)'
        PROVE  CacheFresh' /\ FeeInv(req[d], Coming(req[d].todo))'
    <3>1. Alone(d) /\ reorgs = 0
      BY <2>1 DEF Alone, nodeVars
    <3>2. r.op \in mayCall[c]
      <4>1. r.op # "none"
        BY <1>2, Kinds
      <4> QED BY <4>1 DEF IInv, CallsInv
    <3>3. d = c
      BY <1>2, <3>1, <3>2 DEF Alone
    <3>4. CacheFresh /\ FeeInv(r, C)
      BY <3>1, <3>3 DEF IInv, CacheInv
    <3>5. CacheFresh' /\ FeeInv(r, C \ {s})'
      BY <3>4
    <3>6. r.n \in Nat /\ r.hi \in Nat
      BY <1>2 DEF IsRequest
    <3>7. FeeInv(q, Coming(q.todo))'
      BY <1>7, <3>5, <3>6 DEF FeeInv, SameAsked, SameContent
    <3>8. req'[d] = q
      BY <1>3, <1>8, <3>3
    <3> QED BY <3>5, <3>7, <3>8
  <2> QED BY <2>1 DEF CacheInv
<1> QED BY <1>9, <1>10, <1>11, <1>12, <1>13 DEF IInv

\* GasOracleCache::set, the tip: the cached block is an earlier one, so that
\* nobody takes the new tip for its own.
LEMMA StepCacheSetTip ==
  ASSUME IInv, NEW c \in Client, CacheSetTip(c)
  PROVE  IInv'
<1> DEFINE s == "setTip"
<1>1. PICK r : r = req[c]
  OBVIOUS
<1> DEFINE C == Coming(r.todo)
<1>2. /\ s \in {"setTip", "setBlock"} /\ Reads(c, s)
      /\ req' = [req EXCEPT ![c] = Advance(@, s)] /\ cacheTip' = r.from
      /\ UNCHANGED <<nodeVars, permits, queue, mayCall>> /\ cacheBlock' = cacheBlock
      /\ chain' = chain /\ latest' = latest
      /\ s \in {"cacheTip", "cacheGet", "window", "windowLoop", "setTip", "setBlock"}
  BY <1>1 DEF CacheSetTip, nodeVars
<1>3. /\ s \in C /\ (\A u \in C : Stage(s) <= Stage(u)) /\ r.from \subseteq Block
      /\ "latest" \notin C /\ C # {} /\ r.op \in Fees /\ r.n \in Nat /\ StoresInv
  BY <1>1, <1>2, FeeLate
<1>4. "cacheGet" \notin C /\ "cacheTip" \notin C
  BY <1>3, StageFacts
<1>5. cacheBlock \in Nat /\ latest \in Nat
  BY <1>3 DEF IInv, CacheInv, StoresInv
<1> HIDE DEF C
<1>6. ASSUME CacheFresh, FeeInv(r, C) PROVE CacheFresh' /\ FeeInv(r, C \ {s})'
  <2>1. /\ r.n <= latest /\ r.hi <= r.n /\ r.from \subseteq Window(r.n) /\ r.n >= 1
        /\ cacheBlock <= r.n /\ ("setBlock" \in C => cacheBlock < r.n)
    BY <1>3, <1>4, <1>6 DEF FeeInv
  <2>2. \A n : Window(n)' = Window(n)
    BY <1>2 DEF Window, WindowStart
  <2>3. CacheFresh'
    <3>1. cacheBlock = latest => r.n = latest
      BY <1>3, <1>5, <2>1
    <3> QED BY <1>2, <1>3, <1>5, <2>1, <2>2, <3>1 DEF CacheFresh
  <2>4. FeeInv(r, C \ {s})'
    BY <1>2, <1>3, <1>4, <1>5, <2>1, <2>2 DEF FeeInv
  <2> QED BY <2>3, <2>4
<1>7. cacheBlock' \in Nat /\ cacheTip' \subseteq Block
  BY <1>2, <1>3, <1>5
<1> QED BY <1>1, <1>2, <1>6, <1>7, CacheSet DEF C

\* GasOracleCache::set, the block: the tip is of its window already.
LEMMA StepCacheSetBlock ==
  ASSUME IInv, NEW c \in Client, CacheSetBlock(c)
  PROVE  IInv'
<1> DEFINE s == "setBlock"
<1>1. PICK r : r = req[c]
  OBVIOUS
<1> DEFINE C == Coming(r.todo)
<1>2. /\ s \in {"setTip", "setBlock"} /\ Reads(c, s)
      /\ req' = [req EXCEPT ![c] = Advance(@, s)] /\ cacheBlock' = r.n
      /\ UNCHANGED <<nodeVars, permits, queue, mayCall>> /\ cacheTip' = cacheTip
      /\ chain' = chain /\ latest' = latest
      /\ s \in {"cacheTip", "cacheGet", "window", "windowLoop", "setTip", "setBlock"}
  BY <1>1 DEF CacheSetBlock, nodeVars
<1>3. /\ s \in C /\ (\A u \in C : Stage(s) <= Stage(u))
      /\ "latest" \notin C /\ C # {} /\ r.op \in Fees /\ r.n \in Nat /\ StoresInv
  BY <1>1, <1>2, FeeLate
<1>4. "cacheGet" \notin C /\ "cacheTip" \notin C /\ "setTip" \notin C
  BY <1>3, StageFacts
<1>5. cacheBlock \in Nat /\ latest \in Nat /\ cacheTip \subseteq Block
  BY <1>3 DEF IInv, CacheInv, StoresInv
<1> HIDE DEF C
<1>6. ASSUME CacheFresh, FeeInv(r, C) PROVE CacheFresh' /\ FeeInv(r, C \ {s})'
  <2>1. /\ r.n <= latest /\ r.hi <= r.n /\ r.from \subseteq Window(r.n) /\ r.n >= 1
        /\ cacheTip \subseteq Window(r.n)
    BY <1>3, <1>4, <1>6 DEF FeeInv
  <2>2. \A n : Window(n)' = Window(n)
    BY <1>2 DEF Window, WindowStart
  <2>3. CacheFresh'
    BY <1>2, <1>5, <2>1, <2>2 DEF CacheFresh
  <2>4. FeeInv(r, C \ {s})'
    BY <1>2, <1>3, <1>4, <1>5, <2>1, <2>2 DEF FeeInv
  <2> QED BY <2>3, <2>4
<1>7. cacheBlock' \in Nat /\ cacheTip' \subseteq Block
  BY <1>2, <1>3, <1>5
<1> QED BY <1>1, <1>2, <1>6, <1>7, CacheSet DEF C

-------------------------------------------------------------------------------
(***************************************************************************)
(* Calls, answers and the semaphore.                                       *)
(***************************************************************************)
\* A request in flight fails.
LEMMA StepFails ==
  ASSUME IInv, NEW c \in Client, Fails(c)
  PROVE  IInv'
<1>1. req[c].todo # <<>> /\ c \notin Range(queue) /\ Becomes(c, Ends(req[c], "error"))
  BY DEF Fails
<1>2. req[c] # NoRequest
  BY <1>1, RecordFacts
<1>3. ActiveInv(req[c])
  BY <1>2 DEF IInv, RequestsInv, RequestInv
<1> QED BY <1>1, <1>3, ReadFailed

\* A client whose request is over does not wait for a permit.
LEMMA WaitingReads ==
  ASSUME IInv, NEW c \in Range(queue)
  PROVE  c \in Client /\ Reads(c, "permit")
<1>1. PICK i \in 1..Len(queue) : queue[i] = c
  BY DEF Range, IInv, SemaphoreInv
<1> QED BY <1>1 DEF IInv, SemaphoreInv

\* The client has its answer.
LEMMA StepReturn ==
  ASSUME IInv, NEW c \in Client, Return(c)
  PROVE  IInv'
<1>1. req[c].out # "none" /\ Becomes(c, NoRequest)
  BY DEF Return
<1>2. req[c] # NoRequest
  BY <1>1, RecordFacts
<1>3. ActiveInv(req[c])
  BY <1>2 DEF IInv, RequestsInv, RequestInv
<1>4. req[c].todo = <<>>
  BY <1>1, <1>3 DEF ActiveInv
<1>5. c \notin Range(queue)
  BY <1>4, WaitingReads DEF Reads
<1>6. RequestInv(NoRequest) /\ NoRequest.op = "none" /\ ~NoRequest.holds
  BY RecordFacts DEF RequestInv
<1>7. FeeInv(NoRequest, Coming(NoRequest.todo))
  BY <1>6, Kinds, NoFee
<1> QED BY <1>1, <1>5, <1>6, <1>7, Became

\* A request begins with nothing read.
LEMMA StepCall ==
  ASSUME IInv, NEW c \in Client, Call(c)
  PROVE  IInv'
<1>0. PICK op \in mayCall[c] : \E id \in Ids(op) :
        req' = [req EXCEPT ![c] =
                 [NoRequest EXCEPT !.op = op, !.id = id, !.todo = Program[op],
                                   !.stored = Stored(id) /\ ~Reverting,
                                   !.rewound = Reverting]]
  BY DEF Call
<1>1. PICK id \in Ids(op) :
        req' = [req EXCEPT ![c] =
                 [NoRequest EXCEPT !.op = op, !.id = id, !.todo = Program[op],
                                   !.stored = Stored(id) /\ ~Reverting,
                                   !.rewound = Reverting]]
  BY <1>0
<1>2. req[c].op = "none" /\ UNCHANGED <<nodeVars, permits, queue, cacheVars, mayCall>>
      /\ UNCHANGED nodeVars /\ permits' = permits /\ queue' = queue
      /\ UNCHANGED <<nodeVars, cacheVars, mayCall>> /\ UNCHANGED <<nodeVars, cacheVars>>
  BY DEF Call
<1> DEFINE q == [NoRequest EXCEPT !.op = op, !.id = id, !.todo = Program[op],
                                  !.stored = Stored(id) /\ ~Reverting, !.rewound = Reverting]
           C == Coming(Program[op])
<1>3. op \in Op
  BY WorkloadAssumption DEF IInv, CallsInv
<1>4. Begins(op, Program[op])
  BY <1>3, ProgramFacts
<1>5. /\ IsPlan(op, Program[op]) /\ Program[op] # <<>>
      /\ "filterRange" \in C => C \subseteq {"permit", "filterRange", "filterLoop"}
      /\ "history" \in C => C \subseteq {"resolve", "history", "historyLoop"}
      /\ \A s, u \in C \cap (Setters \ {"fromTag"}) : s = u
      /\ op \in ReaderOps \cup {"account"} => C \cap FromReader # {}
      /\ C \cap FromReader # {} => "open" \in C
      /\ C \cap NUsers # {} => C \cap NSetters # {}
      /\ op \in Fees => "latest" \in C
      /\ "latest" \in C => "cacheGet" \in C /\ "setTip" \in C /\ "cacheTip" \notin C
      /\ "traceTx" \in C => "coldTxs" \in C
  BY <1>4 DEF Begins
<1>6. /\ DOMAIN q = DOMAIN NoRequest /\ q.op = op /\ q.id = id /\ q.todo = Program[op]
      /\ q.out = "none" /\ q.n = 0 /\ q.hi = 0 /\ q.snap = <<>> /\ q.from = {} /\ q.base = {}
      /\ q.body = {} /\ q.whole = TRUE /\ q.settled = FALSE
      /\ (q.stored <=> Stored(id) /\ ~Reverting) /\ q.holds = FALSE /\ q.gone = FALSE
      /\ (q.rewound <=> Reverting)
  BY RecordFacts
<1>7. req' = [req EXCEPT ![c] = q]
  BY <1>1
<1> HIDE DEF q
<1>8. NeedsPermit(op) => "permit" \in Head(Program[op])
  BY <1>3, PermitFirst
<1>9. ActiveInv(q)
  <2>1. IsRequest(q)
    BY <1>3, <1>6 DEF IsRequest, Outcomes
  <2>2. NeedsInv(q, C)
    <3> HIDE DEF C
    <3> QED BY <1>5, <1>6 DEF NeedsInv
  <2>3. StoredInv(q, C)
    <3>1. Len(cold) \in Nat
      BY DEF IInv, StoresInv
    <3> HIDE DEF C
    <3> QED BY <1>5, <1>6, <3>1 DEF StoredInv
  <2>4. SnapInv(q)
    <3>1. Len(chain) \in Nat
      BY DEF IInv, StoresInv
    <3> QED BY <1>6, <3>1 DEF SnapInv, IsChain, LinkedFrom
  <2>5. PartsInv(q)
    BY <1>6 DEF PartsInv
  <2>6. PermitInv(q)
    BY <1>6, <1>8 DEF PermitInv
  <2> QED BY <1>5, <1>6, <2>1, <2>2, <2>3, <2>4, <2>5, <2>6 DEF ActiveInv
<1>10. StoresInv'
  BY <1>2, StoresSame DEF IInv
<1>11. RequestsInv'
  BY <1>2, <1>7, <1>9, RequestsStep DEF RequestInv
<1>12. req[c] = NoRequest
  <2>1. "none" \notin Op
    BY Kinds
  <2> QED BY <1>2, <2>1 DEF IInv, RequestsInv, RequestInv, ActiveInv, IsRequest
<1>13. SemaphoreInv'
  <2>1. RequestsInv /\ SemaphoreInv
    BY DEF IInv
  <2>2. ~req[c].holds /\ req[c].todo = <<>>
    BY <1>12, RecordFacts
  <2>3. Holders' = Holders
    BY <1>6, <1>7, <2>1, <2>2, PermitsSame
  <2>4. c \notin Range(queue)
    BY <2>2, WaitingReads DEF Reads
  <2>5. /\ queue' \in Seq(Client)
        /\ \A i, j \in 1..Len(queue') : queue'[i] = queue'[j] => i = j
        /\ \A i \in 1..Len(queue') : Reads(queue[i], "permit")'
    BY <1>2, <1>7, <2>1, <2>4, QueueSame
  <2> QED BY <1>2, <2>1, <2>3, <2>5 DEF SemaphoreInv
<1>14. DOMAIN req = Client /\ req'[c] = q /\ \A d \in Client \ {c} : req'[d] = req[d]
  BY <1>7 DEF IInv, RequestsInv
<1>15. mayCall' = mayCall /\ CallsInv'
  BY <1>2, <1>6, <1>14 DEF IInv, CallsInv
<1>16. CacheInv'
  <2>1. ASSUME reorgs' = 0, NEW d \in Client, Alone(d)'
        PROVE  CacheFresh' /\ FeeInv(req[d], Coming(req[d].todo))'
    <3>1. Alone(d) /\ reorgs = 0
      BY <1>2, <2>1 DEF Alone, nodeVars
    <3>2. CacheFresh /\ FeeInv(req[d], Coming(req[d].todo))
      BY <3>1 DEF IInv, CacheInv
    <3>3. PICK p : p = req'[d]
      OBVIOUS
    <3>4. FeeInv(p, Coming(p.todo))
      <4>1. CASE d = c
        <5>1. latest \in Nat
          BY DEF IInv, StoresInv
        <5>2. FeeInv(q, Coming(q.todo))
          BY <1>5, <1>6, <5>1 DEF FeeInv
        <5> QED BY <1>14, <3>3, <4>1, <5>2
      <4>2. CASE d # c
        BY <1>14, <3>2, <3>3, <4>2
      <4> QED BY <4>1, <4>2
    <3>5. FeeInv(p, Coming(p.todo))' /\ CacheFresh'
      BY <1>2, <3>2, <3>4, FeeSame
    <3> QED BY <3>3, <3>5
  <2>2. cacheBlock' \in Nat /\ cacheTip' \subseteq Block
    BY <1>2 DEF IInv, CacheInv, cacheVars
  <2> QED BY <2>1, <2>2 DEF CacheInv
<1> QED BY <1>10, <1>11, <1>13, <1>15, <1>16 DEF IInv

\* No request changes.
LEMMA RequestsSame ==
  ASSUME IInv, req' = req, UNCHANGED nodeVars
  PROVE  RequestsInv'
<1>1. DOMAIN req = Client /\ \A d \in Client : RequestInv(req[d])
  BY DEF IInv, RequestsInv
<1>2. ASSUME NEW d \in Client PROVE RequestInv(req[d])'
  <2>1. PICK p : p = req[d]
    OBVIOUS
  <2>2. RequestInv(p)'
    BY <1>1, <2>1, RequestSame
  <2> QED BY <2>1, <2>2
<1> QED BY <1>1, <1>2 DEF RequestsInv

\* Neither does a step that changes no request disturb the cache.
LEMMA CacheSame ==
  ASSUME IInv, req' = req, UNCHANGED <<nodeVars, cacheVars, mayCall>>
  PROVE  CacheInv' /\ CallsInv'
<1>1. /\ UNCHANGED <<nodeVars, cacheVars>> /\ reorgs' = reorgs /\ mayCall' = mayCall
      /\ cacheBlock' = cacheBlock /\ cacheTip' = cacheTip
  BY DEF nodeVars, cacheVars
<1>2. CallsInv'
  BY <1>1 DEF IInv, CallsInv
<1>3. ASSUME reorgs' = 0, NEW d \in Client, Alone(d)'
      PROVE  CacheFresh' /\ FeeInv(req[d], Coming(req[d].todo))'
  <2>1. PICK p : p = req[d]
    OBVIOUS
  <2>2. CacheFresh /\ FeeInv(p, Coming(p.todo))
    BY <1>1, <1>3, <2>1 DEF IInv, CacheInv, Alone
  <2>3. FeeInv(p, Coming(p.todo))' /\ CacheFresh'
    BY <1>1, <2>2, FeeSame
  <2> QED BY <2>1, <2>3
<1>4. CacheInv'
  BY <1>1, <1>3 DEF IInv, CacheInv
<1> QED BY <1>2, <1>4

\* A handler asks for a permit and waits.
LEMMA StepAcquirePermit ==
  ASSUME IInv, NEW c \in Client, AcquirePermit(c)
  PROVE  IInv'
<1>1. /\ Reads(c, "permit") /\ c \notin Range(queue) /\ queue' = Append(queue, c)
      /\ UNCHANGED nodeVars /\ UNCHANGED <<nodeVars, cacheVars>> /\ req' = req
      /\ permits' = permits /\ mayCall' = mayCall
  BY DEF AcquirePermit
<1>2. /\ queue \in Seq(Client) /\ (\A i, j \in 1..Len(queue) : queue[i] = queue[j] => i = j)
      /\ \A i \in 1..Len(queue) : Reads(queue[i], "permit") /\ queue[i] # c
  BY <1>1 DEF IInv, SemaphoreInv, Range
<1>0. PICK u, l : u = Append(queue, c) /\ l = Len(queue)
  OBVIOUS
<1>3. /\ u \in Seq(Client) /\ Len(u) = l + 1 /\ l \in Nat
      /\ (\A i \in 1..l : u[i] = queue[i]) /\ u[l + 1] = c
  BY <1>0, <1>2
<1>4. \A i \in 1..(l + 1) : i \in 1..l \/ i = l + 1
  BY <1>3
<1>5. ASSUME NEW i \in 1..(l + 1), NEW j \in 1..(l + 1), u[i] = u[j] PROVE i = j
  BY <1>0, <1>2, <1>3, <1>4, <1>5
<1>6. ASSUME NEW i \in 1..(l + 1) PROVE Reads(u[i], "permit")
  BY <1>0, <1>1, <1>2, <1>3, <1>4
<1>7. SemaphoreInv'
  <2>1. Holders' = Holders
    BY <1>1 DEF Holders
  <2>2. queue' = u
    BY <1>0, <1>1
  <2>3. \A i \in 1..(l + 1) : Reads(u[i], "permit")'
    BY <1>1, <1>6 DEF Reads
  <2> QED BY <1>1, <1>3, <1>5, <2>1, <2>2, <2>3 DEF IInv, SemaphoreInv
<1>8. StoresInv'
  BY <1>1, StoresSame DEF IInv
<1>9. RequestsInv'
  BY <1>1, RequestsSame
<1>10. CacheInv' /\ CallsInv'
  BY <1>1, CacheSame
<1> QED BY <1>7, <1>8, <1>9, <1>10 DEF IInv

\* The first client in the queue gets a permit and goes on.
LEMMA StepGrantPermit ==
  ASSUME IInv, NEW c \in Client, GrantPermit(c)
  PROVE  IInv'
<1>1. /\ queue # <<>> /\ c = Head(queue) /\ permits > 0
      /\ req' = [req EXCEPT ![c] = Granted(@)]
      /\ permits' = (IF req'[c].holds THEN permits - 1 ELSE permits)
      /\ queue' = Tail(queue) /\ UNCHANGED <<nodeVars, cacheVars, mayCall>> /\ UNCHANGED nodeVars
  BY DEF GrantPermit
<1>2. PICK r, p, q : r = req[c] /\ p = [r EXCEPT !.holds = TRUE] /\ q = Advance(p, "permit")
  OBVIOUS
<1> DEFINE C == Coming(r.todo)  s == "permit"
<1>3. /\ queue \in Seq(Client) /\ (\A i, j \in 1..Len(queue) : queue[i] = queue[j] => i = j)
      /\ (\A i \in 1..Len(queue) : Reads(queue[i], "permit")) /\ permits \in Nat
      /\ permits + Cardinality(Holders) = MaxTracing /\ DOMAIN req = Client /\ RequestsInv
  BY DEF IInv, SemaphoreInv, RequestsInv
<1>4. /\ Len(queue) \in Nat \ {0} /\ c = queue[1] /\ Tail(queue) \in Seq(Client)
      /\ Len(Tail(queue)) = Len(queue) - 1
      /\ \A i \in 1..(Len(queue) - 1) : Tail(queue)[i] = queue[i + 1]
  BY <1>1, <1>3, QueueFacts
<1>5. Reads(c, s)
  BY <1>3, <1>4
<1>6. r.todo # <<>> /\ s \in Head(r.todo)
  BY <1>2, <1>5 DEF Reads
<1>7. ActiveInv(r)
  <2>1. r # NoRequest
    BY <1>6, RecordFacts
  <2> QED BY <1>2, <2>1 DEF IInv, RequestsInv, RequestInv
<1>8. /\ IsRequest(r) /\ IsPlan(r.op, r.todo) /\ r.out = "none" /\ NeedsInv(r, C)
      /\ StoredInv(r, C) /\ SnapInv(r) /\ PartsInv(r) /\ PermitInv(r)
  BY <1>6, <1>7 DEF ActiveInv
<1>9. s \in Steps(r.op) /\ s \in C
  BY <1>6, <1>8, HeadFacts
<1>10. r.op \notin Fees \cup {"account"}
  BY <1>9, StepKinds
<1>11. ~r.holds
  BY <1>8, <1>9 DEF PermitInv
<1>12. /\ SameAsked(p, r) /\ SameContent(p, r) /\ p.todo = r.todo /\ p.out = r.out /\ p.hi = r.hi
       /\ p.snap = r.snap /\ p.body = r.body /\ p.holds = TRUE
  BY <1>2, <1>8, RecordFacts DEF IsRequest, SameAsked, SameContent
<1> HIDE DEF C
<1>13. IsRequest(p)
  BY <1>8, <1>12 DEF IsRequest, SameAsked, SameContent
<1>14. s \notin FromReader /\ s \notin Setters /\ s \notin NSetters /\ s # "open"
  BY DEF FromReader, Setters, NSetters
<1>15. NeedsInv(p, C \ {s})
  <2>1. NeedsInv(r, C \ {s})
    BY <1>8, <1>9, <1>14 DEF NeedsInv
  <2> QED BY <1>12, <2>1 DEF NeedsInv, SameAsked, SameContent
<1>16. StoredInv(p, C \ {s})
  BY <1>8, <1>12 DEF StoredInv, SameAsked, SameContent
<1>17. SnapInv(p)
  BY <1>8, <1>12 DEF SnapInv, SameAsked
<1>18. PartsInv(p)
  BY <1>8, <1>12 DEF PartsInv, SameAsked, SameContent
<1>19. C \ {s} = {} => FromOneReader(p)
  <2>1. r.op \in ReaderOps \cup {"account"} => C \cap FromReader # {}
    BY <1>8, <1>9 DEF NeedsInv
  <2> QED BY <1>12, <1>14, <2>1 DEF FromOneReader, SameAsked
<1>20. Ready(p, C \ {s})
  BY <1>10, <1>12, <1>15, <1>16, <1>17, <1>18, <1>19 DEF Ready, SameAsked
<1>21. IsPlan(p.op, p.todo) /\ Coming(p.todo) = C /\ p.todo # <<>> /\ s \in Head(p.todo)
       /\ p.out = "none" /\ DOMAIN p = DOMAIN NoRequest
  BY <1>6, <1>8, <1>12, <1>13 DEF SameAsked, IsRequest, C
<1>22. ActiveInv(Advance(p, s))
  BY <1>13, <1>20, <1>21, Advanced
<1>23. SameAsked(Advance(p, s), p)
  BY <1>21, AdvanceFacts
<1>24. ActiveInv(q) /\ q.op = r.op /\ req' = [req EXCEPT ![c] = q] /\ req'[c] = q
  BY <1>1, <1>2, <1>3, <1>12, <1>22, <1>23 DEF SameAsked, Granted
<1>25. RequestsInv'
  BY <1>1, <1>24, RequestsStep DEF RequestInv
<1>26. StoresInv'
  BY <1>1, StoresSame DEF IInv
<1>27. CacheInv' /\ CallsInv'
  <2>1. FeeInv(q, Coming(q.todo))
    BY <1>10, <1>24, NoFee
  <2> QED BY <1>1, <1>2, <1>24, <2>1, CacheStep
<1>28. permits' \in Nat /\ permits' + Cardinality(Holders') = MaxTracing
  <2>1. CASE q.holds
    <3>1. Cardinality(Holders') = Cardinality(Holders) + 1
      BY <1>2, <1>3, <1>11, <1>24, <2>1, PermitTaken
    <3>2. permits' = permits - 1
      BY <1>1, <1>24, <2>1
    <3> QED BY <1>1, <1>3, <3>1, <3>2, HoldersFinite
  <2>2. CASE ~q.holds
    <3>1. Holders' = Holders
      BY <1>2, <1>3, <1>11, <1>24, <2>2, PermitsSame
    <3>2. permits' = permits
      BY <1>1, <1>24, <2>2
    <3> QED BY <1>3, <3>1, <3>2
  <2> QED BY <2>1, <2>2
<1>29. SemaphoreInv'
  <2>1. PICK u, l : u = Tail(queue) /\ l = Len(queue)
    OBVIOUS
  <2>2. /\ u \in Seq(Client) /\ Len(u) = l - 1 /\ l \in Nat
        /\ \A i \in 1..(l - 1) : i + 1 \in 2..l /\ u[i] = queue[i + 1]
    BY <1>4, <2>1
  <2>3. ASSUME NEW i \in 1..Len(u), NEW j \in 1..Len(u), u[i] = u[j] PROVE i = j
    <3>1. i + 1 \in 1..l /\ j + 1 \in 1..l /\ queue[i + 1] = queue[j + 1]
      BY <2>2, <2>3
    <3>2. i + 1 = j + 1
      BY <1>3, <2>1, <3>1
    <3> QED BY <2>2, <3>2
  <2>4. ASSUME NEW i \in 1..Len(u) PROVE Reads(u[i], "permit")'
    <3>1. i + 1 \in 1..l /\ 1 \in 1..l /\ i + 1 # 1 /\ u[i] = queue[i + 1]
      BY <2>2
    <3>2. u[i] # c /\ Reads(u[i], "permit") /\ u[i] \in Client
      BY <1>3, <1>4, <2>1, <3>1
    <3>3. req'[u[i]] = req[u[i]]
      BY <1>3, <1>24, <3>2
    <3> QED BY <3>2, <3>3 DEF Reads
  <2>5. queue' = u
    BY <1>1, <2>1
  <2> QED BY <1>28, <2>2, <2>3, <2>4, <2>5 DEF SemaphoreInv
<1> QED BY <1>25, <1>26, <1>27, <1>29 DEF IInv

\* A client is taken out of the queue.
LEMMA RemovedOnce ==
  ASSUME NEW S, NEW t \in Seq(S), \A i, j \in 1..Len(t) : t[i] = t[j] => i = j, NEW e
  PROVE  LET u == RemoveFirst(t, e)
         IN /\ u \in Seq(S) /\ (\A i, j \in 1..Len(u) : u[i] = u[j] => i = j)
            /\ \A i \in 1..Len(u) : u[i] # e /\ \E j \in 1..Len(t) : u[i] = t[j]
<1> DEFINE u == RemoveFirst(t, e)  l == Len(t)
<1>0. l \in Nat
  OBVIOUS
<1>1. CASE ~\E i \in 1..l : t[i] = e
  <2>1. u = t
    BY <1>1 DEF RemoveFirst
  <2> QED BY <1>1, <2>1
<1>2. CASE \E i \in 1..l : t[i] = e
  <2> DEFINE I == {i \in 1..l : t[i] = e}
  <2>1. I \in SUBSET Nat /\ I # {}
    BY <1>2
  <2>2. Min(I) \in I
    <3>1. \E x \in I : \A y \in I : x <= y
      BY <2>1, Least
    <3> QED BY <3>1 DEF Min
  <2>3. SelectInSeq(t, LAMBDA v : v = e) = Min(I)
    BY <2>1 DEF SelectInSeq
  <2>4. PICK k : k = Min(I)
    OBVIOUS
  <2>5. k \in 1..l /\ t[k] = e
    BY <2>2, <2>4
  <2>6. u = SubSeq(t, 1, k - 1) \o SubSeq(t, k + 1, l)
    BY <1>2, <2>3, <2>4 DEF RemoveFirst, RemoveAt
  <2>k. PICK a : a = SubSeq(t, 1, k - 1)
    OBVIOUS
  <2>m. PICK b : b = SubSeq(t, k + 1, l)
    OBVIOUS
  <2>7. a \in Seq(S) /\ Len(a) = k - 1 /\ \A i \in 1..(k - 1) : a[i] = t[i]
    BY <1>0, <2>5, <2>k
  <2>8. b \in Seq(S) /\ Len(b) = l - k /\ \A i \in 1..(l - k) : b[i] = t[k + i]
    BY <1>0, <2>5, <2>m, SuffixFacts
  <2>n. a \in Seq(S) /\ b \in Seq(S)
    BY <2>7, <2>8
  <2>9. /\ a \o b \in Seq(S) /\ Len(a \o b) = Len(a) + Len(b)
        /\ \A i \in 1..Len(a) : (a \o b)[i] = a[i]
        /\ \A i \in 1..Len(b) : (a \o b)[Len(a) + i] = b[i]
    BY ONLY <2>n, ConcatFacts
  <2>10. u = a \o b
    BY <2>6, <2>k, <2>m
  <2> HIDE DEF u, l
  <2>o. k \in Int /\ l \in Int /\ Len(a) = k - 1 /\ Len(b) = l - k
    BY <1>0, <2>5, <2>7, <2>8
  <2>p. (k - 1) + (l - k) = l - 1
    BY <2>o
  <2>11. u \in Seq(S) /\ Len(u) = l - 1
    BY <2>o, <2>p, <2>9, <2>10
  <2> USE DEF l
  <2>12. ASSUME NEW i \in 1..Len(u)
         PROVE  /\ i < k => i \in 1..l /\ u[i] = t[i]
                /\ i >= k => i + 1 \in 1..l /\ u[i] = t[i + 1]
    <3>1. CASE i < k
      BY <1>0, <2>5, <2>7, <2>9, <2>10, <2>11, <3>1
    <3>2. CASE i >= k
      <4>1. PICK j \in 1..(l - k) : i = (k - 1) + j /\ k + j = i + 1
        BY <1>0, <2>5, <2>11, <3>2
      <4>2. u[i] = b[j]
        BY <2>7, <2>8, <2>9, <2>10, <4>1
      <4>3. b[j] = t[i + 1]
        BY <2>8, <4>1
      <4> QED BY <1>0, <2>5, <2>11, <3>2, <4>2, <4>3
    <3> QED BY <1>0, <2>5, <3>1, <3>2
  <2>13. ASSUME NEW i \in 1..Len(u)
         PROVE  \E m \in 1..l : m # k /\ u[i] = t[m] /\ ((i < k /\ m = i) \/ (i >= k /\ m = i + 1))
    <3>1. CASE i < k
      BY <1>0, <2>5, <2>11, <2>12, <3>1
    <3>2. CASE i >= k
      BY <1>0, <2>5, <2>11, <2>12, <3>2
    <3> QED BY <1>0, <2>5, <2>11, <3>1, <3>2
  <2>14. ASSUME NEW i \in 1..Len(u), NEW j \in 1..Len(u), u[i] = u[j] PROVE i = j
    <3>1. PICK m \in 1..l : u[i] = t[m] /\ ((i < k /\ m = i) \/ (i >= k /\ m = i + 1))
      BY <2>13
    <3>2. PICK n \in 1..l : u[j] = t[n] /\ ((j < k /\ n = j) \/ (j >= k /\ n = j + 1))
      BY <2>13
    <3>3. m = n
      BY <2>14, <3>1, <3>2
    <3> QED BY <1>0, <2>5, <2>11, <3>1, <3>2, <3>3
  <2>15. ASSUME NEW i \in 1..Len(u) PROVE u[i] # e /\ \E j \in 1..l : u[i] = t[j]
    BY <2>5, <2>13
  <2> QED BY <2>11, <2>14, <2>15 DEF u
<1> QED BY <1>1, <1>2

\* A dropped handler leaves the queue or gives its permit back.
LEMMA StepDisconnect ==
  ASSUME IInv, NEW c \in Client, Disconnect(c)
  PROVE  IInv'
<1>1. /\ NeedsPermit(req[c].op) /\ req[c].todo # <<>> /\ ~req[c].gone
      /\ queue' = RemoveFirst(queue, c)
      /\ req' = [req EXCEPT ![c] = IF Reads(c, "permit") THEN NoRequest
                                   ELSE [@ EXCEPT !.gone = TRUE, !.holds = FALSE]]
      /\ permits' = (IF Returned(req[c], req'[c]) THEN permits + 1 ELSE permits)
      /\ UNCHANGED <<nodeVars, cacheVars, mayCall>> /\ UNCHANGED nodeVars
  BY DEF Disconnect
<1>2. PICK r, q : r = req[c] /\ q = IF Reads(c, "permit") THEN NoRequest
                                    ELSE [r EXCEPT !.gone = TRUE, !.holds = FALSE]
  OBVIOUS
<1>3. /\ queue \in Seq(Client) /\ (\A i, j \in 1..Len(queue) : queue[i] = queue[j] => i = j)
      /\ (\A i \in 1..Len(queue) : Reads(queue[i], "permit")) /\ permits \in Nat
      /\ permits + Cardinality(Holders) = MaxTracing /\ DOMAIN req = Client /\ RequestsInv
  BY DEF IInv, SemaphoreInv, RequestsInv
<1>4. req' = [req EXCEPT ![c] = q] /\ req'[c] = q
  BY <1>1, <1>2, <1>3
<1>5. ActiveInv(r)
  <2>1. r # NoRequest
    BY <1>1, <1>2, RecordFacts
  <2> QED BY <1>2, <2>1 DEF IInv, RequestsInv, RequestInv
<1>6. /\ RequestInv(q) /\ ~q.holds /\ q.op \in {r.op, "none"}
      /\ FeeInv(r, Coming(r.todo)) => FeeInv(q, Coming(q.todo))
  <2>1. CASE Reads(c, "permit")
    <3>1. q = NoRequest
      BY <1>2, <2>1
    <3>2. RequestInv(q) /\ ~q.holds /\ q.op = "none"
      BY <3>1, RecordFacts DEF RequestInv
    <3> QED BY <3>2, NoFee, Kinds
  <2>2. CASE ~Reads(c, "permit")
    <3>1. q = [r EXCEPT !.gone = TRUE, !.holds = FALSE]
      BY <1>2, <2>2
    <3>2. /\ SameAsked(q, r) /\ q.todo = r.todo /\ q.out = r.out /\ q.n = r.n /\ q.hi = r.hi
          /\ q.snap = r.snap /\ q.base = r.base /\ q.body = r.body /\ q.whole = r.whole
          /\ q.settled = r.settled /\ q.holds = FALSE /\ q.gone = TRUE /\ q.from = r.from
      BY <1>5, <3>1, RecordFacts DEF ActiveInv, IsRequest, SameAsked
    <3>3. IsRequest(q) /\ IsPlan(q.op, q.todo)
      BY <1>5, <3>2 DEF ActiveInv, IsRequest, SameAsked
    <3>4. NeedsInv(q, Coming(q.todo)) /\ SnapInv(q)
      BY <1>5, <3>2 DEF ActiveInv, NeedsInv, SnapInv, SameAsked
    <3>5. StoredInv(q, Coming(q.todo))
      BY <1>5, <3>2 DEF ActiveInv, StoredInv, SameAsked
    <3>6. PartsInv(q)
      BY <1>5, <3>2 DEF ActiveInv, PartsInv, SameAsked
    <3>7. PermitInv(q) /\ (q.out # "none" => q.todo = <<>>)
      BY <1>5, <3>2 DEF ActiveInv, PermitInv
    <3>8. (q.out = "ok" => FromOneReader(q)) /\ (q.out = "absent" => MayMiss(q))
      BY <1>5, <3>2 DEF ActiveInv, FromOneReader, MayMiss, SameAsked
    <3>9. ActiveInv(q)
      BY <3>3, <3>4, <3>5, <3>6, <3>7, <3>8 DEF ActiveInv
    <3>10. FeeInv(r, Coming(r.todo)) => FeeInv(q, Coming(q.todo))
      BY <3>2 DEF FeeInv, SameAsked
    <3> QED BY <3>2, <3>9, <3>10 DEF RequestInv, SameAsked
  <2> QED BY <2>1, <2>2
<1>7. StoresInv'
  BY <1>1, StoresSame DEF IInv
<1>8. RequestsInv'
  BY <1>1, <1>4, <1>6, RequestsStep
<1>9. CacheInv' /\ CallsInv'
  BY <1>1, <1>2, <1>4, <1>6, CacheStep
<1>10. permits' \in Nat /\ permits' + Cardinality(Holders') = MaxTracing
  <2>1. CASE r.holds
    <3>1. Cardinality(Holders') = Cardinality(Holders) - 1
      BY <1>2, <1>3, <1>4, <1>6, <2>1, PermitDropped
    <3>2. permits' = permits + 1
      BY <1>1, <1>2, <1>4, <1>6, <2>1 DEF Returned
    <3> QED BY <1>3, <3>1, <3>2, HoldersFinite
  <2>2. CASE ~r.holds
    <3>1. Holders' = Holders
      BY <1>2, <1>3, <1>4, <1>6, <2>2, PermitsSame
    <3>2. permits' = permits
      BY <1>1, <1>2, <1>4, <1>6, <2>2 DEF Returned
    <3> QED BY <1>3, <3>1, <3>2
  <2> QED BY <2>1, <2>2
<1>11. SemaphoreInv'
  <2>1. PICK u : u = RemoveFirst(queue, c)
    OBVIOUS
  <2>2. /\ u \in Seq(Client) /\ (\A i, j \in 1..Len(u) : u[i] = u[j] => i = j)
        /\ \A i \in 1..Len(u) : u[i] # c /\ \E j \in 1..Len(queue) : u[i] = queue[j]
    <3>1. queue \in Seq(Client) /\ \A i, j \in 1..Len(queue) : queue[i] = queue[j] => i = j
      BY <1>3
    <3> QED BY ONLY <2>1, <3>1, RemovedOnce
  <2>3. ASSUME NEW i \in 1..Len(u) PROVE Reads(u[i], "permit")'
    <3>1. u[i] # c /\ Reads(u[i], "permit") /\ u[i] \in Client
      BY <1>3, <2>2
    <3>2. req'[u[i]] = req[u[i]]
      BY <1>3, <1>4, <3>1
    <3> QED BY <3>1, <3>2 DEF Reads
  <2>4. queue' = u
    BY <1>1, <2>1
  <2> QED BY <1>10, <2>2, <2>3, <2>4 DEF SemaphoreInv
<1> QED BY <1>7, <1>8, <1>9, <1>11 DEF IInv

-------------------------------------------------------------------------------
(***************************************************************************)
(* The steps of the node.                                                  *)
(***************************************************************************)
\* No block is taken away.
Kept ==
  /\ Len(chain) <= Len(chain') /\ \A i \in 1..Len(chain) : chain'[i] = chain[i]
  /\ Len(cold) <= Len(cold') /\ \A i \in 1..Len(cold) : cold'[i] = cold[i]

\* What a store has it keeps.
LEMMA RangeKept ==
  ASSUME NEW s \in Seq(Block), NEW t \in Seq(Block), Len(s) <= Len(t),
         \A i \in 1..Len(s) : t[i] = s[i]
  PROVE  Range(s) \subseteq Range(t)
<1>1. ASSUME NEW b \in Range(s) PROVE b \in Range(t)
  <2>1. PICK i \in 1..Len(s) : b = s[i]
    BY DEF Range
  <2>2. i \in 1..Len(t) /\ t[i] = b
    BY <2>1
  <2> QED BY <2>2 DEF Range
<1> QED BY <1>1

\* What holds of a request holds while no block is taken away, and afterwards
\* if the request knows.
LEMMA ActiveKept ==
  ASSUME StoresInv, StoresInv', NEW r, ActiveInv(r), Kept \/ r.rewound,
         Reverting' => r.rewound
  PROVE  ActiveInv(r)'
<1>1. /\ chain \in Seq(Block) /\ cold \in Seq(Block) /\ chain' \in Seq(Block)
      /\ cold' \in Seq(Block)
  BY DEF StoresInv
<1>2. PICK C : C = Coming(r.todo)
  OBVIOUS
<1>3. /\ SnapInv(r) /\ PartsInv(r) /\ StoredInv(r, C) /\ IsRequest(r)
      /\ r.n \in Nat /\ r.hi \in Nat /\ r.snap \in Seq(Block)
  BY <1>2 DEF ActiveInv, IsRequest
<1>4. CASE r.rewound
  <2>1. SnapInv(r)' /\ PartsInv(r)'
    BY <1>3, <1>4 DEF SnapInv, PartsInv
  <2>2. StoredInv(r, C)'
    BY <1>3, <1>4 DEF StoredInv
  <2> QED BY <1>2, <2>1, <2>2 DEF ActiveInv
<1>5. CASE ~r.rewound
  <2>1. /\ Len(chain) <= Len(chain') /\ \A i \in 1..Len(chain) : chain'[i] = chain[i]
        /\ Len(cold) <= Len(cold') /\ \A i \in 1..Len(cold) : cold'[i] = cold[i]
    BY <1>5 DEF Kept
  <2>2. Range(chain) \subseteq Range(chain') /\ Range(cold) \subseteq Range(cold')
    BY <1>1, <2>1, RangeKept
  <2>3. /\ Len(chain) \in Nat /\ Len(chain') \in Nat /\ Len(cold) \in Nat
        /\ Len(cold') \in Nat /\ Len(r.snap) \in Nat
    BY <1>1, <1>3
  <2>4. SnapInv(r)'
    <3>1. /\ IsChain(r.snap) /\ Len(r.snap) <= Len(chain)
          /\ \A i \in 1..Len(r.snap) : r.snap[i] = chain[i]
      BY <1>3, <1>5 DEF SnapInv
    <3>2. \A i \in 1..Len(r.snap) : i \in 1..Len(chain)
      BY <2>3, <3>1
    <3>3. \A i \in 1..Len(r.snap) : r.snap[i] = chain'[i]
      BY <2>1, <3>1, <3>2
    <3>4. Len(r.snap) <= Len(chain')
      BY <2>1, <2>3, <3>1
    <3> QED BY <3>1, <3>3, <3>4 DEF SnapInv
  <2>5. PartsInv(r)'
    <3>1. ~Reverting'
      BY <1>5
    <3>2. r.settled => r.n <= Len(cold') /\ r.hi <= Len(cold') /\ r.whole
      BY <1>3, <2>1, <2>3 DEF PartsInv
    <3>3. r.op \notin Fees => r.from \cup r.base \subseteq Range(chain')
      BY <1>3, <1>5, <2>2 DEF PartsInv
    <3>4. r.op \in ByTx /\ r.n >= 1 => r.n <= Len(cold') /\ cold'[r.n] \in TxIn[r.id[2]]
      <4>1. SUFFICES ASSUME r.op \in ByTx, r.n >= 1
                     PROVE  r.n <= Len(cold') /\ cold'[r.n] \in TxIn[r.id[2]]
        OBVIOUS
      <4>2. r.n <= Len(cold) /\ cold[r.n] \in TxIn[r.id[2]]
        BY <1>3, <1>5, <4>1 DEF PartsInv
      <4>3. r.n \in 1..Len(cold)
        BY <1>3, <2>3, <4>1, <4>2
      <4> QED BY <1>3, <2>1, <2>3, <4>2, <4>3
    <3>5. r.op \in OneBlock =>
            /\ \A b \in r.from : num[b] = r.n \/ (r.op = "account" /\ num[b] < r.n)
            /\ \A b \in r.base : num[b] + 1 = r.n \/ (num[b] = 1 /\ r.n = 1)
      BY <1>3, <1>5 DEF PartsInv
    <3> QED BY <1>5, <3>1, <3>2, <3>3, <3>4, <3>5 DEF PartsInv
  <2>6. StoredInv(r, C)'
    <3>1. SUFFICES ASSUME r.stored PROVE StoredInv(r, C)'
      BY DEF StoredInv
    <3>2. Stored(r.id) /\ r.n <= Len(cold) /\ r.hi <= Len(cold)
      BY <1>3, <3>1 DEF StoredInv
    <3>3. r.n <= Len(cold') /\ r.hi <= Len(cold')
      BY <1>3, <2>1, <2>3, <3>2
    <3>4. \A x \in {r.id[2]} : FindTx(x) \subseteq FindTx(x)'
      BY <2>2 DEF FindTx
    <3>5. r.id[1] \in {"number", "hash", "tx"}
      BY <3>2 DEF Stored
    <3>6. CASE r.id[1] = "number"
      <4>1. r.id \in Ids(r.op) /\ r.op \in Op
        BY <1>3 DEF IsRequest
      <4>2. r.id[2] \in Nat
        BY <3>6, <4>1, IdFacts
      <4>3. r.id[2] <= Len(cold)
        BY <3>2, <3>6 DEF Stored
      <4>4. r.id[2] <= Len(cold')
        BY <2>1, <2>3, <4>2, <4>3
      <4>5. Stored(r.id)'
        BY <3>6, <4>4 DEF Stored
      <4> QED BY <1>3, <3>1, <3>3, <4>5 DEF StoredInv
    <3>7. CASE r.id[1] = "hash"
      <4>1. Stored(r.id)'
        BY <2>2, <3>2, <3>7 DEF Stored
      <4> QED BY <1>3, <3>1, <3>3, <4>1 DEF StoredInv
    <3>8. CASE r.id[1] = "tx"
      <4>1. Stored(r.id)'
        BY <3>2, <3>4, <3>8 DEF Stored
      <4> QED BY <1>3, <3>1, <3>3, <4>1 DEF StoredInv
    <3> QED BY <3>5, <3>6, <3>7, <3>8
  <2> QED BY <1>2, <2>4, <2>5, <2>6 DEF ActiveInv
<1> QED BY <1>4, <1>5

\* The requests, while the node appends or publishes blocks, or is amid a revert.
LEMMA NodeRequests ==
  ASSUME IInv, StoresInv', req' = req, Kept \/ Reverting, Reverting' => Reverting
  PROVE  RequestsInv'
<1>1. DOMAIN req = Client /\ (\A d \in Client : RequestInv(req[d])) /\ StoresInv
  BY DEF IInv, RequestsInv
<1>2. ASSUME NEW d \in Client PROVE RequestInv(req[d])'
  <2>1. PICK p : p = req[d]
    OBVIOUS
  <2>2. CASE p = NoRequest
    BY <2>1, <2>2 DEF RequestInv
  <2>3. CASE ActiveInv(p)
    <3>1. Reverting => p.rewound
      BY <2>3 DEF ActiveInv, PartsInv
    <3>2. Kept \/ p.rewound
      BY <3>1
    <3>3. Reverting' => p.rewound
      BY <3>1
    <3>4. ActiveInv(p)'
      BY <1>1, <2>3, <3>2, <3>3, ActiveKept
    <3> QED BY <2>1, <3>4 DEF RequestInv
  <2> QED BY <1>1, <2>1, <2>2, <2>3 DEF RequestInv
<1> QED BY <1>1, <1>2 DEF RequestsInv

\* The semaphore.
LEMMA NodeSemaphore ==
  ASSUME IInv, UNCHANGED <<permits, queue>>,
         \A c \in Client : req'[c].holds = req[c].holds /\ req'[c].todo = req[c].todo
  PROVE  SemaphoreInv'
<1>1. SemaphoreInv /\ permits' = permits /\ queue' = queue
  BY DEF IInv
<1>2. Holders' = Holders
  BY DEF Holders
<1>3. \A i \in 1..Len(queue) : Reads(queue[i], "permit")'
  BY <1>1 DEF SemaphoreInv, Reads
<1> QED BY <1>1, <1>2, <1>3 DEF SemaphoreInv

\* The cache, while blocks are only appended.
LEMMA NodeCache ==
  ASSUME IInv, req' = req, UNCHANGED <<cacheVars, mayCall>>, reorgs' >= reorgs,
         reorgs' = 0 => latest' \in Nat /\ latest' >= latest /\ Kept
  PROVE  CacheInv' /\ CallsInv'
<1>1. mayCall' = mayCall /\ cacheBlock' = cacheBlock /\ cacheTip' = cacheTip
  BY DEF cacheVars
<1>2. CallsInv'
  BY <1>1 DEF IInv, CallsInv
<1>3. ASSUME reorgs' = 0, NEW d \in Client, Alone(d)'
      PROVE  CacheFresh' /\ FeeInv(req[d], Coming(req[d].todo))'
  <2>1. PICK p : p = req[d]
    OBVIOUS
  <2>2. reorgs = 0
    BY <1>3 DEF IInv, StoresInv
  <2>3. CacheFresh /\ FeeInv(p, Coming(p.todo))
    BY <1>1, <1>3, <2>1, <2>2 DEF IInv, CacheInv, Alone
  <2>4. /\ latest \in Nat /\ latest' \in Nat /\ latest <= Len(chain) /\ Len(chain) \in Nat
        /\ latest' >= latest /\ \A i \in 1..Len(chain) : chain'[i] = chain[i]
    BY <1>3, <2>2 DEF IInv, StoresInv, Kept
  <2>5. cacheBlock \in Nat
    BY DEF IInv, CacheInv
  <2>6. ASSUME NEW n \in Nat, n <= latest PROVE Window(n)' = Window(n)
    <3>1. WindowStart(n) \in Nat /\ WindowStart(n) >= 1 /\ WindowStart(n)' = WindowStart(n)
      BY WindowFacts DEF WindowStart
    <3>2. \A i \in WindowStart(n)..n : chain'[i] = chain[i]
      BY <2>4, <2>6, <3>1
    <3> QED BY <3>1, <3>2 DEF Window
  <2>7. CacheFresh'
    <3>1. cacheBlock <= latest'
      BY <2>3, <2>4, <2>5 DEF CacheFresh
    <3>2. (cacheBlock = latest => cacheTip \subseteq Window(latest))'
      <4>1. SUFFICES ASSUME cacheBlock = latest' PROVE (cacheTip \subseteq Window(latest))'
        BY <1>1
      <4>2. cacheBlock = latest /\ latest' = latest
        BY <2>3, <2>4, <2>5, <4>1 DEF CacheFresh
      <4>3. PICK n \in Nat : n = latest
        BY <2>4
      <4>4. Window(n)' = Window(n)
        BY <2>4, <2>6, <4>3
      <4>5. cacheTip \subseteq Window(n)
        BY <2>3, <4>2, <4>3 DEF CacheFresh
      <4>6. Window(latest)' = Window(n)'
        BY <4>2, <4>3 DEF Window
      <4> QED BY <1>1, <4>4, <4>5, <4>6
    <3> QED BY <1>1, <3>1, <3>2 DEF CacheFresh
  <2>8. FeeInv(p, Coming(p.todo))'
    <3>1. SUFFICES ASSUME p.op \in Fees PROVE FeeInv(p, Coming(p.todo))'
      BY DEF FeeInv
    <3>2. p.n \in Nat
      <4>1. p # NoRequest
        BY <3>1, RecordFacts DEF Fees
      <4>2. ActiveInv(p)
        BY <2>1, <4>1 DEF IInv, RequestsInv, RequestInv
      <4> QED BY <4>2 DEF ActiveInv, IsRequest
    <3>3. p.n <= latest
      BY <2>3, <3>1 DEF FeeInv
    <3>4. Window(p.n)' = Window(p.n)
      BY <2>6, <3>2, <3>3
    <3>5. p.n <= latest'
      BY <2>4, <3>2, <3>3
    <3> QED BY <1>1, <2>3, <3>1, <3>4, <3>5 DEF FeeInv
  <2> QED BY <2>1, <2>7, <2>8
<1>4. CacheInv'
  BY <1>1, <1>3 DEF IInv, CacheInv
<1> QED BY <1>2, <1>4

\* append_blocks
LEMMA StepAppendBlock ==
  ASSUME IInv, AppendBlock
  PROVE  IInv'
<1>1. /\ npc \in {"idle", "commit"} /\ npc' = "commit" /\ req' = req /\ reorgs' = reorgs
      /\ cold' = cold /\ latest' = latest /\ target' = target
      /\ UNCHANGED <<permits, queue>> /\ UNCHANGED <<cacheVars, mayCall>>
  BY DEF AppendBlock
<1>2. PICK b \in Block : /\ num[b] = Len(chain) + 1 /\ parent[b] = Last(chain)
                         /\ chain' = Append(chain, b)
  BY DEF AppendBlock
<1>3. StoresInv /\ chain \in Seq(Block) /\ chain # <<>> /\ cold \in Seq(Block)
  BY DEF IInv, StoresInv
<1>4. PICK t : t = Append(chain, b)
  OBVIOUS
<1>5. PICK l : l = Len(chain)
  OBVIOUS
<1>6. /\ t \in Seq(Block) /\ Len(t) = l + 1 /\ l \in Nat /\ t # <<>>
      /\ \A i \in 1..l : t[i] = chain[i]
  BY <1>3, <1>4, <1>5
<1>7. IsChain(t)
  <2>1. LinkedFrom(chain, 1) /\ 1 \in Nat /\ num[b] = 1 + Len(chain)
    BY <1>2, <1>3, <1>5, <1>6 DEF StoresInv, IsChain
  <2>2. parent[b] = chain[Len(chain)]
    BY <1>2, <1>3 DEF Last
  <2> QED BY <1>3, <1>4, <2>1, <2>2, LinkAppend DEF IsChain
<1>8. ~Reverting /\ ~Reverting'
  BY <1>1 DEF Reverting
<1>9. Len(cold) <= l /\ latest <= l /\ Len(cold) \in Nat /\ latest \in Nat
  BY <1>1, <1>3, <1>5, <1>8 DEF StoresInv
<1>10. \A i \in 1..Len(cold) : i <= Len(t) => cold[i] = t[i]
  <2>1. \A i \in 1..Len(cold) : i \in 1..l /\ cold[i] = chain[i]
    BY <1>3, <1>5, <1>6, <1>9 DEF StoresInv
  <2> QED BY <1>6, <2>1
<1>11. chain' = t
  BY <1>2, <1>4
<1>12. Len(cold) <= Len(t) /\ latest <= Len(t)
  BY <1>6, <1>9
<1>13. StoresInv'
  <2>1. /\ chain' \in Seq(Block) /\ cold' \in Seq(Block) /\ latest' \in Nat \ {0}
        /\ npc' \in {"idle", "commit", "truncate", "rewind"}
        /\ target' \in Nat /\ reorgs' \in 0..MaxReorgs
    BY <1>1, <1>3, <1>6, <1>11 DEF StoresInv
  <2>2. IsChain(chain)' /\ IsChain(cold)' /\ chain' # <<>> /\ cold' # <<>>
    BY <1>1, <1>3, <1>6, <1>7, <1>11 DEF StoresInv
  <2> QED BY <1>1, <1>8, <1>10, <1>11, <1>12, <2>1, <2>2 DEF StoresInv
<1>14. Kept
  BY <1>1, <1>3, <1>5, <1>6, <1>11 DEF Kept
<1>15. RequestsInv'
  BY <1>1, <1>8, <1>13, <1>14, NodeRequests
<1>16. SemaphoreInv'
  BY <1>1, NodeSemaphore
<1>17. CacheInv' /\ CallsInv'
  <2>1. reorgs' >= reorgs /\ latest' \in Nat /\ latest' >= latest
    BY <1>1, <1>3, <1>9 DEF StoresInv
  <2> QED BY <1>1, <1>14, <2>1, NodeCache
<1> QED BY <1>13, <1>15, <1>16, <1>17 DEF IInv

\* Cold storage takes the next block.
LEMMA StepColdApply ==
  ASSUME IInv, ColdApply
  PROVE  IInv'
<1>1. /\ npc # "truncate" /\ Len(cold) < Len(chain)
      /\ cold' = Append(cold, chain[Len(cold) + 1])
      /\ chain' = chain /\ latest' = latest /\ npc' = npc /\ target' = target
      /\ reorgs' = reorgs /\ req' = req
      /\ UNCHANGED <<permits, queue>> /\ UNCHANGED <<cacheVars, mayCall>>
  BY DEF ColdApply
<1>2. /\ StoresInv /\ chain \in Seq(Block) /\ cold \in Seq(Block) /\ Len(chain) \in Nat
      /\ latest \in Nat
  BY DEF IInv, StoresInv
<1>3. PICK l : l = Len(cold)
  OBVIOUS
<1>4. l \in Nat /\ l < Len(chain) /\ l + 1 \in 1..Len(chain)
  BY <1>1, <1>2, <1>3
<1>5. PICK b \in Block : b = chain[l + 1]
  BY <1>2, <1>4
<1>6. PICK t : t = Append(cold, b)
  OBVIOUS
<1>7. /\ t \in Seq(Block) /\ Len(t) = l + 1 /\ t # <<>> /\ t[l + 1] = b
      /\ \A i \in 1..l : t[i] = cold[i]
  BY <1>2, <1>3, <1>6
<1>8. \A i \in 1..Len(t) : t[i] = chain[i]
  <2>1. \A i \in 1..l : cold[i] = chain[i]
    BY <1>2, <1>3, <1>4 DEF StoresInv
  <2>2. \A i \in 1..Len(t) : i \in 1..l \/ i = l + 1
    BY <1>4, <1>7
  <2> QED BY <1>5, <1>7, <2>1, <2>2
<1>9. Len(t) <= Len(chain)
  BY <1>2, <1>4, <1>7
<1>10. IsChain(t)
  <2>1. IsChain(chain)
    BY <1>2 DEF StoresInv
  <2> QED BY <1>2, <1>7, <1>8, <1>9, <2>1, CopyIsChain
<1>11. cold' = t
  BY <1>1, <1>3, <1>5, <1>6
<1>12. Reverting' <=> Reverting
  BY <1>1 DEF Reverting
<1>13. StoresInv'
  BY <1>1, <1>2, <1>7, <1>8, <1>9, <1>10, <1>11, <1>12 DEF StoresInv
<1>14. Kept
  BY <1>1, <1>2, <1>3, <1>4, <1>7, <1>11 DEF Kept
<1>15. RequestsInv'
  BY <1>1, <1>12, <1>13, <1>14, NodeRequests
<1>16. SemaphoreInv'
  BY <1>1, NodeSemaphore
<1>17. CacheInv' /\ CallsInv'
  <2>1. reorgs' >= reorgs /\ latest' \in Nat /\ latest' >= latest
    BY <1>1, <1>2 DEF StoresInv
  <2> QED BY <1>1, <1>14, <2>1, NodeCache
<1> QED BY <1>13, <1>15, <1>16, <1>17 DEF IInv

\* update_block_tags
LEMMA StepUpdateLatest ==
  ASSUME IInv, UpdateLatest
  PROVE  IInv'
<1>1. /\ npc = "commit" /\ npc' = "idle" /\ latest' = Len(chain)
      /\ chain' = chain /\ cold' = cold /\ target' = target
      /\ reorgs' = reorgs /\ req' = req
      /\ UNCHANGED <<permits, queue>> /\ UNCHANGED <<cacheVars, mayCall>>
  BY DEF UpdateLatest
<1>2. ~Reverting /\ ~Reverting'
  BY <1>1 DEF Reverting
<1>3. /\ StoresInv /\ chain \in Seq(Block) /\ cold \in Seq(Block) /\ Len(chain) \in Nat
      /\ Len(chain) # 0 /\ latest \in Nat /\ latest <= Len(chain) /\ Len(cold) \in Nat
  BY <1>2 DEF IInv, StoresInv
<1>4. StoresInv'
  BY <1>1, <1>2, <1>3 DEF StoresInv
<1>5. Kept
  BY <1>1, <1>3 DEF Kept
<1>6. RequestsInv'
  BY <1>1, <1>2, <1>4, <1>5, NodeRequests
<1>7. SemaphoreInv'
  BY <1>1, NodeSemaphore
<1>8. CacheInv' /\ CallsInv'
  <2>1. reorgs' >= reorgs /\ latest' \in Nat /\ latest' >= latest
    BY <1>1, <1>3 DEF StoresInv
  <2> QED BY <1>1, <1>5, <2>1, NodeCache
<1> QED BY <1>4, <1>6, <1>7, <1>8 DEF IInv

\* drain_above, the cold half
LEMMA StepTruncateCold ==
  ASSUME IInv, TruncateCold
  PROVE  IInv'
<1>1. /\ npc = "truncate" /\ npc' = "rewind" /\ cold' = Prefix(cold, Min({target, Len(cold)}))
      /\ chain' = chain /\ latest' = latest /\ target' = target
      /\ reorgs' = reorgs /\ req' = req
      /\ UNCHANGED <<permits, queue>> /\ UNCHANGED <<cacheVars, mayCall>>
  BY DEF TruncateCold
<1>2. Reverting /\ Reverting'
  BY <1>1 DEF Reverting
<1>3. /\ StoresInv /\ chain \in Seq(Block) /\ cold \in Seq(Block) /\ Len(chain) \in Nat
      /\ target = Len(chain) /\ Len(chain) >= 1 /\ Len(cold) \in Nat /\ Len(cold) >= 1
      /\ reorgs > 0 /\ reorgs \in Nat /\ IsChain(cold)
  BY <1>2 DEF IInv, StoresInv
<1>4. PICK l : l = Len(cold)
  OBVIOUS
<1>5. PICK k : k = Min({target, l})
  OBVIOUS
<1>6. k \in Nat /\ k >= 1 /\ k <= l /\ k <= Len(chain)
  <2>1. target \in Int /\ l \in Int
    BY <1>3, <1>4
  <2>2. k \in {target, l} /\ k <= target /\ k <= l
    BY <1>5, <2>1, MinOfTwo
  <2> QED BY <1>3, <1>4, <2>2
<1>7. PICK t : t = Prefix(cold, k)
  OBVIOUS
<1>8. t \in Seq(Block) /\ Len(t) = k /\ \A i \in 1..k : t[i] = cold[i]
  BY <1>3, <1>4, <1>6, <1>7, PrefixFacts
<1>9. IsChain(t)
  BY <1>3, <1>4, <1>6, <1>7, PrefixIsChain
<1>10. t # <<>> /\ Len(t) <= Len(chain)
  BY <1>6, <1>8
<1>11. \A i \in 1..Len(t) : i <= Len(chain) => t[i] = chain[i]
  <2>1. \A i \in 1..k : i \in 1..Len(cold) /\ i <= Len(chain)
    BY <1>3, <1>4, <1>6
  <2>2. \A i \in 1..Len(cold) : i <= Len(chain) => cold[i] = chain[i]
    BY <1>3 DEF StoresInv
  <2> QED BY <1>8, <2>1, <2>2
<1>12. cold' = t
  BY <1>1, <1>4, <1>5, <1>7
<1>13. StoresInv'
  BY <1>1, <1>2, <1>3, <1>8, <1>9, <1>10, <1>11, <1>12 DEF StoresInv
<1>14. RequestsInv'
  BY <1>1, <1>2, <1>13, NodeRequests
<1>15. SemaphoreInv'
  BY <1>1, NodeSemaphore
<1>16. CacheInv' /\ CallsInv'
  <2>1. reorgs' >= reorgs /\ reorgs' # 0
    BY <1>1, <1>3
  <2> QED BY <1>1, <2>1, NodeCache
<1> QED BY <1>13, <1>14, <1>15, <1>16 DEF IInv

\* rewind_to
LEMMA StepRewindLatest ==
  ASSUME IInv, RewindLatest
  PROVE  IInv'
<1>1. /\ npc = "rewind" /\ npc' = "commit" /\ latest' = Min({latest, target}) /\ target' = 0
      /\ chain' = chain /\ cold' = cold
      /\ reorgs' = reorgs /\ req' = req
      /\ UNCHANGED <<permits, queue>> /\ UNCHANGED <<cacheVars, mayCall>>
  BY DEF RewindLatest, Rewound
<1>2. Reverting /\ ~Reverting'
  BY <1>1 DEF Reverting
<1>3. /\ StoresInv /\ chain \in Seq(Block) /\ cold \in Seq(Block) /\ Len(chain) \in Nat
      /\ target = Len(chain) /\ Len(chain) >= 1 /\ Len(cold) <= Len(chain)
      /\ reorgs > 0 /\ reorgs \in Nat /\ latest \in Nat \ {0}
  BY <1>1, <1>2 DEF IInv, StoresInv
<1>4. latest' \in Nat \ {0} /\ latest' <= Len(chain)
  <2>1. latest \in Int /\ target \in Int
    BY <1>3
  <2>2. latest' \in {latest, target} /\ latest' <= target
    BY <1>1, <2>1, MinOfTwo
  <2> QED BY <1>3, <2>2
<1>5. StoresInv'
  BY <1>1, <1>2, <1>3, <1>4 DEF StoresInv
<1>6. RequestsInv'
  BY <1>1, <1>2, <1>5, NodeRequests
<1>7. SemaphoreInv'
  BY <1>1, NodeSemaphore
<1>8. CacheInv' /\ CallsInv'
  <2>1. reorgs' >= reorgs /\ reorgs' # 0
    BY <1>1, <1>3
  <2> QED BY <1>1, <2>1, NodeCache
<1> QED BY <1>5, <1>6, <1>7, <1>8 DEF IInv

\* A request that was in flight when the revert began.
LEMMA ActiveRewound ==
  ASSUME NEW r, ActiveInv(r), NEW q,
         q = [r EXCEPT !.rewound = TRUE, !.settled = FALSE, !.stored = FALSE]
  PROVE  ActiveInv(q) /\ q.rewound /\ q.holds = r.holds /\ q.todo = r.todo /\ q.op = r.op
<1>1. IsRequest(r)
  BY DEF ActiveInv
<1>2. /\ DOMAIN q = DOMAIN r /\ q.op = r.op /\ q.id = r.id /\ q.todo = r.todo /\ q.out = r.out
      /\ q.n = r.n /\ q.hi = r.hi /\ q.snap = r.snap /\ q.from = r.from /\ q.base = r.base
      /\ q.body = r.body /\ q.whole = r.whole /\ q.holds = r.holds /\ q.gone = r.gone
      /\ q.rewound = TRUE /\ q.settled = FALSE /\ q.stored = FALSE
  BY <1>1, RecordFacts DEF IsRequest
<1>3. IsRequest(q) /\ IsPlan(q.op, q.todo) /\ (q.out # "none" => q.todo = <<>>)
  BY <1>1, <1>2 DEF ActiveInv, IsRequest
<1>4. NeedsInv(q, Coming(q.todo))
  BY <1>2 DEF ActiveInv, NeedsInv
<1>5. StoredInv(q, Coming(q.todo)) /\ MayMiss(q)
  BY <1>2 DEF StoredInv, MayMiss
<1>6. SnapInv(q) /\ PartsInv(q)
  BY <1>2 DEF ActiveInv, SnapInv, PartsInv
<1>7. PermitInv(q)
  BY <1>2 DEF ActiveInv, PermitInv
<1>8. q.out = "ok" => FromOneReader(q)
  BY <1>2 DEF ActiveInv, FromOneReader
<1> QED BY <1>2, <1>3, <1>4, <1>5, <1>6, <1>7, <1>8 DEF ActiveInv

\* drain_above, the hot half
LEMMA StepDrainHot ==
  ASSUME IInv, DrainHot
  PROVE  IInv'
<1>1. /\ npc = "idle" /\ reorgs < MaxReorgs /\ reorgs' = reorgs + 1 /\ npc' = "truncate"
      /\ cold' = cold /\ latest' = latest
      /\ req' = [c \in Client |->
                   IF req[c].op = "none" THEN req[c]
                   ELSE [req[c] EXCEPT !.rewound = TRUE, !.settled = FALSE, !.stored = FALSE]]
      /\ UNCHANGED <<permits, queue>> /\ UNCHANGED <<cacheVars, mayCall>>
  BY DEF DrainHot
<1>2. PICK k \in 1..(Len(chain) - 1) : target' = k /\ chain' = Prefix(chain, k)
  BY DEF DrainHot
<1>3. /\ StoresInv /\ chain \in Seq(Block) /\ cold \in Seq(Block) /\ Len(chain) \in Nat
      /\ reorgs \in Nat /\ MaxReorgs \in Nat /\ IsChain(chain)
  BY RpcReadersAssumption DEF IInv, StoresInv
<1>4. k \in Nat /\ k >= 1 /\ k <= Len(chain)
  BY <1>2, <1>3
<1>5. PICK t : t = Prefix(chain, k)
  OBVIOUS
<1>6. t \in Seq(Block) /\ Len(t) = k /\ \A i \in 1..k : t[i] = chain[i]
  BY <1>3, <1>4, <1>5, PrefixFacts
<1>7. IsChain(t)
  BY <1>3, <1>4, <1>5, PrefixIsChain
<1>8. \A i \in 1..Len(cold) : i <= Len(t) => cold[i] = t[i]
  <2>1. \A i \in 1..Len(cold) : i <= Len(chain) => cold[i] = chain[i]
    BY <1>3 DEF StoresInv
  <2>2. \A i \in 1..Len(cold) : i <= k => i \in 1..k /\ i <= Len(chain)
    BY <1>3, <1>4
  <2> QED BY <1>6, <2>1, <2>2
<1>9. t # <<>> /\ chain' = t
  BY <1>2, <1>4, <1>5, <1>6
<1>10. Reverting' /\ reorgs' \in 0..MaxReorgs /\ reorgs' > 0
  <2>1. Reverting'
    BY <1>1 DEF Reverting
  <2>2. reorgs < MaxReorgs /\ reorgs' = reorgs + 1 /\ reorgs \in Nat /\ MaxReorgs \in Nat
    BY <1>1, <1>3
  <2>3. reorgs' \in 0..MaxReorgs /\ reorgs' > 0
    BY ONLY <2>2
  <2> QED BY <2>1, <2>3
<1>11. StoresInv'
  <2>1. /\ chain' \in Seq(Block) /\ cold' \in Seq(Block) /\ latest' \in Nat \ {0}
        /\ npc' \in {"idle", "commit", "truncate", "rewind"}
        /\ target' \in Nat /\ reorgs' \in 0..MaxReorgs
    BY <1>1, <1>2, <1>3, <1>4, <1>6, <1>9, <1>10 DEF StoresInv
  <2>2. IsChain(chain)' /\ IsChain(cold)' /\ chain' # <<>> /\ cold' # <<>>
    BY <1>1, <1>3, <1>7, <1>9 DEF StoresInv
  <2>3. target' = Len(chain')
    BY <1>2, <1>6, <1>9
  <2> QED BY <1>1, <1>8, <1>9, <1>10, <2>1, <2>2, <2>3 DEF StoresInv
<1>12. DOMAIN req = Client /\ (\A d \in Client : RequestInv(req[d])) /\ CallsInv /\ CacheInv
  BY DEF IInv, RequestsInv
<1>13. ASSUME NEW d \in Client
       PROVE  /\ RequestInv(req[d])' /\ req'[d].holds = req[d].holds
              /\ req'[d].todo = req[d].todo /\ req'[d].op = req[d].op
  <2>1. PICK p : p = req[d]
    OBVIOUS
  <2>2. CASE p = NoRequest
    <3>1. req'[d] = p
      BY <1>1, <2>1, <2>2, RecordFacts
    <3> QED BY <2>1, <2>2, <3>1 DEF RequestInv
  <2>3. CASE ActiveInv(p)
    <3>1. p.op # "none"
      BY <2>3, OpFacts DEF ActiveInv, IsRequest
    <3>2. PICK q : q = [p EXCEPT !.rewound = TRUE, !.settled = FALSE, !.stored = FALSE]
      OBVIOUS
    <3>3. req'[d] = q
      BY <1>1, <2>1, <3>1, <3>2
    <3>4. ActiveInv(q) /\ q.rewound /\ q.holds = p.holds /\ q.todo = p.todo /\ q.op = p.op
      BY <2>3, <3>2, ActiveRewound
    <3>5. ActiveInv(q)'
      BY <1>3, <1>11, <3>4, ActiveKept
    <3> QED BY <2>1, <3>3, <3>4, <3>5 DEF RequestInv
  <2> QED BY <1>12, <2>1, <2>2, <2>3 DEF RequestInv
<1>14. RequestsInv'
  BY <1>1, <1>13 DEF RequestsInv
<1>15. SemaphoreInv'
  BY <1>1, <1>13, NodeSemaphore
<1>16. CacheInv' /\ CallsInv'
  <2>0. reorgs' # 0
    <3>1. reorgs' = reorgs + 1 /\ reorgs \in Nat
      BY <1>1, <1>3
    <3> QED BY ONLY <3>1
  <2>1. cacheBlock' = cacheBlock /\ cacheTip' = cacheTip /\ mayCall' = mayCall /\ reorgs' # 0
    BY <1>1, <2>0 DEF cacheVars
  <2>2. CacheInv'
    BY <1>12, <2>1 DEF CacheInv
  <2>3. CallsInv'
    BY <1>12, <1>13, <2>1 DEF CallsInv
  <2> QED BY <2>2, <2>3
<1> QED BY <1>11, <1>14, <1>15, <1>16 DEF IInv

-------------------------------------------------------------------------------
(***************************************************************************)
(* The invariant is inductive.                                             *)
(***************************************************************************)
\* Nothing is in flight, genesis is stored.
LEMMA InitIInv == Init => IInv
<1> SUFFICES ASSUME Init PROVE IInv
  OBVIOUS
<1>1. PICK b \in Block : num[b] = 1 /\ chain = <<b>>
  BY DEF Init
<1>2. /\ cold = chain /\ latest = 1 /\ npc = "idle" /\ target = 0 /\ reorgs = 0
      /\ req = [c \in Client |-> NoRequest] /\ permits = MaxTracing /\ queue = <<>>
      /\ cacheBlock = 0 /\ cacheTip = {} /\ mayCall \in Workloads
  BY DEF Init
<1>3. chain \in Seq(Block) /\ Len(chain) = 1 /\ chain # <<>> /\ IsChain(chain) /\ ~Reverting
  BY <1>1, <1>2 DEF IsChain, LinkedFrom, Reverting
<1>4. StoresInv
  BY <1>2, <1>3, RpcReadersAssumption DEF StoresInv
<1>5. RequestsInv
  BY <1>2 DEF RequestsInv, RequestInv
<1>6. SemaphoreInv
  <2>1. Holders = {}
    BY <1>2, RecordFacts DEF Holders
  <2>2. Cardinality(Holders) = 0
    BY <2>1, FS_EmptySet
  <2> QED BY <1>2, <2>2, RpcReadersAssumption DEF SemaphoreInv
<1>7. CacheInv
  <2>1. \A c \in Client : req[c].op \notin Fees
    BY <1>2, RecordFacts DEF Fees
  <2> QED BY <1>2, <2>1 DEF CacheInv, CacheFresh, FeeInv
<1>8. CallsInv
  BY <1>2, RecordFacts DEF CallsInv
<1> QED BY <1>4, <1>5, <1>6, <1>7, <1>8 DEF IInv

\* Every step, of the node or of a client, preserves it.
LEMMA NextIInv == IInv /\ [Next]_vars => IInv'
<1> SUFFICES ASSUME IInv, [Next]_vars PROVE IInv'
  OBVIOUS
<1>1. CASE NodeStep
  <2>1. \/ AppendBlock \/ ColdApply \/ UpdateLatest
        \/ DrainHot \/ TruncateCold \/ RewindLatest
    BY <1>1 DEF NodeStep
  <2> QED BY <2>1, StepAppendBlock, StepColdApply, StepUpdateLatest, StepDrainHot,
             StepTruncateCold, StepRewindLatest
<1>2. ASSUME NEW c \in Client, HotRead(c) PROVE IInv'
  <2>1. \/ ResolveBlockId(c) \/ OpenReader(c) \/ ResolveHeader(c)
        \/ ResolveEvmBlock(c) \/ ReadAccount(c) \/ ReadHotHeader(c)
        \/ ReadStateBefore(c) \/ FindAndTrace(c) \/ BundleTimeout(c)
    BY <1>2 DEF HotRead
  <2> QED BY <2>1, StepResolveBlockId, StepOpenReader, StepResolveHeader, StepResolveEvmBlock,
             StepReadAccount, StepReadHotHeader, StepReadStateBefore, StepFindAndTrace,
             StepBundleTimeout
<1>3. ASSUME NEW c \in Client, ColdRead(c) PROVE IInv'
  <2>1. \/ ReadColdHeader(c) \/ ReadBaseFee(c) \/ ReadColdTxs(c)
        \/ ReadColdReceipts(c) \/ ReadColdTx(c) \/ ReadTxOfReceipt(c)
        \/ ReadTxByIndex(c)
    BY <1>3 DEF ColdRead
  <2> QED BY <2>1, StepReadColdHeader, StepReadBaseFee, StepReadColdTxs, StepReadColdReceipts,
             StepReadColdTx, StepReadTxOfReceipt, StepReadTxByIndex
<1>4. ASSUME NEW c \in Client, RangeRead(c) PROVE IInv'
  <2>1. \/ ResolveFrom(c) \/ ResolveTo(c) \/ ReadLogs(c)
        \/ TraceFilterRange(c) \/ TraceFilterLoop(c) \/ ReadFilterHeader(c)
        \/ ReadHistory(c) \/ FeeHistoryLoop(c)
    BY <1>4 DEF RangeRead
  <2> QED BY <2>1, StepResolveFrom, StepResolveTo, StepReadLogs, StepTraceFilterRange,
             StepTraceFilterLoop, StepReadFilterHeader, StepReadHistory, StepFeeHistoryLoop
<1>5. ASSUME NEW c \in Client, OracleStep(c) PROVE IInv'
  <2>1. \/ ReadLatest(c) \/ CacheGetBlock(c) \/ CacheGetTip(c)
        \/ ReadWindow(c) \/ ReadWindowTxs(c)
        \/ CacheSetTip(c) \/ CacheSetBlock(c)
    BY <1>5 DEF OracleStep
  <2> QED BY <2>1, StepReadLatest, StepCacheGetBlock, StepCacheGetTip, StepReadWindow,
             StepReadWindowTxs, StepCacheSetTip, StepCacheSetBlock
<1>6. ASSUME NEW c \in Client, Progress(c) PROVE IInv'
  <2>1. \/ AcquirePermit(c) \/ GrantPermit(c) \/ HotRead(c) \/ ColdRead(c)
        \/ RangeRead(c) \/ OracleStep(c) \/ Return(c)
    BY <1>6 DEF Progress
  <2> QED BY <1>2, <1>3, <1>4, <1>5, <2>1, StepAcquirePermit, StepGrantPermit, StepReturn
<1>7. ASSUME NEW c \in Client, Call(c) \/ Progress(c) \/ Fails(c) \/ Disconnect(c)
      PROVE  IInv'
  BY <1>6, <1>7, StepCall, StepFails, StepDisconnect
<1>8. CASE UNCHANGED vars
  <2>1. /\ UNCHANGED nodeVars /\ req' = req /\ UNCHANGED <<permits, queue>>
        /\ UNCHANGED <<nodeVars, cacheVars, mayCall>>
    BY <1>8 DEF vars
  <2>2. StoresInv'
    BY <2>1, StoresSame DEF IInv
  <2>3. RequestsInv'
    BY <2>1, RequestsSame
  <2>4. SemaphoreInv'
    BY <2>1, NodeSemaphore
  <2>5. CacheInv' /\ CallsInv'
    BY <2>1, CacheSame
  <2> QED BY <2>2, <2>3, <2>4, <2>5 DEF IInv
<1> QED BY <1>1, <1>7, <1>8 DEF Next

\* The invariant of every behaviour.
LEMMA AlwaysIInv == Spec => []IInv
  BY InitIInv, NextIInv, PTL DEF Spec

-------------------------------------------------------------------------------
(***************************************************************************)
(* What the clients can rely on.                                           *)
(***************************************************************************)
\* A queue without repetitions is as long as its set.
LEMMA QueueLength ==
  ASSUME NEW S, NEW t \in Seq(S), \A i, j \in 1..Len(t) : t[i] = t[j] => i = j
  PROVE  Cardinality(Range(t)) = Len(t)
<1>1. PICK l \in Nat : l = Len(t)
  OBVIOUS
<1>2. DOMAIN t = 1..l /\ t \in [1..l -> Range(t)]
  BY <1>1 DEF Range
<1>3. t \in Bijection(1..l, Range(t))
  BY <1>1, <1>2 DEF Bijection, Injection, Surjection, IsInjective, Range
<1>4. ExistsBijection(1..l, Range(t))
  BY <1>3 DEF ExistsBijection
<1>5. IsFiniteSet(1..l) /\ Cardinality(1..l) = l
  <2>1. 1 \in Int /\ l \in Int /\ (IF 1 > l THEN 0 ELSE l - 1 + 1) = l
    OBVIOUS
  <2> QED BY <2>1, FS_Interval
<1> QED BY <1>1, <1>4, <1>5, FS_Bijection

\* A request in flight or answered.
LEMMA InFlight ==
  ASSUME IInv, NEW c \in Client, req[c] # NoRequest
  PROVE  ActiveInv(req[c])
  BY DEF IInv, RequestsInv, RequestInv

\* For every set of clients, every workload and every number of reverts the
\* state of the handlers keeps its type: the latest tag never falls below
\* genesis, the free permits never exceed max_tracing_requests or fall below
\* 0, and no client waits twice for one.
THEOREM TypeCorrect == Spec => []TypeOK
<1>1. ASSUME IInv PROVE TypeOK
  <2>1. StoresInv /\ SemaphoreInv /\ CacheInv /\ CallsInv
    BY <1>1 DEF IInv
  <2>2. ASSUME NEW c \in Client
        PROVE  LET r == req[c]
               IN /\ DOMAIN r = DOMAIN NoRequest
                  /\ r.op \in Op \cup {"none"} /\ r.out \in Outcomes
                  /\ r.n \in Nat /\ r.hi \in Nat /\ r.snap \in Seq(Block)
                  /\ r.from \cup r.base \cup r.body \subseteq Block
    <3>1. CASE req[c] = NoRequest
      BY <3>1, RecordFacts DEF Outcomes
    <3>2. CASE req[c] # NoRequest
      <4>1. IsRequest(req[c])
        BY <1>1, <3>2, InFlight DEF ActiveInv
      <4> QED BY <4>1 DEF IsRequest
    <3> QED BY <3>1, <3>2
  <2>3. permits \in 0..MaxTracing
    <3>1. permits \in Nat /\ permits + Cardinality(Holders) = MaxTracing
      BY <2>1 DEF SemaphoreInv
    <3> QED BY <3>1, HoldersFinite, RpcReadersAssumption
  <2>4. queue \in Seq(Client) /\ Cardinality(Range(queue)) = Len(queue)
    BY <2>1, QueueLength DEF SemaphoreInv
  <2> QED BY <2>1, <2>2, <2>3, <2>4 DEF TypeOK, StoresInv, CacheInv, CallsInv
<1> QED BY <1>1, AlwaysIInv, PTL

\* Whatever the node appends between the reads of a handler, and however far
\* cold storage lags, the parts of an answer are of one canonical block and the
\* state before it, and none is empty if cold storage had the block when its
\* number was resolved.
THEOREM AnswersAlwaysAgree == Spec => []AnswersAgree
<1>1. ASSUME IInv PROVE AnswersAgree
  <2>1. SUFFICES ASSUME NEW c \in Client, Answered(req[c]), ~req[c].rewound,
                        req[c].op \notin Fees
                 PROVE  LET r == req[c]
                        IN /\ r.from \cup r.base \subseteq Range(chain)
                           /\ r.settled => r.whole
                           /\ r.op \in OneBlock =>
                                /\ \A b \in r.from : \/ num[b] = r.n
                                                     \/ r.op = "account" /\ num[b] < r.n
                                /\ \A b \in r.base : \/ num[b] + 1 = r.n
                                                     \/ num[b] = 1 /\ r.n = 1
    BY DEF AnswersAgree
  <2>2. req[c] # NoRequest
    BY <2>1, RecordFacts DEF Answered
  <2>3. PartsInv(req[c])
    BY <1>1, <2>2, InFlight DEF ActiveInv
  <2> QED BY <2>1, <2>3 DEF PartsInv
<1> QED BY <1>1, AlwaysIInv, PTL

\* Calls, headers and accounts read through one hot storage reader are of one
\* block, the one of the hash asked for, for every number of reverts during the
\* request.
THEOREM OneReaderAlwaysOneBlock == Spec => []OneReaderOneBlock
<1>1. ASSUME IInv PROVE OneReaderOneBlock
  <2>1. SUFFICES ASSUME NEW c \in Client, Answered(req[c]), req[c].op \in OneReader
                 PROVE  LET r == req[c]
                        IN /\ Cardinality(r.from) = 1
                           /\ r.id[1] = "hash" => r.from = {r.id[2]}
    BY DEF OneReaderOneBlock
  <2>2. req[c] # NoRequest
    BY <2>1, RecordFacts DEF Answered
  <2>3. FromOneReader(req[c])
    BY <1>1, <2>1, <2>2, InFlight DEF ActiveInv, Answered
  <2>4. PICK b \in Block : req[c].from = {b} /\ (req[c].id[1] = "hash" => b = req[c].id[2])
    BY <2>1, <2>3, ReaderKinds DEF FromOneReader
  <2>5. Cardinality({b}) = 1
    BY FS_Singleton
  <2> QED BY <2>4, <2>5
<1> QED BY <1>1, AlwaysIInv, PTL

\* No handler answers that a block or a transaction is missing that both stores
\* had when the request came and still have.
THEOREM StoredAlwaysFound == Spec => []StoredIsFound
<1>1. ASSUME IInv PROVE StoredIsFound
  <2>1. SUFFICES ASSUME NEW c \in Client, req[c].stored,
                        "tx" = req[c].id[1] => req[c].id[2] \notin BehindMagic,
                        req[c].out = "absent"
                 PROVE  FALSE
    BY DEF StoredIsFound
  <2>2. req[c] # NoRequest
    BY <2>1, RecordFacts
  <2>3. MayMiss(req[c])
    BY <1>1, <2>1, <2>2, InFlight DEF ActiveInv
  <2> QED BY <2>1, <2>3 DEF MayMiss
<1> QED BY <1>1, AlwaysIInv, PTL

\* However many clients call, fail, disconnect or are answered early, at most
\* max_tracing_requests tracing handlers run past the semaphore.
THEOREM TracingAlwaysBounded == Spec => []TracingBounded
<1>1. ASSUME IInv PROVE TracingBounded
  <2> DEFINE T == {c \in Client : Traces(c) /\ ~req[c].gone}
  <2>1. ASSUME NEW c \in T PROVE c \in Holders
    <3>1. /\ c \in Client /\ NeedsPermit(req[c].op) /\ req[c].todo # <<>> /\ ~req[c].gone
          /\ "permit" \notin Head(req[c].todo)
      BY DEF Traces, Reads
    <3>2. req[c] # NoRequest
      BY <3>1, RecordFacts
    <3>3. PermitInv(req[c])
      BY <1>1, <3>1, <3>2, InFlight DEF ActiveInv
    <3> QED BY <3>1, <3>3 DEF PermitInv, Holders
  <2> HIDE DEF T
  <2>2. IsFiniteSet(Holders) /\ T \subseteq Holders
    BY <2>1, HoldersFinite
  <2>3. Cardinality(T) <= Cardinality(Holders) /\ Cardinality(T) \in Nat
    BY <2>2, FS_Subset, FS_CardinalityType
  <2>4. permits \in Nat /\ permits + Cardinality(Holders) = MaxTracing
    BY <1>1 DEF IInv, SemaphoreInv
  <2>5. Cardinality(T) <= MaxTracing
    BY <2>3, <2>4, HoldersFinite, RpcReadersAssumption
  <2> QED BY <2>5 DEF T, TracingBounded
<1> QED BY <1>1, AlwaysIInv, PTL

\* For every window and every sequence of blocks appended, a tip suggested to
\* the one client that asks is of the window it read, though GasOracleCache sets
\* and reads its block and its tip in separate steps.
THEOREM TipAlwaysOfWindow == Spec => []TipIsOfWindow
<1>1. ASSUME IInv PROVE TipIsOfWindow
  <2>1. SUFFICES ASSUME NEW c \in Client, Answered(req[c]), req[c].op \in Fees, reorgs = 0,
                        \A d \in Client \ {c} : mayCall[d] \cap Fees = {}
                 PROVE  req[c].from \subseteq
                          {chain[i] : i \in WindowStart(req[c].n)..req[c].n}
    BY DEF TipIsOfWindow
  <2>2. FeeInv(req[c], Coming(req[c].todo))
    BY <1>1, <2>1 DEF IInv, CacheInv, Alone
  <2> QED BY <2>1, <2>2 DEF FeeInv, Window
<1> QED BY <1>1, AlwaysIInv, PTL
===============================================================================
