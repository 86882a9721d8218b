---------------------------- MODULE Subscriptions ----------------------------
(***************************************************************************)
(* Push subscriptions (eth_subscribe): the ChainNotifier's bounded         *)
(* broadcast channel, one task per subscription that filters chain events  *)
(* into a buffer and sends the buffer over its client's bounded channel,   *)
(* the table of cancellation tokens, and the thread that cleans it.        *)
(*                                                                         *)
(* One connection is modelled, with its subscriptions and its responses;   *)
(* other connections share only the broadcast channel.  events is all  *)
(* that was ever broadcast; the channel holds its last ChannelCapacity     *)
(* entries.  A block has one log, which matches the client's filter unless *)
(* the block is in Silent, so a block stands for its log.                  *)
(***************************************************************************)
EXTENDS HostChain, FiniteSets, Functions

CONSTANTS
  Sub,              \* subscription ids, fresh from next_id
  Silent,           \* blocks whose log the filter does not match
  ChannelCapacity,  \* capacity of the broadcast channel
  NotifCapacity,    \* notification_capacity of the client's channel
  MaxEvents,        \* bound: chain events sent
  MaxResponses      \* bound: RPC responses sent on the client's channel

\* A capacity of 1 would make half of it no permit at all: see PermitsWanted.
ASSUME SubscriptionsAssumption ==
  /\ Silent \subseteq Block
  /\ ChannelCapacity \in Nat \ {0} /\ NotifCapacity \in Nat \ {0, 1}
  /\ MaxEvents \in Nat /\ MaxResponses \in Nat

VARIABLES
  chain, events, closed,         \* announced chain, broadcasts, senders dropped
  tasks, cancelled,              \* SubscriptionManagerInner.tasks, its tokens
  pc, kind, next, buf, permits,  \* a task: control, filter, receiver, buffer
  open, unread, disconnected,    \* the client's channel; ajj's cancellation
  responses,                     \* responses sent on that channel
  announced,                     \* the chain after each event
  base, got, late,               \* chain at subscribe, items sent, and how many
                                 \* of them after the cancellation
  missed                         \* lagged, or told of a reorg without its logs

nodeVars == <<chain, events, closed, announced>>
tableVars == <<tasks, cancelled>>
taskVars == <<pc, kind, next, buf, permits>>
clientVars == <<open, unread, disconnected, responses>>
ghostVars == <<base, got, late, missed>>
vars == <<nodeVars, tableVars, taskVars, clientVars, ghostVars>>

\* ChainEvent.  A Reorg keeps the first "indexed" of its removed blocks' logs.
ChainEvent == [type : {"block"}, block : Block]
              \cup [type : {"reorg"}, removed : Seq(Block), indexed : Nat]

\* What is pushed: a header, a log, or a log marked as removed.
Item == {"header", "log", "removed"} \X Block

TypeOK ==
  /\ chain \in Seq(Block) /\ events \in Seq(ChainEvent) /\ closed \in BOOLEAN
  /\ tasks \subseteq Sub /\ cancelled \subseteq Sub
  /\ pc \in [Sub -> {"new", "select", "send", "end"}]
  /\ kind \in [Sub -> {"logs", "heads"}]
  /\ next \in [Sub -> 1..(Len(events) + 1)]
  /\ buf \in [Sub -> Seq(Item)] /\ got \in [Sub -> Seq(Item)]
  /\ permits \in [Sub -> 0..NotifCapacity] /\ unread \in 0..NotifCapacity
  /\ open \in BOOLEAN /\ disconnected \in BOOLEAN
  /\ responses \in 0..MaxResponses
  /\ announced \in Seq(Seq(Block)) /\ Len(announced) = Len(events)
  /\ base \in [Sub -> Seq(Block)] /\ late \in [Sub -> Nat]
  /\ missed \subseteq Sub

Init ==
  /\ chain = <<>> /\ events = <<>> /\ closed = FALSE
  /\ tasks = {} /\ cancelled = {}
  /\ pc = [s \in Sub |-> "new"] /\ kind = [s \in Sub |-> "logs"]
  /\ next = [s \in Sub |-> 1] /\ buf = [s \in Sub |-> <<>>]
  /\ permits = [s \in Sub |-> 0]
  /\ open = TRUE /\ unread = 0 /\ disconnected = FALSE /\ responses = 0
  /\ announced = <<>>
  /\ base = [s \in Sub |-> <<>>] /\ got = [s \in Sub |-> <<>>]
  /\ late = [s \in Sub |-> 0] /\ missed = {}

(***************************************************************************)
(* The node broadcasts: send_new_block and send_reorg.                     *)
(***************************************************************************)
SendEvent(e) ==
  /\ ~closed /\ Len(events) < MaxEvents
  /\ events' = Append(events, e) /\ announced' = Append(announced, chain')
  /\ UNCHANGED <<closed, tableVars, taskVars, clientVars, ghostVars>>

SendNewBlock ==
  \E b \in Block : /\ num[b] = Len(chain) + 1
                   /\ chain # <<>> => parent[b] = chain[Len(chain)]
                   /\ chain' = Append(chain, b)
                   /\ SendEvent([type |-> "block", block |-> b])

\* The logs are those of the removed blocks cold storage had indexed.
SendReorg ==
  \E n \in 0..(Len(chain) - 1) :
    LET removed == SubSeq(chain, n + 1, Len(chain))
    IN /\ chain' = Prefix(chain, n)
       /\ \E k \in 0..Len(removed) :
            SendEvent([type |-> "reorg", removed |-> removed, indexed |-> k])

\* The RPC server and the node are dropped, the senders and the table with
\* them; the cleaner finds its Weak dead.
Shutdown ==
  /\ ~closed /\ closed' = TRUE
  /\ tasks' = {}
  /\ UNCHANGED <<chain, events, announced, cancelled, taskVars, clientVars, ghostVars>>

(***************************************************************************)
(* eth_subscribe and eth_unsubscribe.                                      *)
(***************************************************************************)
\* TryFrom<SubscribeArgs>: logs need a filter, newHeads refuse one.
ValidArgs(k, hasFilter) == (k = "logs") <=> hasFilter

\* The token enters the table, then a receiver is made and the task spawned.
Subscribe(s) ==
  /\ open /\ ~disconnected /\ ~closed
  /\ pc[s] = "new"
  /\ \E k \in {"logs", "heads"}, hasFilter \in BOOLEAN :
       ValidArgs(k, hasFilter) /\ kind' = [kind EXCEPT ![s] = k]
  /\ tasks' = tasks \cup {s}
  /\ next' = [next EXCEPT ![s] = Len(events) + 1]
  /\ pc' = [pc EXCEPT ![s] = "select"]
  /\ base' = [base EXCEPT ![s] = chain]
  /\ UNCHANGED <<nodeVars, cancelled, buf, permits, clientVars, got, late, missed>>

Unsubscribe(s) ==
  /\ open /\ ~disconnected
  /\ s \in tasks
  /\ tasks' = tasks \ {s}
  /\ cancelled' = cancelled \cup {s}
  /\ UNCHANGED <<nodeVars, taskVars, clientVars, ghostVars>>

(***************************************************************************)
(* The client and ajj: notifications are read from the channel; when the   *)
(* client goes, the writer drops the channel and the connection's tasks    *)
(* are cancelled, in either order.                                         *)
(***************************************************************************)
\* The places of the channel that tasks hold permits for.
Reserved == {p \in Sub \X (1..NotifCapacity) : p[2] <= permits[p[1]]}

\* The channel's free places.
Free == NotifCapacity - unread - Cardinality(Reserved)

\* The connection's other requests are answered on the same channel.
Respond ==
  /\ open /\ ~disconnected /\ Free > 0 /\ responses < MaxResponses
  /\ unread' = unread + 1 /\ responses' = responses + 1
  /\ UNCHANGED <<nodeVars, tableVars, taskVars, open, disconnected, ghostVars>>

ClientRead ==
  /\ unread > 0 /\ unread' = unread - 1
  /\ UNCHANGED <<nodeVars, tableVars, taskVars, open, disconnected, responses,
                 ghostVars>>

CloseChannel ==
  /\ open /\ open' = FALSE
  /\ unread' = 0
  /\ UNCHANGED <<nodeVars, tableVars, taskVars, disconnected, responses, ghostVars>>

Disconnect ==
  /\ ~disconnected /\ disconnected' = TRUE
  /\ UNCHANGED <<nodeVars, tableVars, taskVars, open, unread, responses, ghostVars>>

(***************************************************************************)
(* SubscriptionTask::task_future: a biased select over the disconnection,  *)
(* the token, the permits and the next event.                              *)
(***************************************************************************)
\* Mutant: no cancellation is looked at before the permits and the events.
UncancelledIgnored(s) == pc[s] = "select"

\* Neither cancellation branch of the select is ready.
Uncancelled(s) == pc[s] = "select" /\ ~disconnected /\ s \notin cancelled

\* Half the channel, or all that is buffered.
PermitsWanted(s) ==
  IF NotifCapacity \div 2 < Len(buf[s]) THEN NotifCapacity \div 2 ELSE Len(buf[s])

\* Mutant: items wait until half a channel of them is buffered.
PermitsReadyBatched(s) ==
  /\ Len(buf[s]) >= NotifCapacity \div 2
  /\ ~open \/ Free >= PermitsWanted(s)

\* permit_many answers: with permits, or with None on a closed channel.
PermitsReady(s) == buf[s] # <<>> /\ (~open \/ Free >= PermitsWanted(s))

EndTask(s) == pc' = [pc EXCEPT ![s] = "end"] /\ buf' = [buf EXCEPT ![s] = <<>>]

\* Mutant: the token is left alone.
EndOnDisconnectOnly(s) ==
  /\ pc[s] = "select" /\ disconnected
  /\ EndTask(s)
  /\ UNCHANGED <<nodeVars, tableVars, kind, next, permits, clientVars, ghostVars>>

\* ajj_cancel: the token is cancelled so that the cleaner finds the entry.
EndOnDisconnect(s) ==
  /\ pc[s] = "select" /\ disconnected
  /\ cancelled' = cancelled \cup {s}
  /\ EndTask(s)
  /\ UNCHANGED <<nodeVars, tasks, kind, next, permits, clientVars, ghostVars>>

EndOnCancel(s) ==
  /\ pc[s] = "select" /\ ~disconnected /\ s \in cancelled
  /\ EndTask(s)
  /\ UNCHANGED <<nodeVars, tableVars, kind, next, permits, clientVars, ghostVars>>

\* permits is None: the task ends and its token stays.
EndOnClosedChannel(s) ==
  /\ Uncancelled(s) /\ buf[s] # <<>> /\ ~open
  /\ EndTask(s)
  /\ UNCHANGED <<nodeVars, tableVars, kind, next, permits, clientVars, ghostVars>>

Reserve(s) ==
  /\ Uncancelled(s) /\ PermitsReady(s) /\ open
  /\ permits' = [permits EXCEPT ![s] = PermitsWanted(s)]
  /\ pc' = [pc EXCEPT ![s] = "send"]
  /\ UNCHANGED <<nodeVars, tableVars, kind, next, buf, clientVars, ghostVars>>

\* One item per permit; sending on a closed channel is ignored.
Send(s) ==
  /\ pc[s] = "send"
  /\ LET n == permits[s]
     IN /\ buf' = [buf EXCEPT ![s] = SubSeq(@, n + 1, Len(@))]
        /\ got' = [got EXCEPT ![s] = @ \o SubSeq(buf[s], 1, n)]
        /\ late' = [late EXCEPT ![s] = IF s \in cancelled THEN @ + n ELSE @]
        /\ unread' = IF open THEN unread + n ELSE unread
  /\ permits' = [permits EXCEPT ![s] = 0]
  /\ pc' = [pc EXCEPT ![s] = "select"]
  /\ UNCHANGED <<nodeVars, tableVars, kind, next, open, disconnected, responses,
                 base, missed>>

\* The select is left with the broadcast receiver.
Receiving(s) == Uncancelled(s) /\ ~PermitsReady(s)

\* The oldest event the channel still holds.
Oldest == IF Len(events) > ChannelCapacity THEN Len(events) - ChannelCapacity + 1 ELSE 1

\* RecvError::Lagged: the receiver is moved on, and nothing else is done.
Lagged(s) ==
  /\ Receiving(s) /\ next[s] < Oldest
  /\ next' = [next EXCEPT ![s] = Oldest]
  /\ missed' = missed \cup {s}
  /\ UNCHANGED <<nodeVars, tableVars, pc, kind, buf, permits, clientVars, base,
                 got, late>>

\* The matching logs of blocks, each as an item of this type.
Logs(type, blocks) ==
  LET upTo[i \in 0..Len(blocks)] ==
        IF i = 0 THEN <<>>
        ELSE IF blocks[i] \in Silent THEN upTo[i - 1]
        ELSE Append(upTo[i - 1], <<type, blocks[i]>>)
  IN upTo[Len(blocks)]

\* Mutant: a reorganisation pushes nothing to log subscriptions either.
FilterForSubNoRemovals(k, e) ==
  IF e.type = "reorg" THEN <<>>
  ELSE IF k = "heads" THEN <<<<"header", e.block>>>> ELSE Logs("log", <<e.block>>)

\* filter_notification_for_sub and filter_reorg_for_sub: newHeads push every
\* header and no removal, logs push the matching logs and removals.
FilterForSub(k, e) ==
  CASE e.type = "block" /\ k = "heads" -> <<<<"header", e.block>>>>
    [] e.type = "block" /\ k = "logs"  -> Logs("log", <<e.block>>)
    [] e.type = "reorg" /\ k = "heads" -> <<>>
    [] e.type = "reorg" /\ k = "logs"  -> Logs("removed", Prefix(e.removed, e.indexed))

Unindexed(e) == e.type = "reorg" /\ e.indexed < Len(e.removed)

\* Mutant: the receiver moves past the following event too.
ReceiveSkips(s) ==
  /\ Receiving(s) /\ next[s] \in Oldest..Len(events)
  /\ buf' = [buf EXCEPT ![s] = @ \o FilterForSub(kind[s], events[next[s]])]
  /\ next' = [next EXCEPT ![s] = @ + 2]
  /\ UNCHANGED <<nodeVars, tableVars, pc, kind, permits, clientVars, ghostVars>>

Receive(s) ==
  /\ Receiving(s) /\ next[s] \in Oldest..Len(events)
  /\ LET e == events[next[s]]
     IN /\ buf' = [buf EXCEPT ![s] = @ \o FilterForSub(kind[s], e)]
        /\ missed' = IF kind[s] = "logs" /\ Unindexed(e) THEN missed \cup {s} ELSE missed
  /\ next' = [next EXCEPT ![s] = @ + 1]
  /\ UNCHANGED <<nodeVars, tableVars, pc, kind, permits, clientVars, base, got, late>>

\* RecvError::Closed, once every event has been received.
EndOnClosedStream(s) ==
  /\ Receiving(s) /\ closed /\ next[s] = Len(events) + 1
  /\ EndTask(s)
  /\ UNCHANGED <<nodeVars, tableVars, kind, next, permits, clientVars, ghostVars>>

\* Mutant: the cancelled tokens are the ones retained.
CleanKeeps ==
  /\ ~closed /\ tasks \cap cancelled # {}
  /\ tasks' = tasks \cap cancelled
  /\ UNCHANGED <<nodeVars, cancelled, taskVars, clientVars, ghostVars>>

\* SubCleanerTask, at every interval: retain the tokens that are not cancelled.
Clean ==
  /\ ~closed /\ tasks \cap cancelled # {}
  /\ tasks' = tasks \ cancelled
  /\ UNCHANGED <<nodeVars, cancelled, taskVars, clientVars, ghostVars>>

Node == SendNewBlock \/ SendReorg \/ Shutdown

Client == \/ \E s \in Sub : Subscribe(s) \/ Unsubscribe(s)
          \/ Respond \/ ClientRead \/ CloseChannel \/ Disconnect

Task(s) == \/ EndOnDisconnect(s) \/ EndOnCancel(s) \/ EndOnClosedChannel(s)
           \/ Reserve(s) \/ Send(s)
           \/ Lagged(s) \/ Receive(s) \/ EndOnClosedStream(s)

Next == Node \/ Client \/ (\E s \in Sub : Task(s)) \/ Clean

Spec == Init /\ [][Next]_vars

\* The runtime polls every task that is ready, the cleaner wakes at every
\* interval, and a connected client reads.
FairSpec ==
  /\ Spec
  /\ \A s \in Sub : WF_vars(Task(s))
  /\ WF_vars(Clean) /\ WF_vars(ClientRead)

(***************************************************************************)
(* Properties.                                                             *)
(***************************************************************************)
\* What a logs client holds that adds logs and drops removed ones, and what a
\* newHeads client does that replaces its headers from the new one's height on,
\* after these items and starting with these blocks.
HeldLogs(blocks, items) ==
  {b \in Block \ Silent :
     \/ /\ b \in Range(blocks)
        /\ \A i \in 1..Len(items) : items[i] # <<"removed", b>>
     \/ \E i \in 1..Len(items) :
          /\ items[i] = <<"log", b>>
          /\ \A j \in (i + 1)..Len(items) : items[j] # <<"removed", b>>}

HeldHeads(blocks, items) ==
  {b \in Block :
     \/ /\ b \in Range(blocks)
        /\ \A i \in 1..Len(items) : num[items[i][2]] > num[b]
     \/ \E i \in 1..Len(items) :
          /\ items[i] = <<"header", b>>
          /\ \A j \in (i + 1)..Len(items) : num[items[j][2]] > num[b]}

\* The chain the node had announced with the last event the task of s received.
Told(s) == IF next[s] = 1 THEN <<>> ELSE announced[next[s] - 1]

\* A logs subscriber whose task neither lagged nor was told of a reorganisation
\* without its logs ends up, from what is pushed in the order of the pushes,
\* with the matching logs of the chain announced so far; a newHeads subscriber
\* that did not lag with that chain, once a block follows the last
\* reorganisation.
SubscriberHoldsChain ==
  \A s \in Sub : pc[s] \in {"select", "send"} /\ s \notin missed =>
    /\ kind[s] = "logs"
         => HeldLogs(base[s], got[s] \o buf[s]) = Range(Told(s)) \ Silent
    /\ kind[s] = "heads" /\ next[s] > 1 /\ events[next[s] - 1].type = "block"
         => HeldHeads(base[s], got[s] \o buf[s]) = Range(Told(s))

\* After its token is cancelled a subscription sends at most the one batch it
\* had permits for: the select looks at cancellations first.
CancelledIsSilent == \A s \in Sub : late[s] <= NotifCapacity \div 2

\* The table keeps no entry for a finished task that the cleaner cannot see:
\* such a task has cancelled its token, unless the client's channel had closed
\* under its permits (which leaves the entry until eth_unsubscribe).
EntriesHaveTasks ==
  \A s \in tasks : pc[s] = "end" => s \in cancelled \/ ~open

\* An unsubscribed or disconnected subscription ends and leaves the table,
\* whether or not its client still reads.
CancelledIsCleaned ==
  \A s \in Sub : s \in cancelled ~> pc[s] = "end" /\ s \notin tasks

\* What is buffered for a client is sent, unless the subscription ends.
BufferedIsSent == \A s \in Sub : buf[s] # <<>> ~> buf[s] = <<>>
==============================================================================
