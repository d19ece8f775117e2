----------------------------- MODULE GatewayChat -----------------------------
(***************************************************************************)
(* The gateway's chat path: the reader loop, the writer task and the       *)
(* active_runs map of every WebSocket connection, the task spawned by each *)
(* chat.send that forwards a run's events to its connection, the run       *)
(* itself (ChatRun), and the lock around the running configuration they    *)
(* all share.  src/gateway/websocket.rs, after the handshake.              *)
(*                                                                         *)
(* Requests of one connection are handled one after the other inside the   *)
(* reader loop: while a handler waits (for room in the outgoing channel,   *)
(* for the configuration lock, for a provider it calls with the lock held) *)
(* the connection's later requests, its close frame included, are not read.*)
(***************************************************************************)
EXTENDS ChatRun, FiniteSets, Subsequences

CONSTANTS
    Conns,      \* authenticated connections
    Home,       \* Home[r]: the connection that sends run r
    Keys,       \* idempotency keys clients use
    NoKey,      \* the absent idempotency key
    NoRun,      \* no entry in active_runs
    TxCap,      \* capacity of a connection's outgoing channel (256)
    Leavers,    \* environment: connections whose peer may go away
    ReuseKeys,  \* environment: a client may use an idempotency key again
    MaxPatches, \* bound: config.patch requests per connection
    MaxReads    \* bound: other requests per connection

ASSUME GatewayChatAssumption ==
    /\ Home \in [Runs -> Conns]
    /\ NoKey \notin Keys
    /\ Keys \cap Runs = {}     \* a new uuid is no client's key
    /\ NoRun \notin Runs
    /\ Runs \cap Conns = {}
    /\ TxCap \in Nat \ {0}
    /\ Leavers \subseteq Conns
    /\ ReuseKeys \in BOOLEAN
    /\ MaxPatches \in Nat
    /\ MaxReads \in Nat

VARIABLES
    reader,   \* what the reader loop of a connection is doing
    peer,     \* the client is still there
    writer,   \* the writer task still owns the receiving half
    txq,      \* the outgoing channel of a connection
    active,   \* active_runs: run id -> the run whose token it holds
    key,      \* idempotency key of a run
    task,     \* the forwarding task of a run
    hand,     \* the event that task has taken from the run's channel
    holders,  \* runs and connections holding the configuration's read lock
    waiting,  \* FIFO queue of the configuration lock: runs and connections
    patched,  \* config.patch requests applied, per connection
    reads,    \* other requests handled, per connection
    seen,     \* history: what the client has received of a run
    closedOn  \* history: runs started before their connection closed

gateVars == <<reader, peer, writer, txq, active, key, task, hand, holders,
              waiting, patched, reads, seen, closedOn>>
vars == <<chatVars, gateVars>>

Ack == [state |-> "ack", seq |-> 0]
NoEvent == [state |-> "none", seq |-> 0]
Response == [run |-> NoRun, item |-> Ack]

(* The id a run is registered and acknowledged under: the client's key, or *)
(* a new uuid (here: the run itself).                                      *)
RunId(r, k) == IF k = NoKey THEN r ELSE k
RunIds == Keys \cup Runs

Live(r) == task[r] \in {"spawned", "lock", "recv", "push", "join"}
HomeRuns(c) == {r \in Runs : Home[r] = c}

GateInit ==
    /\ ChatInit
    /\ reader = [c \in Conns |-> "ready"]
    /\ peer = [c \in Conns |-> TRUE]
    /\ writer = [c \in Conns |-> TRUE]
    /\ txq = [c \in Conns |-> <<>>]
    /\ active = [c \in Conns |-> [i \in RunIds |-> NoRun]]
    /\ key = [r \in Runs |-> NoKey]
    /\ task = [r \in Runs |-> "unsent"]
    /\ hand = [r \in Runs |-> NoEvent]
    /\ holders = {}
    /\ waiting = <<>>
    /\ patched = [c \in Conns |-> 0]
    /\ reads = [c \in Conns |-> 0]
    /\ seen = [r \in Runs |-> <<>>]
    /\ closedOn = {}

-----------------------------------------------------------------------------
(* tx.send(..).await: it completes when there is room, or at once and      *)
(* without effect when the writer task has dropped the receiver.           *)
CanSendAlways(c) == TRUE   \* mutant of CanSend
CanSend(c) == ~writer[c] \/ Len(txq[c]) < TxCap
SendTx(c, m) == txq' = IF writer[c] THEN [txq EXCEPT ![c] = Append(@, m)] ELSE txq

(* tokio's RwLock is fair: every request queues, and is granted when it is *)
(* first in the queue and compatible with the holders.                     *)
ReadGranted(x) == waiting # <<>> /\ Head(waiting) = x
WriteWithReaders(x) == ReadGranted(x)   \* mutant of WriteGranted
WriteGranted(x) == ReadGranted(x) /\ holders = {}

(* ------------------------ the connection's reader --------------------- *)
(* chat.send with the operator.write scope: answer with the run id ...     *)
ChatSend(c, r, k) ==
    /\ reader[c] = "ready"
    /\ Home[r] = c
    /\ task[r] = "unsent"
    /\ ReuseKeys \/ k = NoKey \/ \A q \in HomeRuns(c) : key[q] # k
    /\ key' = [key EXCEPT ![r] = k]
    /\ task' = [task EXCEPT ![r] = "asked"]
    /\ reader' = [reader EXCEPT ![c] = "ack"]
    /\ UNCHANGED <<chatVars, peer, writer, txq, active, hand, holders, waiting,
                   patched, reads, seen, closedOn>>

(* Mutant of ChatSendAcked: the token is not registered under the client's *)
(* key.                                                                    *)
ChatSendAckedByUuid(c, r) ==
    /\ reader[c] = "ack"
    /\ Home[r] = c
    /\ task[r] = "asked"
    /\ CanSend(c)
    /\ SendTx(c, [run |-> r, item |-> Ack])
    /\ active' = [active EXCEPT ![c][r] = r]
    /\ task' = [task EXCEPT ![r] = "spawned"]
    /\ reader' = [reader EXCEPT ![c] = "ready"]
    /\ UNCHANGED <<chatVars, peer, writer, key, hand, holders, waiting, patched,
                   reads, seen, closedOn>>

(* ... then register the token and spawn the task.                         *)
ChatSendAcked(c, r) ==
    /\ reader[c] = "ack"
    /\ Home[r] = c
    /\ task[r] = "asked"
    /\ CanSend(c)
    /\ SendTx(c, [run |-> r, item |-> Ack])
    /\ active' = [active EXCEPT ![c][RunId(r, key[r])] = r]
    /\ task' = [task EXCEPT ![r] = "spawned"]
    /\ reader' = [reader EXCEPT ![c] = "ready"]
    /\ UNCHANGED <<chatVars, peer, writer, key, hand, holders, waiting, patched,
                   reads, seen, closedOn>>

(* chat.cancel: cancel the token registered under the id, or "Run not      *)
(* found"; both answer.                                                    *)
ChatCancel(c, i) ==
    /\ reader[c] = "ready"
    /\ active[c][i] # NoRun
    /\ ~cancel[active[c][i]]
    /\ Cancel({active[c][i]})
    /\ reader' = [reader EXCEPT ![c] = "reply"]
    /\ UNCHANGED <<peer, writer, txq, active, key, task, hand, holders,
                   waiting, patched, reads, seen, closedOn>>

(* config.patch, config.set, config.apply, config.reload: wait for the     *)
(* write lock inside the reader loop.                                      *)
ConfigPatch(c) ==
    /\ reader[c] = "ready"
    /\ patched[c] < MaxPatches
    /\ waiting' = Append(waiting, c)
    /\ reader' = [reader EXCEPT ![c] = "write"]
    /\ UNCHANGED <<chatVars, peer, writer, txq, active, key, task, hand,
                   holders, patched, reads, seen, closedOn>>

(* Mutant of ConfigPatched: the write lock is kept.                        *)
ConfigPatchedLocked(c) ==
    /\ reader[c] = "write"
    /\ WriteGranted(c)
    /\ patched' = [patched EXCEPT ![c] = @ + 1]
    /\ reader' = [reader EXCEPT ![c] = "reply"]
    /\ UNCHANGED <<chatVars, peer, writer, txq, active, key, task, hand,
                   holders, waiting, reads, seen, closedOn>>

(* The patch is applied and the lock released without another wait.        *)
ConfigPatched(c) ==
    /\ reader[c] = "write"
    /\ WriteGranted(c)
    /\ waiting' = Tail(waiting)
    /\ patched' = [patched EXCEPT ![c] = @ + 1]
    /\ reader' = [reader EXCEPT ![c] = "reply"]
    /\ UNCHANGED <<chatVars, peer, writer, txq, active, key, task, hand,
                   holders, reads, seen, closedOn>>

(* Any handler that reads the configuration and answers.                   *)
ConfigRead(c) ==
    /\ reader[c] = "ready"
    /\ reads[c] < MaxReads
    /\ reads' = [reads EXCEPT ![c] = @ + 1]
    /\ waiting' = Append(waiting, c)
    /\ reader' = [reader EXCEPT ![c] = "read"]
    /\ UNCHANGED <<chatVars, peer, writer, txq, active, key, task, hand,
                   holders, patched, seen, closedOn>>

(* A request answered without the configuration: a refused or malformed    *)
(* chat.send, a chat.cancel of an unknown run, a parse error, and the      *)
(* methods answered by a constant or a look at the gateway's counters.     *)
PlainRequest(c) ==
    /\ reader[c] = "ready"
    /\ reads[c] < MaxReads
    /\ reads' = [reads EXCEPT ![c] = @ + 1]
    /\ reader' = [reader EXCEPT ![c] = "reply"]
    /\ UNCHANGED <<chatVars, peer, writer, txq, active, key, task, hand,
                   holders, waiting, patched, seen, closedOn>>

(* The guard is granted.  Most handlers only copy what they need, but      *)
(* agent.run, memory.search and send keep it while they await the          *)
(* provider, the memory or the channel: the answer takes another step.     *)
ConfigReadStarts(c) ==
    /\ reader[c] = "read"
    /\ ReadGranted(c)
    /\ waiting' = Tail(waiting)
    /\ holders' = holders \cup {c}
    /\ reader' = [reader EXCEPT ![c] = "hold"]
    /\ UNCHANGED <<chatVars, peer, writer, txq, active, key, task, hand,
                   patched, reads, seen, closedOn>>

(* The handler returns, which drops the guard.                             *)
ConfigReadDone(c) ==
    /\ reader[c] = "hold"
    /\ holders' = holders \ {c}
    /\ reader' = [reader EXCEPT ![c] = "reply"]
    /\ UNCHANGED <<chatVars, peer, writer, txq, active, key, task, hand,
                   waiting, patched, reads, seen, closedOn>>

(* send_oc_response.                                                       *)
Reply(c) ==
    /\ reader[c] = "reply"
    /\ CanSend(c)
    /\ SendTx(c, Response)
    /\ reader' = [reader EXCEPT ![c] = "ready"]
    /\ UNCHANGED <<chatVars, peer, writer, active, key, task, hand, holders,
                   waiting, patched, reads, seen, closedOn>>

(* Mutants of Close: no token is cancelled; the runs are torn down.        *)
CloseForgets(c) ==
    /\ reader[c] = "ready"
    /\ ~peer[c]
    /\ reader' = [reader EXCEPT ![c] = "gone"]
    /\ closedOn' = closedOn \cup {r \in HomeRuns(c) : Live(r)}
    /\ UNCHANGED <<chatVars, peer, writer, txq, active, key, task, hand,
                   holders, waiting, patched, reads, seen>>

CloseAborts(c) ==
    /\ reader[c] = "ready"
    /\ ~peer[c]
    /\ reader' = [reader EXCEPT ![c] = "gone"]
    /\ pc' = [r \in Runs |-> IF Home[r] = c THEN "done" ELSE pc[r]]
    /\ closedOn' = closedOn \cup {r \in HomeRuns(c) : Live(r)}
    /\ UNCHANGED <<cancel, iter, seq, heard, calls, pend, resume, chan, stored,
                   log, late, peer, writer, txq, active, key, task, hand,
                   holders, waiting, patched, reads, seen>>

(* The close frame or the read error is reached: cancel every registered   *)
(* run and leave.                                                          *)
Close(c) ==
    /\ reader[c] = "ready"
    /\ ~peer[c]
    /\ reader' = [reader EXCEPT ![c] = "gone"]
    /\ Cancel({r \in Runs : \E i \in RunIds : active[c][i] = r})
    /\ closedOn' = closedOn \cup {r \in HomeRuns(c) : Live(r)}
    /\ UNCHANGED <<peer, writer, txq, active, key, task, hand, holders,
                   waiting, patched, reads, seen>>

(* -------------------- the connection's writer task -------------------- *)
WriterSend(c) ==
    /\ writer[c]
    /\ txq[c] # <<>>
    /\ txq' = [txq EXCEPT ![c] = Tail(@)]
    /\ LET m == Head(txq[c])
       IN  seen' = IF peer[c] /\ m.run # NoRun
                   THEN [seen EXCEPT ![m.run] = Append(@, m.item)] ELSE seen
    /\ UNCHANGED <<chatVars, reader, peer, writer, active, key, task, hand,
                   holders, waiting, patched, reads, closedOn>>

(* A write fails: the task ends, the channel and its contents are dropped. *)
WriterFails(c) ==
    /\ writer[c]
    /\ txq[c] # <<>>
    /\ ~peer[c]
    /\ writer' = [writer EXCEPT ![c] = FALSE]
    /\ txq' = [txq EXCEPT ![c] = <<>>]
    /\ UNCHANGED <<chatVars, reader, peer, active, key, task, hand, holders,
                   waiting, patched, reads, seen, closedOn>>

(* ------------------------- the run's own task ------------------------- *)
(* The spawned task is scheduled and asks for config.read(): whatever the  *)
(* connection sent next may have queued for the lock before it.            *)
TaskAsksConfig(r) ==
    /\ task[r] = "spawned"
    /\ waiting' = Append(waiting, r)
    /\ task' = [task EXCEPT ![r] = "lock"]
    /\ UNCHANGED <<chatVars, reader, peer, writer, txq, active, key, hand,
                   holders, patched, reads, seen, closedOn>>

(* config.read() is granted; process_chat is spawned.                      *)
TaskLocked(r) ==
    /\ task[r] = "lock"
    /\ ReadGranted(r)
    /\ waiting' = Tail(waiting)
    /\ holders' = holders \cup {r}
    /\ task' = [task EXCEPT ![r] = "recv"]
    /\ UNCHANGED <<chatVars, reader, peer, writer, txq, active, key, hand,
                   patched, reads, seen, closedOn>>

(* event_rx.recv().                                                        *)
TaskReceives(r) ==
    /\ task[r] = "recv"
    /\ Receive(r)
    /\ hand' = [hand EXCEPT ![r] = Head(chan[r])]
    /\ task' = [task EXCEPT ![r] = "push"]
    /\ UNCHANGED <<reader, peer, writer, txq, active, key, holders, waiting,
                   patched, reads, seen, closedOn>>

(* Mutant of TaskForwards: an event that finds no room is dropped.         *)
TaskForwardsLossy(r) ==
    /\ task[r] = "push"
    /\ IF CanSend(Home[r]) THEN SendTx(Home[r], [run |-> r, item |-> hand[r]])
                           ELSE txq' = txq
    /\ hand' = [hand EXCEPT ![r] = NoEvent]
    /\ task' = [task EXCEPT ![r] = IF writer[Home[r]] THEN "recv" ELSE "join"]
    /\ UNCHANGED <<chatVars, reader, peer, writer, active, key, holders,
                   waiting, patched, reads, seen, closedOn>>

(* tx.send(json): into the channel, or the forwarding loop is left.        *)
TaskForwards(r) ==
    /\ task[r] = "push"
    /\ CanSend(Home[r])
    /\ SendTx(Home[r], [run |-> r, item |-> hand[r]])
    /\ hand' = [hand EXCEPT ![r] = NoEvent]
    /\ task' = [task EXCEPT ![r] = IF writer[Home[r]] THEN "recv" ELSE "join"]
    /\ UNCHANGED <<chatVars, reader, peer, writer, active, key, holders,
                   waiting, patched, reads, seen, closedOn>>

(* recv() is None: process_chat has returned and the channel is empty.     *)
TaskStreamEnds(r) ==
    /\ task[r] = "recv"
    /\ pc[r] = "done"
    /\ chan[r] = <<>>
    /\ task' = [task EXCEPT ![r] = "join"]
    /\ UNCHANGED <<chatVars, reader, peer, writer, txq, active, key, hand,
                   holders, waiting, patched, reads, seen, closedOn>>

(* Mutants of TaskEnds: the token stays; the read guard stays.             *)
TaskEndsKeepsToken(r) ==
    /\ task[r] = "join"
    /\ pc[r] = "done"
    /\ task' = [task EXCEPT ![r] = "ended"]
    /\ holders' = holders \ {r}
    /\ UNCHANGED <<chatVars, reader, peer, writer, txq, active, key, hand,
                   waiting, patched, reads, seen, closedOn>>

TaskEndsKeepsGuard(r) ==
    /\ task[r] = "join"
    /\ pc[r] = "done"
    /\ task' = [task EXCEPT ![r] = "ended"]
    /\ active' = [active EXCEPT ![Home[r]][RunId(r, key[r])] = NoRun]
    /\ UNCHANGED <<chatVars, reader, peer, writer, txq, key, hand, holders,
                   waiting, patched, reads, seen, closedOn>>

(* chat_handle.await, active_runs.remove, and the end of the task, which   *)
(* drops the read guard.                                                   *)
TaskEnds(r) ==
    /\ task[r] = "join"
    /\ pc[r] = "done"
    /\ task' = [task EXCEPT ![r] = "ended"]
    /\ active' = [active EXCEPT ![Home[r]][RunId(r, key[r])] = NoRun]
    /\ holders' = holders \ {r}
    /\ UNCHANGED <<chatVars, reader, peer, writer, txq, key, hand, waiting,
                   patched, reads, seen, closedOn>>

(* process_chat runs in the task spawned by TaskLocked.                    *)
RunStep(r) ==
    /\ task[r] \in {"recv", "push", "join"}
    /\ Begin(r) \/ BeginUnresolved(r) \/ ProcessChat(r)
    /\ UNCHANGED gateVars

(* ----------------------------- environment ---------------------------- *)
PeerLeaves(c) ==
    /\ c \in Leavers
    /\ peer[c]
    /\ peer' = [peer EXCEPT ![c] = FALSE]
    /\ UNCHANGED <<chatVars, reader, writer, txq, active, key, task, hand,
                   holders, waiting, patched, reads, seen, closedOn>>

HandlerStep(c) ==
    \/ \E r \in Runs : ChatSendAcked(c, r)
    \/ ConfigPatched(c)
    \/ ConfigReadStarts(c)
    \/ ConfigReadDone(c)
    \/ Reply(c)
    \/ Close(c)

WriterStep(c) == WriterSend(c) \/ WriterFails(c)

TaskStep(r) ==
    \/ TaskAsksConfig(r)
    \/ TaskLocked(r)
    \/ TaskReceives(r)
    \/ TaskForwards(r)
    \/ TaskStreamEnds(r)
    \/ TaskEnds(r)

Request(c) ==
    \/ \E r \in Runs, k \in Keys \cup {NoKey} : ChatSend(c, r, k)
    \/ \E i \in RunIds : ChatCancel(c, i)
    \/ ConfigPatch(c)
    \/ ConfigRead(c)
    \/ PlainRequest(c)

Next ==
    \/ \E c \in Conns : Request(c) \/ HandlerStep(c) \/ WriterStep(c) \/ PeerLeaves(c)
    \/ \E r \in Runs : TaskStep(r) \/ RunStep(r)

Spec == GateInit /\ [][Next]_vars

(* tokio runs every ready task; the provider answers; a socket write       *)
(* completes or fails.  Clients need not do anything.                      *)
Fairness ==
    /\ \A c \in Conns : WF_vars(HandlerStep(c)) /\ WF_vars(WriterStep(c))
    /\ \A r \in Runs : WF_vars(TaskStep(r)) /\ WF_vars(RunStep(r))

FairSpec == Spec /\ Fairness

-----------------------------------------------------------------------------
TypeOK ==
    /\ ChatTypeOK
    /\ reader \in [Conns -> {"ready", "ack", "reply", "write", "read", "hold", "gone"}]
    /\ peer \in [Conns -> BOOLEAN]
    /\ writer \in [Conns -> BOOLEAN]
    /\ \A c \in Conns : /\ Len(txq[c]) <= TxCap
                        /\ \A i \in 1..Len(txq[c]) :
                              txq[c][i].run \in HomeRuns(c) \cup {NoRun}
    /\ active \in [Conns -> [RunIds -> Runs \cup {NoRun}]]
    /\ key \in [Runs -> Keys \cup {NoKey}]
    /\ task \in [Runs -> {"unsent", "asked", "spawned", "lock", "recv", "push", "join",
                          "ended"}]
    /\ hand \in [Runs -> Event \cup {NoEvent}]
    /\ holders \subseteq Runs \cup Conns
    /\ \A i \in 1..Len(waiting) : waiting[i] \in Runs \cup Conns
    /\ patched \in [Conns -> 0..MaxPatches]
    /\ reads \in [Conns -> 0..MaxReads]
    /\ closedOn \subseteq Runs

(* What a client has received of a run, what is still in its connection's  *)
(* outgoing channel, in the forwarder's hand and in the event channel is,  *)
(* in this order, the acknowledgement and then every event the run         *)
(* published: nothing is lost, repeated or reordered on the way, and no    *)
(* event overtakes the acknowledgement that tells the client the run id.   *)
(* When the run's task has ended nothing is left in the event channel.     *)
Item == Event \cup {Ack}
MessagesOf(r) == [run : {r}, item : Item]
ItemsOf(r, q) ==
    LET mine == Only(q, MessagesOf(r)) IN [i \in 1..Len(mine) |-> mine[i].item]
InTx(r) == ItemsOf(r, txq[Home[r]])
InHand(r) == IF task[r] = "push" THEN <<hand[r]>> ELSE <<>>

Delivery ==
    \A r \in Runs :
        peer[Home[r]] /\ (Live(r) \/ task[r] = "ended") =>
            /\ seen[r] \o InTx(r) \o InHand(r) \o chan[r] = <<Ack>> \o log[r]
            /\ task[r] = "ended" => chan[r] = <<>>

(* "Cancel any active runs on disconnect": once a connection is closed     *)
(* every run it left alive is cancelled.                                   *)
DisconnectCancels == \A r \in closedOn : cancel[r]

(* chat.cancel and the close of the connection find every run and nothing  *)
(* else: active_runs holds a live run under the id its client was given,   *)
(* and no token of a run that has ended.                                   *)
ActiveRunsExact ==
    /\ \A r \in Runs : Live(r) => active[Home[r]][RunId(r, key[r])] = r
    /\ \A c \in Conns, i \in RunIds : active[c][i] # NoRun => Live(active[c][i])

(* The running configuration does not change under a run, nor under a      *)
(* handler that awaits with the guard in its hand: no patch is applied     *)
(* between the moment it is given the configuration and the moment its     *)
(* task, or the handler, ends.                                             *)
ConfigFixedDuringRun == [][holders # {} => patched' = patched]_vars

(* Every accepted run ends and gives the configuration back.               *)
EveryRunEnds == \A r \in Runs : task[r] = "spawned" ~> task[r] = "ended"

(* A request that needs the configuration is answered in the end.          *)
EveryRequestAnswered ==
    \A c \in Conns : reader[c] \in {"write", "read", "hold", "reply", "ack"} ~> reader[c] = "ready"

(* The gateway's runs are runs of ChatRun: forwarding, locking and         *)
(* disconnecting never make process_chat do what ChatRun does not allow.   *)
ImplementsChatRun == ChatSpec

(* A run whose connection is closed ends (websocket.rs cancels it there).  *)
DisconnectEndsRuns == \A r \in Runs : r \in closedOn ~> task[r] = "ended"
=============================================================================
