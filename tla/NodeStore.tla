------------------------------ MODULE NodeStore ------------------------------
(***************************************************************************)
(* The node.* requests of the gateway (src/gateway/websocket.rs): pairing  *)
(* requests and their decisions, invocations, and the work queued for a    *)
(* node that polls for it.  Each store is behind a lock of its own, taken  *)
(* once per request, so a request is one step; its answer then travels     *)
(* through the channel of the connection that asked, and is lost with it.  *)
(***************************************************************************)
EXTENDS Naturals, Sequences, FiniteSets, SequencesExt

CONSTANTS
    Nodes,        \* node ids named by the requests
    NodeClients,  \* connections that send node.* requests
    DrainLimits,  \* values of the parameter limit
    MaxWork,      \* bound: items ever enqueued
    MaxPairs      \* bound: pairing requests and invocations

ASSUME NodeAssumption ==
    /\ DrainLimits \subseteq Nat
    /\ MaxWork \in Nat /\ MaxPairs \in Nat

VARIABLES
    pending,      \* node_pending_work: node -> items waiting
    nodePairs,    \* node_pairs: a request is named by its position
    invokes,      \* node_invoke_results: number of invocations, all pending
    answers,      \* connection -> items of drain answers on their way to it
    held,         \* connection -> items its client has received
    gone,         \* connections that are closed
    issued,       \* how many items were ever enqueued; an item is its number
    accepted,     \* history: node -> items enqueued, in order
    drained       \* history: node -> items drained, in order

nodeVars == <<pending, nodePairs, invokes, answers, held, gone, issued, accepted, drained>>

Work == 1 .. MaxWork
Items(s) == {s[i] : i \in 1 .. Len(s)}

(* What a client has received or is about to.                              *)
Has(c) == held[c] \o answers[c]

NodeInit ==
    /\ pending = [n \in Nodes |-> <<>>]
    /\ nodePairs = <<>>
    /\ invokes = 0
    /\ answers = [c \in NodeClients |-> <<>>]
    /\ held = [c \in NodeClients |-> <<>>]
    /\ gone = {} /\ issued = 0
    /\ accepted = [n \in Nodes |-> <<>>]
    /\ drained = [n \in Nodes |-> <<>>]

(* node.pending.enqueue: the entry is created when it is missing.  The work *)
(* ids are the gateway's UUIDs or unique ids of the client.                *)
Enqueue(n) ==
    /\ issued < MaxWork
    /\ issued' = issued + 1
    /\ pending' = [pending EXCEPT ![n] = Append(@, issued + 1)]
    /\ accepted' = [accepted EXCEPT ![n] = Append(@, issued + 1)]
    /\ UNCHANGED <<nodePairs, invokes, answers, held, gone, drained>>

(* Mutants of Drain: the items are copied and not removed; the last items  *)
(* are taken instead of the first.                                         *)
DrainCopies(c, n, limit) ==
    /\ c \notin gone
    /\ LET k == IF limit < Len(pending[n]) THEN limit ELSE Len(pending[n])
       IN /\ answers' = [answers EXCEPT ![c] = @ \o SubSeq(pending[n], 1, k)]
          /\ drained' = [drained EXCEPT ![n] = @ \o SubSeq(pending[n], 1, k)]
    /\ UNCHANGED <<pending, nodePairs, invokes, held, gone, issued, accepted>>

DrainFromBack(c, n, limit) ==
    /\ c \notin gone
    /\ LET q == pending[n]
           k == IF limit < Len(q) THEN limit ELSE Len(q)
       IN /\ pending' = [pending EXCEPT ![n] = SubSeq(q, 1, Len(q) - k)]
          /\ answers' = [answers EXCEPT ![c] = @ \o SubSeq(q, Len(q) - k + 1, Len(q))]
          /\ drained' = [drained EXCEPT ![n] = @ \o SubSeq(q, Len(q) - k + 1, Len(q))]
    /\ UNCHANGED <<nodePairs, invokes, held, gone, issued, accepted>>

(* node.pending.drain: the first items leave the queue under the lock, and *)
(* only then is the answer sent.                                           *)
Drain(c, n, limit) ==
    /\ c \notin gone
    /\ LET q == pending[n]
           k == IF limit < Len(q) THEN limit ELSE Len(q)
       IN /\ pending' = [pending EXCEPT ![n] = SubSeq(q, k + 1, Len(q))]
          /\ answers' = [answers EXCEPT ![c] = @ \o SubSeq(q, 1, k)]
          /\ drained' = [drained EXCEPT ![n] = @ \o SubSeq(q, 1, k)]
    /\ UNCHANGED <<nodePairs, invokes, held, gone, issued, accepted>>

(* The writer task delivers; the connection closes with what is on its way. *)
AnswerArrives(c) ==
    /\ c \notin gone /\ answers[c] # <<>>
    /\ held' = [held EXCEPT ![c] = @ \o answers[c]]
    /\ answers' = [answers EXCEPT ![c] = <<>>]
    /\ UNCHANGED <<pending, nodePairs, invokes, gone, issued, accepted, drained>>

NodeLeaves(c) ==
    /\ c \notin gone
    /\ gone' = gone \cup {c}
    /\ answers' = [answers EXCEPT ![c] = <<>>]
    /\ UNCHANGED <<pending, nodePairs, invokes, held, issued, accepted, drained>>

(* node.pair.request, and node.pair.approve / .reject, which rewrite the   *)
(* status of the entry whatever it is; neither touches the nodes.          *)
PairRequest(n) ==
    /\ Len(nodePairs) + invokes < MaxPairs
    /\ nodePairs' = Append(nodePairs, [node |-> n, status |-> "pending"])
    /\ UNCHANGED <<pending, invokes, answers, held, gone, issued, accepted, drained>>

PairDecision(i, status) ==
    /\ nodePairs' = [nodePairs EXCEPT ![i].status = status]
    /\ UNCHANGED <<pending, invokes, answers, held, gone, issued, accepted, drained>>

(* node.invoke: the invocation is recorded and nothing ever completes it;  *)
(* node.describe and node.rename find no node, for want of any request     *)
(* that adds one, and change nothing.                                      *)
Invoke ==
    /\ Len(nodePairs) + invokes < MaxPairs
    /\ invokes' = invokes + 1
    /\ UNCHANGED <<pending, nodePairs, answers, held, gone, issued, accepted, drained>>

NodeNext ==
    \/ \E n \in Nodes : Enqueue(n)
    \/ \E c \in NodeClients, n \in Nodes, limit \in DrainLimits : Drain(c, n, limit)
    \/ \E c \in NodeClients : AnswerArrives(c)
    \/ \E c \in NodeClients : NodeLeaves(c)
    \/ \E n \in Nodes : PairRequest(n)
    \/ \E i \in 1 .. Len(nodePairs), s \in {"approved", "rejected"} : PairDecision(i, s)
    \/ Invoke

NodeSpec == NodeInit /\ [][NodeNext]_nodeVars

-----------------------------------------------------------------------------
(* Queues hold work, and no connection that is gone has an answer coming.  *)
NodeTypeOK ==
    /\ pending \in [Nodes -> Seq(Work)]
    /\ accepted \in [Nodes -> Seq(Work)]
    /\ drained \in [Nodes -> Seq(Work)]
    /\ answers \in [NodeClients -> Seq(Work)]
    /\ held \in [NodeClients -> Seq(Work)]
    /\ issued \in 0 .. MaxWork
    /\ gone \subseteq NodeClients
    /\ nodePairs \in Seq([node : Nodes, status : {"pending", "approved", "rejected"}])
    /\ invokes \in Nat

(* What has been drained of a node's queue followed by what still waits is *)
(* what was accepted, in order: a drain that meets enqueues and drains of  *)
(* other connections neither skips nor repeats an item.                    *)
QueueConserved == \A n \in Nodes : drained[n] \o pending[n] = accepted[n]

(* No item of work reaches two clients, or one of them twice: two nodes    *)
(* that poll the same queue never run the same item.                       *)
WorkOnce ==
    \A c, d \in NodeClients :
        /\ IsInjective(Has(c))
        /\ c # d => Items(Has(c)) \cap Items(Has(d)) = {}

(* The queues of the gateway implement the abstract work queue.            *)
Queue == INSTANCE WorkQueue WITH accepted <- accepted, taken <- drained
ImplementsWorkQueue == Queue!Spec
=============================================================================
