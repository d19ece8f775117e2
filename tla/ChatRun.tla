------------------------------- MODULE ChatRun -------------------------------
(***************************************************************************)
(* One chat run: process_chat_with_hooks of src/gateway/chat.rs, the loop  *)
(* that asks the model provider, forwards its stream as chat events into a *)
(* bounded channel, executes tool calls and asks again.                    *)
(*                                                                         *)
(* The module is a family of runs indexed by Runs.  A step is the code     *)
(* between two await points: the provider call, one stream event, one      *)
(* event_tx.send, one tool execution.  The gateway passes no hook registry *)
(* (process_chat), so the hook calls are dead on this path.                *)
(* The environment is the receiving half of the channel (Receive) and the  *)
(* owner of the cancellation token (Cancel); GatewayChat supplies both.    *)
(***************************************************************************)
EXTENDS Naturals, Sequences

CONSTANTS
    Runs,       \* run instances, one per accepted chat.send
    EventCap,   \* capacity of the event channel (64 in the code)
    MaxIter,    \* MAX_TOOL_ITERATIONS (25 in the code)
    MaxStream   \* bound: events a provider streams in one response

ASSUME ChatRunAssumption ==
    /\ EventCap \in Nat \ {0}
    /\ MaxIter \in Nat
    /\ MaxStream \in Nat

VARIABLES
    pc,       \* the await point process_chat stands at
    cancel,   \* the cancellation token has been cancelled
    iter,     \* provider calls made so far
    seq,      \* sequence number of the next event
    heard,    \* events received from the current response
    calls,    \* tool calls of the current response not yet executed
    pend,     \* the event event_tx.send is offering, while pc = "emit"
    resume,   \* where the run goes on once that event is in the channel
    chan,     \* the event channel's buffer
    stored,   \* assistant messages the run has added to its session
    log,      \* history: every event that entered the channel
    late      \* history: delta events that entered it after the cancellation

chatVars == <<pc, cancel, iter, seq, heard, calls, pend, resume, chan,
              stored, log, late>>

Terminal == {"final", "error", "aborted"}
Event == [state : Terminal \cup {"delta"}, seq : Nat]
Places == {"idle", "top", "call", "stream", "emit", "tools", "done"}

ChatInit ==
    /\ pc = [r \in Runs |-> "idle"]
    /\ cancel = [r \in Runs |-> FALSE]
    /\ iter = [r \in Runs |-> 0]
    /\ seq = [r \in Runs |-> 0]
    /\ heard = [r \in Runs |-> 0]
    /\ calls = [r \in Runs |-> 0]
    /\ pend = [r \in Runs |-> [state |-> "delta", seq |-> 0]]
    /\ resume = [r \in Runs |-> "done"]
    /\ chan = [r \in Runs |-> <<>>]
    /\ stored = [r \in Runs |-> 0]
    /\ log = [r \in Runs |-> <<>>]
    /\ late = [r \in Runs |-> 0]

-----------------------------------------------------------------------------
(* Offer an event to the channel and go on at place once it is accepted.   *)
Offer(r, state, n, place) ==
    /\ pend' = [pend EXCEPT ![r] = [state |-> state, seq |-> n]]
    /\ resume' = [resume EXCEPT ![r] = place]
    /\ pc' = [pc EXCEPT ![r] = "emit"]

(* Mutant of Emit: the channel is unbounded.                               *)
EmitUnbounded(r) ==
    /\ pc[r] = "emit"
    /\ chan' = [chan EXCEPT ![r] = Append(@, pend[r])]
    /\ log' = [log EXCEPT ![r] = Append(@, pend[r])]
    /\ late' = late
    /\ pc' = [pc EXCEPT ![r] = resume[r]]
    /\ UNCHANGED <<cancel, iter, seq, heard, calls, pend, resume, stored>>

(* event_tx.send(..).await completes: there is room in the channel.        *)
Emit(r) ==
    /\ pc[r] = "emit"
    /\ Len(chan[r]) < EventCap
    /\ chan' = [chan EXCEPT ![r] = Append(@, pend[r])]
    /\ log' = [log EXCEPT ![r] = Append(@, pend[r])]
    /\ late' = [late EXCEPT ![r] =
                  IF cancel[r] /\ pend[r].state = "delta" THEN @ + 1 ELSE @]
    /\ pc' = [pc EXCEPT ![r] = resume[r]]
    /\ UNCHANGED <<cancel, iter, seq, heard, calls, pend, resume, stored>>

(* The run starts: it takes its session and its history and resolves the   *)
(* provider; a provider that cannot be resolved ends it without an event.  *)
Begin(r) ==
    /\ pc[r] = "idle"
    /\ pc' = [pc EXCEPT ![r] = "top"]
    /\ UNCHANGED <<cancel, iter, seq, heard, calls, pend, resume, chan,
                   stored, log, late>>

BeginUnresolved(r) ==
    /\ pc[r] = "idle"
    /\ pc' = [pc EXCEPT ![r] = "done"]
    /\ UNCHANGED <<cancel, iter, seq, heard, calls, pend, resume, chan,
                   stored, log, late>>

(* The head of the agentic loop.                                           *)
TopCancelled(r) ==
    /\ pc[r] = "top"
    /\ cancel[r]
    /\ Offer(r, "aborted", seq[r], "done")
    /\ UNCHANGED <<cancel, iter, seq, heard, calls, chan, stored, log, late>>

TopExhausted(r) ==
    /\ pc[r] = "top"
    /\ ~cancel[r]
    /\ iter[r] >= MaxIter
    /\ iter' = [iter EXCEPT ![r] = @ + 1]
    /\ Offer(r, "error", seq[r], "done")
    /\ UNCHANGED <<cancel, seq, heard, calls, chan, stored, log, late>>

TopCall(r) ==
    /\ pc[r] = "top"
    /\ ~cancel[r]
    /\ iter[r] < MaxIter
    /\ iter' = [iter EXCEPT ![r] = @ + 1]
    /\ pc' = [pc EXCEPT ![r] = "call"]
    /\ UNCHANGED <<cancel, seq, heard, calls, pend, resume, chan, stored,
                   log, late>>

(* stream_chat(..).await answers: with an error, reported with seq 0, or   *)
(* with a stream and empty tool_calls.                                     *)
CallFails(r) ==
    /\ pc[r] = "call"
    /\ Offer(r, "error", 0, "done")
    /\ UNCHANGED <<cancel, iter, seq, heard, calls, chan, stored, log, late>>

CallStreams(r) ==
    /\ pc[r] = "call"
    /\ heard' = [heard EXCEPT ![r] = 0]
    /\ calls' = [calls EXCEPT ![r] = 0]
    /\ pc' = [pc EXCEPT ![r] = "stream"]
    /\ UNCHANGED <<cancel, iter, seq, pend, resume, chan, stored, log, late>>

(* One stream event arrives.  The token is looked at first, whatever the   *)
(* event is.                                                               *)
(* Mutant of StreamCancelled: it only leaves the stream loop.              *)
StreamCancelledFallsThrough(r) ==
    /\ pc[r] = "stream"
    /\ cancel[r]
    /\ Offer(r, "aborted", seq[r], "stream")
    /\ UNCHANGED <<cancel, iter, seq, heard, calls, chan, stored, log, late>>

StreamCancelled(r) ==
    /\ pc[r] = "stream"
    /\ cancel[r]
    /\ Offer(r, "aborted", seq[r], "done")
    /\ UNCHANGED <<cancel, iter, seq, heard, calls, chan, stored, log, late>>

(* Mutants of StreamDelta: the token is not looked at; the number is used  *)
(* again.                                                                  *)
StreamDeltaUnchecked(r, isCall) ==
    /\ pc[r] = "stream"
    /\ heard[r] < MaxStream
    /\ heard' = [heard EXCEPT ![r] = @ + 1]
    /\ calls' = [calls EXCEPT ![r] = IF isCall THEN @ + 1 ELSE @]
    /\ seq' = [seq EXCEPT ![r] = @ + 1]
    /\ Offer(r, "delta", seq[r], "stream")
    /\ UNCHANGED <<cancel, iter, chan, stored, log, late>>

StreamDeltaSameSeq(r, isCall) ==
    /\ pc[r] = "stream"
    /\ ~cancel[r]
    /\ heard[r] < MaxStream
    /\ heard' = [heard EXCEPT ![r] = @ + 1]
    /\ calls' = [calls EXCEPT ![r] = IF isCall THEN @ + 1 ELSE @]
    /\ Offer(r, "delta", seq[r], "stream")
    /\ UNCHANGED <<cancel, iter, seq, chan, stored, log, late>>

(* Delta, Thinking and ToolCall all become a delta event.                  *)
StreamDelta(r, isCall) ==
    /\ pc[r] = "stream"
    /\ ~cancel[r]
    /\ heard[r] < MaxStream
    /\ heard' = [heard EXCEPT ![r] = @ + 1]
    /\ calls' = [calls EXCEPT ![r] = IF isCall THEN @ + 1 ELSE @]
    /\ seq' = [seq EXCEPT ![r] = @ + 1]
    /\ Offer(r, "delta", seq[r], "stream")
    /\ UNCHANGED <<cancel, iter, chan, stored, log, late>>

(* Mutant of StreamError: the run goes on after it.                        *)
StreamErrorGoesOn(r) ==
    /\ pc[r] = "stream"
    /\ ~cancel[r]
    /\ Offer(r, "error", seq[r], "stream")
    /\ UNCHANGED <<cancel, iter, seq, heard, calls, chan, stored, log, late>>

StreamError(r) ==
    /\ pc[r] = "stream"
    /\ ~cancel[r]
    /\ Offer(r, "error", seq[r], "done")
    /\ UNCHANGED <<cancel, iter, seq, heard, calls, chan, stored, log, late>>

(* After the stream: execute the tool calls, or add the answer to the      *)
(* session and offer the final event.                                      *)
AfterStream(r) ==
    \/ /\ calls[r] > 0
       /\ pc' = [pc EXCEPT ![r] = "tools"]
       /\ UNCHANGED <<pend, resume, stored>>
    \/ /\ calls[r] = 0
       /\ stored' = [stored EXCEPT ![r] = @ + 1]
       /\ Offer(r, "final", seq[r], "done")

(* Done(usage) leaves the stream loop.                                     *)
StreamDone(r) ==
    /\ pc[r] = "stream"
    /\ ~cancel[r]
    /\ AfterStream(r)
    /\ UNCHANGED <<cancel, iter, seq, heard, calls, chan, log, late>>

(* The provider task dropped its sender without Done: recv() is None, and  *)
(* the token is not looked at.                                             *)
StreamCut(r) ==
    /\ pc[r] = "stream"
    /\ AfterStream(r)
    /\ UNCHANGED <<cancel, iter, seq, heard, calls, chan, log, late>>

(* One tool call is executed; a failing tool's error is its result.  After *)
(* the last one the loop starts over.  The token is not looked at here.    *)
ToolStep(r) ==
    /\ pc[r] = "tools"
    /\ calls' = [calls EXCEPT ![r] = @ - 1]
    /\ pc' = [pc EXCEPT ![r] = IF calls[r] = 1 THEN "top" ELSE "tools"]
    /\ UNCHANGED <<cancel, iter, seq, heard, pend, resume, chan, stored, log,
                   late>>

ProviderStep(r) ==
    \/ CallFails(r)
    \/ CallStreams(r)
    \/ StreamCancelled(r)
    \/ \E isCall \in BOOLEAN : StreamDelta(r, isCall)
    \/ StreamError(r)
    \/ StreamDone(r)
    \/ StreamCut(r)

LoopStep(r) ==
    \/ TopCancelled(r)
    \/ TopExhausted(r)
    \/ TopCall(r)
    \/ ToolStep(r)

(* Everything process_chat does of itself once it has begun.               *)
ProcessChat(r) == ProviderStep(r) \/ LoopStep(r) \/ Emit(r)

-----------------------------------------------------------------------------
(* The environment.                                                        *)
(* Mutant of Receive: the loop ends with the cancellation and the task then *)
(* waits for the run, the receiver still in its hands.                     *)
ReceiveUntilCancelled(r) ==
    /\ chan[r] # <<>>
    /\ ~cancel[r]
    /\ chan' = [chan EXCEPT ![r] = Tail(@)]
    /\ UNCHANGED <<pc, cancel, iter, seq, heard, calls, pend, resume, stored,
                   log, late>>

Receive(r) ==
    /\ chan[r] # <<>>
    /\ chan' = [chan EXCEPT ![r] = Tail(@)]
    /\ UNCHANGED <<pc, cancel, iter, seq, heard, calls, pend, resume, stored,
                   log, late>>

(* token.cancel() on the tokens of the runs in R.                          *)
Cancel(R) ==
    /\ cancel' = [r \in Runs |-> cancel[r] \/ r \in R]
    /\ UNCHANGED <<pc, iter, seq, heard, calls, pend, resume, chan, stored,
                   log, late>>

ChatNext ==
    \/ \E r \in Runs :
        \/ Begin(r)
        \/ BeginUnresolved(r)
        \/ ProcessChat(r)
        \/ Receive(r)
    \/ \E R \in SUBSET Runs : Cancel(R)

ChatSpec == ChatInit /\ [][ChatNext]_chatVars

(* The provider answers, ends its stream and its tools return; tokio runs  *)
(* every ready task; somebody drains the channel.  No one need cancel.     *)
ChatFairness ==
    \A r \in Runs :
        /\ WF_chatVars(ProcessChat(r))
        /\ WF_chatVars(Receive(r))

ChatFairSpec == ChatSpec /\ ChatFairness

-----------------------------------------------------------------------------
ChatTypeOK ==
    /\ pc \in [Runs -> Places]
    /\ cancel \in [Runs -> BOOLEAN]
    /\ iter \in [Runs -> Nat]
    /\ seq \in [Runs -> Nat]
    /\ heard \in [Runs -> Nat]
    /\ calls \in [Runs -> Nat]
    /\ pend \in [Runs -> Event]
    /\ resume \in [Runs -> {"stream", "done"}]
    /\ chan \in [Runs -> Seq(Event)]
    /\ stored \in [Runs -> Nat]
    /\ log \in [Runs -> Seq(Event)]
    /\ late \in [Runs -> Nat]
    /\ \A r \in Runs : Len(chan[r]) <= EventCap

(* A run's event stream is deltas numbered 0, 1, 2, .. followed by at most *)
(* one terminal event (process_chat returns or breaks after each of them), *)
(* whose number is the next one, or 0 for a failed provider call.          *)
EventOrder ==
    \A r \in Runs : \A i \in 1..Len(log[r]) :
        /\ log[r][i].state = "delta" => log[r][i].seq = i - 1
        /\ log[r][i].state \in Terminal =>
             /\ i = Len(log[r])
             /\ \/ log[r][i].seq = i - 1
                \/ log[r][i] = [state |-> "error", seq |-> 0]

(* The session gains an assistant message exactly when the run ends with a *)
(* final event: a run whose client was told "aborted" or "error" leaves    *)
(* nothing in the session, and no run adds two answers.                    *)
AnswerMatchesEvent ==
    \A r \in Runs :
        /\ stored[r] <= 1
        /\ \A i \in 1..Len(log[r]) :
             log[r][i].state \in Terminal =>
                stored[r] = (IF log[r][i].state = "final" THEN 1 ELSE 0)

(* Cancelling is prompt: after chat.cancel at most one more delta enters   *)
(* the channel, the one already being sent.                                *)
CancelStopsDeltas == \A r \in Runs : late[r] <= 1

(* process_chat implements RunPromise: the history of events that entered  *)
(* the channel and the answers in the session follow it step by step.      *)
Promise == INSTANCE RunPromise
ImplementsPromise == Promise!Spec

(* Every run that begins ends, also when it is cancelled at any point.     *)
RunTerminates == \A r \in Runs : pc[r] = "top" ~> pc[r] = "done"
=============================================================================
