---------------------------- MODULE ChatRunProofs ----------------------------
(***************************************************************************)
(* For any set of runs, any channel capacity and any iteration limit: the  *)
(* event stream of a chat run is well formed, its answer is in the session *)
(* exactly when the stream says so, cancelling is prompt, and process_chat *)
(* implements RunPromise.                                                  *)
(***************************************************************************)
EXTENDS ChatRun, TLAPS

(* A log of deltas numbered from 0.                                        *)
DeltasOnly(s) == \A i \in 1..Len(s) : s[i] = [state |-> "delta", seq |-> i - 1]

(* e may close a run that has published n deltas and has stored k answers. *)
Closes(e, n, k) ==
    /\ e.state \in Terminal
    /\ e.seq = n \/ e = [state |-> "error", seq |-> 0]
    /\ k = IF e.state = "final" THEN 1 ELSE 0

(* What holds of a run that still loops, that is offering an event, and    *)
(* that is over.                                                           *)
Looping(r) ==
    /\ pc[r] \in {"idle", "top", "call", "stream", "tools"}
    /\ DeltasOnly(log[r])
    /\ seq[r] = Len(log[r])
    /\ stored[r] = 0
    /\ pc[r] = "tools" => calls[r] > 0
    /\ pc[r] = "idle" => log[r] = <<>>

Offering(r) ==
    /\ pc[r] = "emit"
    /\ DeltasOnly(log[r])
    /\ \/ /\ pend[r] = [state |-> "delta", seq |-> Len(log[r])]
          /\ resume[r] = "stream"
          /\ seq[r] = Len(log[r]) + 1
          /\ stored[r] = 0
       \/ /\ resume[r] = "done"
          /\ Closes(pend[r], Len(log[r]), stored[r])

Over(r) ==
    /\ pc[r] = "done"
    /\ \/ log[r] = <<>> /\ stored[r] = 0
       \/ \E n \in Nat :
            /\ Len(log[r]) = n + 1
            /\ \A i \in 1..n : log[r][i] = [state |-> "delta", seq |-> i - 1]
            /\ Closes(log[r][n + 1], n, stored[r])

(* The delta being sent when the run is cancelled is the last one.         *)
Prompt(r) ==
    /\ late[r] <= 1
    /\ ~cancel[r] => late[r] = 0
    /\ pc[r] = "emit" /\ pend[r].state = "delta" => late[r] = 0

RunInv(r) == (Looping(r) \/ Offering(r) \/ Over(r)) /\ Prompt(r)

ChatInv == ChatTypeOK /\ \A r \in Runs : RunInv(r)

-----------------------------------------------------------------------------
LEMMA InitInv == ChatInit => ChatInv
  BY ChatRunAssumption
     DEF ChatInit, ChatInv, ChatTypeOK, RunInv, Looping, DeltasOnly, Prompt,
         Places, Event, Terminal

(* Appending to a sequence of events.                                      *)
LEMMA AppendEvent ==
  ASSUME NEW s \in Seq(Event), NEW e \in Event
  PROVE  /\ Append(s, e) \in Seq(Event)
         /\ Len(Append(s, e)) = Len(s) + 1
         /\ \A i \in 1..Len(s) : Append(s, e)[i] = s[i]
         /\ Append(s, e)[Len(s) + 1] = e
  OBVIOUS

(* Every event of a log of deltas is a delta, with its position.           *)
LEMMA DeltaEvent ==
  ASSUME NEW s, DeltasOnly(s), NEW i \in 1..Len(s)
  PROVE  s[i].state = "delta" /\ s[i].seq = i - 1 /\ s[i].state \notin Terminal
<1>1. s[i] = [state |-> "delta", seq |-> i - 1]
  BY DEF DeltasOnly
<1>2. s[i].state = "delta" /\ s[i].seq = i - 1
  BY <1>1
<1> QED
  BY <1>2 DEF Terminal

(* An event enters the channel.                                            *)
LEMMA EmitInv ==
  ASSUME ChatInv, NEW r \in Runs, Emit(r)
  PROVE  ChatInv'
<1> USE DEF ChatInv
<1>1. ChatTypeOK'
  <2>1. /\ Append(chan[r], pend[r]) \in Seq(Event)
        /\ Len(Append(chan[r], pend[r])) = Len(chan[r]) + 1
        /\ Append(log[r], pend[r]) \in Seq(Event)
    BY AppendEvent DEF ChatTypeOK
  <2>2. Len(chan[r]) + 1 <= EventCap
    BY ChatRunAssumption DEF Emit, ChatTypeOK
  <2>3. ChatTypeOK
    OBVIOUS
  <2>4. pc' \in [Runs -> Places] /\ late' \in [Runs -> Nat]
    BY <2>3 DEF Emit, ChatTypeOK, Places
  <2>5. chan' \in [Runs -> Seq(Event)] /\ log' \in [Runs -> Seq(Event)]
    BY <2>1, <2>3 DEF Emit, ChatTypeOK
  <2>6. \A q \in Runs : Len(chan'[q]) <= EventCap
    BY <2>1, <2>2, <2>3 DEF Emit, ChatTypeOK
  <2> QED
    BY <2>3, <2>4, <2>5, <2>6 DEF Emit, ChatTypeOK
<1>2. RunInv(r)'
  <2>1. /\ log'[r] = Append(log[r], pend[r])
        /\ Len(log'[r]) = Len(log[r]) + 1
        /\ \A i \in 1..Len(log[r]) : log'[r][i] = log[r][i]
        /\ log'[r][Len(log[r]) + 1] = pend[r]
        /\ Len(log[r]) \in Nat
    BY AppendEvent DEF Emit, ChatTypeOK
  <2>2. Offering(r) /\ Prompt(r)
    BY DEF Emit, RunInv, Looping, Over
  <2>3. Prompt(r)'
    BY <2>2 DEF Emit, Prompt, ChatTypeOK, Offering, Closes, Terminal
  <2>4. CASE pend[r].state = "delta"
    <3>1. /\ pend[r] = [state |-> "delta", seq |-> Len(log[r])]
          /\ resume[r] = "stream"
          /\ seq[r] = Len(log[r]) + 1
          /\ stored[r] = 0
      BY <2>2, <2>4 DEF Offering, Closes, Terminal
    <3>2. DeltasOnly(log[r])'
      <4> SUFFICES ASSUME NEW i \in 1..(Len(log[r]) + 1)
                   PROVE  log'[r][i] = [state |-> "delta", seq |-> i - 1]
        BY <2>1 DEF DeltasOnly
      <4>1. CASE i = Len(log[r]) + 1
        BY <2>1, <3>1, <4>1
      <4>2. CASE i \in 1..Len(log[r])
        BY <2>1, <2>2, <4>2 DEF Offering, DeltasOnly
      <4> QED
        BY <2>1, <4>1, <4>2
    <3>3. Looping(r)'
      BY <2>1, <3>1, <3>2 DEF Emit, Looping, ChatTypeOK
    <3> QED
      BY <2>3, <3>3 DEF RunInv
  <2>5. CASE pend[r].state # "delta"
    <3>1. /\ resume[r] = "done"
          /\ Closes(pend[r], Len(log[r]), stored[r])
          /\ DeltasOnly(log[r])
      BY <2>2, <2>5 DEF Offering
    <3>2. Over(r)'
      BY <2>1, <3>1 DEF Emit, Over, DeltasOnly, Closes, ChatTypeOK
    <3> QED
      BY <2>3, <3>2 DEF RunInv
  <2> QED
    BY <2>4, <2>5
<1>3. ASSUME NEW q \in Runs, q # r PROVE RunInv(q)'
  BY <1>3 DEF Emit, ChatTypeOK, RunInv, Looping, Offering, Over, Prompt
<1> QED
  BY <1>1, <1>2, <1>3

(* The steps that offer an event, and those that only move the run on.     *)
LEMMA StepInv ==
  ASSUME ChatInv, NEW r \in Runs,
         \/ Begin(r) \/ BeginUnresolved(r)
         \/ LoopStep(r) \/ ProviderStep(r)
  PROVE  ChatInv'
<1> USE DEF ChatInv
<1>a. /\ UNCHANGED <<cancel, chan, log, late>>
      /\ \A q \in Runs \ {r} :
            /\ pc'[q] = pc[q] /\ seq'[q] = seq[q] /\ calls'[q] = calls[q]
            /\ pend'[q] = pend[q] /\ resume'[q] = resume[q]
            /\ stored'[q] = stored[q]
  BY SMTT(30) DEF ChatTypeOK, Begin, BeginUnresolved, LoopStep, ProviderStep,
         TopCancelled, TopExhausted, TopCall, ToolStep, CallFails, CallStreams,
         StreamCancelled, StreamDelta, StreamError, StreamDone, StreamCut,
         AfterStream, Offer
<1>b. Looping(r) /\ Prompt(r)
  BY DEF Begin, BeginUnresolved, LoopStep, ProviderStep,
         TopCancelled, TopExhausted, TopCall, ToolStep, CallFails, CallStreams,
         StreamCancelled, StreamDelta, StreamError, StreamDone, StreamCut,
         RunInv, Offering, Over
<1>c. Len(log[r]) \in Nat /\ log[r] \in Seq(Event) /\ seq[r] = Len(log[r])
  BY <1>b DEF ChatTypeOK, Looping
<1>1. ChatTypeOK'
  <2> USE <1>b, <1>c DEF ChatTypeOK, Places, Event, Terminal
  <2>1. CASE Begin(r)
    BY <2>1 DEF Begin
  <2>2. CASE BeginUnresolved(r)
    BY <2>2 DEF BeginUnresolved
  <2>3. CASE LoopStep(r)
    <3>1. CASE TopCancelled(r)
      BY SMTT(40), <3>1 DEF TopCancelled, Offer
    <3>2. CASE TopExhausted(r)
      BY SMTT(40), <3>2 DEF TopExhausted, Offer
    <3>3. CASE TopCall(r)
      BY SMTT(30), <3>3 DEF TopCall
    <3>4. CASE ToolStep(r)
      BY <3>4 DEF ToolStep, Looping
    <3> QED
      BY <2>3, <3>1, <3>2, <3>3, <3>4 DEF LoopStep
  <2>4. CASE ProviderStep(r)
    <3>1. CASE CallFails(r)
      BY <3>1 DEF CallFails, Offer
    <3>2. CASE CallStreams(r)
      BY <3>2 DEF CallStreams
    <3>3. CASE StreamCancelled(r)
      BY <3>3 DEF StreamCancelled, Offer
    <3>4. ASSUME NEW isCall \in BOOLEAN, StreamDelta(r, isCall) PROVE ChatTypeOK'
      <4>1. (IF isCall THEN calls[r] + 1 ELSE calls[r]) \in Nat
        OBVIOUS
      <4>2. calls' \in [Runs -> Nat]
        BY <3>4, <4>1 DEF StreamDelta
      <4> HIDE <4>1
      <4> QED
        BY SMTT(30), <3>4, <4>2 DEF StreamDelta, Offer
    <3>5. CASE StreamError(r)
      BY <3>5 DEF StreamError, Offer
    <3>6. CASE /\ AfterStream(r)
               /\ UNCHANGED <<cancel, iter, seq, heard, calls, chan, log, late>>
      <4>1. CASE calls[r] > 0
        <5>1. /\ pc' = [pc EXCEPT ![r] = "tools"]
              /\ UNCHANGED <<pend, resume, stored>>
          BY <3>6, <4>1 DEF AfterStream
        <5> QED
          BY <3>6, <5>1
      <4>2. CASE calls[r] = 0
        <5>1. /\ stored' = [stored EXCEPT ![r] = @ + 1]
              /\ Offer(r, "final", seq[r], "done")
          BY <3>6, <4>2 DEF AfterStream
        <5> QED
          BY SMTT(30), <3>6, <5>1 DEF Offer
      <4> QED
        BY <3>6, <4>1, <4>2 DEF AfterStream
    <3> QED
      BY <2>4, <3>1, <3>2, <3>3, <3>4, <3>5, <3>6
         DEF ProviderStep, StreamDone, StreamCut
  <2> QED
    BY <2>1, <2>2, <2>3, <2>4
<1>2. RunInv(r)'
  <2>1. CASE Begin(r)
    BY <1>b, <2>1 DEF Begin, RunInv, Looping, Prompt, ChatTypeOK
  <2>2. CASE BeginUnresolved(r)
    BY <1>b, <2>2 DEF BeginUnresolved, RunInv, Looping, Over, Prompt, ChatTypeOK
  <2>3. CASE LoopStep(r)
    <3>1. CASE TopCancelled(r) \/ TopExhausted(r)
      BY <1>b, <1>c, <3>1
         DEF TopCancelled, TopExhausted, Offer, Closes, Terminal, RunInv,
             Looping, Offering, Prompt, ChatTypeOK
    <3>2. CASE TopCall(r)
      BY <1>b, <3>2 DEF TopCall, RunInv, Looping, Prompt, ChatTypeOK
    <3>3. CASE ToolStep(r)
      BY <1>b, <3>3 DEF ToolStep, RunInv, Looping, Prompt, ChatTypeOK
    <3> QED
      BY <2>3, <3>1, <3>2, <3>3 DEF LoopStep
  <2>4. CASE ProviderStep(r)
    <3>1. CASE CallFails(r) \/ StreamCancelled(r) \/ StreamError(r)
      BY <1>b, <1>c, <3>1
         DEF CallFails, StreamCancelled, StreamError, Offer, Closes, Terminal,
             RunInv, Looping, Offering, Prompt, ChatTypeOK
    <3>2. CASE CallStreams(r)
      BY <1>b, <3>2 DEF CallStreams, RunInv, Looping, Prompt, ChatTypeOK
    <3>3. ASSUME NEW isCall \in BOOLEAN, StreamDelta(r, isCall) PROVE RunInv(r)'
      <4>1. /\ pc'[r] = "emit"
            /\ pend'[r] = [state |-> "delta", seq |-> Len(log[r])]
            /\ resume'[r] = "stream"
            /\ seq'[r] = Len(log[r]) + 1
            /\ stored'[r] = 0
            /\ ~cancel[r]
        BY <1>b, <1>c, <3>3 DEF StreamDelta, Offer, Looping, ChatTypeOK
      <4> QED
        BY <1>a, <1>b, <4>1 DEF RunInv, Looping, Offering, Prompt
    <3>4. CASE AfterStream(r) /\ pc[r] = "stream" /\ UNCHANGED <<seq, calls>>
      <4>1. CASE calls[r] > 0
        BY <1>a, <1>b, <3>4, <4>1
           DEF AfterStream, RunInv, Looping, Prompt, ChatTypeOK
      <4>2. CASE calls[r] = 0
        BY <1>a, <1>b, <1>c, <3>4, <4>2
           DEF AfterStream, Offer, Closes, Terminal, RunInv, Looping, Offering,
               Prompt, ChatTypeOK
      <4> QED
        BY <3>4, <4>1, <4>2 DEF AfterStream
    <3> QED
      BY <2>4, <3>1, <3>2, <3>3, <3>4 DEF ProviderStep, StreamDone, StreamCut
  <2> QED
    BY <2>1, <2>2, <2>3, <2>4
<1>3. ASSUME NEW q \in Runs, q # r PROVE RunInv(q)'
  BY <1>a, <1>3 DEF RunInv, Looping, Offering, Over, Prompt
<1> QED
  BY <1>1, <1>2, <1>3
-----------------------------------------------------------------------------
LEMMA ReceiveInv ==
  ASSUME ChatInv, NEW r \in Runs, Receive(r)
  PROVE  ChatInv'
<1>1. /\ Tail(chan[r]) \in Seq(Event)
      /\ Len(Tail(chan[r])) <= EventCap
  BY ChatRunAssumption DEF ChatInv, ChatTypeOK, Receive
<1>2. ChatTypeOK'
  BY <1>1 DEF ChatInv, ChatTypeOK, Receive
<1>3. ASSUME NEW q \in Runs PROVE RunInv(q)'
  BY DEF ChatInv, Receive, RunInv, Looping, Offering, Over, Prompt
<1> QED
  BY <1>2, <1>3 DEF ChatInv

LEMMA CancelInv ==
  ASSUME ChatInv, NEW R \in SUBSET Runs, Cancel(R)
  PROVE  ChatInv'
<1>1. ChatTypeOK'
  BY DEF ChatInv, ChatTypeOK, Cancel
<1>2. ASSUME NEW q \in Runs PROVE RunInv(q)'
  BY DEF ChatInv, Cancel, RunInv, Looping, Offering, Over, Prompt
<1> QED
  BY <1>1, <1>2 DEF ChatInv

LEMMA NextInv == ChatInv /\ [ChatNext]_chatVars => ChatInv'
<1> SUFFICES ASSUME ChatInv, [ChatNext]_chatVars PROVE ChatInv'
  OBVIOUS
<1>1. ASSUME NEW r \in Runs,
             Begin(r) \/ BeginUnresolved(r) \/ ProcessChat(r) \/ Receive(r)
      PROVE  ChatInv'
  BY <1>1, EmitInv, StepInv, ReceiveInv DEF ProcessChat
<1>2. ASSUME NEW R \in SUBSET Runs, Cancel(R) PROVE ChatInv'
  BY <1>2, CancelInv
<1>3. CASE UNCHANGED chatVars
  BY <1>3 DEF chatVars, ChatInv, ChatTypeOK, RunInv, Looping, Offering, Over,
              Prompt
<1> QED
  BY <1>1, <1>2, <1>3 DEF ChatNext

(* The inductive invariant of every chat run.                              *)
THEOREM RunInvariant == ChatSpec => []ChatInv
  BY InitInv, NextInv, PTL DEF ChatSpec

(* The variables of process_chat keep their types, and the event channel   *)
(* never holds more than its capacity.                                     *)
THEOREM TypeCorrect == ChatSpec => []ChatTypeOK
  BY RunInvariant, PTL DEF ChatInv

(* The events of a run that is over: deltas, then the one that closed it.  *)
LEMMA OverEvent ==
  ASSUME NEW r \in Runs, Over(r), NEW i \in 1..Len(log[r]), Len(log[r]) \in Nat
  PROVE  \/ /\ log[r][i].state = "delta"
            /\ log[r][i].seq = i - 1
            /\ log[r][i].state \notin Terminal
         \/ /\ i = Len(log[r])
            /\ Closes(log[r][i], i - 1, stored[r])
<1>1. PICK n \in Nat :
         /\ Len(log[r]) = n + 1
         /\ \A j \in 1..n : log[r][j] = [state |-> "delta", seq |-> j - 1]
         /\ Closes(log[r][n + 1], n, stored[r])
  BY DEF Over
<1>2. CASE i = n + 1
  BY <1>1, <1>2
<1>3. CASE i \in 1..n
  <2>1. log[r][i] = [state |-> "delta", seq |-> i - 1]
    BY <1>1, <1>3
  <2>2. log[r][i].state = "delta" /\ log[r][i].seq = i - 1
    BY <2>1
  <2> QED
    BY <2>2 DEF Terminal
<1> QED
  BY <1>1, <1>2, <1>3

(* Deltas in order, at most one terminal event, and that one last.         *)
THEOREM EventsInOrder == ChatSpec => []EventOrder
<1>1. ChatInv => EventOrder
  <2> SUFFICES ASSUME ChatInv, NEW r \in Runs, NEW i \in 1..Len(log[r])
               PROVE  /\ log[r][i].state = "delta" => log[r][i].seq = i - 1
                      /\ log[r][i].state \in Terminal =>
                           /\ i = Len(log[r])
                           /\ \/ log[r][i].seq = i - 1
                              \/ log[r][i] = [state |-> "error", seq |-> 0]
    BY DEF EventOrder
  <2>1. CASE DeltasOnly(log[r])
    BY <2>1, DeltaEvent
  <2>2. CASE Over(r)
    BY <2>2, OverEvent DEF ChatInv, ChatTypeOK, Closes, Terminal
  <2> QED
    BY <2>1, <2>2 DEF ChatInv, RunInv, Looping, Offering
<1> QED
  BY <1>1, RunInvariant, PTL

(* The session holds the run's answer exactly when its stream ends with a  *)
(* final event.                                                            *)
THEOREM AnswerMatches == ChatSpec => []AnswerMatchesEvent
<1>1. ChatInv => AnswerMatchesEvent
  <2> SUFFICES ASSUME ChatInv, NEW r \in Runs
               PROVE  /\ stored[r] <= 1
                      /\ \A i \in 1..Len(log[r]) :
                           log[r][i].state \in Terminal =>
                              stored[r] = (IF log[r][i].state = "final"
                                           THEN 1 ELSE 0)
    BY DEF AnswerMatchesEvent
  <2>1. CASE Looping(r)
    BY <2>1, DeltaEvent DEF Looping
  <2>2. CASE Offering(r)
    BY <2>2, DeltaEvent DEF Offering, Closes
  <2>3. CASE Over(r)
    BY <2>3, OverEvent DEF Over, Closes
  <2> QED
    BY <2>1, <2>2, <2>3 DEF ChatInv, RunInv
<1> QED
  BY <1>1, RunInvariant, PTL

(* At most one delta enters the channel after the cancellation.            *)
THEOREM CancelIsPrompt == ChatSpec => []CancelStopsDeltas
<1>1. ChatInv => CancelStopsDeltas
  BY DEF ChatInv, RunInv, Prompt, CancelStopsDeltas
<1> QED
  BY <1>1, RunInvariant, PTL

-----------------------------------------------------------------------------
(* A step that leaves the run's history alone is a stutter of the promise, *)
(* and an Emit publishes an event the promise allows.                      *)
LEMMA EmitPromise ==
  ASSUME ChatInv, NEW r \in Runs, Emit(r)
  PROVE  Promise!Next
<1>1. Offering(r)
  BY DEF ChatInv, Emit, RunInv, Looping, Over
<1>2. UNCHANGED stored /\ log' = [log EXCEPT ![r] = Append(@, pend[r])]
  BY DEF Emit
<1>3. log[r] \in Seq(Event) /\ Len(log[r]) \in Nat /\ pend[r] \in Event
  BY DEF ChatInv, ChatTypeOK
<1>4. ~Promise!Closed(r)
  BY <1>1, <1>3, DeltaEvent DEF Promise!Closed, Offering
<1>5. pend[r] = [state |-> pend[r].state, seq |-> pend[r].seq]
  BY <1>3 DEF Event
<1>6. Promise!Publish(r, pend[r].state, pend[r].seq)
  BY <1>2, <1>5 DEF Promise!Publish
<1>7. CASE pend[r].state = "delta"
  <2>1. pend[r].seq = Len(log[r]) /\ stored[r] = 0
    BY <1>1, <1>7 DEF Offering, Closes, Terminal
  <2> QED
    BY <1>2, <1>4, <1>6, <1>7, <2>1 DEF Promise!Next, Promise!Delta
<1>8. CASE pend[r].state # "delta"
  <2>1. Closes(pend[r], Len(log[r]), stored[r])
    BY <1>1, <1>8 DEF Offering
  <2>2. CASE pend[r].state = "final"
    <3>1. pend[r].seq = Len(log[r]) /\ stored[r] = 1
      BY <2>1, <2>2 DEF Closes
    <3> QED
      BY <1>2, <1>4, <1>6, <2>2, <3>1 DEF Promise!Next, Promise!Final
  <2>3. CASE pend[r].state = "aborted"
    <3>1. pend[r].seq = Len(log[r]) /\ stored[r] = 0
      BY <2>1, <2>3 DEF Closes
    <3> QED
      BY <1>2, <1>4, <1>6, <2>3, <3>1 DEF Promise!Next, Promise!Abort
  <2>4. CASE pend[r].state = "error"
    <3>1. pend[r].seq \in {0, Len(log[r])} /\ stored[r] = 0
      BY <2>1, <2>4 DEF Closes
    <3> QED
      BY <1>2, <1>4, <1>6, <2>4, <3>1 DEF Promise!Next, Promise!Fail
  <2> QED
    BY <2>1, <2>2, <2>3, <2>4 DEF Closes, Terminal
<1> QED
  BY <1>7, <1>8

LEMMA AnswerPromise ==
  ASSUME ChatInv, NEW r \in Runs, AfterStream(r), pc[r] = "stream",
         UNCHANGED log
  PROVE  [Promise!Next]_(Promise!vars)
<1>1. Looping(r)
  BY DEF ChatInv, RunInv, Offering, Over
<1>2. ~Promise!Closed(r)
  BY <1>1, DeltaEvent DEF Promise!Closed, Looping, ChatInv, ChatTypeOK
<1>3. CASE calls[r] > 0
  BY <1>3 DEF AfterStream, Promise!vars
<1>4. CASE calls[r] = 0
  <2>1. Promise!Answer(r)
    BY <1>1, <1>2, <1>4 DEF AfterStream, Looping, Promise!Answer, ChatInv, ChatTypeOK
  <2> QED
    BY <2>1 DEF Promise!Next
<1> QED
  BY <1>3, <1>4 DEF AfterStream

LEMMA StepPromise == ChatInv /\ [ChatNext]_chatVars => [Promise!Next]_(Promise!vars)
<1> SUFFICES ASSUME ChatInv, [ChatNext]_chatVars
             PROVE  [Promise!Next]_(Promise!vars)
  OBVIOUS
<1>1. ASSUME NEW r \in Runs, Emit(r) PROVE Promise!Next
  BY <1>1, EmitPromise
<1>2. ASSUME NEW r \in Runs, StreamDone(r) \/ StreamCut(r)
      PROVE  [Promise!Next]_(Promise!vars)
  BY <1>2, AnswerPromise DEF StreamDone, StreamCut
<1>3. ASSUME NEW r \in Runs,
             \/ Begin(r) \/ BeginUnresolved(r) \/ LoopStep(r) \/ Receive(r)
             \/ CallFails(r) \/ CallStreams(r) \/ StreamCancelled(r)
             \/ \E isCall \in BOOLEAN : StreamDelta(r, isCall)
             \/ StreamError(r)
      PROVE  UNCHANGED <<log, stored>>
  BY <1>3 DEF Begin, BeginUnresolved, LoopStep, TopCancelled, TopExhausted,
              TopCall, ToolStep, Receive, CallFails, CallStreams,
              StreamCancelled, StreamDelta, StreamError
<1>4. ASSUME NEW R \in SUBSET Runs, Cancel(R) PROVE UNCHANGED <<log, stored>>
  BY <1>4 DEF Cancel
<1>5. CASE UNCHANGED chatVars
  BY <1>5 DEF chatVars, Promise!vars
<1> QED
  BY <1>1, <1>2, <1>3, <1>4, <1>5
     DEF ChatNext, ProcessChat, ProviderStep, Promise!vars

(* process_chat implements RunPromise.                                     *)
THEOREM RunImplementsPromise == ChatSpec => ImplementsPromise
<1>1. ChatInit => Promise!Init
  BY DEF ChatInit, Promise!Init
<1> QED
  BY <1>1, StepPromise, RunInvariant, PTL DEF ChatSpec, ImplementsPromise, Promise!Spec
=============================================================================
