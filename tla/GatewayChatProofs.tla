-------------------------- MODULE GatewayChatProofs --------------------------
(***************************************************************************)
(* Theorems about the gateway's chat path, for any number of connections   *)
(* and runs and any capacities.  Every run the gateway hosts is a run of   *)
(* ChatRun, so what ChatRunProofs proves of one run holds of all of them;  *)
(* every event it publishes reaches the client, once and in order; and as  *)
(* long as no client uses an idempotency key twice, active_runs holds      *)
(* exactly the live runs, so that closing a connection cancels them.       *)
(***************************************************************************)
EXTENDS GatewayChat, ChatRunProofs, SubsequenceProofs

-----------------------------------------------------------------------------
(* Composition.                                                            *)

(* What the forwarding task, the reader loop and the run itself do to the  *)
(* run's variables, ChatRun allows.                                        *)
LEMMA OneCancel ==
    ASSUME NEW R, Cancel(R)
    PROVE  \E Q \in SUBSET Runs : Cancel(Q)
<1> WITNESS R \cap Runs \in SUBSET Runs
<1> QED BY DEF Cancel

LEMMA StepIsChatStep == [Next]_vars => [ChatNext]_chatVars
<1> SUFFICES ASSUME [Next]_vars PROVE [ChatNext]_chatVars
  OBVIOUS
<1>1. CASE UNCHANGED vars
  BY <1>1 DEF vars
<1>2. CASE \E c \in Conns : Request(c)
  <2> PICK c \in Conns : Request(c) BY <1>2
  <2>1. CASE \E i \in RunIds : ChatCancel(c, i)
    <3> PICK i \in RunIds : Cancel({active[c][i]}) BY <2>1 DEF ChatCancel
    <3> QED BY OneCancel DEF ChatNext
  <2>2. CASE ~\E i \in RunIds : ChatCancel(c, i)
    <3>1. UNCHANGED chatVars
      BY <2>2 DEF Request, ChatSend, ConfigPatch, ConfigRead, PlainRequest
    <3> QED BY <3>1
  <2> QED BY <2>1, <2>2
<1>3. CASE \E c \in Conns : HandlerStep(c)
  <2> PICK c \in Conns : HandlerStep(c) BY <1>3
  <2>1. CASE Close(c)
    <3> PICK R : Cancel(R) BY <2>1 DEF Close
    <3> QED BY OneCancel DEF ChatNext
  <2>2. CASE ~Close(c)
    <3>1. UNCHANGED chatVars
      BY <2>2 DEF HandlerStep, ChatSendAcked, ConfigPatched, ConfigReadStarts, ConfigReadDone, Reply
    <3> QED BY <3>1
  <2> QED BY <2>1, <2>2
<1>4. CASE \E c \in Conns : WriterStep(c) \/ PeerLeaves(c)
  <2>1. UNCHANGED chatVars
    BY <1>4 DEF WriterStep, WriterSend, WriterFails, PeerLeaves
  <2> QED BY <2>1
<1>5. CASE \E r \in Runs : TaskStep(r)
  <2> PICK r \in Runs : TaskStep(r) BY <1>5
  <2>1. CASE TaskReceives(r)
    BY <2>1 DEF TaskReceives, ChatNext
  <2>2. CASE ~TaskReceives(r)
    <3>1. UNCHANGED chatVars
      BY <2>2 DEF TaskStep, TaskAsksConfig, TaskLocked, TaskForwards, TaskStreamEnds, TaskEnds
    <3> QED BY <3>1
  <2> QED BY <2>1, <2>2
<1>6. CASE \E r \in Runs : RunStep(r)
  BY <1>6 DEF RunStep, ChatNext
<1> QED BY <1>1, <1>2, <1>3, <1>4, <1>5, <1>6 DEF Next

(* Forwarding, locking and disconnecting never make process_chat do what   *)
(* ChatRun does not allow.                                                 *)
THEOREM GatewayHostsRuns == Spec => ImplementsChatRun
<1>1. GateInit => ChatInit
  BY DEF GateInit
<1> QED BY <1>1, StepIsChatStep, PTL DEF Spec, ImplementsChatRun, ChatSpec

(* Whatever its connection goes through, a run the gateway hosts publishes *)
(* what RunPromise allows and stores an answer exactly when it says so.    *)
THEOREM GatewayKeepsPromise ==
    Spec => ImplementsPromise /\ []EventOrder /\ []AnswerMatchesEvent /\ []CancelStopsDeltas
BY GatewayHostsRuns, RunImplementsPromise, EventsInOrder, AnswerMatches,
   CancelIsPrompt, PTL DEF ImplementsChatRun

-----------------------------------------------------------------------------
(* The inductive invariant about active_runs.                              *)

RunPlaces == {"unsent", "asked", "spawned", "lock", "recv", "push", "join", "ended"}

RegistryTyped ==
    /\ active \in [Conns -> [RunIds -> Runs \cup {NoRun}]]
    /\ key \in [Runs -> Keys \cup {NoKey}]
    /\ task \in [Runs -> RunPlaces]
    /\ cancel \in [Runs -> BOOLEAN]
    /\ closedOn \subseteq Runs

(* No two requests of a connection carry the same idempotency key.         *)
KeysUsedOnce ==
    \A r, q \in Runs : r # q /\ Home[r] = Home[q] /\ key[r] # NoKey => key[r] # key[q]

(* A run has no key before it is sent.                                     *)
KeysGivenOnce == \A r \in Runs : task[r] = "unsent" => key[r] = NoKey

(* A token is registered with the connection of its run and under its id.  *)
EntriesAtHome ==
    \A c \in Conns, i \in RunIds :
        active[c][i] # NoRun =>
            Home[active[c][i]] = c /\ i = RunId(active[c][i], key[active[c][i]])

RegistryInv ==
    /\ RegistryTyped
    /\ KeysUsedOnce
    /\ KeysGivenOnce
    /\ EntriesAtHome
    /\ ActiveRunsExact
    /\ DisconnectCancels

LEMMA RegistryInit == GateInit => RegistryInv
BY GatewayChatAssumption
DEF GateInit, ChatInit, RegistryInv, RegistryTyped, RunPlaces, KeysUsedOnce, KeysGivenOnce,
    EntriesAtHome, ActiveRunsExact, DisconnectCancels, Live, RunIds, GatewayChatAssumption

(* Runs of a connection have ids of their own.                             *)
LEMMA IdsDiffer ==
    ASSUME KeysUsedOnce, RegistryTyped, NEW r \in Runs, NEW q \in Runs, r # q,
           Home[r] = Home[q]
    PROVE  RunId(r, key[r]) # RunId(q, key[q])
BY GatewayChatAssumption DEF KeysUsedOnce, RegistryTyped, RunPlaces, RunId, GatewayChatAssumption

(* A step that registers nothing and only ever cancels keeps it.           *)
LEMMA RegistryKept ==
    ASSUME RegistryInv, UNCHANGED <<active, key, closedOn>>,
           cancel' \in [Runs -> BOOLEAN],
           \A r \in Runs : cancel[r] => cancel'[r],
           task' \in [Runs -> RunPlaces],
           \A r \in Runs : Live(r)' = Live(r) /\ (task'[r] = "unsent" => task[r] = "unsent")
    PROVE  RegistryInv'
<1>1. (RegistryTyped /\ KeysUsedOnce /\ KeysGivenOnce /\ EntriesAtHome)'
  BY DEF RegistryInv, RegistryTyped, RunPlaces, KeysUsedOnce, KeysGivenOnce, EntriesAtHome
<1>2. (\A r \in Runs : Live(r) => active[Home[r]][RunId(r, key[r])] = r)'
  BY DEF RegistryInv, ActiveRunsExact
<1>3. (\A c \in Conns, i \in RunIds : active[c][i] # NoRun => Live(active[c][i]))'
  <2> SUFFICES ASSUME NEW c \in Conns, NEW i \in RunIds, active[c][i] # NoRun
               PROVE  Live(active[c][i])'
    OBVIOUS
  <2>1. active[c][i] \in Runs /\ Live(active[c][i])
    BY DEF RegistryInv, RegistryTyped, RunPlaces, ActiveRunsExact
  <2> QED BY <2>1 DEF Live
<1>4. DisconnectCancels'
  BY DEF RegistryInv, RegistryTyped, RunPlaces, DisconnectCancels
<1> QED BY <1>1, <1>2, <1>3, <1>4 DEF RegistryInv, ActiveRunsExact

(* chat.send chooses the key of a run no token belongs to yet.             *)
LEMMA SendKeeps ==
    ASSUME RegistryInv, ReuseKeys = FALSE, NEW c \in Conns, NEW r \in Runs,
           NEW k \in Keys \cup {NoKey}, ChatSend(c, r, k)
    PROVE  RegistryInv'
<1>1. /\ RegistryTyped /\ KeysUsedOnce /\ KeysGivenOnce /\ EntriesAtHome
      /\ ActiveRunsExact /\ DisconnectCancels
  BY DEF RegistryInv
<1>2. /\ Home[r] = c /\ task[r] = "unsent"
      /\ k = NoKey \/ \A q \in HomeRuns(c) : key[q] # k
      /\ key' = [key EXCEPT ![r] = k] /\ task' = [task EXCEPT ![r] = "asked"]
      /\ UNCHANGED <<active, closedOn, cancel>>
  BY DEF ChatSend, chatVars
<1>3. RegistryTyped'
  BY <1>1, <1>2 DEF RegistryTyped, RunPlaces
<1>4. KeysUsedOnce'
  BY <1>1, <1>2 DEF RegistryTyped, RunPlaces, KeysUsedOnce, HomeRuns
<1>5. KeysGivenOnce'
  BY <1>1, <1>2 DEF RegistryTyped, RunPlaces, KeysGivenOnce
<1>6. \A d \in Conns, i \in RunIds :
          active[d][i] # NoRun => active[d][i] \in Runs \ {r} /\ Live(active[d][i])
  BY <1>1, <1>2 DEF RegistryTyped, RunPlaces, ActiveRunsExact, Live
<1>7. EntriesAtHome'
  BY <1>1, <1>2, <1>6 DEF RegistryTyped, RunPlaces, EntriesAtHome
<1>8. ActiveRunsExact'
  <2>1. (\A q \in Runs : Live(q) => active[Home[q]][RunId(q, key[q])] = q)'
    BY <1>1, <1>2 DEF RegistryTyped, RunPlaces, ActiveRunsExact, Live
  <2>2. (\A d \in Conns, i \in RunIds : active[d][i] # NoRun => Live(active[d][i]))'
    BY <1>1, <1>2, <1>6 DEF RegistryTyped, RunPlaces, Live
  <2> QED BY <2>1, <2>2 DEF ActiveRunsExact
<1>9. DisconnectCancels'
  BY <1>1, <1>2 DEF DisconnectCancels
<1> QED BY <1>3, <1>4, <1>5, <1>7, <1>8, <1>9 DEF RegistryInv

(* The token goes under an id that no other run of the connection has.     *)
LEMMA AckKeeps ==
    ASSUME RegistryInv, NEW c \in Conns, NEW r \in Runs, ChatSendAcked(c, r)
    PROVE  RegistryInv'
<1> DEFINE own == RunId(r, key[r])
<1>1. /\ RegistryTyped /\ KeysUsedOnce /\ KeysGivenOnce /\ EntriesAtHome
      /\ ActiveRunsExact /\ DisconnectCancels
  BY DEF RegistryInv
<1>2. /\ Home[r] = c /\ task[r] = "asked"
      /\ active' = [active EXCEPT ![c][own] = r] /\ task' = [task EXCEPT ![r] = "spawned"]
      /\ UNCHANGED <<key, closedOn, cancel>>
  BY DEF ChatSendAcked, chatVars
<1>3. own \in RunIds /\ \A q \in Runs \ {r} : Home[q] = c => RunId(q, key[q]) # own
  BY <1>1, <1>2, IdsDiffer DEF RunId, RunIds, RegistryTyped, RunPlaces
<1> HIDE DEF own
<1>4. RegistryTyped'
  BY <1>1, <1>2, <1>3 DEF RegistryTyped, RunPlaces
<1>5. KeysUsedOnce' /\ KeysGivenOnce'
  BY <1>1, <1>2 DEF RegistryTyped, RunPlaces, KeysUsedOnce, KeysGivenOnce
<1>6. \A d \in Conns, i \in RunIds :
          active'[d][i] = IF d = c /\ i = own THEN r ELSE active[d][i]
  BY <1>1, <1>2, <1>3 DEF RegistryTyped, RunPlaces
<1>7. EntriesAtHome'
  BY <1>1, <1>2, <1>6 DEF EntriesAtHome, own
<1>8. ActiveRunsExact'
  <2>1. (\A q \in Runs : Live(q) => active[Home[q]][RunId(q, key[q])] = q)'
    <3> SUFFICES ASSUME NEW q \in Runs, Live(q)'
                 PROVE  active'[Home[q]][RunId(q, key[q])] = q
      BY <1>2
    <3>1. Home[q] \in Conns /\ RunId(q, key[q]) \in RunIds
      BY <1>1, GatewayChatAssumption DEF RegistryTyped, RunPlaces, RunId, RunIds, GatewayChatAssumption
    <3>2. CASE q = r
      BY <3>1, <3>2, <1>2, <1>6 DEF own
    <3>3. CASE q # r
      BY <3>1, <3>3, <1>1, <1>2, <1>3, <1>6 DEF RegistryTyped, RunPlaces, ActiveRunsExact, Live
    <3> QED BY <3>2, <3>3
  <2>2. (\A d \in Conns, i \in RunIds : active[d][i] # NoRun => Live(active[d][i]))'
    BY <1>1, <1>2, <1>6 DEF RegistryTyped, RunPlaces, ActiveRunsExact, Live
  <2> QED BY <2>1, <2>2 DEF ActiveRunsExact
<1>9. DisconnectCancels'
  BY <1>1, <1>2 DEF DisconnectCancels
<1> QED BY <1>4, <1>5, <1>7, <1>8, <1>9 DEF RegistryInv

(* The entry that is removed is the one of the run that ends.              *)
LEMMA EndKeeps ==
    ASSUME RegistryInv, NEW r \in Runs, TaskEnds(r)
    PROVE  RegistryInv'
<1> DEFINE own == RunId(r, key[r])
<1>1. /\ RegistryTyped /\ KeysUsedOnce /\ KeysGivenOnce /\ EntriesAtHome
      /\ ActiveRunsExact /\ DisconnectCancels
  BY DEF RegistryInv
<1>2. /\ task[r] = "join" /\ task' = [task EXCEPT ![r] = "ended"]
      /\ active' = [active EXCEPT ![Home[r]][own] = NoRun]
      /\ UNCHANGED <<key, closedOn, cancel>>
  BY DEF TaskEnds, chatVars
<1>3. /\ Home[r] \in Conns /\ own \in RunIds
      /\ \A q \in Runs \ {r} : Home[q] = Home[r] => RunId(q, key[q]) # own
  BY <1>1, IdsDiffer, GatewayChatAssumption
     DEF RunId, RunIds, RegistryTyped, RunPlaces, GatewayChatAssumption
<1> HIDE DEF own
<1>4. RegistryTyped'
  BY <1>1, <1>2, <1>3 DEF RegistryTyped, RunPlaces
<1>5. KeysUsedOnce' /\ KeysGivenOnce'
  BY <1>1, <1>2 DEF RegistryTyped, RunPlaces, KeysUsedOnce, KeysGivenOnce
<1>6. \A d \in Conns, i \in RunIds :
          active'[d][i] = IF d = Home[r] /\ i = own THEN NoRun ELSE active[d][i]
  BY <1>1, <1>2, <1>3 DEF RegistryTyped, RunPlaces
<1>7. EntriesAtHome'
  BY <1>1, <1>2, <1>6 DEF EntriesAtHome
<1>8. ActiveRunsExact'
  <2>1. (\A q \in Runs : Live(q) => active[Home[q]][RunId(q, key[q])] = q)'
    <3> SUFFICES ASSUME NEW q \in Runs, Live(q)'
                 PROVE  active'[Home[q]][RunId(q, key[q])] = q
      BY <1>2
    <3>1. Home[q] \in Conns /\ RunId(q, key[q]) \in RunIds
      BY <1>1, GatewayChatAssumption DEF RegistryTyped, RunPlaces, RunId, RunIds, GatewayChatAssumption
    <3>2. q # r /\ Live(q)
      BY <1>1, <1>2 DEF RegistryTyped, RunPlaces, Live
    <3> QED BY <3>1, <3>2, <1>1, <1>3, <1>6 DEF ActiveRunsExact
  <2>2. (\A d \in Conns, i \in RunIds : active[d][i] # NoRun => Live(active[d][i]))'
    <3> SUFFICES ASSUME NEW d \in Conns, NEW i \in RunIds, active'[d][i] # NoRun
                 PROVE  Live(active[d][i])'
      OBVIOUS
    <3>1. active'[d][i] = active[d][i] /\ ~(d = Home[r] /\ i = own)
      BY <1>6
    <3>2. active[d][i] \in Runs \ {r} /\ Live(active[d][i])
      BY <3>1, <1>1 DEF RegistryTyped, RunPlaces, ActiveRunsExact, EntriesAtHome, own
    <3> QED BY <3>1, <3>2, <1>1, <1>2 DEF RegistryTyped, RunPlaces, Live
  <2> QED BY <2>1, <2>2 DEF ActiveRunsExact
<1>9. DisconnectCancels'
  BY <1>1, <1>2 DEF DisconnectCancels
<1> QED BY <1>4, <1>5, <1>7, <1>8, <1>9 DEF RegistryInv

(* Every run the closing connection leaves alive is registered with it.    *)
LEMMA CloseKeeps ==
    ASSUME RegistryInv, NEW c \in Conns, Close(c)
    PROVE  RegistryInv'
<1>1. /\ RegistryTyped /\ KeysUsedOnce /\ KeysGivenOnce /\ EntriesAtHome
      /\ ActiveRunsExact /\ DisconnectCancels
  BY DEF RegistryInv
<1>2. /\ cancel' = [r \in Runs |-> cancel[r] \/ \E i \in RunIds : active[c][i] = r]
      /\ closedOn' = closedOn \cup {r \in HomeRuns(c) : Live(r)}
      /\ UNCHANGED <<active, key, task>>
  BY DEF Close, Cancel
<1>3. RegistryTyped'
  BY <1>1, <1>2 DEF RegistryTyped, RunPlaces, HomeRuns
<1>4. KeysUsedOnce' /\ KeysGivenOnce' /\ EntriesAtHome'
  BY <1>1, <1>2 DEF KeysUsedOnce, KeysGivenOnce, EntriesAtHome
<1>5. ActiveRunsExact'
  BY <1>1, <1>2 DEF ActiveRunsExact, Live
<1>6. DisconnectCancels'
  <2> SUFFICES ASSUME NEW r \in closedOn' PROVE cancel'[r]
    BY DEF DisconnectCancels
  <2>1. r \in Runs
    BY <1>3 DEF RegistryTyped, RunPlaces
  <2>2. CASE r \in closedOn
    BY <2>1, <2>2, <1>1, <1>2 DEF DisconnectCancels
  <2>3. CASE r \in HomeRuns(c) /\ Live(r)
    <3>1. active[c][RunId(r, key[r])] = r
      BY <2>3, <1>1 DEF ActiveRunsExact, HomeRuns
    <3>2. RunId(r, key[r]) \in RunIds
      BY <2>1, <1>1 DEF RunId, RunIds, RegistryTyped, RunPlaces
    <3> QED BY <2>1, <3>1, <3>2, <1>2
  <2> QED BY <2>2, <2>3, <1>2
<1> QED BY <1>3, <1>4, <1>5, <1>6 DEF RegistryInv

(* A run itself leaves its token alone.                                    *)
LEMMA RunLeavesToken ==
    ASSUME NEW r \in Runs, RunStep(r)
    PROVE  UNCHANGED <<cancel, active, key, task, closedOn>>
BY DEF RunStep, gateVars, Begin, BeginUnresolved, ProcessChat, ProviderStep, LoopStep,
       CallFails, CallStreams, StreamCancelled, StreamDelta, StreamError, StreamDone,
       StreamCut, TopCancelled, TopExhausted, TopCall, ToolStep, Emit

LEMMA RegistryStep ==
    ASSUME RegistryInv, ReuseKeys = FALSE, [Next]_vars
    PROVE  RegistryInv'
<1>1. task \in [Runs -> RunPlaces] /\ cancel \in [Runs -> BOOLEAN]
  BY DEF RegistryInv, RegistryTyped, RunPlaces
<1>2. CASE UNCHANGED <<cancel, active, key, task, closedOn>>
  BY <1>1, <1>2, RegistryKept DEF Live
<1>3. CASE \E c \in Conns : Request(c)
  <2> PICK c \in Conns : Request(c) BY <1>3
  <2>1. CASE \E r \in Runs, k \in Keys \cup {NoKey} : ChatSend(c, r, k)
    BY <2>1, SendKeeps
  <2>2. CASE \E i \in RunIds : ChatCancel(c, i)
    <3> PICK i \in RunIds : ChatCancel(c, i) BY <2>2
    <3>1. /\ cancel' = [r \in Runs |-> cancel[r] \/ r \in {active[c][i]}]
          /\ UNCHANGED <<active, key, task, closedOn>>
      BY DEF ChatCancel, Cancel
    <3> QED BY <1>1, <3>1, RegistryKept DEF Live
  <2>3. CASE ConfigPatch(c) \/ ConfigRead(c) \/ PlainRequest(c)
    BY <2>3, <1>2 DEF ConfigPatch, ConfigRead, PlainRequest, chatVars
  <2> QED BY <2>1, <2>2, <2>3 DEF Request
<1>4. CASE \E c \in Conns : HandlerStep(c)
  <2> PICK c \in Conns : HandlerStep(c) BY <1>4
  <2>1. CASE \E r \in Runs : ChatSendAcked(c, r)
    BY <2>1, AckKeeps
  <2>2. CASE Close(c)
    BY <2>2, CloseKeeps
  <2>3. CASE ConfigPatched(c) \/ ConfigReadStarts(c) \/ ConfigReadDone(c) \/ Reply(c)
    BY <2>3, <1>2 DEF ConfigPatched, ConfigReadStarts, ConfigReadDone, Reply, chatVars
  <2> QED BY <2>1, <2>2, <2>3 DEF HandlerStep
<1>5. CASE \E c \in Conns : WriterStep(c) \/ PeerLeaves(c)
  BY <1>5, <1>2 DEF WriterStep, WriterSend, WriterFails, PeerLeaves, chatVars
<1>6. CASE \E r \in Runs : TaskStep(r)
  <2> PICK r \in Runs : TaskStep(r) BY <1>6
  <2>1. CASE TaskEnds(r)
    BY <2>1, EndKeeps
  <2>2. CASE TaskAsksConfig(r) \/ TaskLocked(r) \/ TaskReceives(r) \/ TaskForwards(r) \/ TaskStreamEnds(r)
    <3>1. /\ task[r] \in {"spawned", "lock", "recv", "push", "join"}
          /\ \E t \in {"lock", "recv", "push", "join"} : task' = [task EXCEPT ![r] = t]
          /\ UNCHANGED <<active, key, closedOn, cancel>>
      BY <2>2 DEF TaskAsksConfig, TaskLocked, TaskReceives, TaskForwards, TaskStreamEnds, Receive, chatVars
    <3> QED BY <1>1, <3>1, RegistryKept DEF Live, RunPlaces
  <2> QED BY <2>1, <2>2 DEF TaskStep
<1>7. CASE \E r \in Runs : RunStep(r)
  BY <1>7, <1>2, RunLeavesToken
<1>8. CASE UNCHANGED vars
  BY <1>8, <1>2 DEF vars, chatVars, gateVars
<1> QED BY <1>3, <1>4, <1>5, <1>6, <1>7, <1>8 DEF Next

(* With keys used once, the invariant holds throughout.                    *)
THEOREM RegistryInvariant ==
    ASSUME ReuseKeys = FALSE
    PROVE  Spec => []RegistryInv
<1> ReuseKeys = FALSE OBVIOUS
<1> QED BY RegistryInit, RegistryStep, PTL DEF Spec

(* active_runs holds a live run under the id its client was given, and     *)
(* nothing else: chat.cancel finds every run that can still be cancelled.  *)
THEOREM CancelFindsRuns ==
    ASSUME ReuseKeys = FALSE
    PROVE  Spec => []ActiveRunsExact
BY RegistryInvariant, PTL DEF RegistryInv

(* "Cancel any active runs on disconnect": a closed connection leaves no   *)
(* run alive that has not been cancelled.                                  *)
THEOREM CloseCancelsRuns ==
    ASSUME ReuseKeys = FALSE
    PROVE  Spec => []DisconnectCancels
BY RegistryInvariant, PTL DEF RegistryInv
-----------------------------------------------------------------------------
(* The configuration under a run.                                          *)

(* A run that has been given the configuration holds its read lock until   *)
(* its task ends.                                                          *)
GuardHeld ==
    /\ task \in [Runs -> RunPlaces]
    /\ \A r \in Runs : task[r] \in {"recv", "push", "join"} => r \in holders

LEMMA GuardStep == GuardHeld /\ [Next]_vars => GuardHeld'
<1> SUFFICES ASSUME GuardHeld, [Next]_vars PROVE GuardHeld'
  OBVIOUS
<1>1. CASE UNCHANGED <<task, holders>>
  BY <1>1 DEF GuardHeld
<1>2. ASSUME NEW c \in Conns, Request(c)
      PROVE  GuardHeld'
  BY <1>2 DEF Request, ChatSend, ChatCancel, ConfigPatch, ConfigRead, PlainRequest,
              GuardHeld, RunPlaces
<1>3. ASSUME NEW c \in Conns, HandlerStep(c)
      PROVE  GuardHeld'
  BY <1>3, GatewayChatAssumption
     DEF HandlerStep, ChatSendAcked, ConfigPatched, ConfigReadStarts, ConfigReadDone,
         Reply, Close, GuardHeld, RunPlaces, GatewayChatAssumption
<1>4. ASSUME NEW c \in Conns, WriterStep(c) \/ PeerLeaves(c)
      PROVE  GuardHeld'
  BY <1>1, <1>4 DEF WriterStep, WriterSend, WriterFails, PeerLeaves
<1>5. ASSUME NEW r \in Runs, TaskStep(r)
      PROVE  GuardHeld'
  BY <1>5 DEF TaskStep, TaskAsksConfig, TaskLocked, TaskReceives, TaskForwards, TaskStreamEnds, TaskEnds,
              GuardHeld, RunPlaces
<1>6. ASSUME NEW r \in Runs, RunStep(r)
      PROVE  GuardHeld'
  BY <1>1, <1>6 DEF RunStep, gateVars
<1>7. CASE UNCHANGED vars
  BY <1>1, <1>7 DEF vars, gateVars
<1> QED BY <1>2, <1>3, <1>4, <1>5, <1>6, <1>7 DEF Next

LEMMA PatchNeedsNoHolder ==
    ASSUME [Next]_vars, holders # {}
    PROVE  patched' = patched
<1>1. CASE \E c \in Conns : HandlerStep(c)
  BY <1>1 DEF HandlerStep, ChatSendAcked, ConfigPatched, ConfigReadStarts, ConfigReadDone, Reply, Close,
              WriteGranted
<1>2. CASE \E c \in Conns : Request(c) \/ WriterStep(c) \/ PeerLeaves(c)
  BY <1>2 DEF Request, ChatSend, ChatCancel, ConfigPatch, ConfigRead, PlainRequest,
              WriterStep, WriterSend, WriterFails, PeerLeaves
<1>3. CASE \E r \in Runs : TaskStep(r) \/ RunStep(r)
  BY <1>3 DEF TaskStep, TaskAsksConfig, TaskLocked, TaskReceives, TaskForwards, TaskStreamEnds, TaskEnds,
              RunStep, gateVars
<1>4. CASE UNCHANGED vars
  BY <1>4 DEF vars, gateVars
<1> QED BY <1>1, <1>2, <1>3, <1>4 DEF Next

(* However many connections patch: from the moment a run is given the      *)
(* configuration to the end of its task it holds the read lock, and while  *)
(* any run does no patch is applied.                                       *)
THEOREM RunsKeepTheirConfig == Spec => []GuardHeld /\ ConfigFixedDuringRun
<1>1. GateInit => GuardHeld
  BY DEF GateInit, GuardHeld, RunPlaces
<1>2. [Next]_vars => [holders # {} => patched' = patched]_vars
  BY PatchNeedsNoHolder
<1> QED BY <1>1, <1>2, GuardStep, PTL DEF Spec, ConfigFixedDuringRun

-----------------------------------------------------------------------------
(* The way of an event.                                                    *)

Message == [run : Runs \cup {NoRun}, item : Item]

LEMMA MessageFields ==
    /\ \A m \in Message : m.run \in Runs \cup {NoRun} /\ m.item \in Item
    /\ \A m \in Message, r \in Runs : m \in MessagesOf(r) <=> m.run = r
    /\ \A r \in Runs : MessagesOf(r) \subseteq Message
    /\ \A r \in Runs, e \in Item : [run |-> r, item |-> e] \in Message
    /\ Response \in Message /\ \A r \in Runs : Response.run # r
    /\ Ack \in Item
<1>1. \A m \in Message : m.run \in Runs \cup {NoRun} /\ m.item \in Item
  BY DEF Message
<1>2. \A m \in Message, r \in Runs : m \in MessagesOf(r) <=> m.run = r
  BY DEF Message, MessagesOf
<1>3. \A r \in Runs : MessagesOf(r) \subseteq Message
  BY DEF Message, MessagesOf
<1>4. \A r \in Runs, e \in Item : [run |-> r, item |-> e] \in Message
  BY DEF Message
<1>5. Ack \in Item
  BY DEF Item
<1>6. Response \in Message /\ \A r \in Runs : Response.run # r
  BY <1>5, GatewayChatAssumption DEF Response, Message, GatewayChatAssumption
<1> QED BY <1>1, <1>2, <1>3, <1>4, <1>5, <1>6

(* An item may move from the front of what follows to the end of what goes *)
(* before.                                                                 *)
LEMMA ConcatShifts ==
    \A s, t \in Seq(Item), x \in Item :
        /\ Append(s, x) \o t = s \o (<<x>> \o t)
        /\ s \o Append(t, x) = Append(s \o t, x)
OBVIOUS

LEMMA ItemsTyped ==
    ASSUME NEW r \in Runs, NEW q \in Seq(Message)
    PROVE  ItemsOf(r, q) \in Seq(Item)
<1> DEFINE mine == Only(q, MessagesOf(r))
<1>1. mine \in Seq(Message)
  BY OnlyTyped
<1>2. ItemsOf(r, q) = [i \in 1 .. Len(mine) |-> mine[i].item]
  BY Zenon DEF ItemsOf
<1> HIDE DEF mine
<1>3. \A i \in 1 .. Len(mine) : mine[i].item \in Item
  BY <1>1, MessageFields
<1>4. Len(mine) \in Nat
  BY <1>1
<1> QED BY <1>2, <1>3, <1>4

LEMMA ItemsOfNone ==
    ASSUME NEW r \in Runs
    PROVE  ItemsOf(r, <<>>) = <<>>
<1>1. Only(<<>>, MessagesOf(r)) = <<>>
  BY OnlyOfEmpty
<1> QED BY <1>1 DEF ItemsOf

(* A message of the run joins its items at the end, another changes none.  *)
LEMMA ItemsOfAppend ==
    ASSUME NEW r \in Runs, NEW q \in Seq(Message), NEW m \in Message
    PROVE  /\ m.run = r => ItemsOf(r, Append(q, m)) = Append(ItemsOf(r, q), m.item)
           /\ m.run # r => ItemsOf(r, Append(q, m)) = ItemsOf(r, q)
<1> DEFINE K == MessagesOf(r)
           a == Only(q, K)
           b == Only(Append(q, m), K)
<1>1. a \in Seq(Message)
  BY OnlyTyped
<1>2. /\ ItemsOf(r, q) = [i \in 1 .. Len(a) |-> a[i].item]
      /\ ItemsOf(r, Append(q, m)) = [i \in 1 .. Len(b) |-> b[i].item]
  BY Zenon DEF ItemsOf
<1>3. /\ m.run = r => b = Append(a, m)
      /\ m.run # r => b = a
  BY OnlyOfAppend, MessageFields
<1> HIDE DEF K, a, b
<1>4. ASSUME m.run = r
      PROVE  [i \in 1 .. Len(b) |-> b[i].item] = Append([i \in 1 .. Len(a) |-> a[i].item], m.item)
  <2>1. b = Append(a, m)
    BY <1>3, <1>4
  <2> QED BY <1>1, <2>1
<1> QED BY <1>2, <1>3, <1>4

LEMMA ItemsOfHead ==
    ASSUME NEW r \in Runs, NEW q \in Seq(Message), q # <<>>
    PROVE  /\ Head(q) \in Message /\ Tail(q) \in Seq(Message)
           /\ Head(q).run = r =>
                  ItemsOf(r, q) = <<Head(q).item>> \o ItemsOf(r, Tail(q))
           /\ Head(q).run # r => ItemsOf(r, q) = ItemsOf(r, Tail(q))
<1> DEFINE K == MessagesOf(r)
           h == Head(q)
           a == Only(q, K)
           b == Only(Tail(q), K)
<1>1. h \in Message /\ Tail(q) \in Seq(Message)
  OBVIOUS
<1>2. a \in Seq(Message) /\ b \in Seq(Message)
  BY <1>1, OnlyTyped
<1>3. /\ ItemsOf(r, q) = [i \in 1 .. Len(a) |-> a[i].item]
      /\ ItemsOf(r, Tail(q)) = [i \in 1 .. Len(b) |-> b[i].item]
  BY Zenon DEF ItemsOf
<1>4. a = (IF h \in K THEN <<h>> ELSE <<>>) \o b
  BY OnlyOfHeadAndTail
<1>5. h \in K <=> h.run = r
  BY <1>1, MessageFields
<1> HIDE DEF K, a, b, h
<1>6. ASSUME h.run = r
      PROVE  [i \in 1 .. Len(a) |-> a[i].item] = <<h.item>> \o [i \in 1 .. Len(b) |-> b[i].item]
  <2>1. a = <<h>> \o b
    BY <1>4, <1>5, <1>6
  <2> QED BY <1>2, <2>1
<1>7. ASSUME h.run # r
      PROVE  a = b
  BY <1>2, <1>4, <1>5, <1>7
<1> QED BY <1>1, <1>3, <1>6, <1>7 DEF h

(* Where the events of a run are, and what is known at each place of its   *)
(* forwarding task: t is that place, p says that the peer is there, s is   *)
(* what the client has, q what the outgoing channel holds, h the event in  *)
(* hand, c the event channel, l what was published, d where the run is.    *)
InPassage(t, p, s, q, h, c, l, d) ==
    /\ t \in {"unsent", "asked"} => s = <<>> /\ q = <<>> /\ c = <<>> /\ l = <<>>
    /\ p /\ t \notin {"unsent", "asked"} =>
           s \o q \o (IF t = "push" THEN <<h>> ELSE <<>>) \o c = <<Ack>> \o l
    /\ p /\ t \in {"join", "ended"} => c = <<>> /\ d = "done"

Passage(r) == InPassage(task[r], peer[Home[r]], seen[r], InTx(r), hand[r], chan[r],
                        log[r], pc[r])

DeliveryTyped ==
    /\ txq \in [Conns -> Seq(Message)]
    /\ peer \in [Conns -> BOOLEAN] /\ writer \in [Conns -> BOOLEAN]
    /\ task \in [Runs -> RunPlaces]
    /\ hand \in [Runs -> Event \cup {NoEvent}]
    /\ \A r \in Runs : task[r] = "push" => hand[r] \in Event
    /\ seen \in [Runs -> Seq(Item)]
    /\ chan \in [Runs -> Seq(Event)]
    /\ log \in [Runs -> Seq(Event)]

(* A writer task that has given up had lost its peer.                      *)
WriterOutlivesPeer == \A c \in Conns : peer[c] => writer[c]

(* A connection is only ever sent what belongs to its own runs.            *)
SentHome ==
    \A c \in Conns : \A i \in 1 .. Len(txq[c]) : txq[c][i].run \in HomeRuns(c) \cup {NoRun}

DeliveryInv ==
    /\ DeliveryTyped
    /\ SentHome
    /\ WriterOutlivesPeer
    /\ \A r \in Runs : Passage(r)

LEMMA DeliveryInit == GateInit => DeliveryInv
<1> SUFFICES ASSUME GateInit PROVE DeliveryInv
  OBVIOUS
<1>1. DeliveryTyped
  BY DEF GateInit, ChatInit, DeliveryTyped, RunPlaces
<1>2. WriterOutlivesPeer /\ SentHome
  BY DEF GateInit, WriterOutlivesPeer, SentHome
<1>3. ASSUME NEW r \in Runs PROVE Passage(r)
  <2>1. Home[r] \in Conns
    BY GatewayChatAssumption DEF GatewayChatAssumption
  <2>2. InTx(r) = <<>>
    BY <2>1, ItemsOfNone DEF GateInit, InTx
  <2>3. task[r] = "unsent" /\ seen[r] = <<>> /\ chan[r] = <<>> /\ log[r] = <<>>
    BY DEF GateInit, ChatInit
  <2> QED BY <2>2, <2>3 DEF Passage, InPassage
<1> QED BY <1>1, <1>2, <1>3 DEF DeliveryInv

LEMMA DeliveryFacts ==
    ASSUME DeliveryInv, NEW r \in Runs
    PROVE  /\ Home[r] \in Conns
           /\ txq[Home[r]] \in Seq(Message)
           /\ InTx(r) = ItemsOf(r, txq[Home[r]]) /\ InTx(r) \in Seq(Item)
           /\ task[r] \in RunPlaces
           /\ hand[r] \in Event \cup {NoEvent}
           /\ task[r] = "push" => hand[r] \in Event
           /\ seen[r] \in Seq(Item)
           /\ chan[r] \in Seq(Event)
           /\ log[r] \in Seq(Event)
           /\ peer[Home[r]] => writer[Home[r]]
           /\ InPassage(task[r], peer[Home[r]], seen[r], InTx(r), hand[r], chan[r],
                        log[r], pc[r])
<1>1. Home[r] \in Conns
  BY GatewayChatAssumption DEF GatewayChatAssumption
<1>2. txq[Home[r]] \in Seq(Message)
  BY <1>1 DEF DeliveryInv, DeliveryTyped
<1>3. InTx(r) = ItemsOf(r, txq[Home[r]]) /\ InTx(r) \in Seq(Item)
  BY <1>2, ItemsTyped DEF InTx
<1> QED BY <1>1, <1>2, <1>3 DEF DeliveryInv, DeliveryTyped, WriterOutlivesPeer, Passage

(* A step that moves no event and at most takes the peer away.             *)
LEMMA DeliveryKept ==
    ASSUME DeliveryInv, UNCHANGED <<txq, hand, seen, chan, log, writer>>,
           peer' \in [Conns -> BOOLEAN], \A c \in Conns : peer'[c] => peer[c],
           task' \in [Runs -> RunPlaces],
           \A r \in Runs :
               /\ pc[r] = "done" => pc'[r] = "done"
               /\ \/ task'[r] = task[r]
                  \/ task[r] = "unsent" /\ task'[r] = "asked"
                  \/ task[r] = "spawned" /\ task'[r] = "lock"
                  \/ task[r] = "lock" /\ task'[r] = "recv"
                  \/ task[r] = "recv" /\ task'[r] = "join" /\ chan[r] = <<>> /\ pc'[r] = "done"
                  \/ task[r] = "join" /\ task'[r] = "ended"
    PROVE  DeliveryInv'
<1>1. DeliveryTyped'
  BY DEF DeliveryInv, DeliveryTyped
<1>2. WriterOutlivesPeer' /\ SentHome'
  BY DEF DeliveryInv, WriterOutlivesPeer, SentHome
<1>3. ASSUME NEW r \in Runs PROVE Passage(r)'
  <2>1. InTx(r)' = InTx(r)
    BY DEF InTx
  <2>2. Home[r] \in Conns
    BY DeliveryFacts
  <2>3. InPassage(task[r], peer[Home[r]], seen[r], InTx(r), hand[r], chan[r], log[r], pc[r])
    BY DeliveryFacts
  <2>4. InPassage(task'[r], peer'[Home[r]], seen[r], InTx(r), hand[r], chan[r], log[r], pc'[r])
    BY <2>2, <2>3 DEF InPassage
  <2> QED BY <2>1, <2>4 DEF Passage
<1> QED BY <1>1, <1>2, <1>3 DEF DeliveryInv

(* A message enters the outgoing channel of c, or is dropped with a writer *)
(* that is no more.                                                        *)
LEMMA SendTxItems ==
    ASSUME DeliveryInv, NEW c \in Conns, NEW m \in Message, SendTx(c, m),
           m.run \in HomeRuns(c) \cup {NoRun}
    PROVE  /\ txq' \in [Conns -> Seq(Message)] /\ SentHome'
           /\ \A r \in Runs :
                /\ Home[r] # c \/ m.run # r => InTx(r)' = InTx(r)
                /\ Home[r] = c /\ m.run = r /\ writer[c] =>
                       InTx(r)' = Append(InTx(r), m.item)
<1>1. txq \in [Conns -> Seq(Message)]
  BY DEF DeliveryInv, DeliveryTyped
<1>2. CASE writer[c]
  <2>1. txq' = [txq EXCEPT ![c] = Append(@, m)]
    BY <1>2 DEF SendTx
  <2>2. txq[c] \in Seq(Message) /\ Append(txq[c], m) \in Seq(Message)
    BY <1>1
  <2>3. txq' \in [Conns -> Seq(Message)]
    BY <1>1, <2>1, <2>2
  <2>4. ASSUME NEW r \in Runs
        PROVE  /\ Home[r] # c \/ m.run # r => InTx(r)' = InTx(r)
               /\ Home[r] = c /\ m.run = r => InTx(r)' = Append(InTx(r), m.item)
    <3>1. Home[r] \in Conns
      BY DeliveryFacts
    <3>2. CASE Home[r] # c
      BY <1>1, <2>1, <3>1, <3>2 DEF InTx
    <3>3. CASE Home[r] = c
      <4>1. txq'[Home[r]] = Append(txq[c], m)
        BY <1>1, <2>1, <3>3
      <4>2. InTx(r)' = ItemsOf(r, Append(txq[c], m)) /\ InTx(r) = ItemsOf(r, txq[c])
        BY <3>3, <4>1 DEF InTx
      <4> QED BY <2>2, <3>3, <4>2, ItemsOfAppend
    <3> QED BY <3>2, <3>3
  <2>5. SentHome'
    <3> SUFFICES ASSUME NEW d \in Conns, NEW i \in 1 .. Len(txq'[d])
                 PROVE  txq'[d][i].run \in HomeRuns(d) \cup {NoRun}
      BY DEF SentHome, HomeRuns
    <3>1. CASE d # c
      BY <1>1, <2>1, <3>1 DEF DeliveryInv, SentHome
    <3>2. CASE d = c
      <4>1. txq'[d] = Append(txq[c], m)
        BY <1>1, <2>1, <3>2
      <4>2. CASE i = Len(txq[c]) + 1
        BY <2>2, <3>2, <4>1, <4>2
      <4>3. CASE i # Len(txq[c]) + 1
        <5>1. i \in 1 .. Len(txq[c]) /\ txq'[d][i] = txq[c][i]
          BY <2>2, <4>1, <4>3
        <5> QED BY <3>2, <5>1 DEF DeliveryInv, SentHome
      <4> QED BY <4>2, <4>3
    <3> QED BY <3>1, <3>2
  <2> QED BY <2>3, <2>4, <2>5
<1>3. CASE ~writer[c]
  BY <1>1, <1>3 DEF SendTx, InTx, DeliveryInv, SentHome, HomeRuns
<1> QED BY <1>2, <1>3

(* The acknowledgement is the first thing a client is sent of a run.       *)
LEMMA AckDelivers ==
    ASSUME DeliveryInv, NEW c \in Conns, NEW r \in Runs, ChatSendAcked(c, r)
    PROVE  DeliveryInv'
<1> DEFINE m == [run |-> r, item |-> Ack]
<1>1. /\ Home[r] = c /\ task[r] = "asked" /\ SendTx(c, m)
      /\ task' = [task EXCEPT ![r] = "spawned"]
      /\ UNCHANGED <<chan, log, pc, peer, writer, hand, seen>>
  BY DEF ChatSendAcked, chatVars
<1>2. m \in Message /\ m.run = r /\ m.item = Ack /\ r \in HomeRuns(c)
  BY <1>1, MessageFields DEF HomeRuns
<1> HIDE DEF m
<1>3. /\ txq' \in [Conns -> Seq(Message)] /\ SentHome'
      /\ \A q \in Runs : q # r => InTx(q)' = InTx(q)
      /\ writer[c] => InTx(r)' = Append(InTx(r), Ack)
  BY <1>1, <1>2, SendTxItems
<1>4. DeliveryTyped'
  BY <1>1, <1>3 DEF DeliveryInv, DeliveryTyped, RunPlaces
<1>5. WriterOutlivesPeer'
  BY <1>1 DEF DeliveryInv, WriterOutlivesPeer
<1>6. Passage(r)'
  <2>1. /\ seen[r] = <<>> /\ InTx(r) = <<>> /\ chan[r] = <<>> /\ log[r] = <<>>
        /\ peer[c] => writer[c]
    BY <1>1, DeliveryFacts DEF InPassage
  <2>2. peer[c] => InTx(r)' = <<Ack>>
    BY <1>3, <2>1
  <2>3. task'[r] = "spawned"
    BY <1>1 DEF DeliveryInv, DeliveryTyped
  <2>4. peer[c] => <<>> \o InTx(r)' \o <<>> \o <<>> = <<Ack>> \o <<>>
    BY <2>2
  <2>5. InPassage("spawned", peer[c], <<>>, InTx(r)', hand[r], <<>>, <<>>, pc[r])
    BY <2>4 DEF InPassage
  <2> QED BY <1>1, <2>1, <2>3, <2>5, Zenon DEF Passage
<1>7. ASSUME NEW q \in Runs, q # r PROVE Passage(q)'
  <2>1. task'[q] = task[q] /\ InTx(q)' = InTx(q)
    BY <1>1, <1>3, <1>7 DEF DeliveryInv, DeliveryTyped
  <2> QED BY <1>1, <2>1, DeliveryFacts DEF Passage
<1> QED BY <1>3, <1>4, <1>5, <1>6, <1>7 DEF DeliveryInv

(* A response is no run's message.                                         *)
LEMMA ReplyDelivers ==
    ASSUME DeliveryInv, NEW c \in Conns, Reply(c)
    PROVE  DeliveryInv'
<1>1. SendTx(c, Response) /\ UNCHANGED <<chan, log, pc, peer, writer, task, hand, seen>>
  BY DEF Reply, chatVars
<1>2. /\ txq' \in [Conns -> Seq(Message)] /\ SentHome'
      /\ \A q \in Runs : InTx(q)' = InTx(q)
  <2>1. Response.run = NoRun
    BY DEF Response
  <2> QED BY <1>1, <2>1, SendTxItems, MessageFields
<1>3. DeliveryTyped' /\ WriterOutlivesPeer'
  BY <1>1, <1>2 DEF DeliveryInv, DeliveryTyped, WriterOutlivesPeer
<1>4. ASSUME NEW q \in Runs PROVE Passage(q)'
  BY <1>1, <1>2, DeliveryFacts DEF Passage
<1> QED BY <1>2, <1>3, <1>4 DEF DeliveryInv

(* The event in hand goes behind what is in the outgoing channel.          *)
LEMMA ForwardDelivers ==
    ASSUME DeliveryInv, NEW r \in Runs, TaskForwards(r)
    PROVE  DeliveryInv'
<1> DEFINE c == Home[r]
           m == [run |-> r, item |-> hand[r]]
<1>1. /\ task[r] = "push" /\ SendTx(c, m)
      /\ task' = [task EXCEPT ![r] = IF writer[c] THEN "recv" ELSE "join"]
      /\ hand' = [hand EXCEPT ![r] = NoEvent]
      /\ UNCHANGED <<chan, log, pc, peer, writer, seen>>
  BY DEF TaskForwards, chatVars
<1>2. /\ c \in Conns /\ hand[r] \in Event /\ InTx(r) \in Seq(Item) /\ seen[r] \in Seq(Item)
      /\ chan[r] \in Seq(Event) /\ (peer[c] => writer[c])
      /\ InPassage(task[r], peer[c], seen[r], InTx(r), hand[r], chan[r], log[r], pc[r])
  BY <1>1, DeliveryFacts
<1>3. m \in Message /\ m.run = r /\ m.item = hand[r] /\ r \in HomeRuns(c) /\ hand[r] \in Item
  BY <1>2, MessageFields DEF HomeRuns, Item
<1> HIDE DEF m
<1>4. /\ txq' \in [Conns -> Seq(Message)] /\ SentHome'
      /\ \A q \in Runs : q # r => InTx(q)' = InTx(q)
      /\ writer[c] => InTx(r)' = Append(InTx(r), hand[r])
  BY <1>1, <1>2, <1>3, SendTxItems
<1>5. /\ task \in [Runs -> RunPlaces] /\ hand \in [Runs -> Event \cup {NoEvent}]
      /\ \A q \in Runs : task[q] = "push" => hand[q] \in Event
  BY DEF DeliveryInv, DeliveryTyped
<1>6. DeliveryTyped'
  <2>1. task' \in [Runs -> RunPlaces]
    BY <1>1, <1>5 DEF RunPlaces
  <2>2. hand' \in [Runs -> Event \cup {NoEvent}]
    BY <1>1, <1>5
  <2>3. \A q \in Runs : task'[q] = "push" => hand'[q] \in Event
    BY <1>1, <1>5
  <2> QED BY <1>1, <1>4, <2>1, <2>2, <2>3 DEF DeliveryInv, DeliveryTyped
<1>7. WriterOutlivesPeer'
  BY <1>1 DEF DeliveryInv, WriterOutlivesPeer
<1>8. Passage(r)'
  <2>1. task'[r] = IF writer[c] THEN "recv" ELSE "join"
    BY <1>1, <1>5
  <2>2. CASE ~peer[c]
    <3>1. InPassage(task'[r], peer[c], seen[r], InTx(r)', hand'[r], chan[r], log[r], pc[r])
      BY <2>1, <2>2 DEF InPassage
    <3> QED BY <1>1, <3>1, Zenon DEF Passage
  <2>3. CASE peer[c]
    <3>1. writer[c]
      BY <1>2, <2>3, Zenon
    <3>2. task'[r] = "recv" /\ InTx(r)' = Append(InTx(r), hand[r])
      BY <1>4, <2>1, <3>1, Zenon
    <3>3. seen[r] \o InTx(r) \o <<hand[r]>> \o chan[r] = <<Ack>> \o log[r]
      BY <1>1, <1>2, <2>3 DEF InPassage
    <3> DEFINE a == seen[r]
               b == InTx(r)
               h == hand[r]
               d == chan[r]
    <3>4. a \in Seq(Item) /\ b \in Seq(Item) /\ h \in Item /\ d \in Seq(Item)
      BY <1>2, <1>3 DEF Item
    <3>5. a \o b \o <<h>> \o d = <<Ack>> \o log[r]
      BY <3>3
    <3> HIDE DEF a, b, h, d
    <3>6. a \o Append(b, h) \o <<>> \o d = a \o b \o <<h>> \o d
      BY <3>4
    <3>7. a \o Append(b, h) \o <<>> \o d = <<Ack>> \o log[r]
      BY <3>5, <3>6
    <3>8. seen[r] \o InTx(r)' \o <<>> \o chan[r] = <<Ack>> \o log[r]
      BY <3>2, <3>7, Zenon DEF a, b, h, d
    <3>9. InPassage(task'[r], peer[c], seen[r], InTx(r)', hand'[r], chan[r], log[r], pc[r])
      BY <3>2, <3>8 DEF InPassage
    <3> QED BY <1>1, <3>9, Zenon DEF Passage
  <2> QED BY <2>2, <2>3
<1>9. ASSUME NEW q \in Runs, q # r PROVE Passage(q)'
  <2>1. task'[q] = task[q] /\ InTx(q)' = InTx(q) /\ hand'[q] = hand[q]
    BY <1>1, <1>4, <1>5, <1>9
  <2> QED BY <1>1, <2>1, DeliveryFacts DEF Passage
<1> QED BY <1>4, <1>6, <1>7, <1>8, <1>9 DEF DeliveryInv

(* The event at the head of the event channel is taken in hand.            *)
LEMMA ReceiveDelivers ==
    ASSUME DeliveryInv, NEW r \in Runs, TaskReceives(r)
    PROVE  DeliveryInv'
<1>1. /\ task[r] = "recv" /\ chan[r] # <<>>
      /\ chan' = [chan EXCEPT ![r] = Tail(@)]
      /\ hand' = [hand EXCEPT ![r] = Head(chan[r])]
      /\ task' = [task EXCEPT ![r] = "push"]
      /\ UNCHANGED <<log, pc, peer, writer, seen, txq>>
  BY DEF TaskReceives, Receive
<1>2. /\ InTx(r) \in Seq(Item) /\ seen[r] \in Seq(Item) /\ chan[r] \in Seq(Event)
      /\ InPassage(task[r], peer[Home[r]], seen[r], InTx(r), hand[r], chan[r], log[r], pc[r])
  BY DeliveryFacts
<1>3. /\ Head(chan[r]) \in Event /\ Tail(chan[r]) \in Seq(Event)
      /\ chan[r] = <<Head(chan[r])>> \o Tail(chan[r])
  BY <1>1, <1>2
<1>4. /\ task \in [Runs -> RunPlaces] /\ hand \in [Runs -> Event \cup {NoEvent}]
      /\ \A q \in Runs : task[q] = "push" => hand[q] \in Event
      /\ chan \in [Runs -> Seq(Event)]
  BY DEF DeliveryInv, DeliveryTyped
<1>5. DeliveryTyped'
  <2>1. task' \in [Runs -> RunPlaces] /\ hand' \in [Runs -> Event \cup {NoEvent}]
    BY <1>1, <1>3, <1>4 DEF RunPlaces
  <2>2. chan' \in [Runs -> Seq(Event)]
    BY <1>1, <1>3, <1>4
  <2>3. \A q \in Runs : task'[q] = "push" => hand'[q] \in Event
    BY <1>1, <1>3, <1>4
  <2> QED BY <1>1, <2>1, <2>2, <2>3 DEF DeliveryInv, DeliveryTyped
<1>6. WriterOutlivesPeer' /\ SentHome'
  BY <1>1 DEF DeliveryInv, WriterOutlivesPeer, SentHome
<1>7. \A q \in Runs : InTx(q)' = InTx(q)
  BY <1>1 DEF InTx
<1>8. Passage(r)'
  <2>1. task'[r] = "push" /\ chan'[r] = Tail(chan[r]) /\ hand'[r] = Head(chan[r])
    BY <1>1, <1>4
  <2>2. ASSUME peer[Home[r]]
        PROVE  seen[r] \o InTx(r) \o <<Head(chan[r])>> \o Tail(chan[r]) = <<Ack>> \o log[r]
    <3>1. seen[r] \o InTx(r) \o <<>> \o chan[r] = <<Ack>> \o log[r]
      BY <1>1, <1>2, <2>2 DEF InPassage
    <3> DEFINE a == seen[r] \o InTx(r)
               h == Head(chan[r])
               t == Tail(chan[r])
    <3>2. a \in Seq(Item) /\ h \in Item /\ t \in Seq(Item)
      BY <1>2, <1>3 DEF Item
    <3>3. a \o <<>> \o chan[r] = <<Ack>> \o log[r] /\ chan[r] = <<h>> \o t
      BY <1>3, <3>1
    <3> HIDE DEF a, h, t
    <3>4. a \o <<>> \o (<<h>> \o t) = a \o <<h>> \o t
      BY <3>2
    <3>5. a \o <<h>> \o t = <<Ack>> \o log[r]
      BY <3>3, <3>4
    <3> QED BY <3>5 DEF a, h, t
  <2> QED BY <1>1, <1>7, <2>1, <2>2 DEF Passage, InPassage
<1>9. ASSUME NEW q \in Runs, q # r PROVE Passage(q)'
  <2>1. task'[q] = task[q] /\ chan'[q] = chan[q] /\ hand'[q] = hand[q]
    BY <1>1, <1>4, <1>9
  <2> QED BY <1>1, <1>7, <2>1, DeliveryFacts DEF Passage
<1> QED BY <1>5, <1>6, <1>8, <1>9 DEF DeliveryInv

(* What leaves the outgoing channel reaches the client.                    *)
LEMMA WriterDelivers ==
    ASSUME DeliveryInv, NEW c \in Conns, WriterSend(c)
    PROVE  DeliveryInv'
<1> DEFINE m == Head(txq[c])
<1>1. /\ txq[c] # <<>> /\ txq' = [txq EXCEPT ![c] = Tail(@)]
      /\ seen' = IF peer[c] /\ m.run # NoRun
                 THEN [seen EXCEPT ![m.run] = Append(@, m.item)] ELSE seen
      /\ UNCHANGED <<chan, log, pc, peer, writer, task, hand>>
  BY DEF WriterSend, chatVars
<1>2. /\ txq \in [Conns -> Seq(Message)] /\ txq[c] \in Seq(Message)
      /\ seen \in [Runs -> Seq(Item)] /\ SentHome
  BY DEF DeliveryInv, DeliveryTyped
<1>3. /\ m \in Message /\ Tail(txq[c]) \in Seq(Message)
      /\ m.run \in HomeRuns(c) \cup {NoRun} /\ m.item \in Item
  <2>1. m = txq[c][1] /\ 1 \in 1 .. Len(txq[c]) /\ m \in Message /\ Tail(txq[c]) \in Seq(Message)
    BY <1>1, <1>2
  <2> HIDE DEF m
  <2>2. m.run \in HomeRuns(c) \cup {NoRun}
    BY <1>2, <2>1 DEF SentHome
  <2> QED BY <2>1, <2>2, MessageFields
<1> HIDE DEF m
<1>4. txq' \in [Conns -> Seq(Message)] /\ txq'[c] = Tail(txq[c])
  BY <1>1, <1>2, <1>3
<1>5. SentHome'
  <2> SUFFICES ASSUME NEW d \in Conns, NEW i \in 1 .. Len(txq'[d])
               PROVE  txq'[d][i].run \in HomeRuns(d) \cup {NoRun}
    BY DEF SentHome, HomeRuns
  <2>1. CASE d # c
    BY <1>1, <1>2, <2>1 DEF SentHome
  <2>2. CASE d = c
    <3>1. i + 1 \in 1 .. Len(txq[c]) /\ txq'[d][i] = txq[c][i + 1]
      BY <1>1, <1>2, <1>4, <2>2
    <3> QED BY <1>2, <2>2, <3>1 DEF SentHome
  <2> QED BY <2>1, <2>2
<1>6. seen' \in [Runs -> Seq(Item)]
      /\ \A q \in Runs : seen'[q] = IF peer[c] /\ m.run = q THEN Append(seen[q], m.item) ELSE seen[q]
  <2>1. HomeRuns(c) \subseteq Runs /\ NoRun \notin Runs
    BY GatewayChatAssumption DEF HomeRuns, GatewayChatAssumption
  <2>2. CASE peer[c] /\ m.run # NoRun
    <3>1. seen' = [seen EXCEPT ![m.run] = Append(@, m.item)] /\ m.run \in Runs
      BY <1>1, <1>3, <2>1, <2>2
    <3>2. Append(seen[m.run], m.item) \in Seq(Item)
      BY <1>2, <1>3, <3>1
    <3> QED BY <1>2, <2>2, <3>1, <3>2
  <2>3. CASE ~(peer[c] /\ m.run # NoRun)
    BY <1>1, <1>2, <2>1, <2>3
  <2> QED BY <2>2, <2>3
<1>7. DeliveryTyped' /\ WriterOutlivesPeer'
  BY <1>1, <1>4, <1>6 DEF DeliveryInv, DeliveryTyped, WriterOutlivesPeer
<1>8. ASSUME NEW q \in Runs PROVE Passage(q)'
  <2>1. /\ Home[q] \in Conns /\ InTx(q) = ItemsOf(q, txq[Home[q]])
        /\ seen[q] \in Seq(Item) /\ chan[q] \in Seq(Event) /\ hand[q] \in Event \cup {NoEvent}
        /\ task[q] = "push" => hand[q] \in Event
    BY DeliveryFacts
  <2>2. InPassage(task[q], peer[Home[q]], seen[q], InTx(q), hand[q], chan[q], log[q], pc[q])
    BY DeliveryFacts
  <2>3. CASE Home[q] # c
    <3>1. txq'[Home[q]] = txq[Home[q]] /\ m.run # q
      BY <1>1, <1>2, <1>3, <2>1, <2>3, GatewayChatAssumption DEF HomeRuns, GatewayChatAssumption
    <3>2. seen'[q] = seen[q] /\ InTx(q)' = InTx(q)
      BY <1>6, <3>1 DEF InTx
    <3> QED BY <1>1, <2>2, <3>2 DEF Passage
  <2>4. CASE Home[q] = c
    <3> DEFINE rest == ItemsOf(q, Tail(txq[c]))
    <3>1. InTx(q)' = rest /\ rest \in Seq(Item)
      <4>1. InTx(q)' = ItemsOf(q, txq'[c])
        BY <2>4 DEF InTx
      <4> QED BY <1>3, <1>4, <4>1, ItemsTyped
    <3>2. /\ m.run = q => InTx(q) = <<m.item>> \o rest
          /\ m.run # q => InTx(q) = rest
      BY <1>1, <1>2, <2>1, <2>4, ItemsOfHead DEF m
    <3> HIDE DEF rest
    <3>3. CASE m.run # q
      <4>1. seen'[q] = seen[q] /\ InTx(q)' = InTx(q)
        BY <1>6, <3>1, <3>2, <3>3
      <4> QED BY <1>1, <2>2, <4>1 DEF Passage
    <3>4. CASE m.run = q
      <4>1. InTx(q) = <<m.item>> \o rest /\ InTx(q) # <<>>
        BY <1>3, <3>1, <3>2, <3>4
      <4>2. task[q] \notin {"unsent", "asked"}
        BY <2>2, <4>1 DEF InPassage
      <4>3. ASSUME peer[c]
            PROVE  seen'[q] \o rest = seen[q] \o InTx(q)
        <5>1. seen'[q] = Append(seen[q], m.item)
          BY <1>6, <3>4, <4>3
        <5>2. Append(seen[q], m.item) \o rest = seen[q] \o (<<m.item>> \o rest)
          BY <1>3, <2>1, <3>1, ConcatShifts, Zenon
        <5> QED BY <4>1, <5>1, <5>2
      <4>4. InPassage(task[q], peer[Home[q]], seen'[q], rest, hand[q], chan[q], log[q], pc[q])
        BY <2>2, <2>4, <4>2, <4>3 DEF InPassage
      <4> QED BY <1>1, <3>1, <4>4 DEF Passage
    <3> QED BY <3>3, <3>4
  <2> QED BY <2>3, <2>4
<1> QED BY <1>4, <1>5, <1>7, <1>8 DEF DeliveryInv

(* A writer that fails has no peer: its runs have nobody to deliver to.    *)
LEMMA WriterFailsDelivers ==
    ASSUME DeliveryInv, NEW c \in Conns, WriterFails(c)
    PROVE  DeliveryInv'
<1>1. /\ ~peer[c] /\ writer' = [writer EXCEPT ![c] = FALSE]
      /\ txq' = [txq EXCEPT ![c] = <<>>]
      /\ UNCHANGED <<chan, log, pc, peer, task, hand, seen>>
  BY DEF WriterFails, chatVars
<1>2. txq \in [Conns -> Seq(Message)] /\ SentHome
  BY DEF DeliveryInv, DeliveryTyped
<1>3. txq' \in [Conns -> Seq(Message)]
  BY <1>1, <1>2
<1>4. SentHome'
  BY <1>1, <1>2 DEF SentHome, HomeRuns
<1>5. /\ writer' \in [Conns -> BOOLEAN]
      /\ \A d \in Conns : peer[d] => writer'[d] = writer[d]
  BY <1>1 DEF DeliveryInv, DeliveryTyped
<1>6. DeliveryTyped' /\ WriterOutlivesPeer'
  BY <1>1, <1>3, <1>5 DEF DeliveryInv, DeliveryTyped, WriterOutlivesPeer
<1>7. ASSUME NEW q \in Runs PROVE Passage(q)'
  <2>1. InPassage(task[q], peer[Home[q]], seen[q], InTx(q), hand[q], chan[q], log[q], pc[q])
        /\ Home[q] \in Conns
    BY DeliveryFacts
  <2>2. CASE Home[q] # c
    <3>1. InTx(q)' = InTx(q)
      BY <1>1, <1>2, <2>1, <2>2 DEF InTx
    <3> QED BY <1>1, <2>1, <3>1 DEF Passage
  <2>3. CASE Home[q] = c
    <3>1. InTx(q)' = <<>>
      BY <1>1, <1>2, <2>1, <2>3, ItemsOfNone DEF InTx
    <3>2. InPassage(task[q], peer[Home[q]], seen[q], <<>>, hand[q], chan[q], log[q], pc[q])
      BY <1>1, <2>1, <2>3 DEF InPassage
    <3> QED BY <1>1, <3>1, <3>2 DEF Passage
  <2> QED BY <2>2, <2>3
<1> QED BY <1>3, <1>4, <1>6, <1>7 DEF DeliveryInv

(* Whatever the run does, an event it publishes goes into both its channel *)
(* and its log, and a run that is over publishes none.                     *)
LEMMA RunDelivers ==
    ASSUME ChatInv, DeliveryInv, NEW r \in Runs, RunStep(r)
    PROVE  DeliveryInv'
<1>1. /\ task[r] \in {"recv", "push", "join"}
      /\ UNCHANGED <<txq, peer, writer, task, hand, seen>>
      /\ Begin(r) \/ BeginUnresolved(r) \/ ProcessChat(r)
  BY DEF RunStep, gateVars
<1>2. pc[r] # "done" /\ \A q \in Runs : q # r => pc'[q] = pc[q]
  BY <1>1 DEF Begin, BeginUnresolved, ProcessChat, ProviderStep, LoopStep, CallFails,
     CallStreams, StreamCancelled, StreamDelta, StreamError, StreamDone, StreamCut,
     AfterStream, Offer, TopCancelled, TopExhausted, TopCall, ToolStep, Emit, ChatInv,
     ChatTypeOK
<1>3. chan \in [Runs -> Seq(Event)] /\ log \in [Runs -> Seq(Event)] /\ pend \in [Runs -> Event]
  BY DEF ChatInv, ChatTypeOK
<1>4. CASE ~Emit(r)
  <2>1. UNCHANGED <<chan, log>>
    BY <1>1, <1>4 DEF Begin, BeginUnresolved, ProcessChat, ProviderStep, LoopStep, CallFails,
       CallStreams, StreamCancelled, StreamDelta, StreamError, StreamDone, StreamCut,
       TopCancelled, TopExhausted, TopCall, ToolStep
  <2>2. \A q \in Runs : pc[q] = "done" => pc'[q] = "done"
    BY <1>2
  <2>3. peer \in [Conns -> BOOLEAN] /\ task \in [Runs -> RunPlaces]
    BY DEF DeliveryInv, DeliveryTyped
  <2> QED BY <1>1, <2>1, <2>2, <2>3, DeliveryKept
<1>5. CASE Emit(r)
  <2>1. /\ chan' = [chan EXCEPT ![r] = Append(@, pend[r])]
        /\ log' = [log EXCEPT ![r] = Append(@, pend[r])]
    BY <1>5 DEF Emit
  <2>2. chan' \in [Runs -> Seq(Event)] /\ log' \in [Runs -> Seq(Event)]
    <3>1. Append(chan[r], pend[r]) \in Seq(Event) /\ Append(log[r], pend[r]) \in Seq(Event)
      BY <1>3
    <3> QED BY <1>3, <2>1, <3>1
  <2>3. DeliveryTyped' /\ WriterOutlivesPeer' /\ SentHome'
    BY <1>1, <2>2 DEF DeliveryInv, DeliveryTyped, WriterOutlivesPeer, SentHome
  <2>4. \A q \in Runs : InTx(q)' = InTx(q)
    BY <1>1 DEF InTx
  <2>5. Passage(r)'
    <3>1. /\ InPassage(task[r], peer[Home[r]], seen[r], InTx(r), hand[r], chan[r], log[r], pc[r])
          /\ InTx(r) \in Seq(Item) /\ seen[r] \in Seq(Item)
          /\ (task[r] = "push" => hand[r] \in Event)
      BY DeliveryFacts
    <3> DEFINE front == seen[r] \o InTx(r) \o (IF task[r] = "push" THEN <<hand[r]>> ELSE <<>>)
    <3>2. front \in Seq(Item)
      <4>1. task[r] = "push" => hand[r] \in Item
        BY <3>1 DEF Item
      <4> QED BY <3>1, <4>1
    <3>3. peer[Home[r]] => front \o chan[r] = <<Ack>> \o log[r]
      BY <1>1, <3>1 DEF InPassage
    <3>4. chan'[r] = Append(chan[r], pend[r]) /\ log'[r] = Append(log[r], pend[r])
      BY <1>3, <2>1
    <3>5. chan[r] \in Seq(Item) /\ log[r] \in Seq(Item) /\ pend[r] \in Item /\ Ack \in Item
      BY <1>3, MessageFields DEF Item
    <3> HIDE DEF front
    <3>a. <<Ack>> \in Seq(Item)
      BY <3>5
    <3>6. /\ front \o Append(chan[r], pend[r]) = Append(front \o chan[r], pend[r])
          /\ <<Ack>> \o Append(log[r], pend[r]) = Append(<<Ack>> \o log[r], pend[r])
      BY <3>2, <3>5, <3>a, ConcatShifts, Zenon
    <3>7. peer[Home[r]] => front \o chan'[r] = <<Ack>> \o log'[r]
      BY <3>3, <3>4, <3>6
    <3>8. ~(peer[Home[r]] /\ task[r] \in {"join", "ended"})
      BY <1>2, <3>1 DEF InPassage
    <3>9. InPassage(task[r], peer[Home[r]], seen[r], InTx(r), hand[r], chan'[r], log'[r], pc'[r])
      BY <1>1, <3>7, <3>8 DEF InPassage, front
    <3> QED BY <1>1, <2>4, <3>9 DEF Passage
  <2>6. ASSUME NEW q \in Runs, q # r PROVE Passage(q)'
    <3>1. chan'[q] = chan[q] /\ log'[q] = log[q] /\ pc'[q] = pc[q]
      BY <1>2, <1>3, <2>1, <2>6
    <3> QED BY <1>1, <2>4, <3>1, DeliveryFacts DEF Passage
  <2> QED BY <2>3, <2>5, <2>6 DEF DeliveryInv
<1> QED BY <1>4, <1>5

LEMMA DeliveryStep == ChatInv /\ DeliveryInv /\ [Next]_vars => DeliveryInv'
<1> SUFFICES ASSUME ChatInv, DeliveryInv, [Next]_vars PROVE DeliveryInv'
  OBVIOUS
<1>1. task \in [Runs -> RunPlaces] /\ peer \in [Conns -> BOOLEAN]
  BY DEF DeliveryInv, DeliveryTyped
<1>2. CASE UNCHANGED <<txq, hand, seen, chan, log, writer, peer, task, pc>>
  BY <1>1, <1>2, DeliveryKept
<1>3. ASSUME NEW c \in Conns, Request(c)
      PROVE  DeliveryInv'
  <2>1. /\ UNCHANGED <<txq, hand, seen, chan, log, writer, peer, pc>>
        /\ \/ UNCHANGED task
           \/ \E r \in Runs : task[r] = "unsent" /\ task' = [task EXCEPT ![r] = "asked"]
    BY <1>3 DEF Request, ChatSend, ChatCancel, Cancel, ConfigPatch, ConfigRead,
                PlainRequest, chatVars
  <2>2. /\ task' \in [Runs -> RunPlaces]
        /\ \A r \in Runs : task'[r] = task[r] \/ (task[r] = "unsent" /\ task'[r] = "asked")
    BY <1>1, <2>1 DEF RunPlaces
  <2> QED BY <1>1, <2>1, <2>2, DeliveryKept
<1>4. ASSUME NEW c \in Conns, HandlerStep(c)
      PROVE  DeliveryInv'
  <2>1. CASE \E r \in Runs : ChatSendAcked(c, r)
    BY <2>1, AckDelivers
  <2>2. CASE Reply(c)
    BY <2>2, ReplyDelivers
  <2>3. CASE ConfigPatched(c) \/ ConfigReadStarts(c) \/ ConfigReadDone(c) \/ Close(c)
    BY <1>2, <2>3 DEF ConfigPatched, ConfigReadStarts, ConfigReadDone, Close, Cancel, chatVars
  <2> QED BY <1>4, <2>1, <2>2, <2>3 DEF HandlerStep
<1>5. ASSUME NEW c \in Conns, WriterStep(c) \/ PeerLeaves(c)
      PROVE  DeliveryInv'
  <2>1. CASE PeerLeaves(c)
    <3>1. /\ UNCHANGED <<txq, hand, seen, chan, log, writer, task, pc>>
          /\ peer' = [peer EXCEPT ![c] = FALSE]
      BY <2>1 DEF PeerLeaves, chatVars
    <3>2. peer' \in [Conns -> BOOLEAN] /\ \A d \in Conns : peer'[d] => peer[d]
      BY <1>1, <3>1
    <3> QED BY <1>1, <3>1, <3>2, DeliveryKept
  <2> QED BY <1>5, <2>1, WriterDelivers, WriterFailsDelivers DEF WriterStep
<1>6. ASSUME NEW r \in Runs, TaskStep(r)
      PROVE  DeliveryInv'
  <2>1. CASE TaskAsksConfig(r) \/ TaskLocked(r) \/ TaskStreamEnds(r) \/ TaskEnds(r)
    <3>1. /\ UNCHANGED <<txq, hand, seen, chan, log, writer, peer, pc>>
          /\ \/ task[r] = "spawned" /\ task' = [task EXCEPT ![r] = "lock"]
             \/ task[r] = "lock" /\ task' = [task EXCEPT ![r] = "recv"]
             \/ /\ task[r] = "recv" /\ task' = [task EXCEPT ![r] = "join"]
                /\ chan[r] = <<>> /\ pc[r] = "done"
             \/ task[r] = "join" /\ task' = [task EXCEPT ![r] = "ended"]
      BY <2>1 DEF TaskAsksConfig, TaskLocked, TaskStreamEnds, TaskEnds, chatVars
    <3>2. task' \in [Runs -> RunPlaces]
      BY <1>1, <3>1 DEF RunPlaces
    <3>3. \A q \in Runs :
              \/ task'[q] = task[q]
              \/ task[q] = "spawned" /\ task'[q] = "lock"
              \/ task[q] = "lock" /\ task'[q] = "recv"
              \/ task[q] = "recv" /\ task'[q] = "join" /\ chan[q] = <<>> /\ pc'[q] = "done"
              \/ task[q] = "join" /\ task'[q] = "ended"
      BY <1>1, <3>1
    <3> QED BY <1>1, <3>1, <3>2, <3>3, DeliveryKept
  <2> QED BY <1>6, <2>1, ReceiveDelivers, ForwardDelivers DEF TaskStep
<1>7. ASSUME NEW r \in Runs, RunStep(r)
      PROVE  DeliveryInv'
  BY <1>7, RunDelivers
<1>8. CASE UNCHANGED vars
  BY <1>2, <1>8 DEF vars, gateVars, chatVars
<1> QED BY <1>3, <1>4, <1>5, <1>6, <1>7, <1>8 DEF Next

(* Whatever the number of connections and runs, the capacities and the     *)
(* clients that come and go: what a client has received of a run, what     *)
(* waits in its connection's channel, in the forwarding task's hand and in *)
(* the event channel is the acknowledgement and then every event of the    *)
(* run, in order, none lost and none twice (websocket.rs, the forwarding   *)
(* loop of handle_chat_send).                                              *)
THEOREM EventsAreDelivered == Spec => []Delivery
<1>1. DeliveryInv => Delivery
  <2> SUFFICES ASSUME DeliveryInv, NEW r \in Runs, peer[Home[r]],
                      Live(r) \/ task[r] = "ended"
               PROVE  /\ seen[r] \o InTx(r) \o InHand(r) \o chan[r] = <<Ack>> \o log[r]
                      /\ task[r] = "ended" => chan[r] = <<>>
    BY Zenon DEF Delivery
  <2>1. InPassage(task[r], peer[Home[r]], seen[r], InTx(r), hand[r], chan[r], log[r], pc[r])
    BY DeliveryFacts
  <2>2. task[r] \notin {"unsent", "asked"}
    BY DEF Live
  <2> QED BY <2>1, <2>2 DEF InPassage, InHand
<1>2. Spec => []ChatInv
  BY GatewayHostsRuns, RunInvariant, PTL DEF ImplementsChatRun
<1> QED BY <1>1, <1>2, DeliveryInit, DeliveryStep, PTL DEF Spec
=============================================================================
