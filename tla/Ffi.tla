--------------------------------- MODULE Ffi ---------------------------------
(***************************************************************************)
(* The C interface (src/ffi.rs): a host program creates a runtime, a       *)
(* configuration and a gateway, runs the gateway on one of its threads and *)
(* makes other calls from the others.  A host keeps to the contract of the *)
(* functions: it passes a live handle or null, and destroys none in use.   *)
(***************************************************************************)
EXTENDS Naturals, FiniteSets

CONSTANTS
    Threads,    \* threads of the host
    MaxStrings  \* bound: strings the host holds at a time

ASSUME FfiAssumption == MaxStrings \in Nat

VARIABLES
    handles,    \* the kinds of handle that are live
    gateServer, \* the gateway's server: "none", "held" by its handle, "run", "ended"
    inCall,     \* thread -> the call it is in: blocking, or between the halves of a take
    lastError,  \* threads whose LAST_ERROR holds a message
    strings,    \* strings handed out and not yet freed
    signalled,  \* the process has had Ctrl+C or SIGTERM during the run
    shutdownAsked, \* history: mylobster_gateway_shutdown was called during the run
    ranBy,      \* history: runs of the gateway that is live
    overlapped  \* history: two takes of its server were under way at once

ffiVars == <<handles, gateServer, inCall, lastError, strings, signalled, shutdownAsked, ranBy, overlapped>>

Blocking == {"take", "run", "agent", "send", "completion"}

FfiInit ==
    /\ handles = {} /\ gateServer = "none" /\ strings = 0
    /\ inCall = [t \in Threads |-> "none"]
    /\ lastError = {}
    /\ signalled = FALSE /\ shutdownAsked = FALSE
    /\ ranBy = 0 /\ overlapped = FALSE

-----------------------------------------------------------------------------
Free(t) == inCall[t] = "none"
Using(kinds) == \E t \in Threads : inCall[t] \in kinds

(* A call that succeeds leaves an older error in place; null and an error  *)
(* status come with set_last_error.                                        *)
Succeeds(t) == UNCHANGED lastError
Errs(t) == lastError' = lastError \cup {t}

Same == UNCHANGED <<signalled, shutdownAsked>>
NoChange == UNCHANGED <<handles, gateServer, strings, ranBy, overlapped>>

RuntimeCreate(t, ok) ==
    /\ Free(t) /\ "runtime" \notin handles
    /\ IF ok THEN handles' = handles \cup {"runtime"} /\ Succeeds(t)
       ELSE Errs(t) /\ UNCHANGED handles
    /\ UNCHANGED <<gateServer, inCall, strings, ranBy, overlapped>> /\ Same

(* Destroying null is a no-op and reports nothing.                         *)
RuntimeDestroy(t) ==
    /\ Free(t) /\ ~Using(Blocking)
    /\ handles' = handles \ {"runtime"}
    /\ Succeeds(t)
    /\ UNCHANGED <<gateServer, inCall, strings, ranBy, overlapped>> /\ Same

(* A path that is not UTF-8 and a file that does not load.                 *)
ConfigLoad(t, ok) ==
    /\ Free(t) /\ "config" \notin handles
    /\ IF ok THEN handles' = handles \cup {"config"} /\ Succeeds(t)
       ELSE Errs(t) /\ UNCHANGED handles
    /\ UNCHANGED <<gateServer, inCall, strings, ranBy, overlapped>> /\ Same

ConfigDefault(t) ==
    /\ Free(t) /\ "config" \notin handles
    /\ handles' = handles \cup {"config"}
    /\ Succeeds(t)
    /\ UNCHANGED <<gateServer, inCall, strings, ranBy, overlapped>> /\ Same

ConfigToJson(t, given) ==
    /\ Free(t) /\ strings < MaxStrings /\ (given => "config" \in handles)
    /\ IF given THEN strings' = strings + 1 /\ Succeeds(t)
       ELSE Errs(t) /\ UNCHANGED strings
    /\ UNCHANGED <<handles, gateServer, inCall, ranBy, overlapped>> /\ Same

ConfigDestroy(t) ==
    /\ Free(t) /\ ~Using(Blocking \ {"take", "run"})
    /\ handles' = handles \ {"config"}
    /\ Succeeds(t)
    /\ UNCHANGED <<gateServer, inCall, strings, ranBy, overlapped>> /\ Same

-----------------------------------------------------------------------------
(* The gateway's configuration is a clone; its handle outlives the run.    *)
GatewayStart(t, outcome) ==
    /\ Free(t) /\ "gateway" \notin handles
    /\ outcome # "argument" => {"runtime", "config"} \subseteq handles
    /\ IF outcome = "ok"
       THEN /\ handles' = handles \cup {"gateway"} /\ gateServer' = "held"
            /\ ranBy' = 0 /\ overlapped' = FALSE
            /\ Succeeds(t)
       ELSE Errs(t) /\ UNCHANGED <<handles, gateServer, ranBy, overlapped>>
    /\ UNCHANGED <<inCall, strings>> /\ Same

(* take() reads the server and then empties the handle.  Nothing keeps two *)
(* threads from doing so at once, which is a data race: each may then run  *)
(* what it has read.                                                       *)
GatewayRun(t, given) ==
    /\ Free(t) /\ (given => {"runtime", "gateway"} \subseteq handles)
    /\ IF given /\ gateServer = "held"
       THEN /\ inCall' = [inCall EXCEPT ![t] = "take"]
            /\ overlapped' = (overlapped \/ Using({"take"}))
            /\ UNCHANGED lastError
       ELSE Errs(t) /\ UNCHANGED <<inCall, overlapped>>
    /\ UNCHANGED <<handles, gateServer, strings, ranBy>> /\ Same

RunBorrows(t) ==   \* mutant of RunTakes: the handle keeps the server
    /\ inCall[t] = "take"
    /\ inCall' = [inCall EXCEPT ![t] = "run"] /\ ranBy' = ranBy + 1
    /\ IF Using({"run"}) THEN Same ELSE signalled' = FALSE /\ shutdownAsked' = FALSE
    /\ UNCHANGED <<handles, gateServer, lastError, strings, overlapped>>

RunTakes(t) ==
    /\ inCall[t] = "take"
    /\ gateServer' = "run" /\ inCall' = [inCall EXCEPT ![t] = "run"] /\ ranBy' = ranBy + 1
    /\ IF Using({"run"}) THEN Same ELSE signalled' = FALSE /\ shutdownAsked' = FALSE
    /\ UNCHANGED <<handles, lastError, strings, overlapped>>

(* run_until_shutdown waits for a signal of the process and for nothing    *)
(* else; binding the address may fail before.                              *)
RunReturns(t, ok) ==
    /\ inCall[t] = "run" /\ (ok => signalled)
    /\ inCall' = [inCall EXCEPT ![t] = "none"]
    /\ gateServer' = IF \E u \in Threads \ {t} : inCall[u] = "run" THEN "run" ELSE "ended"
    /\ IF ok THEN Succeeds(t) ELSE Errs(t)
    /\ UNCHANGED <<handles, strings, ranBy, overlapped>> /\ Same

ProcessSignal ==
    /\ gateServer = "run" /\ ~signalled /\ signalled' = TRUE
    /\ UNCHANGED <<handles, gateServer, inCall, lastError, strings, shutdownAsked, ranBy, overlapped>>

(* A server still in its handle sends on a channel no task waits on; one   *)
(* that is being run is out of reach.                                      *)
GatewayShutdown(t, given) ==
    /\ Free(t) /\ (given => "gateway" \in handles)
    /\ shutdownAsked' = (shutdownAsked \/ (given /\ gateServer = "run"))
    /\ IF given THEN Succeeds(t) ELSE Errs(t)
    /\ UNCHANGED <<inCall, signalled>> /\ NoChange

GatewayAddr(t, given) ==
    /\ Free(t) /\ strings < MaxStrings /\ (given => "gateway" \in handles)
    /\ IF given /\ gateServer = "held" THEN strings' = strings + 1 /\ Succeeds(t)
       ELSE Errs(t) /\ UNCHANGED strings
    /\ UNCHANGED <<handles, gateServer, inCall, ranBy, overlapped>> /\ Same

GatewayDestroy(t) ==
    /\ Free(t) /\ ~Using({"take", "run"})
    /\ handles' = handles \ {"gateway"} /\ gateServer' = "none"
    /\ ranBy' = 0 /\ overlapped' = FALSE
    /\ Succeeds(t)
    /\ UNCHANGED <<inCall, strings>> /\ Same

-----------------------------------------------------------------------------
(* agent_message, channel_send and chat_completion: null or text that is   *)
(* not UTF-8 (or not JSON) is reported at once, else the thread blocks.    *)
Enter(t, call, given) ==
    /\ Free(t) /\ (given => {"runtime", "config"} \subseteq handles)
    /\ IF given THEN inCall' = [inCall EXCEPT ![t] = call] /\ UNCHANGED lastError
       ELSE Errs(t) /\ UNCHANGED inCall
    /\ NoChange /\ Same
Return(t, call, ok) ==
    /\ inCall[t] = call /\ inCall' = [inCall EXCEPT ![t] = "none"]
    /\ IF ok THEN Succeeds(t) ELSE Errs(t)
    /\ UNCHANGED <<handles, gateServer, ranBy, overlapped>> /\ Same

AgentMessage(t, given) == Enter(t, "agent", given)
AgentReturns(t, ok) ==
    /\ strings < MaxStrings /\ strings' = IF ok THEN strings + 1 ELSE strings
    /\ Return(t, "agent", ok)
ChannelSend(t, given) == Enter(t, "send", given)
SendReturns(t, ok) == Return(t, "send", ok) /\ UNCHANGED strings
ChatCompletion(t, given) == Enter(t, "completion", given)
CompletionReturns(t, ok) ==
    /\ strings < MaxStrings /\ strings' = IF ok THEN strings + 1 ELSE strings
    /\ Return(t, "completion", ok)

(* A host clears the error when it has dealt with it.                      *)
ClearError(t) ==
    /\ Free(t)
    /\ lastError' = lastError \ {t}
    /\ UNCHANGED inCall /\ NoChange /\ Same
StringFree(t) ==
    /\ Free(t) /\ strings > 0 /\ strings' = strings - 1
    /\ UNCHANGED <<handles, gateServer, inCall, lastError, ranBy, overlapped>> /\ Same

FfiCall(t) ==
    \/ \E ok \in BOOLEAN : RuntimeCreate(t, ok)
    \/ RuntimeDestroy(t)
    \/ \E ok \in BOOLEAN : ConfigLoad(t, ok)
    \/ ConfigDefault(t) \/ ConfigDestroy(t)
    \/ \E outcome \in {"ok", "gateway", "argument"} : GatewayStart(t, outcome)
    \/ GatewayDestroy(t)
    \/ \E given \in BOOLEAN :
         \/ ConfigToJson(t, given) \/ GatewayRun(t, given) \/ GatewayShutdown(t, given)
         \/ GatewayAddr(t, given) \/ AgentMessage(t, given) \/ ChannelSend(t, given)
         \/ ChatCompletion(t, given)
    \/ ClearError(t)
    \/ StringFree(t)
FfiReturn(t) ==
    \/ RunTakes(t)
    \/ \E ok \in BOOLEAN :
        RunReturns(t, ok) \/ AgentReturns(t, ok) \/ SendReturns(t, ok) \/ CompletionReturns(t, ok)

FfiNext ==
    \/ \E t \in Threads : FfiCall(t) \/ FfiReturn(t)
    \/ ProcessSignal

(* A call that can return does: the run once the process is signalled.     *)
FfiSpec ==
    /\ FfiInit /\ [][FfiNext]_ffiVars
    /\ \A t \in Threads : WF_ffiVars(RunReturns(t, TRUE))

-----------------------------------------------------------------------------
FfiTypeOK ==
    /\ handles \subseteq {"runtime", "config", "gateway"}
    /\ gateServer \in {"none", "held", "run", "ended"}
    /\ inCall \in [Threads -> Blocking \cup {"none"}]
    /\ lastError \subseteq Threads /\ ranBy \in Nat /\ overlapped \in BOOLEAN
    /\ strings \in 0 .. MaxStrings

(* "The gateway can only be run once" (src/ffi.rs:295): by one thread and  *)
(* one time, whatever calls the other threads make meanwhile, if no two    *)
(* calls take the server at the same time; and in any case a server that   *)
(* is being run is out of reach of its handle.                             *)
EmbeddingSound ==
    /\ ~overlapped =>
         ranBy <= 1 /\ \A t, u \in Threads : inCall[t] = "run" /\ inCall[u] = "run" => t = u
    /\ Using({"run"}) => gateServer = "run"

(* "Call mylobster_gateway_shutdown() from another thread to trigger       *)
(* graceful shutdown" (src/ffi.rs:289): a run that is asked to shut down   *)
(* returns.                                                                *)
ShutdownStopsRun == shutdownAsked /\ gateServer = "run" ~> gateServer # "run"
=============================================================================
