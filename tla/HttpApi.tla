------------------------------- MODULE HttpApi -------------------------------
(***************************************************************************)
(* The HTTP routes of the gateway (src/gateway/routes.rs, src/agents/      *)
(* mod.rs) and the server that runs them (src/gateway/server.rs).  Routes  *)
(* and connections share the configuration behind a fair read/write lock:  *)
(* a chat completion keeps its read guard for the whole provider call, a   *)
(* reload waits for it, and whoever asks after the reload waits behind it. *)
(***************************************************************************)
EXTENDS Naturals, Sequences, FiniteSets, SequencesExt

CONSTANTS
    MaxRequests, \* bound: HTTP requests, and config.patch of a connection
    Aside        \* no configuration held aside

ASSUME HttpAssumption == MaxRequests \in Nat /\ Aside \notin BOOLEAN

VARIABLES
    httpPc,     \* request -> where it stands
    httpReq,    \* request -> its kind, and whether it upgrades with an Origin
    httpView,   \* request -> the configuration it goes by, or has loaded
    openConfig, \* the configuration: are endpoints enabled, origins allowed?
    lockQueue,  \* the lock: who holds it, then who waits, in order
    server      \* "running", "draining" (a signal has come), "ended"

httpVars == <<httpPc, httpReq, httpView, openConfig, lockQueue, server>>

Requests == 1 .. MaxRequests   \* in the order of their arrival

(* "plain": health, sessions, agents, cron, usage, status, schema, info;   *)
(* "config": tools, models, validate; "search": memory search;              *)
(* "completion" and "responses": the two ways to ask a provider.           *)
Kinds == {"plain", "config", "search", "completion", "responses", "reload", "patch"}
Readers == {"config", "search", "completion", "responses"}
Upgradable == {"plain", "config"}  \* bound: the ws route, and one that reads the lock
NoRequest == [kind |-> "plain", upgrade |-> FALSE]

HttpInit ==
    /\ httpPc = [r \in Requests |-> "idle"]
    /\ httpReq = [r \in Requests |-> NoRequest]
    /\ httpView = [r \in Requests |-> Aside]
    /\ openConfig = TRUE
    /\ lockQueue = <<>> /\ server = "running"

-----------------------------------------------------------------------------
(* The lock of tokio: first come, first served, readers next to readers.   *)
Claim(r, mode) == Append(lockQueue, [by |-> r, mode |-> mode])
Yielded(r) == SelectSeq(lockQueue, LAMBDA e : e.by # r)
Granted(i) ==
    IF lockQueue[i].mode = "read" THEN \A j \in 1 .. i : lockQueue[j].mode = "read"
    ELSE i = 1
Holds(r) ==     \* the last lock it asked for
    \E i \in DOMAIN lockQueue :
        /\ lockQueue[i].by = r /\ Granted(i)
        /\ \A j \in i + 1 .. Len(lockQueue) : lockQueue[j].by # r

(* A request ends, served or refused: its guards go with its future.       *)
AnswerHttp(r, outcome) ==
    /\ httpPc' = [httpPc EXCEPT ![r] = outcome]
    /\ httpReq' = [httpReq EXCEPT ![r] = NoRequest]
    /\ httpView' = [httpView EXCEPT ![r] = Aside]
    /\ lockQueue' = Yielded(r)

HttpAt(r, pc) == httpPc' = [httpPc EXCEPT ![r] = pc]

-----------------------------------------------------------------------------
(* The outermost layer checks the Origin of an upgrade, under a read guard. *)
Arrive(r, kind, upgrade) ==
    /\ server = "running" /\ httpPc[r] = "idle"
    /\ \A s \in 1 .. r - 1 : httpPc[s] # "idle"
    /\ upgrade => kind \in Upgradable
    /\ httpReq' = [httpReq EXCEPT ![r] = [kind |-> kind, upgrade |-> upgrade]]
    /\ HttpAt(r, IF upgrade THEN "origin" ELSE "route")
    /\ lockQueue' = IF upgrade THEN Claim(r, "read") ELSE lockQueue
    /\ UNCHANGED <<httpView, openConfig, server>>

OriginKept(r) ==   \* mutant of OriginChecked: the guard lives on into the handler
    /\ httpPc[r] = "origin" /\ Holds(r)
    /\ IF openConfig THEN HttpAt(r, "route") /\ UNCHANGED <<httpReq, httpView, lockQueue>>
       ELSE AnswerHttp(r, "refused")
    /\ UNCHANGED <<openConfig, server>>

OriginChecked(r) ==
    /\ httpPc[r] = "origin" /\ Holds(r)
    /\ IF openConfig
       THEN HttpAt(r, "route") /\ lockQueue' = Yielded(r) /\ UNCHANGED <<httpReq, httpView>>
       ELSE AnswerHttp(r, "refused")
    /\ UNCHANGED <<openConfig, server>>

(* The inner layers, which refuse a path or a missing token, *)
Barred(r) ==
    /\ httpPc[r] = "route" /\ httpReq[r].kind # "patch"
    /\ AnswerHttp(r, "refused")
    /\ UNCHANGED <<openConfig, server>>

(* then the handler up to its first lock.                                  *)
Route(r) ==
    /\ httpPc[r] = "route"
    /\ LET kind == httpReq[r].kind
       IN CASE kind = "plain" -> AnswerHttp(r, "served")
            [] kind = "reload" -> HttpAt(r, "load") /\ UNCHANGED <<httpReq, httpView, lockQueue>>
            [] OTHER -> /\ HttpAt(r, "lock") /\ UNCHANGED <<httpReq, httpView>>
                        /\ lockQueue' = Claim(r, IF kind = "patch" THEN "write" ELSE "read")
    /\ UNCHANGED <<openConfig, server>>

(* The handlers that read: the guard lasts to the end of the handler.      *)
ReadLockedHttp(r) ==
    /\ httpPc[r] = "lock" /\ httpReq[r].kind \in Readers /\ Holds(r)
    /\ IF httpReq[r].kind = "config" THEN AnswerHttp(r, "served")
       ELSE IF httpReq[r].kind # "search" /\ ~openConfig THEN AnswerHttp(r, "refused")
       ELSE /\ HttpAt(r, "call") /\ httpView' = [httpView EXCEPT ![r] = openConfig]
            /\ UNCHANGED <<httpReq, lockQueue>>
    /\ UNCHANGED <<openConfig, server>>

(* The provider of the model asked for answers, or there is none, or it    *)
(* fails.                                                                  *)
CompletionEnds(r, ok) ==
    /\ httpPc[r] = "call" /\ httpReq[r].kind = "completion"
    /\ AnswerHttp(r, IF ok THEN "served" ELSE "refused")
    /\ UNCHANGED <<openConfig, server>>
ResponsesEnd(r, ok) ==
    /\ httpPc[r] = "call" /\ httpReq[r].kind = "responses"
    /\ AnswerHttp(r, IF ok THEN "served" ELSE "refused")
    /\ UNCHANGED <<openConfig, server>>

(* A search that fails is answered with an empty list.                     *)
SearchEnds(r) ==
    /\ httpPc[r] = "call" /\ httpReq[r].kind = "search"
    /\ AnswerHttp(r, "served")
    /\ UNCHANGED <<openConfig, server>>

(* config/reload reads the file, then replaces the whole configuration.    *)
LoadFile(r, file) ==
    /\ httpPc[r] = "load"
    /\ httpView' = [httpView EXCEPT ![r] = file]
    /\ HttpAt(r, "lock") /\ lockQueue' = Claim(r, "write")
    /\ UNCHANGED <<httpReq, openConfig, server>>
LoadFails(r) ==
    /\ httpPc[r] = "load"
    /\ AnswerHttp(r, "refused")
    /\ UNCHANGED <<openConfig, server>>

(* config.patch writes one of its fields, here to close what is open.       *)
WriteConfig(r) ==
    /\ httpPc[r] = "lock" /\ httpReq[r].kind \in {"reload", "patch"} /\ Holds(r)
    /\ openConfig' = IF httpReq[r].kind = "patch" THEN FALSE ELSE httpView[r]
    /\ AnswerHttp(r, "served")
    /\ UNCHANGED server

Open(r) == httpPc[r] \notin {"idle", "served", "refused"}

(* The client hangs up: the server drops the handler where it stands.  A   *)
(* patch belongs to the task of its connection and goes on.                *)
HangUp(r) ==
    /\ Open(r) /\ httpReq[r].kind # "patch"
    /\ AnswerHttp(r, "refused")
    /\ UNCHANGED <<openConfig, server>>

-----------------------------------------------------------------------------
(* Ctrl+C or SIGTERM: nothing more is accepted, and the server ends with   *)
(* the last request; the tasks of upgraded connections are not waited for. *)
ShutdownSignal ==
    /\ server = "running" /\ server' = "draining"
    /\ UNCHANGED <<httpPc, httpReq, httpView, openConfig, lockQueue>>

ServerEnds ==
    /\ server = "draining" /\ \A r \in Requests : Open(r) => httpReq[r].kind = "patch"
    /\ server' = "ended"
    /\ UNCHANGED <<httpPc, httpReq, httpView, openConfig, lockQueue>>

HttpStep(r) ==
    /\ server # "ended"
    /\ \/ OriginChecked(r)
       \/ Barred(r)
       \/ Route(r)
       \/ ReadLockedHttp(r)
       \/ \E ok \in BOOLEAN : CompletionEnds(r, ok) \/ ResponsesEnd(r, ok)
       \/ SearchEnds(r)
       \/ \E file \in BOOLEAN : LoadFile(r, file)
       \/ LoadFails(r)
       \/ WriteConfig(r)

HttpNext ==
    \/ \E r \in Requests, kind \in Kinds, upgrade \in BOOLEAN : Arrive(r, kind, upgrade)
    \/ \E r \in Requests : HttpStep(r) \/ HangUp(r)
    \/ ShutdownSignal
    \/ ServerEnds

HttpFairness == WF_httpVars(ServerEnds) /\ \A r \in Requests : WF_httpVars(HttpStep(r))
HttpSpec == HttpInit /\ [][HttpNext]_httpVars /\ HttpFairness

-----------------------------------------------------------------------------
HttpTypeOK ==
    /\ httpPc \in [Requests -> {"idle", "origin", "route", "load", "lock", "call", "served", "refused"}]
    /\ httpReq \in [Requests -> [kind : Kinds, upgrade : BOOLEAN]]
    /\ httpView \in [Requests -> BOOLEAN \cup {Aside}]
    /\ openConfig \in BOOLEAN /\ server \in {"running", "draining", "ended"}
    /\ \A e \in Range(lockQueue) : e.by \in Requests /\ e.mode \in {"read", "write"}

(* A call to a provider or to the index runs, from the check that it is    *)
(* enabled to its answer, under one configuration                          *)
(* (chat_completions_handler, responses_handler, memory_search_handler).   *)
CallsKeepConfig == \A r \in Requests : httpPc[r] = "call" => httpView[r] = openConfig

(* Every request that reaches the gateway is done with, whatever reloads   *)
(* and patches queue between readers, unless the server has ended; and a   *)
(* signal ends the server once its last request is answered.  Providers    *)
(* are assumed to answer.                                                  *)
HttpSettles ==
    /\ [](HttpTypeOK /\ CallsKeepConfig)
    /\ \A r \in Requests : Open(r) ~> ~Open(r) \/ server = "ended"
    /\ server = "draining" ~> server = "ended"
=============================================================================
