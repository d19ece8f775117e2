# MyLobster in TLA+

MyLobster is an assistant gateway: clients connect over WebSocket, send chat
messages, and receive the events of an agent run that talks to a model provider
and executes tools. This directory models the chat path (opening a connection,
running a chat, cancelling it, keeping its session, changing the configuration
it runs with), the HTTP routes beside it, and the services around it: node work
queues, records and settings, channels, agents, providers, tools, memory, access
rules and the C interface. TLC checks the models on small instances; for every
instance, TLAPS proves all of their safety properties, some of them under a
hypothesis that a failing run shows to be needed (section 4).

Paths below are relative to the repository, so `src/gateway/chat.rs` is the
crate's file of that name. Line numbers are in the `map` of `PROJECT.json`.

## 1. The system

### 1.1 How it runs

One tokio process. `gateway/server.rs` binds the HTTP server and hands every
WebSocket to `handle_websocket`. For each connection there are

- a **reader loop**, which reads a frame, handles the request to its end and
  sends the response before it reads the next frame;
- a **writer task**, which takes messages from a channel of 256 and writes them
  to the socket;
- for every accepted `chat.send` a **forwarding task**, which takes the
  configuration's read lock, spawns `process_chat`, moves the run's events from
  a channel of 64 to the connection's channel, and removes the run from
  `active_runs` when both have ended.

All connections share `GatewayState`: the configuration behind a fair
`tokio::sync::RwLock`, the session store (a `DashMap` of handles), and the
stores of the administrative methods (`RpcState`).

```
 client ==frames==> reader loop --active_runs--> cancellation token
   ^                  |      \                        |
   |                  |       spawn                   v
 socket <- writer <- 256 <- forwarding task <- 64 <- process_chat <-> provider, tools
                                |                        |
                          config (RwLock)          SessionStore (DashMap of handles)
```

### 1.2 Components

| Component | State | Operations | Hard behaviour | What makes it correct |
|---|---|---|---|---|
| Connection handshake (`gateway/websocket.rs`, `gateway/auth.rs`) | phase, deadline, granted scopes | challenge, connect, time-out, hello | pipelining clients, repeated signatures, clock skew, time-out against a late connect | scopes are earned, admission needs a credential, replies in order, every handshake ends |
| Gateway connection and chat requests (`gateway/websocket.rs`) | reader, writer, `active_runs`, outgoing channel, lock queue | `chat.send`, `chat.cancel`, configuration requests, close | two bounded channels, a fair lock held for a whole run, requests read one at a time, a closing peer | every run can be cancelled, nothing is lost on the way, everything ends |
| Chat run (`gateway/chat.rs`) | place in the agentic loop, sequence number, pending tool calls | provider call, stream event, tool, terminal event | cancellation between any two awaits, back-pressure, limits | one well-formed event stream, an answer exactly when it says so, prompt cancellation |
| Session store (`sessions/mod.rs`) | key -> handle, handle -> history | get or create, history, add, reset, delete, patch | look-up then insert, handles that outlive their entry | no answer is lost, a context stays a prefix |
| Running configuration (`gateway/websocket.rs`, `infra/secrets/*`) | configuration, hash, a draft per reload | patch, set, apply, reload, `secrets.reload` | a snapshot taken before a wait and written after it, partial failure | nothing configured is lost, strict reloads resolve |
| HTTP routes and server (`gateway/routes.rs`, `gateway/server.rs`) | the configuration's lock, requests in flight, a signal | every route by the way it uses the lock, graceful end | a guard held over a provider call, clients that hang up, reload between readers | every request is done with, the server ends |
| Configuration files (`config/io.rs`) | stack of files being read | read with includes | missing files, links, circles, several files that set a key | fails exactly when it must, the last include wins |
| Nodes, records, settings (`gateway/websocket.rs`, `RpcState`) | pending work, pairs, agents, cron jobs, approvals, wizard, speech | one handler each | two locks in a row, clients that race, answers lost with their connection | work once and in order, no stray runs, no wizard past its end |
| Gateway client (`gateway/client.rs`) | pending calls, connected flag, event channel | connect, request, disconnect | a full event channel, a caller that gives up, readers of two sockets | an answer settles its call |
| Channels (`channels/*`) | settings, cookie, clients | start, stop, send, broadcast | services that refuse with status 200, several calls of which one fails, a client that comes or goes during a broadcast | ok means that no reply refused it, nobody starves or hears a message twice |
| ACP agents (`agents/acp.rs`), abort signal (`infra/abort_signal.rs`), typing loop (`channels/mod.rs`) | two maps, a flag and a notify, shared flags | spawn, stop, stop all, abort, wait, tick | two locks in a row, a wake-up between look and wait, loops of several starts | stopped means cancelled, no lost wake-up, no stuck indicator |
| Delivery (`infra/delivery.rs`), failover (`agents/model_fallback.rs`), hooks (`hooks/mod.rs`) | attempts, cooldowns, ordered handlers | cycle, record, choose, register, emit | time that passes between failure and choice, late cycles, registration during a chain | targets keep up, failed models rest, chains run in order |
| Providers (`providers/*`) and tools (`agents/tools/*`) | a parser's state, a tool call's progress | frame, end, break; check, call, answer | a stream that breaks anywhere, the third of several calls that fails | the stream is faithful and ends once, an answer claims only what happened |
| Memory (`memory/*`) | queue, batch, chunks, a search | enqueue, flush, embed, chunk, rank | answers with their own order, overlap, a batch that fails | text and vector stay together, chunks cover the text |
| Routing, approvals, access (`routing/mod.rs`, `infra/exec_approval.rs`, `infra/dm_policy.rs`) | ordered rules | bind, unbind, resolve, evaluate, merge | order, owners, absent fields | the first rule that matches decides |
| C interface (`ffi.rs`) | handles, the server in its handle, an error per thread | every exported function | two threads that take the server at once, a shutdown during a run | a run has one runner, a shutdown stops it |

`PROJECT.json` names every component with its sources, also those that are not
modelled, and under `hazards` what in this code a test would hardly reach, at
its line, with the properties that watch it.

## 2. The modules

| Module | Models | Uses |
|---|---|---|
| `ChatRun` | `process_chat_with_hooks` and its event channel, a family of runs | `RunPromise` |
| `RunPromise` | abstract: what a run promises its client and its session | |
| `GatewayChat` | connections, forwarding tasks, the configuration lock, composed with `ChatRun` | `ChatRun` |
| `Handshake` | opening a connection | |
| `SessionStore` | the session store under concurrent runs and requests | |
| `ConfigStore` | the running configuration, reloads and the secrets workflow | |
| `HttpApi` | HTTP routes and the server's life | |
| `ConfigFiles` | reading a configuration file with its includes | |
| `NodeStore` | `node.*` requests | `WorkQueue` |
| `WorkQueue` | abstract: work of a node is taken once and in order | |
| `GatewayRecords`, `GatewaySettings` | agents, files, cron jobs, approvals; wizard, speech, lists | |
| `GatewayClient` | the crate's own client of a gateway | |
| `Channels`, `WebChat` | channel plugins as scripts of calls; the clients of the web chat | |
| `AcpAgents`, `AbortSignal`, `TypingLoop`, `Delivery`, `Fallback`, `Hooks` | one runtime service each | |
| `ProviderStream`, `Tools` | the parsers of provider streams; the agent's tools | |
| `Chunking`, `Memory` | chunking; embedding queue, providers, hybrid search, manager status | |
| `Access` | routes, approval policies, allow lists | |
| `Ffi` | the C interface | |
| `Subsequences` | the entries of a sequence that are in a set, in order | |
| `ChatRunProofs`, `GatewayChatProofs`, `HandshakeProofs` | theorems about the module they are named after | that module, TLAPS |
| `TransportProofs` | theorems about `NodeStore` and `ProviderStream` | those, TLAPS |
| `StoresProofs` | theorems about `ConfigStore`, `SessionStore`, `ConfigFiles` and the last two in `MCStores` | `MCStores`, TLAPS |
| `RuntimeProofs` | theorems about `AcpAgents`, `Ffi`, `Delivery`, `Fallback`, `Hooks`, `AbortSignal`, `Tools` | those, TLAPS |
| `ServicesProofs` | theorems about `GatewayRecords`, `GatewaySettings`, `Channels`, `WebChat`, `Access`, `Chunking`, `Memory`, and about all services side by side | `MCServices`, `RuntimeProofs`, `TransportProofs` |
| `SubsequenceProofs` | lemmas about `Only`, `FlattenSeq`, induction over numbers and sequences | `Subsequences`, TLAPS |
| `MC*` | values of the constants for TLC | the module they are named after |
| `MCStores`, `MCServices` | several modules side by side, see 2.6 | |

Operators named as mutants stand before the definition they change; they are
plausible mistakes in that piece of code, and each property is known to fail
for at least one of them. No specification uses them.

### 2.1 ChatRun and RunPromise

A step of `ChatRun` is the code between two await points. `pc` is the await
point: `top` (head of the loop), `call` (`stream_chat`), `stream` (`recv` on the
provider's stream), `emit` (`event_tx.send`), `tools`, `done`. An event is
first *offered* (`pend`, with the place the code goes on at in `resume`) and
enters the channel when there is room (`Emit`), which is how back-pressure and
a cancellation during a blocked send appear in the model.

| Code in `chat.rs` | Action |
|---|---|
| session, history, provider resolution; provider not found | `Begin`, `BeginUnresolved` |
| head of the loop: token, iteration limit, next call | `TopCancelled`, `TopExhausted`, `TopCall` |
| `stream_chat(..).await` | `CallFails`, `CallStreams` |
| a stream event, the token looked at first | `StreamCancelled`, `StreamDelta`, `StreamError`, `StreamDone` |
| the provider's sender dropped | `StreamCut` |
| tool loop, or answer stored and final event | `AfterStream`, `ToolStep` |
| `event_tx.send(..).await` completes | `Emit` |

Texts, tool arguments and usage are abstracted: an event is its state and its
number. The hook registry is `None` on the gateway's path, so hooks do not
appear. `log`, `stored` and `late` are history variables.

`RunPromise` has only `log` and `stored`. It lets a run publish consecutively
numbered deltas, store one answer, and close the stream once: `final` only after
the answer, `aborted` or `error` only without it. `ImplementsPromise` says that
every step of `ChatRun` is a step of it or a stutter.

### 2.2 GatewayChat

`GatewayChat` extends `ChatRun`; it supplies the environment `ChatRun` leaves
open (`Receive`, `Cancel`), and `ImplementsChatRun` checks that composing does
not make a run do anything `ChatRun` forbids.

- `reader[c]` is what the reader loop waits for: the next request, room for the
  acknowledgement, room for a response, the write lock, the read lock, or, with
  the read guard in its hand (`hold`), what the handler awaits.
- `waiting` is the FIFO queue of the configuration lock. A reader is granted
  when it is first, a writer when it is first and nobody holds the lock: tokio's
  `RwLock` is write-preferring through fairness. `holders` are the runs and the
  connections that hold the read guard: a run from `TaskLocked` to `TaskEnds`, a
  connection from `ConfigReadStarts` to `ConfigReadDone`. `agent.run`,
  `memory.search` and `send` keep the guard over the provider, the memory or the
  channel they await; the other handlers only copy what they need, for which the
  second step follows at once.
- `task[r]` follows the forwarding task: spawned, waiting for the lock,
  receiving, pushing one event, joining the run, ended. The spawned task asks for
  the lock when it is scheduled (`TaskAsksConfig`), so a later request of the
  same connection can queue before it.
- `Close` cancels what `active_runs` holds; `WriterFails` drops the outgoing
  channel, after which sends return at once without effect.

`ConfigPatch` stands for every method that takes the write lock, `ConfigRead`
for every method that takes the read lock (granted in `ConfigReadStarts`),
`PlainRequest` for every method that takes neither: for this module only the way a handler waits matters.

### 2.3 SessionStore

A handle is named by the run that created it. `get_or_create_session` is two
steps (`Found` or `Missing`, then `Insert`) because nothing holds the map in
between. Runs keep their handle when the entry is reset or deleted. A turn adds
the assistant's message only: the user's message goes into the list sent to the
provider and is not stored. `due` records, per key, the answers given since the
last reset or delete, `void` the runs under way at that moment, whose answers
may or may not be in the new history.

### 2.4 ConfigStore

The configuration is its fields as `apply_config_patch` sees them; a value is
plain, a reference to a secret, or that secret (`Resolved`). `config.patch`,
`config.set` and `config.apply` are one atomic overlay. A reload takes its draft
(the file, or a serialization of the running configuration, which shows only
the fields in `Serialized` at the path a patch uses), resolves references
without a lock, checks required ones if it is strict, and overlays the draft.
`secrets.reload` keeps the read guard while it resolves and drops the result.
`ReloadUnread` is the reload whose file cannot be read. A field in `Guarded`
(google's key) is written only into an entry that exists; `NoEntry` says that
there is none, and such a patch is answered ok and dropped.

`intended` is what a patch or the file last gave a field. `stale` and `undone`
say which fields of a waiting draft are no longer their latest value, and which
such a draft was written over: `PatchesKept` holds of all others, for any number
of connections, so the one way to lose a patch is a copy of the running
configuration taken before it and written back after it.

### 2.5 Handshake

Connections share the gateway's clock, its credentials, and the signatures
clients have made and may repeat. A nonce is the connection it was made for; a
signature is the payload it covers, so it verifies for exactly that payload.
`Accept` sends the challenge and sets the deadline; `IgnoreEarly`,
`ConnectRefused`, `ConnectAccepted`, `HelloFails` and `TimedOut` are the ways
the handshake loop goes on; `Request` answers after the hello, and refuses
`chat.send` without the write scope. Clients may send early requests, a connect
request without a device, with a fresh signature (v2 or v3, with a clock that is
ahead), with a repeated one (under its own nonce or the current one, with other
scopes or another credential) or with one that does not decode, and may vanish
at any step. `tokio::time::timeout` polls the inner future before the timer, so
`TimedOut` needs an empty inbox.

### 2.6 Side by side

The modules from here on share no state with each other, so interleaving two of
them would add states and say nothing. `MCStores` and `MCServices` put them side
by side: a variable (`store`, `service`) is chosen at the start, that module's
next-state relation runs with its own constants and its own fairness, and all
others stand still. One TLC run then answers for all of them.

### 2.7 HttpApi and ConfigFiles

A request arrives with a kind (the way its route uses the configuration) and is
taken by steps: middleware, lock, provider call, answer. `lockQueue` is the fair
lock of `GatewayChat`, held by readers over a whole completion. A reload loads
its file without the lock and replaces the configuration or leaves it.
`HangUp` drops a request wherever it stands, guard included. A signal stops
accepting; the server ends with its last request.

`ConfigFiles` walks `read_config_with_includes` with an explicit stack of calls.
`disk` is chosen at the start: for each path a file with includes, none, a
link, or one whose error has a fatal word in it. The code decides by the *text*
of an error whether an include may be skipped, and that text holds the file's
path: `FatalWords` are the states whose text does not let it. Calls deeper than
`MaxIncludeDepth` fail, in a circle or not.

### 2.8 Nodes, records, settings

Each store of `RpcState` has a lock of its own, taken once by most handlers: one
action. Handlers that take two locks are two actions (`CronRun` and `CronRecord`;
`WizardStart` and `WizardStarted`; `WizardCancel` and `WizardCancelled`), and
requests of other connections run in between; `overtook` says that a wizard was
started between the two writes of a cancel. `NodeStore` also follows the answer of a drain through the connection's
channel to the client (`answers`, `held`) or into nothing when the connection
goes. An item is its number of issue. `Queue == INSTANCE WorkQueue` maps
`accepted` and `drained` to the abstract queue, where one `Take` may take several
items, always the next ones.

### 2.9 Client, channels, runtime services

- `GatewayClient`: a dial is one socket with its reader and writer; readers of
  earlier dials live on and share the pending map and the event channel, whose
  receiver the client holds, or the application has taken, or taken and dropped
  (`receiver`). The peer answers in the frame shape the client reads.
- `Channels`: a plugin is a *script*: which settings it needs, which requests
  `send_message` makes in order, and how each reply is judged (by the HTTP
  status, or by status and a code in the body). One set of actions runs them all;
  the table `Plugins` has one row per plugin file. `Stubs` are the nine plugins
  that make no call: six answer ok and send nothing, three always fail.
- `WebChat`: register, unregister, a client that drops, a numbered message to
  one client or to all. A broadcast takes the lock a second time: between the two
  it is `underway`, and clients come, go and take over ids. `listeners` are those
  a message was meant for who have been there ever since.
- `AcpAgents`: spawn, send, stop and stop_all step by step between the locks of
  the two maps. `AbortSignal`: a Notified future counts the notices before it.
  `TypingLoop`: several loops, one flag. `Delivery`: minutes, cycles, drain
  guards, the 401 backoff. `Fallback`: clock and cooldowns. `Hooks`: chains that
  hold the registry's read lock, registrations that wait for it.

### 2.10 Providers and tools

`ProviderStream` has one description per dialect (`dialect`): the API sends
lines, closes or breaks; the parser looks at them and turns them into events.
Anthropic's looks at the body chunk by chunk, Codex's message by message, the
others when it is whole. A chunk may end anywhere: within a line, within a
character (`torn`), or before a line's newline (`unfinished`). An event says by
which line it was caused and which lines' text it holds. A tool call is
assembled from its fragments (Anthropic), passed on whole (Ollama), sent
fragment by fragment as if each were a call (OpenAI, the compatible ones,
Bedrock), or dropped (Codex, Gemini).

`Tools` describes a tool as a script, as `Channels` does: checks, then calls in
order, each with how its outcome is judged (`Judgement`); `Dispatch` is
`execute_tool`'s list of names, `Catalogue` that of `list_available_tools`.
`Confirmed` are the kinds of call whose outcome a tool waits for before it says
ok; of the others a `json` call has its body repeated in the answer, a `blind`
one is never looked at, and an `unsent` one is the send of a stub channel.

### 2.11 Memory, access, the C interface

`Chunking` runs `chunk_text` word by word over all small files; the words of a
chunk are an interval. `Memory` names a vector by the text it belongs to, so a
pairing that slips is visible; a service answers a batch with any entries in any
order, since the code reads no index (`outOfOrder` says that it has mixed them
up), and the local provider with zero vectors. `Access` evaluates rule lists one rule at a time
and is compared with definitions that quantify over the whole list. `Ffi` has the
host threads and what they may call; a host keeps to the documented contract.
`mylobster_gateway_run` takes the server in two steps (`GatewayRun`, `RunTakes`),
because nothing keeps two threads from doing so at once; `overlapped` says that
they did.

## 3. What is checked

### 3.1 Runs

| Run | Properties | Bounds and why they are enough |
|---|---|---|
| `chat_run` | `ChatTypeOK`, `EventOrder`, `AnswerMatchesEvent`, `CancelStopsDeltas`, `ImplementsPromise`, `RunTerminates` | One run: runs share no variable here. Channel of 2, so it is empty, partly full and full; 2 provider calls (first, later, limit reached); 3 stream events, so text and tool calls mix. |
| `gateway_cancel` | `ActiveRunsExact`, `DisconnectCancels`, `ImplementsChatRun` | Two runs on one connection whose peer may leave, one key used at most once, one patch. Both channels hold one message, so every send can block. No deltas (a run still calls, fails, is cut, is cancelled and ends): deltas touch neither `active_runs` nor the token. |
| `gateway_live` | `Delivery`, `ConfigFixedDuringRun`, `EveryRunEnds`, `EveryRequestAnswered` | Two connections that stay, a run on one, a patch and a read on each: reader behind writer behind run in the lock queue, from the same and from the other connection, and a patch behind a handler that awaits with the guard in its hand. |
| `handshake` | `TypeOK`, `EarnedScopes`, `OpenIsEntitled`, `ReplyOrder`, `HandshakeEnds` | A local and a remote connection, one open at a time in either order; the remote client sends two messages; clock to 2, skew 0 and a device one tick ahead, so "too old", "too new" and "just right" all occur; no credential, a password, and a token with a password. `MaxOpen = 1` loses nothing that two at a time would add: connections share only the clock and the signatures, and the proofs put no bound on it. |
| `stores` | `PatchesKept`, `StrictReloadResolves`, `SessionsSound`, `IncludesSound`, `HttpSettles` | Configuration: two connections and two requests, so a patch or a reload falls between the copy and the activation of another reload; one field every reload carries, which may lack its entry, and one only patches reach; one reference that resolves or does not. Sessions: three runs on two keys (two on one, or all), two administrative requests, so a session is reset, used, and reset or deleted again; first messages of a key do not race (`CreatorsOverlap = FALSE`). HTTP: three requests, enough for a reader behind a reload behind a completion. Files: three paths with up to two includes each (`MaxIncludes`) in any order and a depth limit of 1, so chains within the limit, chains without a circle that are too long, and circles all occur. |
| `services` | `ServicesTypeOK` and the sixteen properties of 3.2 | Per module in `MCServices.cfg`: two actors (clients, callers, waiters, loops, threads) wherever actors race; three items of work, so one waits behind one that is taken; a drain limit of 0, 1 and 2; three chat ids against a limit of two; a chain of three models with two cooldowns; two priorities and two handlers of each kind; three frames, which open, fill and close a tool block, or hold one that is torn or unfinished; files of three lines of up to three words with chunk sizes and overlaps up to three; batches of two over three texts; two rules of every kind. |

The passing runs reach between 160 and 400 thousand distinct states, but
`chat_run` two thousand and `gateway_cancel` 1.26 million. No passing run uses
symmetry.

Six runs are expected to fail; each shows a disagreement between the code and
what the repository says of it.

| Run | Property | What it shows |
|---|---|---|
| `gateway_reused_key` | `DisconnectCancels` | A second `chat.send` with a live run's idempotency key replaces its token in `active_runs`; closing the connection does not cancel the first run ("Cancel any active runs on disconnect"). |
| `gateway_leak` | `DisconnectEndsRuns` | After a failed socket write the forwarding task leaves its loop but keeps the receiver and awaits the run; a run with a full event channel then waits for ever, and with it the configuration's read guard. |
| `session_race` | `AnswersKept` | Two concurrent first messages of a session build two handles; the later insert replaces the earlier handle and the first answer is lost. |
| `config_rollback` | `RequiredOrRolledBack` | Without `failOnMissing`, a reload whose required secret does not resolve becomes active with the reference in it (the comment of the handler: "the reload is rolled back and the old config remains active"). |
| `dm_group_inherits` | `GroupsDoNotInherit` | An account's allow list that comes after a group's is added to it ("Key invariant: group-context sources do NOT inherit entries from the account-level DM pairing store"). |
| `ffi_shutdown` | `ShutdownStopsRun` | `mylobster_gateway_run` takes the server out of its handle, so `mylobster_gateway_shutdown` called meanwhile answers ok and stops nothing. |

Where a passing run restricts the environment so that what does hold is visible,
one named constant does it: `ReuseKeys`, `Leavers`, `CreatorsOverlap`. Some
properties name the one case in which the code does not keep them, by a history
variable of the model: `undone`, `overtook`, `outOfOrder`, `overlapped`.

### 3.2 The properties of `services`

| Property | What could go wrong |
|---|---|
| `WorkOnce`, `ImplementsWorkQueue` | two polls, or a poll between two enqueues, hand an item out twice, skip one or change the order |
| `RecordsSound` | more runs of removed jobs than requests were under way at a removal; an active wizard past its last step, or before its first one without a cancel that a start overtook |
| `ChannelsDeliver` | ok for a message the service refused, of the plugins that send one; a client that listens misses a message or has it twice |
| `StopIsComplete` | an agent marked stopped whose task goes on, or one `stop_all` has seen and left |
| `TargetsKeepUp` | a target starves behind one that fails |
| `FailedModelsRest` | a model is chosen again while its last failure is held against it, or none although one is free |
| `ChainsRunInOrder` | a handler asked out of order, or after one that cancelled; a plain handler that hears of a cancelled event |
| `StreamIsFaithful` | a line that is looked at and whose text or tool call is lost, doubled, out of order or another's; text garbled that no chunk has torn; a stream that ends twice or never |
| `ToolAnswersHonest` | ok although a call was left out, unanswered or, where the tool waits for it, not carried out; an effect behind a refusal |
| `MemorySound` | a chunk that skips words; a vector with another's text although the service kept the order; a search that ranks against all its lists |
| `FirstRuleDecides` | a rule decides although one before it matches; an owner's routes touched by another; a group's list that comes last and does not decide alone |
| `EmbeddingSound` | a gateway run twice although no two threads took it at once; a server that is run and still in its handle |
| `AnswersSettle` | an answer that has arrived and settles nothing, but for an application that never takes the event receiver and lets the channel fill |
| `AbortReachesWaiters` | the lost wake-up |
| `TypingEnds` | an indicator that stays |

### 3.3 Fairness

- `ChatFairSpec`, `FairSpec` of `GatewayChat`: weak fairness for every task tokio
  runs (reader's own steps, writer, forwarding task, run). For a run this
  includes that the provider answers and ends its stream and that a tool
  returns: there is no time-out around them in the code, so `RunTerminates`,
  `EveryRunEnds` and `EveryRequestAnswered` hold under that condition only.
  `MaxStream` makes streams finite. Clients get no fairness: they need not send,
  cancel or leave. A socket write completes or fails, hence fairness of the
  writer.
- The lock's FIFO queue needs no strong fairness: a granted waiter stays
  granted until it moves.
- `Handshake.FairSpec`: the clock ticks and the gateway's task for each
  connection runs. Accepting a connection is bounded by `MaxClock` and
  `MaxOpen`, but only a connection that waits is promised an end.
- `stores`: each HTTP request's task runs (with the providers' answers, as
  above) and the server looks for its end. Signals and clients get none.
- `services`: the client's reader tasks run, and an application that has taken
  the event receiver and keeps it polls it (it need not take it, and may drop
  it); an abort that has stored its flag goes on to notify, and woken
  tasks run; typing loops tick. Nothing else is fair.
- `ffi_shutdown`: a run whose process has been signalled returns.

### 3.4 Deadlock

The configurations switch TLC's deadlock check off: every model ends, when runs
are over, requests bounded, clients silent. Waiting for each other is what
`EveryRunEnds`, `EveryRequestAnswered` and `HttpSettles` exclude.

## 4. What is proved

All theorems hold for every value of the constants that satisfies the named
assumption of the module: positive capacities, natural limits, "absent" values
distinct from present ones. Two assumptions say something about the world: a new
uuid is no client's idempotency key (`GatewayChatAssumption`), and a secret's
value does not itself read as a reference (`ConfigStoreAssumption`).

**`ChatRunProofs`**: `TypeCorrect`, `EventsInOrder`, `AnswerMatches`,
`CancelIsPrompt`, `RunImplementsPromise`, all from `RunInvariant`.

- `EventOrder` alone is not inductive: it does not say what the next event will
  be. `ChatInv` adds, per run, three exclusive situations. *Looping*: only deltas
  so far, the counter is the length of the log, no answer stored. *Offering*: one
  event in hand that is either the next delta (the loop goes on) or one that may
  close the stream (`Closes` ties its number and the stored answer to its
  state). *Over*: nothing published, or deltas and one closing event. `Prompt`
  bounds the deltas after a cancellation: a delta in hand at that moment is the
  last one, since every later stream event looks at the token.
- `EmitInv` and `StepInv` show preservation, one step per action. The refinement
  is `StepPromise`: `Emit` maps to `Delta`, `Final`, `Abort` or `Fail`,
  `AfterStream` without calls to `Answer`, everything else to a stutter.

**`GatewayChatProofs`**: `GatewayHostsRuns`, `GatewayKeepsPromise`,
`CancelFindsRuns`, `CloseCancelsRuns`, `RunsKeepTheirConfig`, `EventsAreDelivered`.

- `StepIsChatStep` maps every step of the gateway to a step of `ChatRun` or a
  stutter. The theorems of `ChatRunProofs` therefore hold of every run the
  gateway hosts, behind full channels and closing connections.
- `ActiveRunsExact` needs that no other run of the connection has the same id.
  `RegistryInv` adds `KeysUsedOnce`, `KeysGivenOnce` and `EntriesAtHome`; then an
  acknowledgement replaces no live entry, an end removes only its own, and a
  close finds all live runs of its connection. These hold if no client uses a
  key twice (`ReuseKeys = FALSE`); `gateway_reused_key` shows they need it.
- `GuardHeld`: a task that has been given the configuration is among the lock's
  holders until it ends; a write is granted only when there are none.
- `DeliveryInv` follows an event from the run to the client. As long as the peer
  is there, what the client has, what of the run is in the connection's channel,
  the event in the forwarding task's hand and the run's event channel are, one
  after the other, the acknowledgement and what the run published (`Passage`).
  `Delivery` alone speaks of what has arrived and would not say where the rest
  is. `SentHome` says whose messages a channel holds, so that the others can be
  left out of it (`Only`), `WriterOutlivesPeer` that nothing is dropped while
  somebody listens.

**`HandshakeProofs`**: `HandshakeTypeCorrect`, `ScopesAreEarned`,
`AdmittedAreEntitled`, `RepliesInOrder`, all from `HandshakeInvariant`.

- `HandshakeInv` is type correctness and, per connection, the three properties
  with two more facts. *Received*: every signature waiting to be read was made by
  a device (without it `ConnectAccepted` could not conclude). *Unread*: while a
  connection waits, the unread messages are the rest of the early ones, then the
  connect request and what follows it; at the hello this becomes the count in
  `ReplyOrder`.
- `OthersKeep` and `OneConnection` reduce each step to the connection that takes
  it; the only shared state a step changes is `signed`, which grows.

**`TransportProofs`**, the work of nodes: `WorkIsHandedOutOnce`,
`QueuesImplementWorkQueue`, from `NodeInvariant`.

- `NodeInv` says where every issued item is: `QueueConserved` (drained followed by
  pending is accepted), `OnlyIssued`, `WaitsOnce`, `NotYetOut` (what waits has
  reached nobody) and `WorkOnce`. Lemmas about concatenation and cutting of
  sequences carry a drain (`CutInTwo`, `FirstPart`) and a delivery
  (`WorkAssociative`).
- `StepQueue` maps `Enqueue` and `Drain` to the abstract `WorkQueue`.

**`TransportProofs`**, the provider streams: `StreamsAreFaithful`.

- `StreamIsFaithful` speaks of what has been sent and says nothing of what the
  parser still has in its hands. `Runs` adds, of the lines looked at so far and for
  each of the seven dialects: the events stand in order (`OutRuns`), every text
  is in a delta or among those to be joined (`TextsRun`), every call that was due
  was sent and holds its fragments (`CallsAsRead`), text is garbled exactly where
  a chunk tore it (`GarbledWhereTorn`), and each open block holds the fragments
  since it started (`BlocksRun`).
- `LookRuns` is one more line looked at, by what the line is; `SameRuns` says that
  a line that arrives, or the rest of one, changes nothing about those looked at;
  `FinishCloses` adds the last event. `StreamInv` then says at each state of the
  connection that the parser runs or has closed.

**`StoresProofs`**, the configuration: `StrictReloads` and
`OnlyOutdatedCopiesUndo` for any number of connections, `OneWriterKeepsPatches`
for one.

- `DraftChecked`: the draft a strict reload is about to activate has no required
  field that is a reference; it belongs to the reload alone, so no patch in
  between can change it.
- `DraftsCurrent`: a draft's field that is not outdated (`stale`) holds what the
  file says or what was configured last, or the secret behind it (`StillStands`);
  `EntriesAgree` says that a missing entry is missing in both. A patch outdates
  the copies of the others, and an activation adds to `undone` what of its copy
  was outdated: these two are the theorem. With one connection nothing ever
  becomes outdated (`NothingUndone`).

**`StoresProofs`**, the sessions: `ContextStaysPrefix`, `AnswersAreKept`.

- `SessionInvariant` allows first messages that race: a handle leads to runs of
  its own key (`HandlesOfOwnKey`, `EntriesOfOwnKey`), and histories only grow at
  the end.
- `AnswersAreKept` (`SessionsSound`, of `MCStores`) has the hypothesis
  `~CreatorsOverlap`; `session_race` shows that it needs it. `AnswersInv` adds
  that one run at a time builds the handle of a key (`OneCreator`), that a handle
  that is not inserted is empty and nobody's (`FreshHandles`), that a run whose
  session was not reset works on the current handle (`OnCurrentHandle`), and that
  who answered is over (`AnsweredAreOver`), so that no answer is stored twice.

**`StoresProofs`**, the configuration files: `FilesAreReadInFull`.

- `FilesInv` gives each call on the stack its file (`Walking`): the first is for
  the file asked for, each further one for the next include of its caller. A call
  holds its own file and what is under the includes it has taken, none of which
  leads to a file with a fatal error, to a circle, or deeper than is left
  (`Deep`), and the include read last decides what they all set (`FrameRight`,
  `SoFar`, `Result`). `Hopeless` says what makes reading fail.
- A call that is too deep stands at the end of a chain of includes that is one too
  long (`TooDeepACall`); in the other direction such a chain is never read
  through, for a call returns only when nothing under it is that deep, and a
  circle never, for a call returns only when all it includes are clean. The
  pigeonhole principle bounds the chain of includes read last that `Winner`
  follows (`ChainIsShort`).
- `BelowIsLeast` and `BelowIs` are the two ways to see what a file leads to: the
  smallest closed set, and the union over its includes. The set is defined in the
  model and not taken from the library's `Graphs`, whose `Descendants` uses
  functions of two arguments that the installed provers do not read.

**`RuntimeProofs`**, one section per service.

- `AgentStopsComplete`: `AcpLive` knows the agent of a spawn between its two
  inserts (a state, no token, no second spawn), `AcpStops` what a stop has done
  past its first step. The exception in `StopIsComplete`, an agent stopped
  between those inserts, is the code's.
- `FfiEmbeddingSound`: `FfiRuns` ties the server to its handle and to the threads
  that take and run it; `FfiAlone` says that as long as no two takes overlap
  there is one of them.
- `DeliveryKeepsUp`: `QueueFresh` says that a target is as fresh as the last
  cycle, and that one late cycle makes all stale for good.
- `FallbackRests`: `CooldownsAgree` ties the map of cooldowns, from which entries
  disappear, to the end of each model's last cooldown.
- `HookChainsRunInOrder`: the registry is sorted (`RegistrySorted`; an insertion
  by priority keeps it so), and each chain has asked a beginning of it, a Cancel
  last (`ChainSound`).
- `NoAbortIsMissed`: a wait that sleeps after `abort()` has its wake-up pending.
  This is the safety half of `AbortReachesWaiters`.
- `ToolsTellTheTruth`: `ToolsCalls` says which calls an answer that is still to
  come can already rely on (`CallStands`); `CallsAreKnown` goes through every
  script of `Dispatch`, `VerdictsOfKinds` through every judgement.

**`ServicesProofs`**, the rest of the services and all of them together.

- `RecordsAreSound`: `StraysCovered` counts, per removed job, the requests between
  their two locks for it. `CancelledIsOff`: while a cancel is between its writes the
  wizard is off, unless a start overtook it.
- `ChannelsAlwaysDeliver`: `SendInOrder` (the calls before the one under way were
  accepted). In the web chat `Delivered` (what is not underway has arrived),
  `Once`, and `NoneTooEarly`: no inbox has a message whose broadcast is to come.
- `RulesDecideInOrder`: what an owner bound is what is left of the list when only
  its rules are looked at (`RoutesInv`); the policies asked so far did not match
  (`ApprovalInv`); an entry is in a merged list exactly if a source that no later
  group replaces has it (`MergeInv`), which is more than the property asks.
- `ChunksCoverTheText`: `ChunkPlace` says how many words stand before a line,
  `ChunkGathers` that the words gathered follow the last chunk less the overlap;
  `WordsSum` and `WordsGrow` are the lemmas about `WordsBefore`.
- `MemoryIsSound`: as long as the service has answered in order, a pairing is a
  text with its own vector (`QueueRight`); an embed call of one request per text
  has the vectors of a beginning of its texts (`EmbedRight`). The
  ranking is not inductive at all, it is right of each answer: two ids whose ranks
  differ the same way in every list differ that way in score (`AheadScoresMore`,
  over `ScaleShares` for the common denominator the model gives fractions), and a
  cut and a filter keep that order (`TruncatedRanking`, `KeptRanksRight`).
- `ServicesTypeCorrect`: the types of all eighteen services.
- `ServicesHostTheirParts`: a behaviour of `MCServices` is a behaviour of each
  of the eighteen services' own specification (`ServicesInitParts`,
  `ServicesStepParts`), since the chosen one moves by its own next-state relation
  and the others stand still; of the four that assume fairness (client, abort,
  typing, C interface) as far as their steps go, which is what safety needs.
  `ServicesAreSound` then carries every safety property above to the composition.
  `StoresHostSessions` and `StoresHostFiles` do the same in `MCStores`.

**`SubsequenceProofs`**. The library's induction theorems take an operator, which
the installed provers cannot instantiate. A *set* can be instantiated:
`LeastElement`, `NaturalsInSet` and `SequencesInSet` are induction over the set of
the values a statement is true of, and all inductions here are of that form.
`RecursionExists` shows that a recursive function is what its equations say,
`OnlyEmbeds` and `OnlyNoLonger` what `Only` leaves of a sequence,
`FlattenOfAppend` the same of `FlattenSeq`. For this the models filter with
`Only`, wherever a proof looks at what is left, and not with the library's
`SelectSeq`, whose test is an operator.

What the constants are assumed to be is in each module's assumption. Those that
are more than types: `Texts`, `RecClients` and `Paths` are finite, `Blocks` does not
contain 0, `Chain` is a sequence, batches are not empty, a file has a line.

Only model-checked is liveness (`RunTerminates`, `EveryRunEnds`,
`EveryRequestAnswered`, `HandshakeEnds`, `HttpSettles`, `AnswersSettle`,
`AbortReachesWaiters`, `TypingEnds`), which the prover does not reach.

## 5. Divergences seen without a run

Chat path and gateway

- The run id of the `chat.send` acknowledgement and that of the events are
  generated independently when there is no idempotency key
  (`websocket.rs:1553`, `chat.rs:44`).
- The user's message of a turn is never added to the session (`chat.rs:82`,
  `chat.rs:421`), although `docs/sessions.md` describes a session as holding the
  conversation history.
- `config.patch` reads `baseHash` and does not compare it; the hash belongs to
  the connection and not to the configuration (`websocket.rs:282`, `:1687`).
- A patch made while a `config.reload` of the running configuration resolves
  secrets is written over by the reload's older copy (`websocket.rs:2112-2169`);
  nothing in the repository says what should happen. `PatchesKept` says that this
  is the only way to lose one.
- A google key patched into a configuration without an entry for google is
  answered ok and dropped (`websocket.rs:1733-1742`).
- `wizard.cancel` writes two variables under two locks (`websocket.rs:1205-1209`):
  a wizard started in between stays active and is taken back to step 0.
- `secrets.reload` reports success and drops the resolved configuration
  (`websocket.rs:3285`; `infra/secrets/reload.rs:3`).
- The HTTP reload replaces the configuration, so patches made before it are gone,
  and leaves the credentials as they were at the start.
- The graceful end waits for HTTP requests and not for the tasks of upgraded
  connections; nobody listens to `GatewayServer::shutdown`.
- `sessions.patch` of a session that does not exist answers ok; `sessions.compact`
  compacts nothing; `sessions.resolve` takes the first partial match in the map's
  order.
- `device_pairs` is never filled, so every `device.pair.*` request finds nothing.
- `gateway/client.rs` reads frames of an older protocol (`result`, `data`), fails
  no pending call on disconnect, and its reader of an old connection clears the
  flag of the new one. `docs/gateway-protocol.md` describes a hello frame; the
  code sends a `connect.challenge` event and answers the connect request.
- The scope of a connection is compared for `chat.send` only.

Configuration files

- An included file overrides the one that includes it.
- Which include errors are fatal is decided by the text of their message, which
  holds the file's path (`io.rs:140-146`): a missing file with `symlink` in its
  name fails the whole configuration, another missing file is skipped.

Providers and tools

- Anthropic's `Done` is sent when the next chunk, or the end of the body, follows
  `message_stop`. Each chunk is decoded on its own, so a character split between
  two comes out as others, and a last line without a newline is dropped
  (`anthropic.rs:342-363`).
- OpenAI-like and Bedrock streams pass the pieces of a tool call's arguments on as
  tool calls of their own; the Codex and Gemini streams drop tool calls. A Codex
  socket that breaks ends the stream as if it were complete.
- Several tools are offered to the provider under the name their `info()` gives,
  and `execute_tool` knows them under another or not at all, contrary to
  `CHANGELOG.md:27`. `OfferedToolsRun` in `Tools` states it; no run checks it, for
  one look at the two lists shows as much.
- The `send_message` of Telegram, Discord, Slack, WhatsApp, Signal and iMessage
  answers ok and sends nothing (`telegram.rs:313-328`, `slack.rs:119-128`), and the
  `message_send` tool reports `sent: true` over them (`message_tool.rs:68-74`).
- Discord's actions that delete, react, pin, kick, ban, time out or change roles
  answer "Message deleted", "Member banned" and so on without a look at the status
  (`discord_actions.rs:120-129`, `:262-295`).
- Most actions of `node_invoke`, `canvas_render`, `subagents` and `sessions_a2a`
  answer ok and do nothing.
- `docs/tools.md` says that denied tools are blocked: `tools.deny` and
  `tools.allow` decide what is offered, `execute_tool` does not look at them. The
  page gives `allow` precedence, the code `deny`.
- `canvas_render`'s schema requires `content`, the tool it is dispatched to
  requires `action`.
- `extract_frames` returns paths into a directory that is deleted on return;
  `system_run`'s time-out does not kill the child; Discord's `setPresence` and
  `poll` answer ok and do nothing; a run does not look at a result's `is_error`.

Services

- The first backoff of `infra/delivery.rs` is two seconds, its comment says one;
  its `suspended` flag is set by no code in the crate.
- `emit_modifying` returns at the first `Override` or `Transform`; the comment at
  `hooks/mod.rs:294` passes their data on to the next handler.
  `ChainsRunInOrder` therefore says of them only in which order handlers are asked.
- No ACP agent is ever left `Spawning`, so `reconcile_on_startup` does nothing.
- Routing compares both `guild_id` and `team_id` with the thread.
- `mylobster_gateway_run` takes the server through a raw pointer without a lock
  (`ffi.rs:311-313`): two threads that call it at once may both run it, although
  its comment says that a gateway can be run once.
- Memory: the embedding providers return whatever vectors come back, although
  `embeddings.rs:14-16` promises one per text in the same order; the local
  provider answers ok with vectors of zeros (`:489-492`); hybrid scores never exceed 2/61, so a `min_score` above that filters
  everything although it is documented as 0.0 to 1.0; the two lists are cut to
  twice the limit before they are merged; a batch's `index` is ignored
  (`batch_embedding.rs:147-157`), so entries in another order are paired with the
  wrong texts; a sync
  after close makes the manager ready again; every search builds a manager anew.

## 6. What is not modelled

- Texts, token counts, logging and the shape of JSON, everywhere; `normalize.rs`
  and the rest of inbound normalization is text only.
- **Protocol frames, secret providers, Control-UI policy, cron expressions**: no
  state and no order of steps; `connect_policy.rs` and the cron parser have no
  caller in the gateway. What secret providers return is nondeterministic in
  `ConfigStore`.
- **Configuration types, validation, defaults** (`config/types.rs`,
  `validation.rs`, `defaults.rs`): data and field-by-field checks.
- **Memory backends** (`schema.rs`, `postgres.rs`, `lancedb.rs`): SQL and vector
  search done by a database; `Memory` takes the rows from outside.
- **Browser control** (`browser/*`): what happens is decided by the browser
  behind CDP; the tool side of it is in `Tools`.
- **Plugins and skills**: discovery lists files, and the loader calls no
  plugin's register function; nothing in the gateway reads the registry.
- **Media, speech, logging, CLI, doctor, filesystem guards**: conversions and
  input and output.
- **`device.pair.*`** in `GatewayRecords`, for the reason given in section 5.
- Functions without a caller in the crate are modelled only where they carry a
  rule worth checking (`ConfigFiles`, `Fallback`, `Access`, `Delivery`,
  `AbortSignal`, `TypingLoop`); their modules let any caller use them in any
  order.

Two hazards are covered only in part. `TypingEnds` says that indicators end, not
that the older of two loops leaves the younger one's alone: its limit clears the
flag they share. `TargetsKeepUp` holds when two recovery cycles share a drain
guard, and would not notice if they did not.

What could come next: a lock over the whole of a reload, to show that it is what
`PatchesKept` needs to hold of every field; the types of `MCStores` and of
`HttpApi` as theorems; that each HTTP request leaves the lock's queue, the safety
half of `HttpSettles`.
