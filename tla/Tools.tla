------------------------------- MODULE Tools -------------------------------
(***************************************************************************)
(* The agent's tools (src/agents/tools/...), as a chat run calls them.  A  *)
(* tool is described by what execute checks and by the calls it makes:     *)
(*   always   parameters it insists on before anything else                *)
(*   keyed    whether it then needs a credential or a provider             *)
(*   guarded  the acts it then applies a policy to (an address it must not *)
(*            fetch, a command or a number that is not allowed, a cron     *)
(*            expression that must have its fields)                        *)
(*   acts     for each action, or configured backend, the parameters it    *)
(*            insists on and the calls it makes, in order                  *)
(* A tool whose act has no call answers ok and does nothing.               *)
(***************************************************************************)
EXTENDS Naturals, Sequences, FiniteSets

(* What a call's outcome makes of the tool.  An outcome is: carried out    *)
(* and confirmed, refused (an error status, a failing process), garbled    *)
(* (an answer that cannot be parsed, a process that cannot be started) or  *)
(* lost (no answer: the connection broke or the time ran out).  The tool   *)
(* goes on ("ok"), answers with an error of its own ("flagged"), or fails. *)
Judge(ok, refused, garbled, lost) ==
    [done |-> ok, refused |-> refused, garbled |-> garbled, lost |-> lost]

Judgement ==
    [json   |-> Judge("ok", "ok", "failed", "failed"),
     fetch  |-> Judge("ok", "ok", "ok", "failed"),
     blind  |-> Judge("ok", "ok", "ok", "failed"),
     status |-> Judge("ok", "flagged", "failed", "failed"),
     chat   |-> Judge("ok", "failed", "failed", "failed"),
     channel |-> Judge("ok", "flagged", "flagged", "flagged"),
     unsent |-> Judge("ok", "flagged", "flagged", "flagged"),
     bash   |-> Judge("ok", "ok", "flagged", "flagged"),
     shell  |-> Judge("ok", "ok", "failed", "failed"),
     ffmpeg |-> Judge("ok", "flagged", "flagged", "flagged"),
     whisper |-> Judge("ok", "flagged", "failed", "failed"),
     file   |-> Judge("ok", "failed", "failed", "failed"),
     soft   |-> Judge("ok", "ok", "ok", "ok")]

(* Kinds of call whose confirmation a tool waits for.  Of the others, a    *)
(* json, fetch, bash or shell call has its body, status or exit code       *)
(* repeated in the answer, whatever it says; blind is a call of Discord's  *)
(* whose status nobody reads before the tool says that it is done; soft    *)
(* one whose failure the tool has another text for; and unsent is the send *)
(* of a channel that checks its settings and then sends nothing.           *)
Confirmed == {"status", "chat", "channel", "ffmpeg", "whisper", "file"}

Act(needs, calls) == [needs |-> needs, calls |-> calls]
Tool(always, keyed, guarded, acts) ==
    [always |-> always, keyed |-> keyed, guarded |-> guarded, acts |-> acts]
Single(always, keyed, guarded, calls) ==
    Tool(always, keyed, IF guarded THEN {"run"} ELSE {}, [run |-> Act({}, calls)])
Together(f, g) == [a \in DOMAIN f \cup DOMAIN g |-> IF a \in DOMAIN f THEN f[a] ELSE g[a]]
Stub(needs) == Act(needs, <<>>)
JsonPost(needs) == Act(needs, <<"json">>)
Blind(needs) == Act(needs, <<"blind">>)

WebFetch == Single({"url"}, FALSE, TRUE, <<"fetch">>)
Brave == Act({}, <<"status">>)
Perplexity == Act({}, <<"status">>)
Grok == Act({}, <<"status">>)
WebSearch ==
    Tool({"query"}, TRUE, {}, [brave |-> Brave, perplexity |-> Perplexity, grok |-> Grok])
SystemRun == Single({"command"}, FALSE, TRUE, <<"bash">>)
MemoryStore == Single({"content"}, FALSE, FALSE, <<"file">>)
MemorySearch == Single({"query"}, FALSE, FALSE, <<"file">>)
MessageSend ==   \* an act for each channel; only Synology's posts the message
    Tool({"channel", "to", "text"}, FALSE, {},
         [synology_chat |-> Act({}, <<"channel">>), telegram |-> Act({}, <<"unsent">>),
          discord |-> Act({}, <<"unsent">>), slack |-> Act({}, <<"unsent">>),
          whatsapp |-> Stub({}), signal |-> Stub({}), imessage |-> Stub({})])
CronSchedule == Single({"expression", "message"}, FALSE, TRUE, <<"file">>)
CronList == Single({}, FALSE, FALSE, <<"file">>)
ImageGenerate == Single({"prompt"}, TRUE, FALSE, <<"status">>)
TtsSpeak == Single({"text"}, TRUE, FALSE, <<"chat", "file">>)
PdfExtract == Single({"path"}, FALSE, FALSE, <<"file", "soft">>)
TranscribeWhisper == Act({"path"}, <<"file", "status">>)
TranscribeCli == Act({"path"}, <<"whisper">>)
ExtractFrames == Act({"path"}, <<"ffmpeg">>)
MediaProcess ==   \* transcribe with a key is TranscribeWhisper, without TranscribeCli
    Tool({"action"}, FALSE, {},
         [transcribe |-> TranscribeWhisper, transcribe_cli |-> TranscribeCli,
          extract_frames |-> ExtractFrames,
          analyze_image |-> Act({"path"}, <<"file">>),
          convert |-> Act({"path", "outputFormat"}, <<"ffmpeg">>)])
DiscordMessages ==
    [sendMessage |-> JsonPost({"channelId", "content"}),
     editMessage |-> JsonPost({"channelId", "messageId", "content"}),
     deleteMessage |-> Blind({"channelId", "messageId"}),
     react |-> Blind({"channelId", "messageId", "emoji"}),
     threadCreate |-> Act({"channelId", "threadName"}, <<"json", "blind">>),
     threadReply |-> JsonPost({"channelId", "content"})]
DiscordMembers ==
    [memberInfo |-> JsonPost({"guildId", "userId"}),
     channelList |-> JsonPost({"guildId"}),
     roleAdd |-> Blind({"guildId", "userId", "roleId"}),
     roleRemove |-> Blind({"guildId", "userId", "roleId"}),
     kick |-> Blind({"guildId", "userId"}), ban |-> Blind({"guildId", "userId"}),
     timeout |-> Blind({"guildId", "userId"})]
DiscordGuild ==
    [pinMessage |-> Blind({"channelId", "messageId"}),
     searchMessages |-> JsonPost({"guildId", "query"}),
     roleInfo |-> JsonPost({"guildId"}),
     channelCreate |-> JsonPost({"guildId", "threadName"}),
     setPresence |-> Stub({}), poll |-> Stub({})]
DiscordActions ==
    Tool({"action"}, TRUE, {}, Together(DiscordMessages, Together(DiscordMembers, DiscordGuild)))
TelegramMessages ==
    [sendMessage |-> JsonPost({"text"}), editMessage |-> JsonPost({"messageId", "text"}),
     deleteMessage |-> JsonPost({"messageId"}),
     react |-> JsonPost({"messageId", "emoji"})]
TelegramMedia ==
    [sendSticker |-> JsonPost({"stickerId"}), sendPhoto |-> JsonPost({"fileUrl"}),
     sendDocument |-> JsonPost({"fileUrl"}), sendVideo |-> JsonPost({"fileUrl"}),
     createForumTopic |-> JsonPost({"topicName"})]
TelegramActions ==
    Tool({"action", "chatId"}, TRUE, {}, Together(TelegramMessages, TelegramMedia))
SlackMessages ==
    [sendMessage |-> JsonPost({"channel", "text"}),
     editMessage |-> JsonPost({"channel", "ts", "text"}),
     deleteMessage |-> JsonPost({"channel", "ts"}),
     react |-> JsonPost({"channel", "ts", "emoji"}),
     readMessages |-> JsonPost({"channel"})]
SlackPinsAndFiles ==
    [pinMessage |-> JsonPost({"channel", "ts"}),
     unpinMessage |-> JsonPost({"channel", "ts"}), listPins |-> JsonPost({"channel"}),
     getMemberInfo |-> JsonPost({"userId"}), listEmojis |-> JsonPost({}),
     downloadFile |-> Act({"fileUrl"}, <<"status">>)]
SlackActions == Tool({"action"}, TRUE, {}, Together(SlackMessages, SlackPinsAndFiles))
WhatsAppActions ==
    Tool({"action", "to"}, TRUE, {"sendMessage", "react"},
         [sendMessage |-> JsonPost({"text"}), react |-> JsonPost({"messageId", "emoji"})])
NodeInvoke ==
    Tool({"action"}, FALSE, {},
         [status |-> Act({}, <<"soft">>), describe |-> Stub({}), pending |-> Stub({}),
          approve |-> Stub({"approvalId"}), reject |-> Stub({"approvalId"}),
          notify |-> Stub({"message"}), camera_snap |-> Stub({}), camera_list |-> Stub({}),
          camera_clip |-> Stub({}), screen_record |-> Stub({}), location_get |-> Stub({}),
          notifications_list |-> Stub({}), device_status |-> Stub({}),
          device_info |-> Stub({}), run |-> Act({"command"}, <<"shell">>),
          invoke |-> Stub({"method"})])
CanvasRender ==
    Tool({"action"}, FALSE, {"navigate"},
         [present |-> Stub({"content"}), hide |-> Stub({}), navigate |-> Stub({"content"}),
          eval |-> Stub({"content"}), snapshot |-> Stub({}), a2ui_push |-> Stub({"uiSpec"}),
          a2ui_reset |-> Stub({})])
Subagents ==
    Tool({"action"}, FALSE, {},
         [list |-> Stub({}), kill |-> Stub({"sessionKey"}),
          steer |-> Stub({"sessionKey", "message"})])
AgentStep == Single({"message"}, TRUE, FALSE, <<"chat">>)
SessionsA2a ==
    Tool({"action"}, FALSE, {},
         [send |-> Stub({"target", "message"}), announce |-> Stub({"targetAgent"}),
          listen |-> Stub({}), skip |-> Stub({"skipToken"})])

(* The names execute_tool knows.                                           *)
Dispatch ==
    [web_fetch |-> WebFetch, web_search |-> WebSearch, system_run |-> SystemRun,
     memory_store |-> MemoryStore, memory_search |-> MemorySearch,
     message_send |-> MessageSend, cron_schedule |-> CronSchedule, cron_list |-> CronList,
     image_generate |-> ImageGenerate, tts_speak |-> TtsSpeak, pdf_extract |-> PdfExtract,
     media_process |-> MediaProcess, discord_actions |-> DiscordActions,
     telegram_actions |-> TelegramActions, slack_actions |-> SlackActions,
     whatsapp_actions |-> WhatsAppActions, node_invoke |-> NodeInvoke,
     canvas_render |-> CanvasRender, subagents |-> Subagents, agent_step |-> AgentStep,
     sessions_a2a |-> SessionsA2a]

(* The names list_available_tools offers, those of the browser if it is    *)
(* enabled; the hidden gateway_invoke is kept from the provider.           *)
BrowserTools ==
    {"browser_navigate", "browser_click", "browser_type", "browser_screenshot",
     "browser_evaluate", "browser_wait", "browser_snapshot"}
WebAndMemoryTools == {"web_fetch", "web_search", "memory_store", "memory_search", "system_run"}
SessionTools ==
    {"sessions_list", "sessions_history", "sessions_send", "sessions_spawn", "message_send"}
ChannelTools == {"discord_send", "telegram_send", "slack_send", "whatsapp_send"}
MediaTools == {"image_generate", "tts_speak", "cron_schedule", "canvas_render", "agents_list"}
ExpandedTools ==
    {"pdf_extract", "discord", "telegram", "slack", "whatsapp", "node", "canvas",
     "subagents", "agent_step", "media", "sessions_a2a"}
Catalogue ==
    WebAndMemoryTools \cup SessionTools \cup ChannelTools \cup MediaTools \cup ExpandedTools

(* filter_tools_by_policy: an entry of a list stands for the names it is a *)
(* prefix of, here the set of them; what is denied stays denied.           *)
AfterPolicy(names, allow, deny) ==
    {n \in names : n \notin deny /\ (allow # {} => n \in allow)}

VARIABLES
    offered,   \* the names in the request to the provider
    toolCall,  \* the tool call: tool, act, whether it checks out
    callAt,    \* 0, or the call under way
    effects,   \* calls that were carried out
    outcomes,  \* outcomes of the calls so far
    toolSays   \* "none", or what the call came to

toolVars == <<offered, toolCall, callAt, effects, outcomes, toolSays>>

NoCall == [tool |-> "none", act |-> "none"]

ToolsInit ==
    /\ offered = {}
    /\ toolCall = NoCall
    /\ callAt = 0 /\ effects = {} /\ outcomes = <<>> /\ toolSays = "none"

(* The policies tried: none, one that denies a tool, one that allows two.  *)
Policies == {[allow |-> {}, deny |-> {}], [allow |-> {}, deny |-> {"system_run"}],
             [allow |-> {"web_fetch", "system_run"}, deny |-> {"system_run"}]}

BuildToolDefinitions ==
    /\ toolCall = NoCall /\ offered = {}
    /\ \E browser \in BOOLEAN, p \in Policies :
         offered' = AfterPolicy(Catalogue \cup (IF browser THEN BrowserTools ELSE {}),
                                p.allow, p.deny)
    /\ UNCHANGED <<toolCall, callAt, effects, outcomes, toolSays>>

(* The model asks for a tool it was offered that execute_tool does not know. *)
AskUnknown(n) ==
    /\ toolCall = NoCall
    /\ n \in offered \ DOMAIN Dispatch
    /\ toolCall' = [tool |-> n, act |-> "none"]
    /\ toolSays' = "unavailable"
    /\ UNCHANGED <<offered, callAt, effects, outcomes>>

(* It asks for an action, or a channel, the tool has not.                  *)
AskUnknownAct(n) ==
    /\ toolCall = NoCall
    /\ {"action", "channel"} \cap Dispatch[n].always # {}
    /\ toolCall' = [tool |-> n, act |-> "none"]
    /\ toolSays' = "unknown"
    /\ UNCHANGED <<offered, callAt, effects, outcomes>>

RefusalAfterTheCall(t, a, given, has, may) ==   \* mutant of Refusal
    IF ~t.always \subseteq given THEN "missing" ELSE "none"

(* It asks for one execute_tool knows, offered or not.  given are the      *)
(* parameters it passes, has whether a credential is found, may whether    *)
(* the policy agrees.                                                      *)
Refusal(t, a, given, has, may) ==
    IF ~t.always \subseteq given THEN "missing"
    ELSE IF t.keyed /\ ~has THEN "unconfigured"
    ELSE IF a \in t.guarded /\ ~may THEN "denied"
    ELSE IF ~t.acts[a].needs \subseteq given THEN "missing"
    ELSE "none"

CallsOf(c) == Dispatch[c.tool].acts[c.act].calls

AskTool(n, a) ==
    /\ toolCall = NoCall
    /\ LET t == Dispatch[n]
           all == t.always \cup t.acts[a].needs
       IN \E given \in {all} \cup {all \ {p} : p \in all}, has, may \in BOOLEAN :
             LET r == Refusal(t, a, given, has, may)
             IN /\ toolSays' = IF r # "none" THEN r
                               ELSE IF t.acts[a].calls = <<>> THEN "ok"
                               ELSE "none"
                /\ callAt' = IF r = "none" /\ t.acts[a].calls # <<>> THEN 1 ELSE 0
                /\ toolCall' = [tool |-> n, act |-> a, complete |-> given = all,
                             has |-> has, may |-> may]
    /\ UNCHANGED <<offered, effects, outcomes>>

(* The call is carried out at the other end, whatever becomes of its answer. *)
CarriedOut ==
    /\ callAt > 0 /\ callAt \notin effects /\ CallsOf(toolCall)[callAt] # "unsent"
    /\ effects' = effects \cup {callAt}
    /\ UNCHANGED <<offered, toolCall, callAt, outcomes, toolSays>>

(* A command whose time ran out is not killed: it may finish later.        *)
CarriedOutLate ==
    /\ callAt = 0 /\ toolCall # NoCall
    /\ outcomes # <<>> /\ outcomes[Len(outcomes)] = "lost"
    /\ Len(outcomes) \notin effects
    /\ effects' = effects \cup {Len(outcomes)}
    /\ UNCHANGED <<offered, toolCall, callAt, outcomes, toolSays>>

(* What is run or read here either starts or not, and, but for bash, which *)
(* has a time limit, is waited for without end.                            *)
Local == {"bash", "shell", "ffmpeg", "whisper"}
Possible(kind, o) ==
    CASE o = "done" -> callAt \in effects \/ kind = "unsent"
      [] o = "refused" -> kind \notin Local => callAt \notin effects
      [] o = "garbled" -> kind \in Local => callAt \notin effects
      [] o = "lost" -> kind \notin (Local \ {"bash"}) \cup {"file", "unsent"}

(* The thread of threadCreate may come back without an id, or without a    *)
(* first message: then the second call is not made.                        *)
Skips == toolCall.act = "threadCreate" /\ callAt = 1

VerdictUnread(kind, o) ==   \* mutant of Verdict: the status is not looked at
    IF o = "lost" THEN Judgement[kind][o] ELSE "ok"

Verdict(kind, o) == Judgement[kind][o]

CallAnswered(o) ==
    /\ callAt > 0
    /\ LET kind == CallsOf(toolCall)[callAt]
           verdict == Verdict(kind, o)
       IN /\ Possible(kind, o)
          /\ \/ /\ verdict = "ok" /\ callAt < Len(CallsOf(toolCall))
                /\ callAt' = callAt + 1 /\ UNCHANGED toolSays
             \/ /\ verdict # "ok" \/ callAt = Len(CallsOf(toolCall)) \/ Skips
                /\ callAt' = 0 /\ toolSays' = verdict
    /\ outcomes' = Append(outcomes, o)
    /\ UNCHANGED <<offered, toolCall, effects>>

(* The answer goes back to the model, and with it the next tool call.      *)
NextToolCall ==
    /\ toolSays # "none"
    /\ toolCall' = NoCall
    /\ effects' = {} /\ outcomes' = <<>> /\ toolSays' = "none"
    /\ UNCHANGED <<offered, callAt>>

ToolsNext ==
    \/ BuildToolDefinitions
    \/ \E n \in offered : AskUnknown(n)
    \/ \E n \in DOMAIN Dispatch : \E a \in DOMAIN Dispatch[n].acts : AskTool(n, a)
    \/ \E n \in DOMAIN Dispatch : AskUnknownAct(n)
    \/ CarriedOut
    \/ CarriedOutLate
    \/ \E o \in {"done", "refused", "garbled", "lost"} : CallAnswered(o)
    \/ NextToolCall

ToolsSpec == ToolsInit /\ [][ToolsNext]_toolVars

-----------------------------------------------------------------------------
ToolsTypeOK ==
    /\ offered \subseteq Catalogue \cup BrowserTools
    /\ toolCall.tool \in DOMAIN Dispatch \cup Catalogue \cup BrowserTools \cup {"none"}
    /\ callAt \in 0 .. 2 /\ effects \subseteq 1 .. 2 /\ Len(outcomes) <= 2
    /\ toolSays \in {"none", "ok", "flagged", "failed", "missing", "unconfigured",
                     "denied", "unknown", "unavailable"}

(* What the tool made of the i-th call when it went on, or answered ok: it *)
(* had an answer, unless another text stands in for it, and what it waits  *)
(* for was confirmed and carried out.                                      *)
CallStands(i) ==
    LET kind == CallsOf(toolCall)[i]
    IN /\ outcomes[i] = "lost" => kind = "soft"
       /\ kind \in Confirmed => outcomes[i] = "done" /\ i \in effects

(* Only the message of a thread that was just created may be left out.     *)
AllCallsMade == Len(outcomes) = Len(CallsOf(toolCall)) \/ toolCall.act = "threadCreate"

(* What a tool's answer tells of the world (the execute functions of       *)
(* src/agents/tools): a refused call has changed nothing; nothing happens  *)
(* that the tool's checks did not let through; an ok means that every call *)
(* was made and stands as above, which of a call whose status is not read  *)
(* says no more than that it was answered; an error means that only the    *)
(* last call can have gone wrong and that none was made after it.          *)
ToolAnswersHonest ==
    /\ toolSays \in {"missing", "unconfigured", "denied", "unknown", "unavailable"} =>
         effects = {} /\ outcomes = <<>>
    /\ effects # {} => toolCall.complete
                       /\ (Dispatch[toolCall.tool].keyed => toolCall.has)
                       /\ (toolCall.act \in Dispatch[toolCall.tool].guarded => toolCall.may)
    /\ toolSays = "ok" => AllCallsMade /\ \A i \in 1 .. Len(outcomes) : CallStands(i)
    /\ toolSays \in {"flagged", "failed"} => \A i \in 1 .. Len(outcomes) - 1 : CallStands(i)
    /\ \A i \in effects : i <= Len(outcomes) + 1

(* "execute_tool() now routes all 25+ tools by name" (CHANGELOG.md): a     *)
(* tool the provider is offered can be executed.                           *)
OfferedToolsRun == toolCall.tool \in offered => toolSays # "unavailable"
=============================================================================
