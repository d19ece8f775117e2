---------------------------- MODULE ProviderStream ----------------------------
(***************************************************************************)
(* The model providers (src/providers): which one a model name leads to,   *)
(* and how each turns what the provider's API sends into stream events.    *)
(* The task that stream_chat spawns reads the body, as it arrives or as a  *)
(* whole, and sends events into the channel a chat run receives from.  The *)
(* API itself is the environment: it sends frames, a line each, closes, or *)
(* breaks off, and what it sends may arrive in chunks that end anywhere.   *)
(***************************************************************************)
EXTENDS Integers, Sequences, FiniteSets, SequencesExt

CONSTANTS
    Blocks,     \* indices of content blocks; 0 is that of a frame of no block
    MaxFrames   \* bound: frames of a body

ASSUME ProviderAssumption == MaxFrames \in Nat /\ 0 \notin Blocks

(* A dialect: whether the body is looked at chunk by chunk as it arrives,  *)
(* message by message, or as a whole; whether its texts are joined into    *)
(* one delta; what becomes of the fragments of tool arguments; whether an  *)
(* error frame and an end frame are understood; what a broken connection   *)
(* leads to.                                                               *)
Dialect(reads, texts, tools, inBandError, endMark, broken) ==
    [reads |-> reads, texts |-> texts, tools |-> tools,
     inBandError |-> inBandError, endMark |-> endMark, broken |-> broken]

AnthropicStream  == Dialect("chunks", "each", "assembled", TRUE, TRUE, "error")
CompatStream     == Dialect("whole", "each", "apart", TRUE, TRUE, "error")
OpenAiStream     == Dialect("whole", "each", "apart", FALSE, TRUE, "error")
BedrockStream    == Dialect("whole", "each", "apart", FALSE, FALSE, "error")
OllamaStream     == Dialect("whole", "each", "whole", FALSE, FALSE, "error")
CodexSocket      == Dialect("messages", "each", "dropped", FALSE, TRUE, "done")
GeminiStream     == Dialect("whole", "joined", "dropped", FALSE, FALSE, "error")

Dialects == {AnthropicStream, CompatStream, OpenAiStream, BedrockStream,
             OllamaStream, CodexSocket, GeminiStream}

(* The answer of chat(): the kinds of content block it keeps, those whose  *)
(* presence makes the whole answer unreadable, and whether an answer       *)
(* without any candidate is an error.                                      *)
Answer(keeps, chokes, needsChoice) ==
    [keeps |-> keeps, chokes |-> chokes, needsChoice |-> needsChoice]

AnthropicChat == Answer({"text", "thinking", "tool"}, {}, FALSE)
CompatChat    == Answer({"text", "tool"}, {"thinking"}, FALSE)
OpenAiChat    == Answer({"text", "tool"}, {}, TRUE)
BedrockChat   == Answer({"text", "tool"}, {"thinking"}, FALSE)
OllamaChat    == Answer({"text", "tool"}, {}, FALSE)
GeminiChat    == Answer({"text"}, {}, FALSE)

Answers == {AnthropicChat, CompatChat, OpenAiChat, BedrockChat, OllamaChat, GeminiChat}
BlockKinds == {"text", "thinking", "tool"}

(* detect_provider: an explicit prefix, then the family of the model name, *)
(* then the tag of a local model; OPENAI_COMPAT_PROVIDERS is asked before  *)
(* ANTHROPIC_COMPAT_PROVIDERS, so minimax is never the second.             *)
OpenAiCompatible == {"together", "huggingface", "openrouter", "moonshot", "qwen", "venice",
    "minimax", "nvidia", "kilocode", "vllm", "qianfan", "doubao", "byteplus"}
AnthropicCompatible == {"minimax", "mimo", "kimi", "cloudflare"}
ModelPrefixes == OpenAiCompatible \cup AnthropicCompatible \cup {"xai", "copilot", "bedrock"}
Families == {"anthropic", "openai", "google", "mistral", "xai", "groq", "none"}

DetectProvider(prefix, family, groqConfigured, tagged) ==
    IF prefix \in ModelPrefixes THEN prefix
    ELSE IF family = "groq" /\ groqConfigured THEN "groq"
    ELSE IF family \notin {"groq", "none"} THEN family
    ELSE IF tagged THEN "ollama" ELSE "anthropic"

StreamOf(p) ==
    CASE p = "anthropic" -> AnthropicStream
      [] p = "google" -> GeminiStream
      [] p = "ollama" -> OllamaStream
      [] p = "bedrock" -> BedrockStream
      [] p \in AnthropicCompatible \ OpenAiCompatible -> CompatStream
      [] OTHER -> OpenAiStream

VARIABLES
    dialect,     \* of the stream at hand
    wire,        \* "idle", "asked", "open", "ended" or "broken", "over"
    body,        \* frames the API has sent, a line each
    unfinished,  \* what the last line lacks: "none", its "newline", or "text" too
    parsed,      \* parser's state: number of frames looked at, open tool
                 \* blocks, texts to join, events, "go" or why not
    copilot,     \* a Copilot token is cached that lasts another minute
    chatAnswer   \* what the last chat() has kept, or {"error"}

provVars == <<dialect, wire, body, unfinished, parsed, copilot, chatAnswer>>

(* A frame is torn if a chunk ended within one of its characters.          *)
Frames == [kind : {"start", "frag", "stop"}, block : Blocks, torn : BOOLEAN]
          \cup [kind : {"text", "error", "end", "junk", "call"}, block : {0}, torn : BOOLEAN]

(* An event says by which frame it was caused, the frames whose text it    *)
(* holds, and whether that text is as it was sent.                         *)
Event(kind, at, holds, text) == [kind |-> kind, at |-> at, holds |-> holds, text |-> text]
Sent(kind, at) == Event(kind, at, <<>>, "intact")
Absent == [state |-> "closed", frags |-> <<>>, text |-> "intact"]
Nothing == [at |-> 0, open |-> [b \in Blocks |-> Absent], joined |-> <<>>,
            out |-> <<>>, state |-> "go"]

ProvInit ==
    /\ dialect = AnthropicStream /\ wire = "idle"
    /\ body = <<>> /\ unfinished = "none" /\ parsed = Nothing
    /\ copilot = FALSE /\ chatAnswer = {}

-----------------------------------------------------------------------------
(* The next frame.  A chunk is decoded on its own, which turns the halves  *)
(* of a torn character into other characters.                              *)
Decoded(d, f) == IF d.reads = "chunks" /\ f.torn THEN "garbled" ELSE "intact"
Looks(s) == [s EXCEPT !.at = @ + 1]
Tells(s, event) == [s EXCEPT !.at = @ + 1, !.out = Append(@, event)]

(* active_blocks: a block is inserted, fragments are added, and it is      *)
(* removed when it stops.                                                  *)
Inserted == [Absent EXCEPT !.state = "open"]
Pushed(block, i, text) ==
    [block EXCEPT !.frags = Append(@, i), !.text = IF text = "garbled" THEN text ELSE @]
RemovedNever(block) == block      \* mutant of Removed: it stays
Removed(block) == [block EXCEPT !.state = "closed"]

Parse(d, s, f) ==
    LET i == s.at + 1
        b == f.block
        has == Event("delta", i, <<i>>, Decoded(d, f))
        assembled == d.tools = "assembled"
    IN CASE f.kind = "text" /\ d.texts = "each" -> Tells(s, has)
         [] f.kind = "text" /\ d.texts = "joined" ->
                [Looks(s) EXCEPT !.joined = Append(@, i)]
         [] f.kind = "start" /\ assembled -> [Looks(s) EXCEPT !.open[b] = Inserted]
         [] f.kind = "frag" /\ assembled /\ s.open[b].state = "open" ->
                [Looks(s) EXCEPT !.open[b] = Pushed(@, i, Decoded(d, f))]
         [] f.kind = "stop" /\ assembled /\ s.open[b].state = "open" ->
                [Tells(s, Event("tool", i, s.open[b].frags, s.open[b].text))
                    EXCEPT !.open[b] = Removed(@)]
         [] f.kind = "frag" /\ d.tools = "apart" -> Tells(s, Event("tool", i, <<i>>, "intact"))
         [] f.kind = "call" /\ d.tools = "whole" -> Tells(s, Sent("tool", i))
         [] f.kind = "error" /\ d.inBandError ->
                [Tells(s, Sent("error", i)) EXCEPT !.state = "error"]
         [] f.kind = "end" /\ d.endMark -> [Looks(s) EXCEPT !.state = "end"]
         [] OTHER -> Looks(s)

(* The last event, after the joined texts of an answer that is whole.      *)
Finished(s, kind) ==
    LET told == IF kind = "done" /\ s.joined # <<>>
                THEN Append(s.out, Event("delta", s.at, s.joined, "intact")) ELSE s.out
    IN [s EXCEPT !.out = Append(told, Sent(kind, s.at)), !.state = kind]

-----------------------------------------------------------------------------
(* stream_chat for the provider of a model.  Copilot exchanges its token   *)
(* first, unless one is cached; when that fails, or when Bedrock has no    *)
(* credentials, stream_chat fails and there is no stream.                  *)
StreamChat(prefix, family, groqConfigured, tagged) ==
    LET p == DetectProvider(prefix, family, groqConfigured, tagged)
    IN /\ wire = "idle"
       /\ copilot' = (copilot \/ p = "copilot")
       /\ dialect' = StreamOf(p)
       /\ wire' = "asked"
       /\ chatAnswer' = {}
       /\ UNCHANGED <<body, unfinished, parsed>>

(* OpenAiCodexProvider tries a WebSocket and falls back to the other way;  *)
(* no model name leads to it.                                              *)
CodexStreamChat ==
    /\ wire = "idle"
    /\ dialect' \in {CodexSocket, OpenAiStream}
    /\ wire' = "asked"
    /\ chatAnswer' = {}
    /\ UNCHANGED <<body, unfinished, parsed, copilot>>

(* chat(): one request and one answer of blocks, which may lack its        *)
(* candidate; a request that fails, an error status and an answer that     *)
(* cannot be read are all errors.                                          *)
Chat(a, blocks, candidate, served) ==
    /\ wire = "idle"
    /\ chatAnswer' = IF ~served \/ blocks \cap a.chokes # {} \/ (a.needsChoice /\ ~candidate)
                     THEN {"error"}
                     ELSE IF candidate THEN blocks \cap a.keeps ELSE {}
    /\ UNCHANGED <<dialect, wire, body, unfinished, parsed, copilot>>

TokenAges ==
    /\ copilot /\ wire = "idle"
    /\ copilot' = FALSE
    /\ UNCHANGED <<dialect, wire, body, unfinished, parsed, chatAnswer>>

(* The request cannot be sent, or is answered with an error status.        *)
RequestFails ==
    /\ wire = "asked"
    /\ parsed' = Finished(parsed, "error")
    /\ wire' = "over"
    /\ UNCHANGED <<dialect, body, unfinished, copilot, chatAnswer>>

Lacks == {"none", "newline", "text"}

Accepted ==
    /\ wire = "asked"
    /\ wire' = "open"
    /\ UNCHANGED <<dialect, body, unfinished, parsed, copilot, chatAnswer>>

(* The API sends a line, whole or a part of it; a parser that reads chunks *)
(* or messages takes the next one when it is done with the last.  What is  *)
(* missing of a line comes with the next chunk.  A body that is read as a  *)
(* whole is the same whether or not its last line ends in a newline, and   *)
(* wherever its chunks ended.                                              *)
FrameArrives(f, lacks) ==
    /\ wire = "open" /\ unfinished = "none" /\ Len(body) < MaxFrames /\ ~f.torn
    /\ dialect.reads = "whole" \/ parsed.state = "end" \/ parsed.at = Len(body)
    /\ dialect.reads = "messages" => lacks = "none"
    /\ lacks = "newline" => dialect.reads = "chunks"
    /\ body' = Append(body, f)
    /\ unfinished' = lacks
    /\ UNCHANGED <<dialect, wire, parsed, copilot, chatAnswer>>

RestArrives(torn) ==
    /\ wire = "open" /\ unfinished # "none"
    /\ torn => /\ dialect.reads = "chunks" /\ unfinished = "text"
               /\ Last(body).kind \in {"text", "frag"}
    /\ body' = ReplaceAt(body, Len(body), [Last(body) EXCEPT !.torn = torn])
    /\ unfinished' = "none"
    /\ UNCHANGED <<dialect, wire, parsed, copilot, chatAnswer>>

(* The lines the parser can see: of chunks those that end in a newline, of *)
(* a whole body its last one without a newline too.                        *)
Lines ==
    IF dialect.reads = "whole" THEN IF wire = "ended" THEN Len(body) ELSE 0
    ELSE IF unfinished = "none" THEN Len(body) ELSE Len(body) - 1

LineParsed ==
    /\ wire \in {"open", "ended", "broken"} /\ parsed.state = "go" /\ parsed.at < Lines
    /\ parsed' = Parse(dialect, parsed, body[parsed.at + 1])
    /\ wire' = IF parsed'.state = "error" THEN "over" ELSE wire
    /\ UNCHANGED <<dialect, body, unfinished, copilot, chatAnswer>>

(* The body ends, or the connection breaks.  Half a line is none: no       *)
(* parser can make anything of it, and an answer that is one object cannot *)
(* be read at all.                                                         *)
BodyEnds ==
    /\ wire = "open"
    /\ wire' = IF unfinished = "text" /\ dialect.texts = "joined" THEN "broken" ELSE "ended"
    /\ body' = IF unfinished = "text" THEN Front(body) ELSE body
    /\ unfinished' = IF unfinished = "text" THEN "none" ELSE unfinished
    /\ UNCHANGED <<dialect, parsed, copilot, chatAnswer>>

BodyBreaks ==
    /\ wire = "open"
    /\ wire' = "broken"
    /\ UNCHANGED <<dialect, body, unfinished, parsed, copilot, chatAnswer>>

(* The parser leaves its loop: nothing more comes, or it has seen the end  *)
(* frame, of chunks once another chunk or the end of the body is there.    *)
LoopEnds ==
    /\ wire \in {"open", "ended", "broken"}
    /\ \/ parsed.state = "end" /\ (dialect.reads = "chunks" => wire # "open" \/ parsed.at < Len(body))
       \/ parsed.state = "go" /\ wire # "open" /\ parsed.at = Lines
    /\ parsed' = Finished(parsed, IF parsed.state = "go" /\ wire = "broken"
                                  THEN dialect.broken ELSE "done")
    /\ wire' = "over"
    /\ UNCHANGED <<dialect, body, unfinished, copilot, chatAnswer>>

(* The run takes its last event and asks again, for the next turn.         *)
NextTurn ==
    /\ wire = "over"
    /\ wire' = "idle"
    /\ dialect' = AnthropicStream
    /\ body' = <<>> /\ unfinished' = "none" /\ parsed' = Nothing
    /\ UNCHANGED <<copilot, chatAnswer>>

ProvNext ==
    \/ \E p \in ModelPrefixes \cup {"none"}, f \in Families, g, t \in BOOLEAN : StreamChat(p, f, g, t)
    \/ CodexStreamChat
    \/ \E a \in Answers, b \in SUBSET BlockKinds, c, v \in BOOLEAN : Chat(a, b, c, v)
    \/ TokenAges
    \/ RequestFails
    \/ Accepted
    \/ \E f \in Frames, lacks \in Lacks : FrameArrives(f, lacks)
    \/ \E torn \in BOOLEAN : RestArrives(torn)
    \/ LineParsed
    \/ BodyEnds
    \/ BodyBreaks
    \/ LoopEnds
    \/ NextTurn

ProvSpec == ProvInit /\ [][ProvNext]_provVars

-----------------------------------------------------------------------------
ProvTypeOK ==
    /\ dialect \in Dialects
    /\ wire \in {"idle", "asked", "open", "ended", "broken", "over"}
    /\ body \in Seq(Frames) /\ unfinished \in Lacks
    /\ parsed.at \in 0 .. Len(body)
    /\ parsed.state \in {"go", "end", "error", "done"}
    /\ copilot \in BOOLEAN /\ chatAnswer \subseteq BlockKinds \cup {"error"}

(* Below, s is a body, p a parser's state and d its dialect.               *)
Terminals == {"done", "error"}
Closing(p) == p.out # <<>> /\ Last(p.out).kind \in Terminals
Sends(p, i, kind) == \E k \in 1 .. Len(p.out) : p.out[k].kind = kind /\ p.out[k].at = i
Holds(e, i) == \E m \in 1 .. Len(e.holds) : e.holds[m] = i
Ascending(places) == \A m, n \in 1 .. Len(places) : m < n => places[m] < places[n]
IsA(s, i, kind) == i \in 1 .. Len(s) /\ s[i].kind = kind

(* Block b has been open since frame j, up to frame i.                     *)
OpenSince(s, b, j, i) ==
    /\ s[j].kind = "start" /\ s[j].block = b
    /\ \A k \in j + 1 .. i - 1 : s[k].block = b => s[k].kind \notin {"start", "stop"}

FragsBetween(s, b, j, i) == {n \in j + 1 .. i - 1 : s[n].kind = "frag" /\ s[n].block = b}

(* What a block holds that has been open since j, or a call made of it.    *)
FragsOf(s, b, j, i, holds) ==
    /\ OpenSince(s, b, j, i) /\ Ascending(holds)
    /\ \A m \in 1 .. Len(holds) : holds[m] \in FragsBetween(s, b, j, i)
    /\ \A n \in FragsBetween(s, b, j, i) : \E m \in 1 .. Len(holds) : holds[m] = n

(* The stream is over exactly when one last event has said so.             *)
EndsOnce(p) ==
    \A k \in 1 .. Len(p.out) : p.out[k].kind \in Terminals <=> k = Len(p.out) /\ Closing(p)

(* Events come in the order of the frames, one of a frame at most.         *)
EventsInOrder(p) ==
    \A k, l \in 1 .. Len(p.out) :
        k < l /\ p.out[l].kind \notin Terminals => p.out[k].at < p.out[l].at

(* Every text looked at is in a delta, and the deltas tell the texts in    *)
(* their order: at once, or joined when the stream is done.                *)
DeltaRight(d, s, e) ==
    /\ Ascending(e.holds)
    /\ \A m \in 1 .. Len(e.holds) : IsA(s, e.holds[m], "text")
    /\ d.texts = "each" => e.holds = <<e.at>>

TextsArrive(d, s, p) ==
    /\ d.texts = "each" \/ p.state = "done" =>
         \A i \in 1 .. p.at : IsA(s, i, "text") =>
            \E k \in 1 .. Len(p.out) : p.out[k].kind = "delta" /\ Holds(p.out[k], i)
    /\ \A k \in 1 .. Len(p.out) : p.out[k].kind = "delta" => DeltaRight(d, s, p.out[k])
    /\ d.texts = "joined" =>
         \A k, l \in 1 .. Len(p.out) :
            p.out[k].kind = "delta" /\ p.out[l].kind = "delta" => k = l

(* Tool calls.  Assembled: each block that starts and stops is one call,   *)
(* with the fragments in between.  Whole: each call is passed on.  Apart:  *)
(* each fragment is sent as if it were a call.  Dropped: there is none.    *)
CallDue(d, s, i) ==
    \/ d.tools = "assembled" /\ IsA(s, i, "stop") /\ \E j \in 1 .. i - 1 : OpenSince(s, s[i].block, j, i)
    \/ d.tools = "whole" /\ IsA(s, i, "call")
    \/ d.tools = "apart" /\ IsA(s, i, "frag")

CallRight(d, s, e) ==
    \/ /\ d.tools = "assembled" /\ IsA(s, e.at, "stop")
       /\ \E j \in 1 .. e.at - 1 : FragsOf(s, s[e.at].block, j, e.at, e.holds)
    \/ d.tools = "whole" /\ IsA(s, e.at, "call") /\ e.holds = <<>>
    \/ d.tools = "apart" /\ IsA(s, e.at, "frag") /\ e.holds = <<e.at>>

CallsAsRead(d, s, p) ==
    /\ \A i \in 1 .. p.at : CallDue(d, s, i) => Sends(p, i, "tool")
    /\ \A k \in 1 .. Len(p.out) : p.out[k].kind = "tool" => CallRight(d, s, p.out[k])

(* Text is as it was sent, except where a dialect that decodes every chunk *)
(* on its own has been sent half a character.                              *)
TornIn(d, s, holds) == d.reads = "chunks" /\ \E m \in 1 .. Len(holds) : s[holds[m]].torn

GarbledWhereTorn(d, s, p) ==
    \A k \in 1 .. Len(p.out) : p.out[k].text = "garbled" <=> TornIn(d, s, p.out[k].holds)

(* No event tells of a line the parser has not looked at.                  *)
OnlySeen(p) ==
    \A k \in 1 .. Len(p.out) :
        p.out[k].at \in 0 .. p.at /\ \A m \in 1 .. Len(p.out[k].holds) : p.out[k].holds[m] \in 1 .. p.at

(* A stream that is done has looked at every line, up to its end frame if  *)
(* it has one; but a last line without a newline is lost in chunks.        *)
LooksAtAll ==
    parsed.state = "done" =>
        \/ dialect.endMark /\ IsA(body, parsed.at, "end")
        \/ parsed.at = IF dialect.reads = "chunks" /\ unfinished # "none"
                       THEN Len(body) - 1 ELSE Len(body)

(* Wherever the connection splits a line, ends or breaks: one last event   *)
(* closes the stream, and the events before it tell what the lines looked  *)
(* at hold, in order, nothing twice; each dialect has its own idea of a    *)
(* tool call, and only the Anthropic one and Ollama's send calls that a    *)
(* run can make as they are.                                               *)
StreamIsFaithful ==
    /\ wire = "over" <=> Closing(parsed)
    /\ EndsOnce(parsed) /\ EventsInOrder(parsed) /\ OnlySeen(parsed) /\ LooksAtAll
    /\ TextsArrive(dialect, body, parsed)
    /\ CallsAsRead(dialect, body, parsed)
    /\ GarbledWhereTorn(dialect, body, parsed)
=============================================================================
