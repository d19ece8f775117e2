------------------------------ MODULE Channels ------------------------------
(***************************************************************************)
(* The channel plugins (src/channels/...).  A plugin is described by what  *)
(* its methods need and do, its script:                                    *)
(*   starts   settings without which start_account only warns              *)
(*   check    the remote check start_account makes; its failure is logged  *)
(*   sends    settings without which send_message fails                    *)
(*   calls    the requests send_message makes, in order, each with the way *)
(*            its reply is judged: by "status", or by status and "code"    *)
(*   live     what send_message must find besides: nothing, the "cookie"   *)
(*            of a login at start, a "connected" flag that no code sets    *)
(* A plugin with no calls sends nothing: send_message of Telegram, Discord, *)
(* Slack, WhatsApp, Signal and iMessage is a TODO that checks its settings  *)
(* and answers Ok, that of IRC, Twitch and Nostr waits for a connection    *)
(* nothing opens and always fails.                                         *)
(***************************************************************************)
EXTENDS Naturals, Sequences, FiniteSets

CONSTANTS
    MaxOps   \* bound: starts, stops and sends of the plugin

ASSUME ChannelsAssumption == MaxOps \in Nat

Script(starts, check, sends, calls, live) ==
    [starts |-> starts, check |-> check, sends |-> sends, calls |-> calls, live |-> live]

Post == <<"status">>
PostCode == <<"code">>

Telegram    == Script({"token"}, FALSE, {"token", "numeric target"}, <<>>, "none")
Discord     == Script({"token"}, FALSE, {"token", "numeric target"}, <<>>, "none")
Slack       == Script({"token"}, FALSE, {"token"}, <<>>, "none")
WhatsApp    == Script({}, FALSE, {}, <<>>, "none")
Signal      == Script({}, FALSE, {}, <<>>, "none")
IMessage    == Script({}, FALSE, {}, <<>>, "none")
Synology    == Script({}, FALSE, {"url"}, Post, "none")
Matrix      == Script({"url", "token"}, FALSE, {"url", "token"}, Post, "none")
Mattermost  == Script({"url", "token"}, TRUE, {"url", "token"}, Post, "none")
Nextcloud   == Script({"url", "token"}, TRUE, {"url", "token", "user"}, Post, "none")
BlueBubbles == Script({"url", "token"}, TRUE, {"url", "token"}, Post, "none")
Line        == Script({"token"}, TRUE, {"token"}, Post, "none")
Zalo        == Script({"token"}, TRUE, {"token"}, PostCode, "none")
ZaloUser    == Script({"token"}, TRUE, {"token"}, PostCode, "none")
Feishu      == Script({"id", "token"}, TRUE, {"id", "token"}, <<"code", "code">>, "none")
Teams       == Script({"id", "token"}, TRUE, {"id", "token"}, <<"status", "status">>, "none")
Tlon        == Script({"url", "token"}, TRUE, {"url", "user"}, Post, "cookie")
Irc         == Script({"url"}, FALSE, {}, <<>>, "connected")
Twitch      == Script({"token"}, FALSE, {}, <<>>, "connected")
Nostr       == Script({"token", "url"}, FALSE, {}, <<>>, "connected")
GoogleChat  == Script({}, FALSE, {"url or id"}, Post, "none")

Plugins == {Telegram, Discord, Slack, WhatsApp, Signal, IMessage, Synology, Matrix,
            Mattermost, Nextcloud, BlueBubbles, Line, Zalo, ZaloUser, Feishu, Teams,
            Tlon, Irc, Twitch, Nostr, GoogleChat}

Stubs == {p \in Plugins : p.calls = <<>>}

VARIABLES
    script,    \* the plugin at hand
    given,     \* the settings it has been given
    enabled,
    cookie,    \* the session cookie a login has left
    sending,   \* 0, or the call send_message is about to make
    replies,   \* replies to the calls of the send under way or last made
    sendResult,
    chanOps    \* starts, stops and sends so far

chanVars == <<script, given, enabled, cookie, sending, replies, sendResult, chanOps>>

ChanInit ==
    /\ script = WhatsApp
    /\ given = {} /\ enabled = FALSE
    /\ cookie = FALSE
    /\ sending = 0 /\ replies = <<>> /\ sendResult = "none"
    /\ chanOps = 0

Replies == {"accepted", "refused", "http_error", "unreachable"}

(* Construction: from the configuration, which may lack any setting, or by *)
(* new(), which leaves the plugin disabled and without settings.           *)
Construct(p) ==
    /\ chanOps = 0
    /\ script' = p
    /\ \E g \in SUBSET (p.starts \cup p.sends) : given' = g
    /\ enabled' \in BOOLEAN
    /\ chanOps' = 1
    /\ UNCHANGED <<cookie, sending, replies, sendResult>>

Op == chanOps \in 1 .. MaxOps /\ chanOps' = chanOps + 1

(* start_account: a disabled or unconfigured plugin answers Ok as well, and *)
(* so does one whose check fails; only a login leaves something behind.    *)
StartAccount ==
    /\ Op
    /\ IF enabled /\ script.starts \subseteq given /\ script.check /\ script.live = "cookie"
       THEN \E r \in Replies : cookie' = (cookie \/ r = "accepted")
       ELSE cookie' = cookie
    /\ UNCHANGED <<script, given, enabled, sending, replies, sendResult>>

StopAccount ==
    /\ Op
    /\ cookie' = (cookie /\ ~enabled)
    /\ UNCHANGED <<script, given, enabled, sending, replies, sendResult>>

Live == CASE script.live = "none" -> TRUE
          [] script.live = "cookie" -> cookie
          [] script.live = "connected" -> FALSE

(* send_message: everything it needs is looked at before the first call;   *)
(* whether the plugin is enabled is not.  Slack first drops a message that *)
(* is no reply and answers ok.                                             *)
SendMessage(noReply) ==
    /\ Op /\ sending = 0
    /\ replies' = <<>>
    /\ IF noReply /\ script = Slack
       THEN sending' = 0 /\ sendResult' = "ok"
       ELSE IF ~(script.sends \subseteq given) \/ ~Live
       THEN sending' = 0 /\ sendResult' = "error"
       ELSE IF script.calls = <<>>
       THEN sending' = 0 /\ sendResult' = "ok"
       ELSE sending' = 1 /\ sendResult' = "none"
    /\ UNCHANGED <<script, given, enabled, cookie>>

Fails(judge, reply) ==
    \/ reply \in {"http_error", "unreachable"}
    \/ judge = "code" /\ reply = "refused"

(* Mutant of Judged: only the first call is judged.                        *)
JudgedFirst(k, reply) == k = 1 /\ Fails(script.calls[k], reply)

Judged(k, reply) == Fails(script.calls[k], reply)

CallReturns(reply) ==
    /\ sending > 0
    /\ replies' = Append(replies, reply)
    /\ IF Judged(sending, reply) THEN sending' = 0 /\ sendResult' = "error"
       ELSE IF sending < Len(script.calls) THEN sending' = sending + 1 /\ sendResult' = "none"
       ELSE sending' = 0 /\ sendResult' = "ok"
    /\ UNCHANGED <<script, given, enabled, cookie, chanOps>>

ChanNext ==
    \/ \E p \in Plugins : Construct(p)
    \/ StartAccount
    \/ StopAccount
    \/ \E noReply \in BOOLEAN : SendMessage(noReply)
    \/ \E r \in Replies : CallReturns(r)

ChanSpec == ChanInit /\ [][ChanNext]_chanVars

-----------------------------------------------------------------------------
ChanTypeOK ==
    /\ script \in Plugins /\ given \subseteq script.starts \cup script.sends
    /\ enabled \in BOOLEAN /\ cookie \in BOOLEAN
    /\ sending \in 0 .. Len(script.calls)
    /\ replies \in Seq(Replies) /\ sendResult \in {"none", "ok", "error"}

(* Of the plugins that send anything at all: a send that answers ok has    *)
(* made all of its calls, one at least, and no reply said that the         *)
(* platform had not taken it, as far as the plugin looks: a token refused  *)
(* in the body of a 200 never passes for a message sent.                   *)
OkMeansAccepted ==
    sendResult = "ok" /\ script \notin Stubs =>
        /\ replies # <<>> /\ Len(replies) = Len(script.calls)
        /\ \A k \in 1 .. Len(replies) : ~Fails(script.calls[k], replies[k])
=============================================================================
