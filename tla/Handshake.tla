----------------------------- MODULE Handshake -----------------------------
(***************************************************************************)
(* Opening a gateway connection (gateway/websocket.rs, handle_websocket up *)
(* to the hello response, with gateway/auth.rs): the challenge, the wait   *)
(* of at most ten seconds for a connect request, the credential, the       *)
(* device identity and the scopes they give the connection.                *)
(*                                                                         *)
(* Clients reconnect and repeat what they sent before, so a connect        *)
(* request may carry a signature made for an earlier challenge, for other  *)
(* scopes or too long ago.  A nonce (Uuid::new_v4) is the connection it    *)
(* was made for.  A signature stands for the payload it covers: it         *)
(* verifies for that payload and no other.  The fields of the payload that *)
(* the gateway only passes on (device and client ids, mode, role,          *)
(* platform) are left out.                                                 *)
(***************************************************************************)
EXTENDS Integers, Sequences, FiniteSets

CONSTANTS
    Conns,            \* connections, in any order
    Remote,           \* those whose peer address is not loopback
    Secrets,          \* tokens and passwords
    ScopeLists,       \* bound: the lists of scope names clients ask for
    Creds,            \* bound: the auth fields clients send
    Setups,           \* bound: what the gateway is started with
    Skew,             \* MAX_SIGNATURE_SKEW_MS, in clock ticks
    HandshakeTimeout, \* handshake_timeout, in clock ticks
    Drifts,           \* bound: how far a device's clock may be ahead
    MaxClock,         \* bound: the last tick
    MaxOpen,          \* bound: connections at the same time
    MaxSent,          \* bound: messages the client of a connection sends
    NoSecret,         \* a credential that is not there
    NoDevice,         \* no device params
    NoSignature,      \* a key or signature that does not decode
    NoParams          \* params that are missing or do not parse

Secret == Secrets \cup {NoSecret}
Cred == [token : Secret, password : Secret]
Scope == {"admin", "write", "read", "pairing"}
Payload == [ver : {"v2", "v3"}, nonce : Conns, at : Nat,
            scopes : ScopeLists, token : Secret]
Device == [nonce : Conns, at : Nat, v3 : BOOLEAN,
           signature : Payload \cup {NoSignature}]
ConnectParams == [auth : Cred, scopes : ScopeLists,
                  device : Device \cup {NoDevice}]
Kinds == {"connect", "chat.send", "request"}
Message == [kind : Kinds, params : ConnectParams \cup {NoParams}]
Frames == {"challenge", "refused", "hello", "response", "denied"}

ASSUME HandshakeAssumption ==
    /\ Remote \subseteq Conns
    /\ NoSecret \notin Secrets
    /\ NoDevice \notin Device
    /\ NoSignature \notin Payload
    /\ NoParams \notin ConnectParams
    /\ Creds \subseteq Cred
    /\ Setups \subseteq [mode : {"Token", "Password"}, token : Secret,
                         password : Secret, env : Secret]
    /\ Setups # {}
    /\ Skew \in Nat
    /\ HandshakeTimeout \in Nat
    /\ Drifts \subseteq Nat
    /\ MaxClock \in Nat
    /\ MaxOpen \in Nat
    /\ MaxSent \in [Conns -> Nat]

VARIABLES
    now,       \* the gateway's clock
    gate,      \* state.auth, resolved at start-up
    phase,     \* where handle_websocket is with each connection
    deadline,  \* when the wait for connect times out
    inbox,     \* what the client has sent and the gateway not yet read
    scopes,    \* conn_state.scopes
    signed,    \* history: the payloads devices have signed
    admitted,  \* history: what the connection was opened with
    admitTime, \* history: when they were validated
    sent,      \* history: the frames the gateway sent
    asked,     \* history: how many messages the client sent
    early      \* history: how many of them before its first connect

hsVars == <<now, gate, phase, deadline, inbox, scopes, signed, admitted,
            admitTime, sent, asked, early>>

-----------------------------------------------------------------------------
(* resolve_gateway_auth: the environment's token overrides the configured  *)
(* one, and a password without a token selects the password mode.          *)
ResolveAuth(setup) ==
    LET token == IF setup.env # NoSecret THEN setup.env ELSE setup.token
    IN  [mode |-> IF setup.password # NoSecret /\ token = NoSecret
                    THEN "Password" ELSE setup.mode,
         token |-> token,
         password |-> setup.password]

(* Mutant of Authorized: one credential missing counts as none configured. *)
AuthorizedWithout(c, auth) ==
    IF gate.token = NoSecret \/ gate.password = NoSecret
      THEN c \notin Remote
      ELSE \/ /\ gate.mode = "Token"
              /\ gate.token \in {auth.token, auth.password}
           \/ /\ gate.mode = "Password"
              /\ gate.password = auth.password

(* authorize_gateway_connect: with no credential configured only local     *)
(* peers; the token may also come in the password field.                   *)
Authorized(c, auth) ==
    IF gate.token = NoSecret /\ gate.password = NoSecret
      THEN c \notin Remote
      ELSE \/ /\ gate.mode = "Token"
              /\ gate.token # NoSecret
              /\ gate.token \in {auth.token, auth.password}
           \/ /\ gate.mode = "Password"
              /\ gate.password # NoSecret
              /\ gate.password = auth.password

(* Mutant of ResolveScopes: unknown names are kept.                        *)
ResolveScopesRaw(requested) ==
    IF "admin" \in requested THEN Scope ELSE requested

(* resolve_scopes: admin implies the others, unknown names are dropped.    *)
ResolveScopes(requested) ==
    IF "admin" \in requested THEN Scope ELSE requested \cap Scope

(* The payload rebuilt from the request.                                   *)
Rebuilt(ver, params) ==
    [ver |-> ver, nonce |-> params.device.nonce, at |-> params.device.at,
     scopes |-> params.scopes, token |-> params.auth.token]

(* Mutant of DeviceVerified: the nonce is not compared.                    *)
DeviceVerifiedAnyNonce(c, params) ==
    LET device == params.device
    IN  /\ now - device.at <= Skew
        /\ device.at - now <= Skew
        /\ device.signature # NoSignature
        /\ device.signature = Rebuilt(device.signature.ver, params)

(* verify_device_identity: this connection's nonce, signed recently, over  *)
(* the payload of the params' version; v3 params fall back to v2.          *)
DeviceVerified(c, params) ==
    LET device == params.device
    IN  /\ device.nonce = c
        /\ now - device.at <= Skew
        /\ device.at - now <= Skew
        /\ device.signature # NoSignature
        /\ \/ /\ device.v3
              /\ device.signature \in {Rebuilt("v3", params),
                                       Rebuilt("v2", params)}
           \/ /\ ~device.v3
              /\ device.signature = Rebuilt("v2", params)

(* The scopes a connection starts with: a device that presents itself has  *)
(* to verify, and without one only local peers get what they ask for.      *)
GrantedScopes(c, params) ==
    IF IF params.device # NoDevice THEN DeviceVerified(c, params)
                                   ELSE c \notin Remote
      THEN ResolveScopes(params.scopes) ELSE {}

-----------------------------------------------------------------------------
Nothing == [token |-> NoSecret, password |-> NoSecret, device |-> FALSE]
Presented(params) == [token |-> params.auth.token,
                      password |-> params.auth.password,
                      device |-> params.device # NoDevice]

Init ==
    /\ now = 0
    /\ \E setup \in Setups : gate = ResolveAuth(setup)
    /\ phase = [c \in Conns |-> "new"]
    /\ deadline = [c \in Conns |-> 0]
    /\ inbox = [c \in Conns |-> <<>>]
    /\ scopes = [c \in Conns |-> {}]
    /\ signed = {}
    /\ admitted = [c \in Conns |-> Nothing]
    /\ admitTime = [c \in Conns |-> 0]
    /\ sent = [c \in Conns |-> <<>>]
    /\ asked = [c \in Conns |-> 0]
    /\ early = [c \in Conns |-> 0]

Send(c, frame) == sent' = [sent EXCEPT ![c] = Append(@, frame)]
Read(c) == inbox' = [inbox EXCEPT ![c] = Tail(@)]
GoTo(c, place) == phase' = [phase EXCEPT ![c] = place]

(* handle_websocket returns: the socket and conn_state are dropped.        *)
Drop(c) ==
    /\ GoTo(c, "closed")
    /\ inbox' = [inbox EXCEPT ![c] = <<>>]
    /\ scopes' = [scopes EXCEPT ![c] = {}]
    /\ admitted' = [admitted EXCEPT ![c] = Nothing]
    /\ admitTime' = [admitTime EXCEPT ![c] = 0]

(* The socket is accepted and the challenge sent, or the send fails.       *)
Accept(c) ==
    /\ phase[c] = "new"
    /\ now + HandshakeTimeout <= MaxClock
    /\ Cardinality({d \in Conns : phase[d] \in {"waiting", "open"}}) < MaxOpen
    /\ GoTo(c, "waiting")
    /\ deadline' = [deadline EXCEPT ![c] = now + HandshakeTimeout]
    /\ Send(c, "challenge")
    /\ UNCHANGED <<now, gate, inbox, scopes, signed, admitted, admitTime,
                   asked, early>>

AcceptFails(c) ==
    /\ phase[c] = "new"
    /\ Drop(c)
    /\ UNCHANGED <<now, gate, deadline, signed, sent, asked, early>>

(* Mutant of IgnoreEarly: the request is answered.                         *)
IgnoreEarlyAnswered(c) ==
    /\ phase[c] = "waiting"
    /\ inbox[c] # <<>>
    /\ Head(inbox[c]).kind \in {"chat.send", "request"}
    /\ Read(c)
    /\ Send(c, "response")
    /\ UNCHANGED <<now, gate, phase, deadline, scopes, signed, admitted,
                   admitTime, asked, early>>

(* Anything but a connect request, what does not parse included, is        *)
(* dropped during the handshake.                                           *)
IgnoreEarly(c) ==
    /\ phase[c] = "waiting"
    /\ inbox[c] # <<>>
    /\ Head(inbox[c]).kind \in {"chat.send", "request"}
    /\ Read(c)
    /\ UNCHANGED <<now, gate, phase, deadline, scopes, signed, admitted,
                   admitTime, sent, asked, early>>

(* Mutant of TimedOut: only while the client has sent nothing at all.      *)
TimedOutIfSilent(c) ==
    /\ phase[c] = "waiting"
    /\ asked[c] = 0
    /\ now >= deadline[c]
    /\ Send(c, "refused")
    /\ Drop(c)
    /\ UNCHANGED <<now, gate, deadline, signed, asked, early>>

(* tokio::time::timeout polls the socket before the timer: the wait ends   *)
(* only when nothing is left to read.                                      *)
TimedOut(c) ==
    /\ phase[c] = "waiting"
    /\ inbox[c] = <<>>
    /\ now >= deadline[c]
    /\ Send(c, "refused")
    /\ Drop(c)
    /\ UNCHANGED <<now, gate, deadline, signed, asked, early>>

(* The connect request has no usable params or no valid credential: an     *)
(* error response, then the socket is closed.                              *)
ConnectRefused(c) ==
    /\ phase[c] = "waiting"
    /\ inbox[c] # <<>>
    /\ Head(inbox[c]).kind = "connect"
    /\ LET params == Head(inbox[c]).params
       IN  params # NoParams => ~Authorized(c, params.auth)
    /\ Send(c, "refused")
    /\ Drop(c)
    /\ UNCHANGED <<now, gate, deadline, signed, asked, early>>

(* It is valid: scopes are granted and the hello sent.                     *)
ConnectAccepted(c) ==
    /\ phase[c] = "waiting"
    /\ inbox[c] # <<>>
    /\ Head(inbox[c]).kind = "connect"
    /\ LET params == Head(inbox[c]).params
       IN  /\ params # NoParams
           /\ Authorized(c, params.auth)
           /\ scopes' = [scopes EXCEPT ![c] = GrantedScopes(c, params)]
           /\ admitted' = [admitted EXCEPT ![c] = Presented(params)]
    /\ admitTime' = [admitTime EXCEPT ![c] = now]
    /\ Read(c)
    /\ GoTo(c, "open")
    /\ Send(c, "hello")
    /\ UNCHANGED <<now, gate, deadline, signed, asked, early>>

(* The hello cannot be sent.                                               *)
HelloFails(c) ==
    /\ phase[c] = "waiting"
    /\ inbox[c] # <<>>
    /\ Head(inbox[c]).kind = "connect"
    /\ LET params == Head(inbox[c]).params
       IN  params # NoParams /\ Authorized(c, params.auth)
    /\ Drop(c)
    /\ UNCHANGED <<now, gate, deadline, signed, sent, asked, early>>

(* handle_request after the hello: chat.send asks for the write scope, and *)
(* everything, an unparsable frame or a second connect included, is        *)
(* answered.                                                               *)
Request(c) ==
    /\ phase[c] = "open"
    /\ inbox[c] # <<>>
    /\ Read(c)
    /\ Send(c, IF Head(inbox[c]).kind = "chat.send" /\ "write" \notin scopes[c]
                 THEN "denied" ELSE "response")
    /\ UNCHANGED <<now, gate, phase, deadline, scopes, signed, admitted,
                   admitTime, asked, early>>

Gateway(c) ==
    \/ Accept(c)
    \/ AcceptFails(c)
    \/ IgnoreEarly(c)
    \/ TimedOut(c)
    \/ ConnectRefused(c)
    \/ ConnectAccepted(c)
    \/ HelloFails(c)
    \/ Request(c)

-----------------------------------------------------------------------------
(* The clients.                                                            *)
SendMessage(c, message) ==
    /\ phase[c] \in {"waiting", "open"}
    /\ asked[c] < MaxSent[c]
    /\ inbox' = [inbox EXCEPT ![c] = Append(@, message)]
    /\ asked' = [asked EXCEPT ![c] = @ + 1]

SendOther(c, kind) ==
    /\ SendMessage(c, [kind |-> kind, params |-> NoParams])
    /\ early' = [early EXCEPT ![c] =
                   IF kind # "connect" /\ asked[c] = @ THEN @ + 1 ELSE @]
    /\ UNCHANGED <<now, gate, phase, deadline, scopes, signed, admitted,
                   admitTime, sent>>

(* Bound: the params matter only in a client's first connect request; a    *)
(* later one is SendOther.                                                 *)
SendConnect(c, params) ==
    /\ asked[c] = early[c]
    /\ SendMessage(c, [kind |-> "connect", params |-> params])
    /\ UNCHANGED <<now, gate, phase, deadline, scopes, admitted, admitTime,
                   sent, early>>

ConnectWithoutDevice(c, auth, requested) ==
    /\ SendConnect(c, [auth |-> auth, scopes |-> requested,
                       device |-> NoDevice])
    /\ UNCHANGED signed

(* A device signs for this challenge, by its own clock; a bridge may send  *)
(* a v2 signature with v3 params.                                          *)
ConnectSigned(c, auth, requested, ver, v3, drift) ==
    LET payload == [ver |-> ver, nonce |-> c, at |-> now + drift,
                    scopes |-> requested, token |-> auth.token]
    IN  /\ ver = "v3" => v3
        /\ SendConnect(c, [auth |-> auth, scopes |-> requested,
                           device |-> [nonce |-> c, at |-> now + drift,
                                       v3 |-> v3, signature |-> payload]])
        /\ signed' = signed \cup {payload}

(* A client repeats a signature, with the nonce it was made for or with    *)
(* the one it was sent now, and maybe other scopes or another credential.  *)
ConnectRepeated(c, auth, requested, payload, nonce) ==
    /\ SendConnect(c, [auth |-> auth, scopes |-> requested,
                       device |-> [nonce |-> nonce, at |-> payload.at,
                                   v3 |-> payload.ver = "v3",
                                   signature |-> payload]])
    /\ UNCHANGED signed

ConnectUnreadable(c, auth, requested) ==
    /\ SendConnect(c, [auth |-> auth, scopes |-> requested,
                       device |-> [nonce |-> c, at |-> now, v3 |-> FALSE,
                                   signature |-> NoSignature]])
    /\ UNCHANGED signed

(* The client closes the socket or is lost, before or after the hello:     *)
(* ws_rx.next() gives a close frame, an error or None.                     *)
PeerGone(c) ==
    /\ phase[c] \in {"waiting", "open"}
    /\ Drop(c)
    /\ UNCHANGED <<now, gate, deadline, signed, sent, asked, early>>

Client(c) ==
    \/ PeerGone(c)
    \/ \E kind \in Kinds : SendOther(c, kind)
    \/ \E auth \in Creds, requested \in ScopeLists :
         \/ ConnectWithoutDevice(c, auth, requested)
         \/ \E ver \in {"v2", "v3"}, v3 \in BOOLEAN, drift \in Drifts :
              ConnectSigned(c, auth, requested, ver, v3, drift)
         \/ \E payload \in signed : \E nonce \in {payload.nonce, c} :
              ConnectRepeated(c, auth, requested, payload, nonce)
         \/ ConnectUnreadable(c, auth, requested)

Tick ==
    /\ now < MaxClock
    /\ now' = now + 1
    /\ UNCHANGED <<gate, phase, deadline, inbox, scopes, signed, admitted,
                   admitTime, sent, asked, early>>

Next == Tick \/ \E c \in Conns : Gateway(c) \/ Client(c)

Spec == Init /\ [][Next]_hsVars

(* Time passes and tokio runs every ready task; clients owe nothing.       *)
FairSpec ==
    /\ Spec
    /\ WF_hsVars(Tick)
    /\ \A c \in Conns : WF_hsVars(Gateway(c))

-----------------------------------------------------------------------------
TypeOK ==
    /\ now \in Nat
    /\ gate \in [mode : {"Token", "Password"}, token : Secret,
                 password : Secret]
    /\ phase \in [Conns -> {"new", "waiting", "open", "closed"}]
    /\ deadline \in [Conns -> Nat]
    /\ inbox \in [Conns -> Seq(Message)]
    /\ scopes \in [Conns -> SUBSET Scope]
    /\ signed \subseteq Payload
    /\ admitted \in [Conns -> [token : Secret, password : Secret,
                              device : BOOLEAN]]
    /\ admitTime \in [Conns -> Nat]
    /\ sent \in [Conns -> Seq(Frames)]
    /\ asked \in [Conns -> Nat]
    /\ early \in [Conns -> Nat]

(* A connection has scopes only if it is local and shows no device, or if  *)
(* a device signed exactly those scopes for this connection's challenge,   *)
(* together with the token it authenticated with, and not longer ago than  *)
(* the allowed skew (GrantedScopes, DeviceVerified): no signature made for *)
(* another connection, and no change of the scopes it covers, counts.      *)
EarnedScopes ==
    \A c \in Conns : scopes[c] # {} =>
        \/ c \notin Remote /\ ~admitted[c].device
        \/ \E p \in signed :
             /\ p.nonce = c
             /\ p.token = admitted[c].token
             /\ scopes[c] = ResolveScopes(p.scopes)
             /\ admitTime[c] - p.at <= Skew
             /\ p.at - admitTime[c] <= Skew

(* Without a configured credential no remote peer is ever admitted, and    *)
(* with one nobody, local or not, is admitted who did not name a           *)
(* configured secret (authorize_gateway_connect), whatever the mode and    *)
(* whatever else the client sends.                                         *)
OpenIsEntitled ==
    \A c \in Conns : phase[c] = "open" =>
        LET configured == {gate.token, gate.password} \ {NoSecret}
        IN  IF configured = {}
              THEN c \notin Remote
              ELSE {admitted[c].token, admitted[c].password}
                     \cap configured # {}

(* The gateway speaks first; its second frame is the hello or a refusal,   *)
(* nothing follows a refusal, and no message from before the connect       *)
(* request is ever answered (the handshake loop of handle_websocket).      *)
ReplyOrder ==
    \A c \in Conns :
        /\ \A i \in 1..Len(sent[c]) :
             /\ sent[c][i] = "challenge" <=> i = 1
             /\ sent[c][i] \in {"hello", "refused"} <=> i = 2
             /\ sent[c][i] = "refused" => phase[c] = "closed"
        /\ phase[c] = "open" =>
             Len(sent[c]) - 1 + Len(inbox[c]) + early[c] = asked[c]

(* Every handshake ends: the timeout closes the connection of a client     *)
(* that never sends a connect request, whatever else it sends.             *)
HandshakeEnds ==
    \A c \in Conns : phase[c] = "waiting" ~> phase[c] \in {"open", "closed"}
=============================================================================
