--------------------------- MODULE HandshakeProofs ---------------------------
(***************************************************************************)
(* For any connections, credentials, scope lists and clocks: a connection  *)
(* has only scopes it earned, is open only with a credential, and is       *)
(* answered in order.                                                      *)
(***************************************************************************)
EXTENDS Handshake, TLAPS

(* The bodies of EarnedScopes, OpenIsEntitled and ReplyOrder.              *)
Earned(c) ==
    scopes[c] # {} =>
        \/ c \notin Remote /\ ~admitted[c].device
        \/ \E p \in signed :
             /\ p.nonce = c
             /\ p.token = admitted[c].token
             /\ scopes[c] = ResolveScopes(p.scopes)
             /\ admitTime[c] - p.at <= Skew
             /\ p.at - admitTime[c] <= Skew

Entitled(c) ==
    phase[c] = "open" =>
        LET configured == {gate.token, gate.password} \ {NoSecret}
        IN  IF configured = {}
              THEN c \notin Remote
              ELSE {admitted[c].token, admitted[c].password}
                     \cap configured # {}

Ordered(c) ==
    /\ \A i \in 1..Len(sent[c]) :
         /\ sent[c][i] = "challenge" <=> i = 1
         /\ sent[c][i] \in {"hello", "refused"} <=> i = 2
         /\ sent[c][i] = "refused" => phase[c] = "closed"
    /\ phase[c] = "open" =>
         Len(sent[c]) - 1 + Len(inbox[c]) + early[c] = asked[c]

(* What makes them inductive.  A signature waiting to be read was made by  *)
(* a device.  While a connection waits, what is unread is the rest of the  *)
(* early messages, then the connect request and what came after it.        *)
Received(c) ==
    \A i \in 1..Len(inbox[c]) :
        LET params == inbox[c][i].params
        IN  /\ params # NoParams
            /\ params.device # NoDevice
            /\ params.device.signature # NoSignature
            => params.device.signature \in signed

EarlyFirst(s, k) ==
    /\ k <= Len(s)
    /\ \A i \in 1..Len(s) :
         /\ i <= Len(s) - k => s[i].kind # "connect"
         /\ i = Len(s) - k + 1 => s[i].kind = "connect"

Unread(c) ==
    /\ phase[c] = "new" => /\ sent[c] = <<>> /\ inbox[c] = <<>>
                           /\ asked[c] = 0 /\ early[c] = 0
    /\ phase[c] = "waiting" =>
         /\ sent[c] = <<"challenge">>
         /\ early[c] <= asked[c]
         /\ EarlyFirst(inbox[c], asked[c] - early[c])
    /\ phase[c] = "open" => Len(sent[c]) >= 2

ConnInv(c) ==
    Earned(c) /\ Entitled(c) /\ Ordered(c) /\ Received(c) /\ Unread(c)

HandshakeInv == TypeOK /\ \A c \in Conns : ConnInv(c)

-----------------------------------------------------------------------------
LEMMA InitInv == Init => HandshakeInv
<1> SUFFICES ASSUME Init PROVE HandshakeInv
  OBVIOUS
<1>1. PICK setup \in Setups : gate = ResolveAuth(setup)
  BY DEF Init
<1>2. /\ setup.mode \in {"Token", "Password"}
      /\ setup.token \in Secret /\ setup.password \in Secret
      /\ setup.env \in Secret
  BY HandshakeAssumption
<1>3. gate \in [mode : {"Token", "Password"}, token : Secret,
                password : Secret]
  BY <1>1, <1>2 DEF ResolveAuth
<1>4. Nothing \in [token : Secret, password : Secret, device : BOOLEAN]
  BY DEF Nothing, Secret
<1>5. TypeOK
  BY <1>3, <1>4 DEF Init, TypeOK
<1>6. ASSUME NEW c \in Conns PROVE ConnInv(c)
  BY DEF Init, ConnInv, Earned, Entitled, Ordered, Received, Unread
<1> QED
  BY <1>5, <1>6 DEF HandshakeInv

(* A step of connection c leaves the others alone.                         *)
OnlyOf(c) ==
    /\ UNCHANGED gate
    /\ signed \subseteq signed'
    /\ \A d \in Conns \ {c} :
         /\ phase'[d] = phase[d]
         /\ inbox'[d] = inbox[d]
         /\ scopes'[d] = scopes[d]
         /\ admitted'[d] = admitted[d]
         /\ admitTime'[d] = admitTime[d]
         /\ sent'[d] = sent[d]
         /\ asked'[d] = asked[d]
         /\ early'[d] = early[d]

LEMMA OthersKeep ==
  ASSUME HandshakeInv, NEW c \in Conns, OnlyOf(c), NEW d \in Conns \ {c}
  PROVE  ConnInv(d)'
<1>1. ConnInv(d)
  BY DEF HandshakeInv
<1>2. Earned(d)'
  BY <1>1 DEF ConnInv, Earned, OnlyOf, ResolveScopes
<1>3. Entitled(d)'
  BY <1>1 DEF ConnInv, Entitled, OnlyOf
<1>4. Ordered(d)'
  BY ZenonT(40), <1>1 DEF ConnInv, Ordered, OnlyOf
<1>5. Received(d)'
  BY <1>1 DEF ConnInv, Received, OnlyOf
<1>6. Unread(d)'
  BY <1>1 DEF ConnInv, Unread, OnlyOf
<1> QED
  BY <1>2, <1>3, <1>4, <1>5, <1>6 DEF ConnInv

(* It is enough to look at connection c.                                   *)
LEMMA OneConnection ==
  ASSUME HandshakeInv, NEW c \in Conns, OnlyOf(c), TypeOK', ConnInv(c)'
  PROVE  HandshakeInv'
  BY OthersKeep DEF HandshakeInv

(* Sequences: what reading and appending do.                               *)
LEMMA AppendFacts ==
  ASSUME NEW S, NEW s \in Seq(S), NEW e \in S
  PROVE  /\ Append(s, e) \in Seq(S)
         /\ Len(Append(s, e)) = Len(s) + 1
         /\ \A i \in 1..Len(s) : Append(s, e)[i] = s[i]
         /\ Append(s, e)[Len(s) + 1] = e
  OBVIOUS

LEMMA TailFacts ==
  ASSUME NEW S, NEW s \in Seq(S), s # <<>>
  PROVE  /\ Tail(s) \in Seq(S)
         /\ Len(Tail(s)) = Len(s) - 1
         /\ Len(s) >= 1
         /\ Head(s) \in S
         /\ Head(s) = s[1]
         /\ \A i \in 1..Len(Tail(s)) : Tail(s)[i] = s[i + 1]
  OBVIOUS

(* Dropping an early message, and adding one at the end.                   *)
LEMMA EarlyFirstTail ==
  ASSUME NEW s \in Seq(Message), s # <<>>, NEW k \in Nat, EarlyFirst(s, k),
         s[1].kind # "connect"
  PROVE  EarlyFirst(Tail(s), k)
<1>1. /\ Len(Tail(s)) = Len(s) - 1
      /\ Len(s) >= 1
      /\ \A i \in 1..Len(Tail(s)) : Tail(s)[i] = s[i + 1]
  BY TailFacts
<1>2. Len(s) \in Nat /\ k < Len(s)
  BY <1>1 DEF EarlyFirst
<1>3. ASSUME NEW i \in 1..Len(Tail(s))
      PROVE  /\ i <= Len(Tail(s)) - k => Tail(s)[i].kind # "connect"
             /\ i = Len(Tail(s)) - k + 1 => Tail(s)[i].kind = "connect"
  <2>1. Tail(s)[i] = s[i + 1] /\ i + 1 \in 1..Len(s)
    BY <1>1, <1>2
  <2>2. /\ i + 1 <= Len(s) - k => s[i + 1].kind # "connect"
        /\ i + 1 = Len(s) - k + 1 => s[i + 1].kind = "connect"
    BY <2>1 DEF EarlyFirst
  <2>3. \A n, m \in Nat : m = n - 1 =>
          /\ i <= m - k => i + 1 <= n - k
          /\ i = m - k + 1 => i + 1 = n - k + 1
    OBVIOUS
  <2>4. Len(Tail(s)) \in Nat
    BY <1>1, <1>2
  <2> QED
    BY <1>1, <1>2, <2>1, <2>2, <2>3, <2>4
<1>4. k <= Len(Tail(s))
  BY <1>1, <1>2
<1> QED
  BY <1>3, <1>4 DEF EarlyFirst

LEMMA EarlyFirstAppend ==
  ASSUME NEW s \in Seq(Message), NEW e \in Message, NEW k \in Nat,
         EarlyFirst(s, k)
  PROVE  /\ k = 0 /\ e.kind # "connect" => EarlyFirst(Append(s, e), 0)
         /\ k > 0 \/ e.kind = "connect" => EarlyFirst(Append(s, e), k + 1)
<1>1. /\ Len(Append(s, e)) = Len(s) + 1
      /\ \A i \in 1..Len(s) : Append(s, e)[i] = s[i]
      /\ Append(s, e)[Len(s) + 1] = e
      /\ Len(s) \in Nat
  BY AppendFacts
<1>2. \A i \in 1..(Len(s) + 1) : i \in 1..Len(s) \/ i = Len(s) + 1
  BY <1>1
<1>3. ASSUME k = 0, e.kind # "connect" PROVE EarlyFirst(Append(s, e), 0)
  BY <1>1, <1>2, <1>3 DEF EarlyFirst
<1>4. ASSUME k > 0 \/ e.kind = "connect"
      PROVE  EarlyFirst(Append(s, e), k + 1)
  <2> DEFINE t == Append(s, e)
  <2>1. k <= Len(s) /\ k + 1 <= Len(t)
    BY <1>1 DEF EarlyFirst
  <2>2. ASSUME NEW i \in 1..Len(t)
        PROVE  /\ i <= Len(t) - (k + 1) => t[i].kind # "connect"
               /\ i = Len(t) - (k + 1) + 1 => t[i].kind = "connect"
    <3>1. CASE i \in 1..Len(s)
      <4>1. t[i] = s[i]
        BY <1>1, <3>1
      <4>2. /\ i <= Len(s) - k => s[i].kind # "connect"
            /\ i = Len(s) - k + 1 => s[i].kind = "connect"
        BY <3>1 DEF EarlyFirst
      <4> QED
        BY <1>1, <4>1, <4>2
    <3>2. CASE i = Len(s) + 1
      <4>1. t[i] = e
        BY <1>1, <3>2
      <4> QED
        BY <1>1, <1>4, <3>2, <4>1
    <3> QED
      BY <1>1, <3>1, <3>2
  <2> QED
    BY <2>1, <2>2 DEF EarlyFirst
<1> QED
  BY <1>3, <1>4

-----------------------------------------------------------------------------
(* The connection ends, with or without a last frame.                      *)
Ends(c) ==
    /\ Drop(c)
    /\ phase[c] \in {"new", "waiting", "open"}
    /\ \/ UNCHANGED sent
       \/ phase[c] = "waiting" /\ Send(c, "refused")
    /\ UNCHANGED <<now, gate, deadline, signed, asked, early>>

LEMMA EndsInv ==
  ASSUME HandshakeInv, NEW c \in Conns, Ends(c)
  PROVE  HandshakeInv'
<1>1. TypeOK /\ ConnInv(c)
  BY DEF HandshakeInv
<1>2. sent[c] \in Seq(Frames) /\ "refused" \in Frames
  BY <1>1 DEF TypeOK, Frames
<1>3. /\ Append(sent[c], "refused") \in Seq(Frames)
      /\ Len(Append(sent[c], "refused")) = Len(sent[c]) + 1
      /\ \A i \in 1..Len(sent[c]) : Append(sent[c], "refused")[i] = sent[c][i]
      /\ Append(sent[c], "refused")[Len(sent[c]) + 1] = "refused"
  BY <1>2, AppendFacts
<1>4. TypeOK'
  <2>1. /\ phase' \in [Conns -> {"new", "waiting", "open", "closed"}]
        /\ inbox' \in [Conns -> Seq(Message)]
        /\ scopes' \in [Conns -> SUBSET Scope]
        /\ admitTime' \in [Conns -> Nat]
    BY <1>1 DEF Ends, Drop, GoTo, TypeOK
  <2>2. Nothing \in [token : Secret, password : Secret, device : BOOLEAN]
    BY DEF Nothing, Secret
  <2>3. admitted' \in [Conns -> [token : Secret, password : Secret,
                                 device : BOOLEAN]]
    BY <1>1, <2>2 DEF Ends, Drop, TypeOK
  <2>4. sent' \in [Conns -> Seq(Frames)]
    BY <1>1, <1>3 DEF Ends, Send, TypeOK
  <2> QED
    BY <1>1, <2>1, <2>3, <2>4 DEF Ends, TypeOK
<1>5. OnlyOf(c)
  BY <1>1 DEF Ends, Drop, GoTo, Send, OnlyOf, TypeOK
<1>6. ConnInv(c)'
  <2>1. /\ phase'[c] = "closed" /\ inbox'[c] = <<>> /\ scopes'[c] = {}
    BY <1>1 DEF Ends, Drop, GoTo, TypeOK
  <2>2. Earned(c)' /\ Entitled(c)' /\ Received(c)' /\ Unread(c)'
    BY <2>1 DEF Earned, Entitled, Received, Unread
  <2>3. Ordered(c)'
    <3>1. CASE UNCHANGED sent
      BY <1>1, <2>1, <3>1 DEF ConnInv, Ordered
    <3>2. CASE phase[c] = "waiting" /\ Send(c, "refused")
      <4>1. sent[c] = <<"challenge">> /\ Len(sent[c]) = 1
        BY <1>1, <3>2 DEF ConnInv, Unread
      <4>2. sent'[c] = Append(sent[c], "refused")
        BY <1>1, <3>2 DEF Send, TypeOK
      <4>3. /\ Len(sent'[c]) = 2
            /\ sent'[c][1] = "challenge" /\ sent'[c][2] = "refused"
        BY <1>3, <4>1, <4>2
      <4> QED
        BY <2>1, <4>3 DEF Ordered
    <3> QED
      BY <3>1, <3>2 DEF Ends
  <2> QED
    BY <2>2, <2>3 DEF ConnInv
<1> QED
  BY <1>4, <1>5, <1>6, OneConnection

(* The socket is accepted.                                                 *)
LEMMA AcceptInv ==
  ASSUME HandshakeInv, NEW c \in Conns, Accept(c)
  PROVE  HandshakeInv'
<1>1. TypeOK /\ ConnInv(c)
  BY DEF HandshakeInv
<1>2. sent[c] = <<>> /\ inbox[c] = <<>> /\ asked[c] = 0 /\ early[c] = 0
  BY <1>1 DEF Accept, ConnInv, Unread
<1>3. sent'[c] = <<"challenge">> /\ phase'[c] = "waiting"
  BY <1>1, <1>2 DEF Accept, Send, GoTo, TypeOK
<1>4. TypeOK'
  <2>1. phase' \in [Conns -> {"new", "waiting", "open", "closed"}]
    BY <1>1 DEF Accept, GoTo, TypeOK
  <2>2. deadline' \in [Conns -> Nat]
    BY <1>1, HandshakeAssumption DEF Accept, TypeOK
  <2>3. <<"challenge">> \in Seq(Frames)
    BY DEF Frames
  <2>4. sent' \in [Conns -> Seq(Frames)]
    BY <1>1, <1>2, <2>3 DEF Accept, Send, TypeOK
  <2> QED
    BY <1>1, <2>1, <2>2, <2>4 DEF Accept, TypeOK
<1>5. OnlyOf(c)
  BY <1>1 DEF Accept, GoTo, Send, OnlyOf, TypeOK
<1>6. ConnInv(c)'
  <2>1. Earned(c)'
    BY <1>1 DEF Accept, ConnInv, Earned, ResolveScopes
  <2>2. Entitled(c)' /\ Ordered(c)'
    BY <1>3 DEF Entitled, Ordered
  <2>3. Received(c)' /\ Unread(c)'
    BY <1>2, <1>3 DEF Accept, Received, Unread, EarlyFirst
  <2> QED
    BY <2>1, <2>2, <2>3 DEF ConnInv
<1> QED
  BY <1>4, <1>5, <1>6, OneConnection

(* An early message is dropped: it was one of the early ones.              *)
LEMMA IgnoreEarlyInv ==
  ASSUME HandshakeInv, NEW c \in Conns, IgnoreEarly(c)
  PROVE  HandshakeInv'
<1>1. TypeOK /\ ConnInv(c)
  BY DEF HandshakeInv
<1>2. /\ inbox[c] \in Seq(Message) /\ inbox[c] # <<>>
      /\ asked[c] \in Nat /\ early[c] \in Nat
  BY <1>1 DEF IgnoreEarly, TypeOK
<1>3. /\ Tail(inbox[c]) \in Seq(Message)
      /\ Len(Tail(inbox[c])) = Len(inbox[c]) - 1
      /\ Len(inbox[c]) >= 1
      /\ Head(inbox[c]) = inbox[c][1]
      /\ \A i \in 1..Len(Tail(inbox[c])) :
           Tail(inbox[c])[i] = inbox[c][i + 1]
  BY <1>2, TailFacts
<1>4. inbox'[c] = Tail(inbox[c]) /\ phase'[c] = "waiting"
  BY <1>1 DEF IgnoreEarly, Read, TypeOK
<1>5. TypeOK'
  BY <1>1, <1>3 DEF IgnoreEarly, Read, TypeOK
<1>6. OnlyOf(c)
  BY <1>1 DEF IgnoreEarly, Read, OnlyOf, TypeOK
<1>7. ConnInv(c)'
  <2>1. Earned(c)' /\ Entitled(c)'
    BY <1>1, <1>4 DEF IgnoreEarly, ConnInv, Earned, Entitled, ResolveScopes
  <2>2. Ordered(c)'
    BY <1>1, <1>4 DEF IgnoreEarly, ConnInv, Ordered
  <2>3. Received(c)'
    <3>1. \A i \in 1..Len(inbox'[c]) : /\ inbox'[c][i] = inbox[c][i + 1]
                                       /\ i + 1 \in 1..Len(inbox[c])
      BY <1>2, <1>3, <1>4
    <3> QED
      BY <1>1, <3>1 DEF IgnoreEarly, ConnInv, Received
  <2>4. Unread(c)'
    <3>1. inbox[c][1].kind # "connect"
      BY <1>3 DEF IgnoreEarly
    <3>2. /\ sent[c] = <<"challenge">> /\ early[c] <= asked[c]
          /\ EarlyFirst(inbox[c], asked[c] - early[c])
      BY <1>1 DEF IgnoreEarly, ConnInv, Unread
    <3>3. asked[c] - early[c] \in Nat
      BY <1>2, <3>2
    <3>4. EarlyFirst(inbox'[c], asked[c] - early[c])
      BY <1>2, <1>4, <3>1, <3>2, <3>3, EarlyFirstTail
    <3> QED
      BY <1>4, <3>2, <3>4 DEF IgnoreEarly, Unread
  <2> QED
    BY <2>1, <2>2, <2>3, <2>4 DEF ConnInv
<1> QED
  BY <1>5, <1>6, <1>7, OneConnection

(* The connect request in front of the queue.                              *)
LEMMA ConnectMessage ==
  ASSUME TypeOK, NEW c \in Conns, inbox[c] # <<>>
  PROVE  /\ Head(inbox[c]) = inbox[c][1]
         /\ Head(inbox[c]).params \in ConnectParams \cup {NoParams}
<1>1. inbox[c] \in Seq(Message)
  BY DEF TypeOK
<1>2. Head(inbox[c]) = inbox[c][1] /\ Head(inbox[c]) \in Message
  BY <1>1, TailFacts
<1> QED
  BY <1>2 DEF Message

(* What a verified device shows: a signature over the params, for this     *)
(* connection and of this moment.                                          *)
LEMMA VerifiedPayload ==
  ASSUME NEW c \in Conns, NEW params \in ConnectParams,
         params.device # NoDevice, DeviceVerified(c, params)
  PROVE  LET p == params.device.signature
         IN  /\ p # NoSignature
             /\ p.nonce = c
             /\ p.token = params.auth.token
             /\ p.scopes = params.scopes
             /\ now - p.at <= Skew
             /\ p.at - now <= Skew
<1>1. PICK ver \in {"v2", "v3"} :
        params.device.signature = Rebuilt(ver, params)
  BY DEF DeviceVerified
<1> QED
  BY <1>1 DEF DeviceVerified, Rebuilt

(* The credential of an authorised peer.                                   *)
LEMMA AuthorizedEntitled ==
  ASSUME NEW c \in Conns, NEW auth \in Cred, Authorized(c, auth)
  PROVE  LET configured == {gate.token, gate.password} \ {NoSecret}
         IN  IF configured = {}
               THEN c \notin Remote
               ELSE {auth.token, auth.password} \cap configured # {}
<1>1. CASE gate.token = NoSecret /\ gate.password = NoSecret
  BY <1>1 DEF Authorized
<1>2. CASE ~(gate.token = NoSecret /\ gate.password = NoSecret)
  BY <1>2 DEF Authorized
<1> QED
  BY <1>1, <1>2

LEMMA GrantedType ==
  ASSUME NEW c \in Conns, NEW params
  PROVE  GrantedScopes(c, params) \in SUBSET Scope
  BY DEF GrantedScopes, ResolveScopes

(* The connect request is accepted.                                        *)
LEMMA ConnectAcceptedInv ==
  ASSUME HandshakeInv, NEW c \in Conns, ConnectAccepted(c)
  PROVE  HandshakeInv'
<1> DEFINE params == Head(inbox[c]).params
<1>1. TypeOK /\ ConnInv(c)
  BY DEF HandshakeInv
<1>2. /\ params \in ConnectParams
      /\ params = inbox[c][1].params
      /\ inbox[c][1].kind = "connect"
      /\ params # NoParams
  BY <1>1, ConnectMessage DEF ConnectAccepted
<1>3. params.auth \in Cred /\ Authorized(c, params.auth)
  BY <1>2 DEF ConnectAccepted, ConnectParams
<1>4. /\ scopes' = [scopes EXCEPT ![c] = GrantedScopes(c, params)]
      /\ admitted' = [admitted EXCEPT ![c] = Presented(params)]
      /\ admitTime' = [admitTime EXCEPT ![c] = now]
  BY DEF ConnectAccepted
<1>5. /\ inbox[c] \in Seq(Message) /\ inbox[c] # <<>>
      /\ asked[c] \in Nat /\ early[c] \in Nat
  BY <1>1 DEF ConnectAccepted, TypeOK
<1>6. /\ Tail(inbox[c]) \in Seq(Message)
      /\ Len(Tail(inbox[c])) = Len(inbox[c]) - 1
      /\ Len(inbox[c]) >= 1
      /\ \A i \in 1..Len(Tail(inbox[c])) :
           Tail(inbox[c])[i] = inbox[c][i + 1]
  BY <1>5, TailFacts
<1>7. /\ Len(sent'[c]) = 2
      /\ sent'[c][1] = "challenge" /\ sent'[c][2] = "hello"
  <2>1. sent[c] = <<"challenge">> /\ Len(sent[c]) = 1
    BY <1>1 DEF ConnectAccepted, ConnInv, Unread
  <2>2. sent'[c] = Append(sent[c], "hello")
    BY <1>1 DEF ConnectAccepted, Send, TypeOK
  <2>3. sent[c] \in Seq(Frames) /\ "hello" \in Frames
    BY <1>1 DEF TypeOK, Frames
  <2> QED
    BY <2>1, <2>2, <2>3, AppendFacts
<1>8. /\ scopes'[c] = GrantedScopes(c, params)
      /\ admitted'[c] = Presented(params)
      /\ admitTime'[c] = now
      /\ inbox'[c] = Tail(inbox[c])
      /\ phase'[c] = "open"
  BY <1>1, <1>4 DEF ConnectAccepted, Read, GoTo, TypeOK
<1>9. TypeOK'
  <2>1. scopes' \in [Conns -> SUBSET Scope]
    BY <1>1, <1>4, GrantedType DEF TypeOK
  <2>2. Presented(params) \in [token : Secret, password : Secret,
                               device : BOOLEAN]
    BY <1>3 DEF Presented, Cred
  <2>3. admitted' \in [Conns -> [token : Secret, password : Secret,
                                 device : BOOLEAN]]
    BY <1>1, <1>4, <2>2 DEF TypeOK
  <2>4. sent' \in [Conns -> Seq(Frames)]
    <3>1. sent[c] \in Seq(Frames) /\ "hello" \in Frames
      BY <1>1 DEF TypeOK, Frames
    <3>2. Append(sent[c], "hello") \in Seq(Frames)
      BY <3>1, AppendFacts
    <3> QED
      BY <1>1, <3>2 DEF ConnectAccepted, Send, TypeOK
  <2>5. phase' \in [Conns -> {"new", "waiting", "open", "closed"}]
    BY <1>1 DEF ConnectAccepted, GoTo, TypeOK
  <2>6. inbox' \in [Conns -> Seq(Message)] /\ admitTime' \in [Conns -> Nat]
    BY <1>1, <1>4, <1>6 DEF ConnectAccepted, Read, TypeOK
  <2> QED
    BY <1>1, <2>1, <2>3, <2>4, <2>5, <2>6 DEF ConnectAccepted, TypeOK
<1>10. OnlyOf(c)
  BY <1>1, <1>4 DEF ConnectAccepted, GoTo, Send, Read, OnlyOf, TypeOK
<1>11. ConnInv(c)'
  <2>1. Earned(c)'
    <3>0. CASE scopes'[c] = {}
      BY <3>0 DEF Earned
    <3>1. CASE scopes'[c] # {} /\ params.device = NoDevice
      <4>1. c \notin Remote
        BY <1>8, <3>1 DEF GrantedScopes
      <4>2. ~admitted'[c].device
        <5>1. Presented(params).device = (params.device # NoDevice)
          BY Zenon DEF Presented
        <5>2. admitted'[c].device = (params.device # NoDevice)
          BY <1>8, <5>1, Zenon
        <5> QED
          BY <3>1, <5>2, Zenon
      <4> QED
        BY <4>1, <4>2 DEF Earned
    <3>2. CASE scopes'[c] # {} /\ params.device # NoDevice
      <4>1. DeviceVerified(c, params)
        BY <1>8, <3>2 DEF GrantedScopes
      <4>2. /\ params.device.signature # NoSignature
            /\ params.device.signature.nonce = c
            /\ params.device.signature.token = params.auth.token
            /\ params.device.signature.scopes = params.scopes
            /\ now - params.device.signature.at <= Skew
            /\ params.device.signature.at - now <= Skew
        BY <1>2, <3>2, <4>1, VerifiedPayload
      <4>3. params.device.signature \in signed
        <5>1. 1 \in 1 .. Len(inbox[c])
          BY <1>5, <1>6
        <5>2. Received(c)
          BY <1>1 DEF ConnInv
        <5> QED BY <5>1, <5>2, <1>2, <3>2, <4>2, Zenon DEF Received
      <4>4. GrantedScopes(c, params) = ResolveScopes(params.scopes)
        BY <3>2, <4>1 DEF GrantedScopes
      <4>5. admitted'[c].token = params.auth.token
        BY <1>8 DEF Presented
      <4> QED
        BY <1>8, <4>2, <4>3, <4>4, <4>5
           DEF Earned, ResolveScopes, ConnectAccepted
    <3> QED
      BY <3>0, <3>1, <3>2
  <2>2. Entitled(c)'
    <3>1. /\ admitted'[c].token = params.auth.token
          /\ admitted'[c].password = params.auth.password
          /\ gate' = gate
      BY <1>8 DEF Presented, ConnectAccepted
    <3>2. LET configured == {gate.token, gate.password} \ {NoSecret}
          IN  IF configured = {}
                THEN c \notin Remote
                ELSE {params.auth.token, params.auth.password}
                       \cap configured # {}
      BY <1>3, AuthorizedEntitled
    <3> QED
      BY <3>1, <3>2 DEF Entitled
  <2>3. Len(inbox[c]) = asked[c] - early[c]
    <3>1. EarlyFirst(inbox[c], asked[c] - early[c])
      BY <1>1 DEF ConnectAccepted, ConnInv, Unread
    <3>2. ~(1 <= Len(inbox[c]) - (asked[c] - early[c]))
      BY <1>2, <1>5, <1>6, <3>1 DEF EarlyFirst
    <3> QED
      BY <1>5, <3>1, <3>2 DEF EarlyFirst
  <2>4. Ordered(c)'
    <3>1. \A i \in 1..Len(sent'[c]) :
             /\ sent'[c][i] = "challenge" <=> i = 1
             /\ sent'[c][i] \in {"hello", "refused"} <=> i = 2
             /\ sent'[c][i] # "refused"
      BY <1>7
    <3>2. Len(sent'[c]) - 1 + Len(inbox'[c]) + early[c] = asked[c]
      BY <1>5, <1>6, <1>7, <1>8, <2>3
    <3> QED
      BY <3>1, <3>2 DEF Ordered, ConnectAccepted
  <2>5. Received(c)'
    <3>1. \A i \in 1..Len(inbox'[c]) : /\ inbox'[c][i] = inbox[c][i + 1]
                                       /\ i + 1 \in 1..Len(inbox[c])
      BY <1>5, <1>6, <1>8
    <3> QED
      BY <1>1, <3>1 DEF ConnectAccepted, ConnInv, Received
  <2>6. Unread(c)'
    BY <1>7, <1>8 DEF Unread
  <2> QED
    BY <2>1, <2>2, <2>4, <2>5, <2>6 DEF ConnInv
<1> QED
  BY <1>9, <1>10, <1>11, OneConnection

(* Len under another name: the SMT backend does not add two lengths.       *)
Size(s) == Len(s)

(* A request on an open connection is answered.                            *)
LEMMA RequestInv ==
  ASSUME HandshakeInv, NEW c \in Conns, Request(c)
  PROVE  HandshakeInv'
<1> DEFINE frame == IF /\ Head(inbox[c]).kind = "chat.send"
                       /\ "write" \notin scopes[c]
                      THEN "denied" ELSE "response"
<1>1. TypeOK /\ ConnInv(c)
  BY DEF HandshakeInv
<1>2. /\ inbox[c] \in Seq(Message) /\ inbox[c] # <<>>
      /\ asked[c] \in Nat /\ early[c] \in Nat
      /\ sent[c] \in Seq(Frames) /\ Len(sent[c]) \in Nat
  BY <1>1 DEF Request, TypeOK
<1>3. /\ Tail(inbox[c]) \in Seq(Message)
      /\ Len(Tail(inbox[c])) = Len(inbox[c]) - 1
      /\ Len(inbox[c]) >= 1
      /\ \A i \in 1..Len(Tail(inbox[c])) :
           Tail(inbox[c])[i] = inbox[c][i + 1]
  BY <1>2, TailFacts
<1>4. frame \in Frames /\ frame \notin {"challenge", "hello", "refused"}
  BY DEF Frames
<1>5. /\ Append(sent[c], frame) \in Seq(Frames)
      /\ Len(Append(sent[c], frame)) = Len(sent[c]) + 1
      /\ \A i \in 1..Len(sent[c]) : Append(sent[c], frame)[i] = sent[c][i]
      /\ Append(sent[c], frame)[Len(sent[c]) + 1] = frame
  BY <1>2, <1>4, AppendFacts
<1>6. /\ inbox'[c] = Tail(inbox[c])
      /\ sent'[c] = Append(sent[c], frame)
      /\ phase[c] = "open" /\ phase' = phase
  BY <1>1 DEF Request, Read, Send, TypeOK
<1>7. TypeOK'
  BY <1>1, <1>3, <1>5 DEF Request, Read, Send, TypeOK
<1>8. OnlyOf(c)
  BY <1>1 DEF Request, Read, Send, OnlyOf, TypeOK
<1>9. ConnInv(c)'
  <2>1. Earned(c)' /\ Entitled(c)'
    BY <1>1 DEF Request, ConnInv, Earned, Entitled, ResolveScopes
  <2>2. Len(sent[c]) >= 2
    BY <1>1, <1>6 DEF ConnInv, Unread
  <2>3. Ordered(c)'
    <3>1. ASSUME NEW i \in 1..Len(sent'[c])
          PROVE  /\ sent'[c][i] = "challenge" <=> i = 1
                 /\ sent'[c][i] \in {"hello", "refused"} <=> i = 2
                 /\ sent'[c][i] # "refused"
      <4>1. CASE i \in 1..Len(sent[c])
        BY <1>1, <1>5, <1>6, <4>1 DEF ConnInv, Ordered
      <4>2. CASE i = Len(sent[c]) + 1
        BY <1>2, <1>4, <1>5, <1>6, <2>2, <4>2
      <4> QED
        BY <1>2, <1>5, <1>6, <4>1, <4>2
    <3>2. Len(sent[c]) - 1 + Len(inbox[c]) + early[c] = asked[c]
      BY <1>1, <1>6 DEF ConnInv, Ordered
    <3>3. Len(sent'[c]) - 1 + Len(inbox'[c]) + early[c] = asked[c]
      <4>1. Size(inbox[c]) \in Nat /\ Size(sent[c]) \in Nat
        BY <1>2 DEF Size
      <4>2. Size(sent[c]) - 1 + Size(inbox[c]) + early[c] = asked[c]
        BY <3>2 DEF Size
      <4>3. /\ Size(sent'[c]) = Size(sent[c]) + 1
            /\ Size(inbox'[c]) = Size(inbox[c]) - 1
        BY <1>3, <1>5, <1>6 DEF Size
      <4>4. asked[c] \in Nat /\ early[c] \in Nat
        BY <1>2
      <4>5. Size(sent'[c]) - 1 + Size(inbox'[c]) + early[c] = asked[c]
        BY <4>1, <4>2, <4>3, <4>4
      <4> QED
        BY <4>5 DEF Size
    <3> QED
      BY <3>1, <3>3 DEF Ordered, Request
  <2>4. Received(c)'
    <3>1. \A i \in 1..Len(inbox'[c]) : /\ inbox'[c][i] = inbox[c][i + 1]
                                       /\ i + 1 \in 1..Len(inbox[c])
      BY <1>2, <1>3, <1>6
    <3> QED
      BY <1>1, <3>1 DEF Request, ConnInv, Received
  <2>5. Unread(c)'
    BY <1>2, <1>5, <1>6, <2>2 DEF Unread
  <2> QED
    BY <2>1, <2>3, <2>4, <2>5 DEF ConnInv
<1> QED
  BY <1>7, <1>8, <1>9, OneConnection

-----------------------------------------------------------------------------
(* The client sends a message: it goes behind what is unread, and a        *)
(* signature in it has been made by a device.                              *)
Sends(c, message) ==
    /\ SendMessage(c, message)
    /\ early'[c] = IF message.kind # "connect" /\ asked[c] = early[c]
                     THEN early[c] + 1 ELSE early[c]
    /\ early' \in [Conns -> Nat]
    /\ \A d \in Conns \ {c} : early'[d] = early[d]
    /\ signed \subseteq signed' /\ signed' \subseteq Payload
    /\ message.params # NoParams /\ message.params.device # NoDevice
       /\ message.params.device.signature # NoSignature
         => message.params.device.signature \in signed'
    /\ UNCHANGED <<now, gate, phase, deadline, scopes, admitted, admitTime,
                   sent>>

LEMMA SendsInv ==
  ASSUME HandshakeInv, NEW c \in Conns, NEW message \in Message,
         Sends(c, message)
  PROVE  HandshakeInv'
<1>1. TypeOK /\ ConnInv(c)
  BY DEF HandshakeInv
<1>2. /\ inbox[c] \in Seq(Message) /\ Len(inbox[c]) \in Nat
      /\ asked[c] \in Nat /\ early[c] \in Nat
  BY <1>1 DEF TypeOK
<1>3. /\ Append(inbox[c], message) \in Seq(Message)
      /\ Len(Append(inbox[c], message)) = Len(inbox[c]) + 1
      /\ \A i \in 1..Len(inbox[c]) :
           Append(inbox[c], message)[i] = inbox[c][i]
      /\ Append(inbox[c], message)[Len(inbox[c]) + 1] = message
  BY <1>2, AppendFacts
<1>4. /\ inbox'[c] = Append(inbox[c], message)
      /\ asked'[c] = asked[c] + 1
      /\ phase[c] \in {"waiting", "open"} /\ phase' = phase /\ sent' = sent
  BY <1>1 DEF Sends, SendMessage, TypeOK
<1>5. TypeOK'
  <2>1. inbox' \in [Conns -> Seq(Message)] /\ asked' \in [Conns -> Nat]
    BY <1>1, <1>3 DEF Sends, SendMessage, TypeOK
  <2> QED
    BY <1>1, <2>1 DEF Sends, TypeOK
<1>6. OnlyOf(c)
  BY <1>1 DEF Sends, SendMessage, OnlyOf, TypeOK
<1>9. /\ Size(inbox[c]) \in Nat /\ Size(sent[c]) \in Nat
      /\ asked[c] \in Nat /\ early[c] \in Nat
      /\ Size(inbox'[c]) = Size(inbox[c]) + 1
  <2>1. sent[c] \in Seq(Frames)
    BY <1>1 DEF TypeOK
  <2> QED
    BY <1>2, <1>3, <1>4, <2>1 DEF Size
<1>10. phase[c] = "open" =>
         /\ Size(sent[c]) >= 2
         /\ Size(sent[c]) - 1 + Size(inbox[c]) + early[c] = asked[c]
  BY <1>1 DEF ConnInv, Ordered, Unread, Size
<1>7. early[c] <= asked[c]
  <2>1. CASE phase[c] = "waiting"
    BY <1>1, <2>1 DEF ConnInv, Unread
  <2>2. CASE phase[c] = "open"
    BY <1>9, <1>10, <2>2
  <2> QED
    BY <1>4, <2>1, <2>2
<1>8. ConnInv(c)'
  <2>1. Earned(c)' /\ Entitled(c)'
    BY <1>1 DEF Sends, ConnInv, Earned, Entitled, ResolveScopes
  <2>2. Ordered(c)'
    <3>1. \A i \in 1..Len(sent[c]) :
             /\ sent[c][i] = "challenge" <=> i = 1
             /\ sent[c][i] \in {"hello", "refused"} <=> i = 2
             /\ sent[c][i] = "refused" => phase[c] = "closed"
      BY <1>1 DEF ConnInv, Ordered
    <3>2. ASSUME phase[c] = "open"
          PROVE  Len(sent[c]) - 1 + Len(inbox'[c]) + early'[c] = asked'[c]
      <4>1. early'[c] = early[c]
        <5>1. asked[c] # early[c]
          BY <1>9, <1>10, <3>2
        <5> QED
          BY <5>1 DEF Sends
      <4>2. Size(sent[c]) - 1 + Size(inbox'[c]) + early'[c] = asked'[c]
        BY <1>4, <1>9, <1>10, <3>2, <4>1
      <4> QED
        BY <4>2 DEF Size
    <3> QED
      BY <1>4, <3>1, <3>2 DEF Ordered
  <2>3. Received(c)'
    <3>1. ASSUME NEW i \in 1..Len(inbox'[c])
          PROVE  LET params == inbox'[c][i].params
                 IN  /\ params # NoParams
                     /\ params.device # NoDevice
                     /\ params.device.signature # NoSignature
                     => params.device.signature \in signed'
      <4>1. CASE i \in 1..Len(inbox[c])
        BY <1>1, <1>3, <1>4, <4>1 DEF Sends, ConnInv, Received
      <4>2. CASE i = Len(inbox[c]) + 1
        BY <1>3, <1>4, <4>2 DEF Sends
      <4> QED
        BY <1>2, <1>3, <1>4, <4>1, <4>2
    <3> QED
      BY <3>1 DEF Received
  <2>4. Unread(c)'
    <3>1. ASSUME phase[c] = "waiting"
          PROVE  /\ sent[c] = <<"challenge">>
                 /\ early'[c] <= asked'[c]
                 /\ EarlyFirst(inbox'[c], asked'[c] - early'[c])
      <4>1. /\ sent[c] = <<"challenge">>
            /\ EarlyFirst(inbox[c], asked[c] - early[c])
        BY <1>1, <3>1 DEF ConnInv, Unread
      <4>2. asked[c] - early[c] \in Nat
        BY <1>2, <1>7
      <4>3. CASE message.kind # "connect" /\ asked[c] = early[c]
        <5>1. early'[c] = early[c] + 1 /\ asked[c] - early[c] = 0
          BY <1>2, <4>3 DEF Sends
        <5>2. asked'[c] - early'[c] = 0
          BY <1>2, <1>4, <4>3, <5>1
        <5>3. EarlyFirst(inbox'[c], 0)
          BY <1>2, <1>4, <4>1, <4>3, <5>1, EarlyFirstAppend
        <5> QED
          BY <1>2, <1>4, <4>1, <4>3, <5>1, <5>2, <5>3
      <4>4. CASE ~(message.kind # "connect" /\ asked[c] = early[c])
        <5>1. early'[c] = early[c]
          BY <4>4 DEF Sends
        <5>2. asked[c] - early[c] > 0 \/ message.kind = "connect"
          BY <1>2, <1>7, <4>4
        <5>3. EarlyFirst(inbox'[c], asked[c] - early[c] + 1)
          BY <1>2, <1>4, <4>1, <4>2, <5>2, EarlyFirstAppend
        <5>4. asked'[c] - early'[c] = asked[c] - early[c] + 1
          BY <1>2, <1>4, <5>1
        <5> QED
          BY <1>2, <1>4, <1>7, <4>1, <5>1, <5>3, <5>4
      <4> QED
        BY <4>3, <4>4
    <3>2. phase[c] = "open" => Len(sent[c]) >= 2
      BY <1>1 DEF ConnInv, Unread
    <3> QED
      BY <1>4, <3>1, <3>2 DEF Unread
  <2> QED
    BY <2>1, <2>2, <2>3, <2>4 DEF ConnInv
<1> QED
  BY <1>5, <1>6, <1>8, OneConnection

LEMMA SendOtherInv ==
  ASSUME HandshakeInv, NEW c \in Conns, NEW kind \in Kinds,
         SendOther(c, kind)
  PROVE  HandshakeInv'
<1> DEFINE message == [kind |-> kind, params |-> NoParams]
<1>1. TypeOK
  BY DEF HandshakeInv
<1>2. message \in Message
  BY DEF Message
<1>3. Sends(c, message)
  BY <1>1 DEF SendOther, SendMessage, Sends, TypeOK
<1> QED
  BY <1>2, <1>3, SendsInv

(* A connect request whose signature is not forged.                        *)
LEMMA SendConnectInv ==
  ASSUME HandshakeInv, NEW c \in Conns, NEW params \in ConnectParams,
         SendConnect(c, params), signed \subseteq signed',
         signed' \subseteq Payload,
         params.device # NoDevice /\ params.device.signature # NoSignature
           => params.device.signature \in signed'
  PROVE  HandshakeInv'
<1> DEFINE message == [kind |-> "connect", params |-> params]
<1>1. TypeOK
  BY DEF HandshakeInv
<1>2. message \in Message
  BY DEF Message, Kinds
<1>3. Sends(c, message)
  BY <1>1 DEF SendConnect, SendMessage, Sends, TypeOK
<1> QED
  BY <1>2, <1>3, SendsInv

LEMMA ClientInv ==
  ASSUME HandshakeInv, NEW c \in Conns, Client(c)
  PROVE  HandshakeInv'
<1>1. TypeOK
  BY DEF HandshakeInv
<1>2. ASSUME PeerGone(c) PROVE HandshakeInv'
  BY <1>2, EndsInv DEF PeerGone, Ends
<1>3. ASSUME NEW kind \in Kinds, SendOther(c, kind) PROVE HandshakeInv'
  BY <1>3, SendOtherInv
<1>4. ASSUME NEW auth \in Creds, NEW requested \in ScopeLists,
             ConnectWithoutDevice(c, auth, requested)
      PROVE  HandshakeInv'
  <2> DEFINE params == [auth |-> auth, scopes |-> requested,
                        device |-> NoDevice]
  <2>1. params \in ConnectParams
    BY HandshakeAssumption DEF ConnectParams
  <2>2. SendConnect(c, params) /\ signed' = signed
    BY <1>4 DEF ConnectWithoutDevice
  <2>3. params.device = NoDevice /\ signed \subseteq Payload
    BY <1>1 DEF TypeOK
  <2> HIDE DEF params
  <2> QED
    BY <2>1, <2>2, <2>3, SendConnectInv
<1>5. ASSUME NEW auth \in Creds, NEW requested \in ScopeLists,
             NEW ver \in {"v2", "v3"}, NEW v3 \in BOOLEAN,
             NEW drift \in Drifts,
             ConnectSigned(c, auth, requested, ver, v3, drift)
      PROVE  HandshakeInv'
  <2> DEFINE payload == [ver |-> ver, nonce |-> c, at |-> now + drift,
                         scopes |-> requested, token |-> auth.token]
             params == [auth |-> auth, scopes |-> requested,
                        device |-> [nonce |-> c, at |-> now + drift,
                                    v3 |-> v3, signature |-> payload]]
  <2>1. auth \in Cred /\ now + drift \in Nat
    BY <1>1, HandshakeAssumption DEF TypeOK
  <2>2. payload \in Payload
    BY <2>1 DEF Payload, Cred
  <2>3. [nonce |-> c, at |-> now + drift, v3 |-> v3, signature |-> payload]
          \in Device
    BY <2>1, <2>2 DEF Device
  <2>4. params \in ConnectParams
    BY <2>1, <2>3 DEF ConnectParams
  <2>5. SendConnect(c, params) /\ signed' = signed \cup {payload}
    BY <1>5 DEF ConnectSigned
  <2>6. params.device.signature = payload
    OBVIOUS
  <2>7. signed \subseteq signed' /\ signed' \subseteq Payload
    BY <1>1, <2>2, <2>5 DEF TypeOK
  <2> HIDE DEF params, payload
  <2> QED
    BY <2>4, <2>5, <2>6, <2>7, SendConnectInv
<1>6. ASSUME NEW auth \in Creds, NEW requested \in ScopeLists,
             NEW payload \in signed, NEW nonce \in {payload.nonce, c},
             ConnectRepeated(c, auth, requested, payload, nonce)
      PROVE  HandshakeInv'
  <2> DEFINE params == [auth |-> auth, scopes |-> requested,
                        device |-> [nonce |-> nonce, at |-> payload.at,
                                    v3 |-> payload.ver = "v3",
                                    signature |-> payload]]
  <2>1. payload \in Payload /\ signed \subseteq Payload
    BY <1>1 DEF TypeOK
  <2>2. nonce \in Conns /\ payload.at \in Nat
    BY <2>1 DEF Payload
  <2>3. [nonce |-> nonce, at |-> payload.at, v3 |-> payload.ver = "v3",
         signature |-> payload] \in Device
    BY <2>1, <2>2 DEF Device
  <2>4. params \in ConnectParams
    BY <2>3, HandshakeAssumption DEF ConnectParams
  <2>5. SendConnect(c, params) /\ signed' = signed
    BY <1>6 DEF ConnectRepeated
  <2>6. params.device.signature = payload
    OBVIOUS
  <2> HIDE DEF params
  <2> QED
    BY <2>1, <2>4, <2>5, <2>6, SendConnectInv
<1>7. ASSUME NEW auth \in Creds, NEW requested \in ScopeLists,
             ConnectUnreadable(c, auth, requested)
      PROVE  HandshakeInv'
  <2> DEFINE params == [auth |-> auth, scopes |-> requested,
                        device |-> [nonce |-> c, at |-> now, v3 |-> FALSE,
                                    signature |-> NoSignature]]
  <2>1. [nonce |-> c, at |-> now, v3 |-> FALSE, signature |-> NoSignature]
          \in Device
    BY <1>1 DEF Device, TypeOK
  <2>2. params \in ConnectParams
    BY <2>1, HandshakeAssumption DEF ConnectParams
  <2>3. SendConnect(c, params) /\ signed' = signed
    BY <1>7 DEF ConnectUnreadable
  <2>4. params.device.signature = NoSignature
    OBVIOUS
  <2>5. signed \subseteq Payload
    BY <1>1 DEF TypeOK
  <2> HIDE DEF params
  <2> QED
    BY <2>2, <2>3, <2>4, <2>5, SendConnectInv
<1> QED
  BY <1>2, <1>3, <1>4, <1>5, <1>6, <1>7 DEF Client

LEMMA GatewayInv ==
  ASSUME HandshakeInv, NEW c \in Conns, Gateway(c)
  PROVE  HandshakeInv'
<1>1. CASE Accept(c)
  BY <1>1, AcceptInv
<1>2. CASE AcceptFails(c)
  BY <1>2, EndsInv DEF AcceptFails, Ends
<1>3. CASE IgnoreEarly(c)
  BY <1>3, IgnoreEarlyInv
<1>4. CASE TimedOut(c)
  BY <1>4, EndsInv DEF TimedOut, Ends
<1>5. CASE ConnectRefused(c)
  BY <1>5, EndsInv DEF ConnectRefused, Ends
<1>6. CASE ConnectAccepted(c)
  BY <1>6, ConnectAcceptedInv
<1>7. CASE HelloFails(c)
  BY <1>7, EndsInv DEF HelloFails, Ends
<1>8. CASE Request(c)
  BY <1>8, RequestInv
<1> QED
  BY <1>1, <1>2, <1>3, <1>4, <1>5, <1>6, <1>7, <1>8 DEF Gateway

(* Only the clock, or nothing at all, changes.                             *)
LEMMA QuietInv ==
  ASSUME HandshakeInv, Tick \/ UNCHANGED hsVars
  PROVE  HandshakeInv'
<1>1. UNCHANGED <<gate, phase, deadline, inbox, scopes, signed, admitted,
                  admitTime, sent, asked, early>>
  BY DEF Tick, hsVars
<1>2. now' \in Nat
  BY DEF HandshakeInv, TypeOK, Tick, hsVars
<1>3. TypeOK'
  BY <1>1, <1>2 DEF HandshakeInv, TypeOK
<1>4. ASSUME NEW c \in Conns PROVE ConnInv(c)'
  <2>1. ConnInv(c)
    BY DEF HandshakeInv
  <2>2. Earned(c)'
    BY <1>1, <2>1 DEF ConnInv, Earned, ResolveScopes
  <2>3. Entitled(c)' /\ Ordered(c)'
    BY <1>1, <2>1 DEF ConnInv, Entitled, Ordered
  <2>4. Received(c)'
    BY <1>1, <2>1 DEF ConnInv, Received
  <2>5. Unread(c)'
    BY <1>1, <2>1 DEF ConnInv, Unread
  <2> QED
    BY <2>2, <2>3, <2>4, <2>5 DEF ConnInv
<1> QED
  BY <1>3, <1>4 DEF HandshakeInv

-----------------------------------------------------------------------------
(* The invariant holds in every reachable state.                           *)
THEOREM HandshakeInvariant == Spec => []HandshakeInv
<1>1. HandshakeInv /\ [Next]_hsVars => HandshakeInv'
  BY ClientInv, GatewayInv, QuietInv DEF Next
<1> QED
  BY InitInv, <1>1, PTL DEF Spec

(* handle_websocket keeps its data in shape.                               *)
THEOREM HandshakeTypeCorrect == Spec => []TypeOK
<1>1. HandshakeInv => TypeOK
  BY DEF HandshakeInv
<1> QED
  BY HandshakeInvariant, <1>1, PTL

(* Scopes are earned, for any number of connections, devices that sign and *)
(* repeat as they like, and any skew.                                      *)
THEOREM ScopesAreEarned == Spec => []EarnedScopes
<1>1. HandshakeInv => EarnedScopes
  BY DEF HandshakeInv, ConnInv, Earned, EarnedScopes
<1> QED
  BY HandshakeInvariant, <1>1, PTL

(* Nobody is admitted without a credential, whatever the configuration.    *)
THEOREM AdmittedAreEntitled == Spec => []OpenIsEntitled
<1>1. HandshakeInv => OpenIsEntitled
  BY DEF HandshakeInv, ConnInv, Entitled, OpenIsEntitled
<1> QED
  BY HandshakeInvariant, <1>1, PTL

(* Replies are in order and early messages are never answered.             *)
THEOREM RepliesInOrder == Spec => []ReplyOrder
<1>1. HandshakeInv => ReplyOrder
  BY DEF HandshakeInv, ConnInv, Ordered, ReplyOrder
<1> QED
  BY HandshakeInvariant, <1>1, PTL
=============================================================================
