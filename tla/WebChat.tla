------------------------------- MODULE WebChat -------------------------------
(***************************************************************************)
(* The clients of the WebChat channel (src/channels/webchat.rs): a map     *)
(* from session ids to unbounded senders behind one lock, limited in size. *)
(* A client that goes away leaves its entry until it is unregistered, and  *)
(* send_message drops the lock before it broadcasts.                       *)
(***************************************************************************)
EXTENDS Naturals, Sequences, FiniteSets

CONSTANTS
    ChatIds,     \* session ids
    MaxClients,  \* max_connections
    MaxSends     \* bound: messages sent

ASSUME WebChatAssumption == MaxClients \in Nat /\ MaxSends \in Nat

VARIABLES
    clients,     \* ids registered
    dropped,     \* ids registered whose receiver is gone
    chatSends,   \* messages sent so far; they are numbered from 1
    underway,    \* messages to "*" between send_message's two locks
    inboxes,     \* id -> what its present client was sent, in order
    listeners    \* history: message -> the ids it was meant for whose client
                 \* has been there ever since

chatVars == <<clients, dropped, chatSends, underway, inboxes, listeners>>

Messages == 1 .. MaxSends

WebInit ==
    /\ clients = {} /\ dropped = {}
    /\ chatSends = 0 /\ underway = {}
    /\ inboxes = [i \in ChatIds |-> <<>>]
    /\ listeners = [m \in Messages |-> {}]

(* The clients of the ids in S are gone, or are others from now on.        *)
Leave(S) == listeners' = [m \in Messages |-> listeners[m] \ S]

(* A client that comes back replaces its entry, unless the map is full.    *)
RegisterClient(i) ==
    /\ Cardinality(clients) < MaxClients
    /\ clients' = clients \cup {i}
    /\ dropped' = dropped \ {i}
    /\ inboxes' = [inboxes EXCEPT ![i] = <<>>]
    /\ Leave({i})
    /\ UNCHANGED <<chatSends, underway>>

UnregisterClient(i) ==
    /\ i \in clients
    /\ clients' = clients \ {i} /\ dropped' = dropped \ {i}
    /\ Leave({i})
    /\ UNCHANGED <<chatSends, underway, inboxes>>

ClientDrops(i) ==
    /\ i \in clients \ dropped
    /\ dropped' = dropped \cup {i}
    /\ Leave({i})
    /\ UNCHANGED <<clients, chatSends, underway, inboxes>>

(* The next message, meant for the ids in S.                               *)
NextMessage(S) ==
    /\ chatSends < MaxSends
    /\ chatSends' = chatSends + 1
    /\ listeners' = [listeners EXCEPT ![chatSends + 1] = S]

Put(S, m) ==
    inboxes' = [i \in ChatIds |-> IF i \in S THEN Append(inboxes[i], m) ELSE inboxes[i]]

(* send_message to one id: an error if it is unknown or its receiver gone. *)
SendToOne(i) ==
    /\ i \in clients \ dropped
    /\ NextMessage({i})
    /\ Put({i}, chatSends + 1)
    /\ UNCHANGED <<clients, dropped, underway>>

SendToAll ==
    /\ NextMessage(clients \ dropped)
    /\ underway' = underway \cup {chatSends + 1}
    /\ UNCHANGED <<clients, dropped, inboxes>>

(* Mutant of Broadcast: it stops at the first client that is gone.         *)
BroadcastStops(m) ==
    /\ m \in underway
    /\ underway' = underway \ {m}
    /\ Put(IF dropped = {} THEN clients ELSE {}, m)
    /\ UNCHANGED <<clients, dropped, chatSends, listeners>>

(* A client whose receiver is gone is passed over.                         *)
Broadcast(m) ==
    /\ m \in underway
    /\ underway' = underway \ {m}
    /\ Put(clients \ dropped, m)
    /\ UNCHANGED <<clients, dropped, chatSends, listeners>>

(* stop_account clears the map; the senders close with it.                 *)
StopWebChat ==
    /\ clients # {}
    /\ clients' = {} /\ dropped' = {}
    /\ Leave(clients)
    /\ UNCHANGED <<chatSends, underway, inboxes>>

WebNext ==
    \/ \E i \in ChatIds : RegisterClient(i)
    \/ \E i \in ChatIds : UnregisterClient(i)
    \/ \E i \in ChatIds : ClientDrops(i)
    \/ \E i \in ChatIds : SendToOne(i)
    \/ SendToAll
    \/ \E m \in Messages : Broadcast(m)
    \/ StopWebChat

WebSpec == WebInit /\ [][WebNext]_chatVars

-----------------------------------------------------------------------------
WebTypeOK ==
    /\ clients \subseteq ChatIds /\ dropped \subseteq clients
    /\ chatSends \in 0 .. MaxSends /\ underway \subseteq 1 .. chatSends
    /\ inboxes \in [ChatIds -> Seq(Messages)]
    /\ listeners \in [Messages -> SUBSET ChatIds]

(* A message sent to one client or to all of them is in the inbox of every *)
(* client it was meant for that has listened ever since, once its          *)
(* broadcast is over, and it is there once: whoever else came, went away   *)
(* without a word or took over an id between the two locks of send_message *)
(* and broadcast.                                                          *)
NoClientStarved ==
    /\ \A m \in 1 .. chatSends : m \notin underway =>
          \A i \in listeners[m] : \E k \in 1 .. Len(inboxes[i]) : inboxes[i][k] = m
    /\ \A i \in ChatIds : \A k, l \in 1 .. Len(inboxes[i]) :
          inboxes[i][k] = inboxes[i][l] => k = l
=============================================================================
