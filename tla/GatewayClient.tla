---------------------------- MODULE GatewayClient ----------------------------
(***************************************************************************)
(* The program's own client of a gateway (src/gateway/client.rs): connect  *)
(* spawns a writer and a reader, request registers a oneshot sender in the *)
(* pending map and waits for the reader to answer it, events go into a     *)
(* bounded channel whose receiver the application takes, or never takes,   *)
(* or has taken and dropped.  request                                      *)
(* borrows the client and connect and disconnect borrow it mutably, so a   *)
(* call that still waits must be given up (its future dropped) before the  *)
(* client may dial again.  The peer is a server that answers in the shape  *)
(* the client reads ("result" or "error" beside an "id").                  *)
(***************************************************************************)
EXTENDS Naturals, Sequences, SequencesExt

CONSTANTS
    Calls,        \* calls of request()
    EventRoom,    \* capacity of the event channel (256)
    MaxEvents,    \* bound: events the servers send
    MaxUnread,    \* bound: frames of a socket that its reader has not read
    MaxDials      \* bound: calls of connect()

ASSUME ClientAssumption ==
    /\ EventRoom \in Nat \ {0} /\ MaxEvents \in Nat /\ MaxUnread \in Nat
    /\ MaxDials \in Nat

VARIABLES
    dial,        \* number of connections opened; 0 before the first
    readers,     \* dials whose reader task still runs
    sender,      \* the client holds a tx for the last dial
    writer,      \* the writer task of the last dial still runs
    connected,   \* the flag is_connected() reads
    call,        \* call -> "new", "wait", "ok", "refused" or "given up"
    sentOn,      \* call -> the dial it was sent on, or 0
    waiting,     \* pending: calls whose oneshot sender is in the map
    inbound,     \* dial -> frames from the server that the reader has not read
    events,      \* number of events in the channel
    receiver,    \* of the event channel: "held" by the client, "taken" or "dropped"
    sent         \* events the servers have sent

cliVars == <<dial, readers, sender, writer, connected, call, sentOn, waiting,
             inbound, events, receiver, sent>>

Dials == 1 .. MaxDials
Borrowed == \E q \in Calls : call[q] = "wait"

CliInit ==
    /\ dial = 0 /\ readers = {} /\ sender = FALSE /\ writer = FALSE /\ connected = FALSE
    /\ call = [q \in Calls |-> "new"] /\ sentOn = [q \in Calls |-> 0]
    /\ waiting = {}
    /\ inbound = [d \in Dials |-> <<>>]
    /\ events = 0 /\ receiver = "held" /\ sent = 0

(* connect: a new socket, a new writer and a new reader; the readers of    *)
(* earlier sockets are left to end by themselves.                          *)
Dial ==
    /\ ~Borrowed /\ dial < MaxDials
    /\ dial' = dial + 1
    /\ readers' = readers \cup {dial + 1}
    /\ sender' = TRUE /\ writer' = TRUE /\ connected' = TRUE
    /\ UNCHANGED <<call, sentOn, waiting, inbound, events, sent, receiver>>

(* disconnect: the writer ends for want of a sender; the flag is cleared.  *)
Hangup ==
    /\ ~Borrowed /\ sender
    /\ sender' = FALSE /\ writer' = FALSE /\ connected' = FALSE
    /\ UNCHANGED <<dial, readers, call, sentOn, waiting, inbound, events, sent, receiver>>

WriterEnds ==
    /\ writer
    /\ writer' = FALSE
    /\ UNCHANGED <<dial, readers, sender, connected, call, sentOn, waiting, inbound,
                   events, sent, receiver>>

(* The reader's socket ends (a close frame, an error, the end of stream):  *)
(* the flag is cleared, whichever connection it is about by now, and the   *)
(* pending map is left as it is.                                           *)
ReaderEnds(d) ==
    /\ d \in readers
    /\ readers' = readers \ {d}
    /\ connected' = FALSE
    /\ UNCHANGED <<dial, sender, writer, call, sentOn, waiting, inbound, events, sent,
                   receiver>>

(* request: without a sender it fails at once, with one whose writer is    *)
(* gone after it has registered its waiter; otherwise it waits.            *)
CallRefused(q) ==
    /\ call[q] = "new" /\ ~writer
    /\ call' = [call EXCEPT ![q] = "refused"]
    /\ waiting' = IF sender THEN waiting \cup {q} ELSE waiting
    /\ UNCHANGED <<dial, readers, sender, writer, connected, sentOn, inbound, events, sent,
                   receiver>>

(* Mutant of CallSent: the waiter is registered after the request is sent. *)
CallSentFirst(q) ==
    \/ /\ call[q] = "new" /\ writer
       /\ call' = [call EXCEPT ![q] = "wait"]
       /\ sentOn' = [sentOn EXCEPT ![q] = dial]
       /\ UNCHANGED <<dial, readers, sender, writer, connected, inbound, events, sent,
                      waiting, receiver>>
    \/ /\ call[q] = "wait"
       /\ waiting' = waiting \cup {q}
       /\ UNCHANGED <<dial, readers, sender, writer, connected, call, sentOn, inbound,
                      events, sent, receiver>>

CallSent(q) ==
    /\ call[q] = "new" /\ writer
    /\ call' = [call EXCEPT ![q] = "wait"]
    /\ sentOn' = [sentOn EXCEPT ![q] = dial]
    /\ waiting' = waiting \cup {q}
    /\ UNCHANGED <<dial, readers, sender, writer, connected, inbound, events, sent, receiver>>

(* The caller stops polling: a timeout around request().                   *)
GiveUp(q) ==
    /\ call[q] = "wait"
    /\ call' = [call EXCEPT ![q] = "given up"]
    /\ UNCHANGED <<dial, readers, sender, writer, connected, sentOn, waiting, inbound,
                   events, sent, receiver>>

(* A server answers a call, perhaps more than once, and sends events.      *)
ServerAnswers(q) ==
    /\ sentOn[q] \in readers
    /\ Len(inbound[sentOn[q]]) < MaxUnread
    /\ inbound' = [inbound EXCEPT ![sentOn[q]] = Append(@, q)]
    /\ UNCHANGED <<dial, readers, sender, writer, connected, call, sentOn, waiting, events,
                   sent, receiver>>

ServerEvent(d) ==
    /\ d \in readers /\ sent < MaxEvents
    /\ Len(inbound[d]) < MaxUnread
    /\ inbound' = [inbound EXCEPT ![d] = Append(@, "event")]
    /\ sent' = sent + 1
    /\ UNCHANGED <<dial, readers, sender, writer, connected, call, sentOn, waiting, events,
                   receiver>>

Reads(d) ==
    /\ d \in readers /\ inbound[d] # <<>>
    /\ inbound' = [inbound EXCEPT ![d] = Tail(@)]

(* The reader takes the answer's waiter out of the map, if it is there.    *)
ReadAnswer(d) ==
    /\ Reads(d) /\ Head(inbound[d]) # "event"
    /\ LET q == Head(inbound[d])
       IN /\ call' = IF q \in waiting /\ call[q] = "wait" THEN [call EXCEPT ![q] = "ok"] ELSE call
          /\ waiting' = waiting \ {q}
    /\ UNCHANGED <<dial, readers, sender, writer, connected, sentOn, events, sent, receiver>>

(* Mutant of ReadEvent: the channel takes any number of events.            *)
ReadEventUnbounded(d) ==
    /\ Reads(d) /\ Head(inbound[d]) = "event"
    /\ events' = events + 1
    /\ UNCHANGED <<dial, readers, sender, writer, connected, call, sentOn, waiting, sent,
                   receiver>>

(* The reader waits for room in the event channel before it reads on; once *)
(* the receiver is dropped the event is lost and it reads on at once.      *)
ReadEvent(d) ==
    /\ Reads(d) /\ Head(inbound[d]) = "event"
    /\ receiver = "dropped" \/ events < EventRoom
    /\ events' = IF receiver = "dropped" THEN events ELSE events + 1
    /\ UNCHANGED <<dial, readers, sender, writer, connected, call, sentOn, waiting, sent,
                   receiver>>

(* take_event_receiver borrows the client mutably; then the application    *)
(* polls what it has, or drops it with what is in the channel.             *)
TakeEventReceiver ==
    /\ ~Borrowed /\ receiver = "held"
    /\ receiver' = "taken"
    /\ UNCHANGED <<dial, readers, sender, writer, connected, call, sentOn, waiting,
                   inbound, events, sent>>

AppPolls ==
    /\ receiver = "taken" /\ events > 0
    /\ events' = events - 1
    /\ UNCHANGED <<dial, readers, sender, writer, connected, call, sentOn, waiting,
                   inbound, sent, receiver>>

AppDrops ==
    /\ receiver = "taken"
    /\ receiver' = "dropped" /\ events' = 0
    /\ UNCHANGED <<dial, readers, sender, writer, connected, call, sentOn, waiting,
                   inbound, sent>>

CliReader(d) == ReadAnswer(d) \/ ReadEvent(d)

CliNext ==
    \/ Dial
    \/ Hangup
    \/ WriterEnds
    \/ \E d \in Dials : ReaderEnds(d)
    \/ \E q \in Calls : CallRefused(q)
    \/ \E q \in Calls : CallSent(q)
    \/ \E q \in Calls : GiveUp(q)
    \/ \E q \in Calls : ServerAnswers(q)
    \/ \E d \in Dials : ServerEvent(d)
    \/ \E d \in Dials : ReadAnswer(d)
    \/ \E d \in Dials : ReadEvent(d)
    \/ TakeEventReceiver
    \/ AppPolls
    \/ AppDrops

CliFairness == (\A d \in Dials : WF_cliVars(CliReader(d))) /\ WF_cliVars(AppPolls)

CliSpec == CliInit /\ [][CliNext]_cliVars /\ CliFairness

-----------------------------------------------------------------------------
CliTypeOK ==
    /\ dial \in 0 .. MaxDials /\ readers \subseteq 1 .. dial
    /\ sender \in BOOLEAN /\ connected \in BOOLEAN /\ writer \in BOOLEAN
    /\ call \in [Calls -> {"new", "wait", "ok", "refused", "given up"}]
    /\ sentOn \in [Calls -> 0 .. dial]
    /\ waiting \subseteq Calls
    /\ inbound \in [Dials -> Seq(Calls \cup {"event"})]
    /\ receiver \in {"held", "taken", "dropped"}
    /\ events \in 0 .. EventRoom /\ sent \in 0 .. MaxEvents

(* An answer that has reached the socket of its call settles it, behind    *)
(* whatever events come before it and whatever another socket's reader     *)
(* does to the shared map and channel, unless the reader ends first or the *)
(* caller gives up.  Only an application that never took the receiver      *)
(* hangs its own calls, once the channel is full: the reader waits for     *)
(* room that nobody makes.  Dropping the receiver is harmless.             *)
AnswersSettle ==
    \A q \in Calls :
        (call[q] = "wait" /\ q \in ToSet(inbound[sentOn[q]]))
            ~> \/ call[q] # "wait" \/ sentOn[q] \notin readers
               \/ receiver = "held" /\ events = EventRoom
=============================================================================
