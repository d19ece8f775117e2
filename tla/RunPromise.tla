----------------------------- MODULE RunPromise -----------------------------
(***************************************************************************)
(* What a chat run promises to its client and to its session, whatever the *)
(* provider, the tools and the canceller do: a stream of numbered deltas,  *)
(* closed by at most one terminal event; the answer enters the session     *)
(* before the final event is seen, once, and never together with another   *)
(* terminal event.  The state table of docs/gateway-protocol.md (delta,    *)
(* final, aborted, error) read with src/gateway/chat.rs.                   *)
(***************************************************************************)
EXTENDS Naturals, Sequences

CONSTANT Runs

VARIABLES
    log,      \* the events of a run, in order
    stored    \* answers a run has added to its session

vars == <<log, stored>>

Closed(r) == log[r] # <<>> /\ log[r][Len(log[r])].state # "delta"

Init ==
    /\ log = [r \in Runs |-> <<>>]
    /\ stored = [r \in Runs |-> 0]

Publish(r, state, n) ==
    log' = [log EXCEPT ![r] = Append(@, [state |-> state, seq |-> n])]

Delta(r) ==
    /\ ~Closed(r)
    /\ stored[r] = 0
    /\ Publish(r, "delta", Len(log[r]))
    /\ UNCHANGED stored

Answer(r) ==
    /\ ~Closed(r)
    /\ stored[r] = 0
    /\ stored' = [stored EXCEPT ![r] = 1]
    /\ UNCHANGED log

Final(r) ==
    /\ ~Closed(r)
    /\ stored[r] = 1
    /\ Publish(r, "final", Len(log[r]))
    /\ UNCHANGED stored

Abort(r) ==
    /\ ~Closed(r)
    /\ stored[r] = 0
    /\ Publish(r, "aborted", Len(log[r]))
    /\ UNCHANGED stored

Fail(r) ==
    /\ ~Closed(r)
    /\ stored[r] = 0
    /\ \E n \in {0, Len(log[r])} : Publish(r, "error", n)
    /\ UNCHANGED stored

Next == \E r \in Runs : Delta(r) \/ Answer(r) \/ Final(r) \/ Abort(r) \/ Fail(r)

Spec == Init /\ [][Next]_vars
=============================================================================
