------------------------------ MODULE TypingLoop ------------------------------
(***************************************************************************)
(* The typing indicator of a channel (TypingKeepaliveLoop of               *)
(* src/channels/mod.rs): start spawns a task that ticks until the shared   *)
(* flag is cleared or its own time is up; a tick under suppression shows   *)
(* nothing.  Loops of several starts share the flag.                       *)
(***************************************************************************)
EXTENDS Naturals, FiniteSets

CONSTANTS
    MaxLoops,    \* bound: calls of start
    MaxDuration, \* ticks after which a loop stops by itself
    MaxSwitches  \* bound: calls of stop, suppress and unsuppress

ASSUME TypingAssumption ==
    MaxLoops \in Nat /\ MaxDuration \in Nat /\ MaxSwitches \in Nat

VARIABLES
    running, suppressed,  \* the shared flags
    loopAge,              \* loop -> ticks since its start
    loopLive,             \* loops whose task runs
    started, switches,    \* counters of the bounds
    typing                \* the last tick has shown the indicator

typingVars == <<running, suppressed, loopAge, loopLive, started, switches, typing>>

Loops == 1 .. MaxLoops

TypingInit ==
    /\ running = FALSE /\ suppressed = FALSE
    /\ loopAge = [l \in Loops |-> 0]
    /\ loopLive = {}
    /\ started = 0 /\ switches = 0
    /\ typing = FALSE

StartLoop ==
    /\ started < MaxLoops
    /\ started' = started + 1
    /\ running' = TRUE
    /\ loopLive' = loopLive \cup {started + 1}
    /\ UNCHANGED <<suppressed, loopAge, switches, typing>>

Switch(run, suppress) ==
    /\ switches < MaxSwitches
    /\ switches' = switches + 1
    /\ running' = run /\ suppressed' = suppress
    /\ UNCHANGED <<loopAge, loopLive, started, typing>>

StopLoop == running /\ Switch(FALSE, suppressed)
Suppress == ~suppressed /\ Switch(running, TRUE)
Unsuppress == suppressed /\ Switch(running, FALSE)

(* Mutant of Tick: a suppressed tick is skipped before the time is looked  *)
(* at.                                                                     *)
TickSkipsFirst(l) ==
    /\ l \in loopLive
    /\ LET old == loopAge[l] > MaxDuration
       IN /\ loopAge' = [loopAge EXCEPT ![l] = IF old THEN @ ELSE @ + 1]
          /\ running' = (running /\ (~old \/ suppressed))
          /\ loopLive' = IF ~running \/ (old /\ ~suppressed) THEN loopLive \ {l} ELSE loopLive
          /\ typing' = (running /\ ~old /\ ~suppressed)
    /\ UNCHANGED <<suppressed, started, switches>>

(* A tick: the flag, the loop's time, the suppression, in this order.      *)
Tick(l) ==
    /\ l \in loopLive
    /\ LET old == loopAge[l] > MaxDuration
       IN /\ loopAge' = [loopAge EXCEPT ![l] = IF old THEN @ ELSE @ + 1]
          /\ running' = (running /\ ~old)
          /\ loopLive' = IF ~running \/ old THEN loopLive \ {l} ELSE loopLive
          /\ typing' = (running /\ ~old /\ ~suppressed)
    /\ UNCHANGED <<suppressed, started, switches>>

TypingNext ==
    \/ StartLoop
    \/ StopLoop
    \/ Suppress
    \/ Unsuppress
    \/ \E l \in Loops : Tick(l)

TypingSpec ==
    TypingInit /\ [][TypingNext]_typingVars /\ \A l \in Loops : WF_typingVars(Tick(l))

-----------------------------------------------------------------------------
TypingTypeOK ==
    /\ running \in BOOLEAN /\ suppressed \in BOOLEAN /\ typing \in BOOLEAN
    /\ loopAge \in [Loops -> 0 .. MaxDuration + 1]
    /\ loopLive \subseteq 1 .. started /\ started \in 0 .. MaxLoops

(* No indicator is stuck: a loop that was started ends, whether it is      *)
(* stopped or forgotten, suppressed at the time or not, and whatever other *)
(* loops share its flag.                                                   *)
TypingEnds == \A l \in Loops : l \in loopLive ~> l \notin loopLive
=============================================================================
