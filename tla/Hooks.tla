-------------------------------- MODULE Hooks --------------------------------
(***************************************************************************)
(* The hook registry (src/hooks/mod.rs) of one event type: handlers sorted *)
(* by priority, emit_modifying, which asks the modifying ones in turn and  *)
(* then fires the plain ones, each on a thread of its own, and the plugin  *)
(* context all chains share.  A chain holds the registry's read lock from  *)
(* its first handler to its last, a registration takes the write lock.     *)
(***************************************************************************)
EXTENDS Naturals, Sequences, FiniteSets, SequencesExt

CONSTANTS
    HookChains,   \* calls of emit_modifying
    Priorities,   \* priorities handlers are registered with
    MaxHandlers   \* bound: modifying handlers

ASSUME HooksAssumption == Priorities \subseteq Nat /\ MaxHandlers \in Nat

Verdicts == {"Continue", "Cancel", "Override", "Transform"}

VARIABLES
    handlers,   \* the modifying handlers [id, prio, says], as they stand
    plain,      \* number of plain handlers
    chainAt,    \* chain -> position of its next handler, 0 before and after
    chainSays,  \* chain -> "none" until it ends, then its result
    asked,      \* history: chain -> the handlers it has asked
    fired,      \* chain -> plain handlers it has started threads for
    context     \* the chain whose plugin context is set, or "none"

hookVars == <<handlers, plain, chainAt, chainSays, asked, fired, context>>

HookInit ==
    /\ handlers = <<>> /\ plain = 0
    /\ chainAt = [c \in HookChains |-> 0]
    /\ chainSays = [c \in HookChains |-> "none"]
    /\ asked = [c \in HookChains |-> <<>>]
    /\ fired = [c \in HookChains |-> 0]
    /\ context = "none"

Unlocked == \A c \in HookChains : chainAt[c] = 0

(* Mutant of Sorted: a handler goes before those of its own priority.      *)
SortedBefore(h) ==
    LET k == Cardinality({i \in 1 .. Len(handlers) : handlers[i].prio < h.prio})
    IN InsertAt(handlers, k + 1, h)

(* push and a stable sort: behind the handlers of its own priority.        *)
Sorted(h) ==
    LET k == Cardinality({i \in 1 .. Len(handlers) : handlers[i].prio <= h.prio})
    IN InsertAt(handlers, k + 1, h)

OnModifying(p, says) ==
    /\ Unlocked /\ Len(handlers) < MaxHandlers
    /\ handlers' = Sorted([id |-> Len(handlers) + 1, prio |-> p, says |-> says])
    /\ UNCHANGED <<plain, chainAt, chainSays, asked, fired, context>>

On ==
    /\ Unlocked /\ plain = 0
    /\ plain' = 1
    /\ UNCHANGED <<handlers, chainAt, chainSays, asked, fired, context>>

SetContext(c) ==
    /\ chainSays[c] = "none" /\ chainAt[c] = 0
    /\ context' = c
    /\ UNCHANGED <<handlers, plain, chainAt, chainSays, asked, fired>>

ClearContext ==
    /\ context' = "none"
    /\ UNCHANGED <<handlers, plain, chainAt, chainSays, asked, fired>>

Emit(c) ==
    /\ chainSays[c] = "none" /\ chainAt[c] = 0
    /\ chainAt' = [chainAt EXCEPT ![c] = 1]
    /\ UNCHANGED <<handlers, plain, chainSays, asked, fired, context>>

(* Every handler is given the event as it was emitted; the first that says *)
(* anything but Continue settles the result and ends the chain.            *)
AskNext(c) ==
    /\ chainAt[c] \in 1 .. Len(handlers)
    /\ LET h == handlers[chainAt[c]]
       IN /\ asked' = [asked EXCEPT ![c] = Append(@, h)]
          /\ chainAt' = [chainAt EXCEPT ![c] = IF h.says = "Continue" THEN @ + 1 ELSE 0]
          /\ chainSays' = [chainSays EXCEPT ![c] = IF h.says = "Continue" THEN @ ELSE h.says]
    /\ UNCHANGED <<handlers, plain, fired, context>>

FirePlain(c) ==
    /\ chainAt[c] > Len(handlers)
    /\ fired' = [fired EXCEPT ![c] = plain]
    /\ chainAt' = [chainAt EXCEPT ![c] = 0]
    /\ chainSays' = [chainSays EXCEPT ![c] = "Continue"]
    /\ UNCHANGED <<handlers, plain, asked, context>>

HookNext ==
    \/ \E p \in Priorities, v \in Verdicts : OnModifying(p, v)
    \/ On
    \/ \E c \in HookChains : SetContext(c)
    \/ ClearContext
    \/ \E c \in HookChains : Emit(c)
    \/ \E c \in HookChains : AskNext(c)
    \/ \E c \in HookChains : FirePlain(c)

HookSpec == HookInit /\ [][HookNext]_hookVars

-----------------------------------------------------------------------------
HookTypeOK ==
    /\ handlers \in Seq([id : 1 .. MaxHandlers, prio : Priorities, says : Verdicts])
    /\ plain \in 0 .. 1
    /\ chainAt \in [HookChains -> 0 .. MaxHandlers + 1]
    /\ chainSays \in [HookChains -> Verdicts \cup {"none"}]
    /\ fired \in [HookChains -> 0 .. 1]
    /\ context \in HookChains \cup {"none"}

Before(g, h) == g.prio < h.prio \/ (g.prio = h.prio /\ g.id < h.id)

(* A chain asks its handlers by priority and, within one, in the order     *)
(* they were registered, whatever registrations other tasks make.  A       *)
(* handler that says Cancel is the last one asked, Cancel is the chain's   *)
(* result exactly then, and the plain handlers never hear of a cancelled   *)
(* event; a chain whose handlers all said Continue is answered Continue.   *)
(* Of a handler that says Override or Transform only the order is stated:  *)
(* the comment of emit_modifying passes its data on to the next handler,   *)
(* the code ends the chain there.                                          *)
ChainsRunInOrder ==
    \A c \in HookChains :
        LET a == asked[c]
        IN /\ \A i, j \in 1 .. Len(a) : i < j => Before(a[i], a[j]) /\ a[i].says # "Cancel"
           /\ chainSays[c] = "Cancel" => a # <<>> /\ Last(a).says = "Cancel"
           /\ a # <<>> /\ Last(a).says = "Cancel" => chainSays[c] = "Cancel"
           /\ chainSays[c] \notin {"none", "Continue"}
                 => \E i \in 1 .. Len(a) : a[i].says # "Continue"
           /\ fired[c] > 0 => \A i \in 1 .. Len(a) : a[i].says # "Cancel"
=============================================================================
