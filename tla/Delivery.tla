------------------------------- MODULE Delivery -------------------------------
(***************************************************************************)
(* Outbound delivery (src/infra/delivery.rs): a recovery cycle over the    *)
(* targets of the queue, the guard that marks a drain, and the backoff     *)
(* after 401 answers.  Time advances in minutes.                           *)
(***************************************************************************)
EXTENDS Naturals, FiniteSets

CONSTANTS
    NTargets,     \* length of the queue
    StaleAfter,   \* STALE_MESSAGE_THRESHOLD_MS (5 minutes)
    MaxTime,      \* bound: minutes
    MaxDrains,    \* bound: drain cycles that overlap
    Threshold401  \* TELEGRAM_CIRCUIT_BREAKER_THRESHOLD (10)

ASSUME DeliveryAssumption ==
    /\ NTargets \in Nat /\ StaleAfter \in Nat /\ MaxTime \in Nat
    /\ MaxDrains \in Nat /\ Threshold401 \in Nat \ {0}

VARIABLES
    minute,
    valid,        \* target -> its channel is neither empty nor "none"
    suspended,    \* targets the caller has suspended
    lastAttempt,  \* target -> minute of the last attempt, or Never
    failures,     \* target -> consecutive failures
    lastCycle,    \* history: minute of the last cycle, or Never
    lateCycle,    \* history: a cycle came more than StaleAfter after the one before
    drains,       \* drain guards alive
    draining,     \* the flag
    n401,         \* consecutive 401s
    waiting401,   \* the backoff lasts
    circuitOpen

delVars == <<minute, valid, suspended, lastAttempt, failures, lastCycle, lateCycle,
             drains, draining, n401, waiting401, circuitOpen>>
queueVars == <<valid, suspended, lastAttempt, failures, lastCycle, lateCycle>>
drainVars == <<drains, draining>>
telegramVars == <<n401, waiting401, circuitOpen>>

Targets == 1 .. NTargets
Never == MaxTime + 1

DelInit ==
    /\ minute = 0
    /\ valid = [i \in Targets |-> TRUE] /\ suspended = {}
    /\ lastAttempt = [i \in Targets |-> Never]
    /\ failures = [i \in Targets |-> 0]
    /\ lastCycle = Never /\ lateCycle = FALSE
    /\ drains = 0 /\ draining = FALSE
    /\ n401 = 0 /\ waiting401 = FALSE /\ circuitOpen = FALSE

TimePasses ==
    /\ minute < MaxTime
    /\ minute' = minute + 1
    /\ UNCHANGED queueVars /\ UNCHANGED drainVars /\ UNCHANGED telegramVars

(* The caller queues its targets before the first cycle, some of them for  *)
(* no channel, some suspended.                                             *)
QueueTargets(ok, held) ==
    /\ lastCycle = Never
    /\ valid' = ok /\ suspended' = held
    /\ UNCHANGED <<minute, lastAttempt, failures, lastCycle, lateCycle>>
    /\ UNCHANGED drainVars /\ UNCHANGED telegramVars

(* is_stale_message, of the last attempt.                                  *)
Stale(i) == lastAttempt[i] # Never /\ minute - lastAttempt[i] > StaleAfter

(* Mutant of Tried: a failed target ends the cycle, as it once did.        *)
TriedUntilFailure(i) ==
    /\ i \notin suspended /\ ~Stale(i)
    /\ \A j \in 1 .. i - 1 : j \in suspended \/ Stale(j) \/ valid[j]

(* The targets a cycle tries: all but the suspended and the stale.         *)
Tried(i) == i \notin suspended /\ ~Stale(i)

(* process_delivery_queue.                                                 *)
RecoveryCycle ==
    /\ lastAttempt' = [i \in Targets |-> IF Tried(i) THEN minute ELSE lastAttempt[i]]
    /\ failures' = [i \in Targets |-> IF ~Tried(i) THEN failures[i]
                                      ELSE IF valid[i] THEN 0
                                      ELSE IF failures[i] < 2 THEN failures[i] + 1 ELSE 2]
    /\ lastCycle' = minute
    /\ lateCycle' = (lateCycle \/ (lastCycle # Never /\ minute - lastCycle > StaleAfter))
    /\ UNCHANGED <<minute, valid, suspended>>
    /\ UNCHANGED drainVars /\ UNCHANGED telegramVars

(* DrainGuard: start, and drop, at the end of the cycle or in a panic.     *)
DrainStart ==
    /\ drains < MaxDrains
    /\ drains' = drains + 1 /\ draining' = TRUE
    /\ UNCHANGED minute /\ UNCHANGED queueVars /\ UNCHANGED telegramVars

DrainDrop ==
    /\ drains > 0
    /\ drains' = drains - 1 /\ draining' = FALSE
    /\ UNCHANGED minute /\ UNCHANGED queueVars /\ UNCHANGED telegramVars

(* A request to Telegram that should_skip lets through, and its outcome.   *)
Request401 ==
    /\ ~circuitOpen /\ ~waiting401
    /\ n401' = n401 + 1 /\ waiting401' = TRUE
    /\ circuitOpen' = (n401' >= Threshold401)
    /\ UNCHANGED minute /\ UNCHANGED queueVars /\ UNCHANGED drainVars

RequestSucceeds ==
    /\ ~circuitOpen /\ ~waiting401
    /\ n401' = 0 /\ waiting401' = FALSE /\ circuitOpen' = FALSE
    /\ UNCHANGED minute /\ UNCHANGED queueVars /\ UNCHANGED drainVars

BackoffExpires ==
    /\ waiting401
    /\ waiting401' = FALSE
    /\ UNCHANGED <<n401, circuitOpen>>
    /\ UNCHANGED minute /\ UNCHANGED queueVars /\ UNCHANGED drainVars

DelNext ==
    \/ TimePasses
    \/ \E ok \in [Targets -> BOOLEAN], held \in SUBSET Targets : QueueTargets(ok, held)
    \/ RecoveryCycle
    \/ DrainStart
    \/ DrainDrop
    \/ Request401
    \/ RequestSucceeds
    \/ BackoffExpires

DelSpec == DelInit /\ [][DelNext]_delVars

-----------------------------------------------------------------------------
DelTypeOK ==
    /\ minute \in 0 .. MaxTime
    /\ valid \in [Targets -> BOOLEAN] /\ suspended \subseteq Targets
    /\ lastAttempt \in [Targets -> 0 .. Never] /\ failures \in [Targets -> 0 .. 2]
    /\ lastCycle \in 0 .. Never /\ lateCycle \in BOOLEAN
    /\ drains \in 0 .. MaxDrains /\ draining \in BOOLEAN
    /\ n401 \in 0 .. Threshold401 /\ waiting401 \in BOOLEAN /\ circuitOpen \in BOOLEAN

(* As long as no cycle comes late, every target that is not suspended was  *)
(* tried in the last one, behind whatever targets that fail, and nothing   *)
(* ever counts as stale; the first late cycle loses them all for good.     *)
TargetsKeepUp ==
    lastCycle # Never =>
        \A i \in Targets \ suspended :
            /\ ~lateCycle => lastAttempt[i] = lastCycle
            /\ lateCycle => lastAttempt[i] < lastCycle
=============================================================================
