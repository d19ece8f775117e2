------------------------------- MODULE Fallback -------------------------------
(***************************************************************************)
(* Model failover (src/agents/model_fallback.rs): a map of cooldowns and   *)
(* the choice of the next model of a chain.  The gateway keeps one such    *)
(* map behind a lock; nothing drives it yet, so any order of calls is      *)
(* possible.                                                               *)
(***************************************************************************)
EXTENDS Naturals, Sequences, SequencesExt

CONSTANTS
    Chain,      \* the configured models, in order of preference
    Cooldowns,  \* durations of cooldowns, the default one among them
    MaxClock    \* bound: the clock

ASSUME FallbackAssumption ==
    /\ Chain \in Seq(ToSet(Chain))
    /\ Cooldowns \subseteq Nat /\ MaxClock \in Nat

VARIABLES
    clock,
    cooldowns,  \* model -> time its cooldown expires; no entry, no cooldown
    restUntil,  \* history: model -> end of the cooldown of its last failure
    statuses    \* status of the last failure, and what was made of it

fbVars == <<clock, cooldowns, restUntil, statuses>>

Models == ToSet(Chain)

FbInit ==
    /\ clock = 0
    /\ cooldowns = [m \in {} |-> 0]
    /\ restUntil = [m \in Models |-> 0]
    /\ statuses = <<200, "none">>

(* classify_http_error: 402 is a lack of balance whatever its body says.   *)
Reason(status) ==
    CASE status = 429 -> "RateLimit"
      [] status \in {401, 403} -> "AuthError"
      [] status = 402 -> "InsufficientBalance"
      [] status \in {408, 504} -> "Timeout"
      [] status = 499 -> "ClientClosed"
      [] OTHER -> "Unknown"

(* is_retryable; MalformedResponse has no status.                          *)
IsRetryable(reason) == reason \in {"Timeout", "RateLimit", "MalformedResponse", "ClientClosed"}

(* record_failure and record_failure_with_cooldown: the new expiry         *)
(* replaces the old one, be it later or earlier.                           *)
RecordFailure(m, d, status) ==
    /\ cooldowns' = [x \in DOMAIN cooldowns \cup {m} |->
                        IF x = m THEN clock + d ELSE cooldowns[x]]
    /\ restUntil' = [restUntil EXCEPT ![m] = clock + d]
    /\ statuses' = <<status, Reason(status)>>
    /\ UNCHANGED clock

OnCooldown(m) == m \in DOMAIN cooldowns /\ clock < cooldowns[m]

(* Mutant of Kept: the entries that have expired are the ones kept.        *)
KeptExpired == {m \in DOMAIN cooldowns : cooldowns[m] <= clock}

Kept == {m \in DOMAIN cooldowns : clock < cooldowns[m]}

ClearExpired ==
    /\ cooldowns' = [m \in Kept |-> cooldowns[m]]
    /\ UNCHANGED <<clock, restUntil, statuses>>

ClearAll ==
    /\ cooldowns' = [m \in {} |-> 0]
    /\ restUntil' = [m \in Models |-> 0]
    /\ UNCHANGED <<clock, statuses>>

ClockTicks ==
    /\ clock < MaxClock /\ clock' = clock + 1
    /\ UNCHANGED <<cooldowns, restUntil, statuses>>

(* resolve_next_fallback: the first model that is neither the failed one   *)
(* nor on cooldown; 0 is None.                                             *)
NextFallback(failed) ==
    SelectInSeq(Chain, LAMBDA m : m # failed /\ ~OnCooldown(m))

FbNext ==
    \/ \E m \in Models, d \in Cooldowns, s \in {402, 429, 500} :
           RecordFailure(m, d, s)
    \/ ClearExpired
    \/ ClearAll
    \/ ClockTicks

FbSpec == FbInit /\ [][FbNext]_fbVars

-----------------------------------------------------------------------------
FbTypeOK ==
    /\ clock \in 0 .. MaxClock
    /\ DOMAIN cooldowns \subseteq Models
    /\ \A m \in DOMAIN cooldowns : cooldowns[m] \in Nat

(* Whatever failures, collections of expired entries and passing of time   *)
(* come between, the next fallback is a model whose last failure is no     *)
(* longer held against it, the first such one, and there is none only when *)
(* every other model still rests.                                          *)
FailedModelsRest ==
    \A failed \in Models :
        LET k == NextFallback(failed)
            rested(m) == m # failed /\ restUntil[m] <= clock
        IN IF k = 0 THEN \A m \in Models : ~rested(m)
           ELSE rested(Chain[k]) /\ \A j \in 1 .. k - 1 : ~rested(Chain[j])
=============================================================================
