----------------------------- MODULE AbortSignal -----------------------------
(***************************************************************************)
(* The abort handle (src/infra/abort_signal.rs): a flag and a tokio Notify.*)
(* A Notified future completes if notify_waiters is called after it was    *)
(* made, polled or not, and notify_waiters leaves nothing for later ones.  *)
(* A monitored task runs beside the wait and the first to end wins.        *)
(***************************************************************************)
EXTENDS Naturals, FiniteSets

CONSTANTS
    Waiters,   \* calls of monitor_with_abort_lifecycle
    MaxAborts  \* bound: calls of abort()

ASSUME AbortAssumption == MaxAborts \in Nat

VARIABLES
    aborted,    \* the flag
    aborting,   \* calls of abort() between the store and notify_waiters
    notices,    \* calls of notify_waiters so far
    seenNotice, \* waiter -> notices when its future was made
    waitPc,     \* waiter -> "loop", "check", "await", "aborted" or "done"
    aborts      \* calls of abort() so far

abortVars == <<aborted, aborting, notices, seenNotice, waitPc, aborts>>

AbortInit ==
    /\ aborted = FALSE /\ aborting = 0
    /\ notices = 0 /\ aborts = 0
    /\ seenNotice = [w \in Waiters |-> 0]
    /\ waitPc = [w \in Waiters |-> "loop"]

Abort ==
    /\ aborts < MaxAborts
    /\ aborts' = aborts + 1
    /\ aborted' = TRUE
    /\ aborting' = aborting + 1
    /\ UNCHANGED <<notices, seenNotice, waitPc>>

NotifyWaiters ==
    /\ aborting > 0
    /\ aborting' = aborting - 1
    /\ notices' = notices + 1
    /\ UNCHANGED <<aborted, seenNotice, waitPc, aborts>>

MakeNotified(w) ==
    /\ waitPc[w] = "loop"
    /\ seenNotice' = [seenNotice EXCEPT ![w] = notices]
    /\ waitPc' = [waitPc EXCEPT ![w] = "check"]
    /\ UNCHANGED <<aborted, aborting, notices, aborts>>

CheckFlag(w) ==
    /\ waitPc[w] = "check"
    /\ waitPc' = [waitPc EXCEPT ![w] = IF aborted THEN "aborted" ELSE "await"]
    /\ UNCHANGED <<aborted, aborting, notices, seenNotice, aborts>>

(* Mutant of Woken: the future is made when it is awaited, after the flag. *)
WokenByLaterOnly(w) ==
    /\ waitPc[w] = "await"
    /\ ~aborted /\ seenNotice[w] < notices
    /\ waitPc' = [waitPc EXCEPT ![w] = "loop"]
    /\ UNCHANGED <<aborted, aborting, notices, seenNotice, aborts>>

Woken(w) ==
    /\ waitPc[w] = "await"
    /\ seenNotice[w] < notices
    /\ waitPc' = [waitPc EXCEPT ![w] = "loop"]
    /\ UNCHANGED <<aborted, aborting, notices, seenNotice, aborts>>

(* The monitored task ends first.                                          *)
TaskEnds(w) ==
    /\ waitPc[w] \in {"loop", "check", "await"}
    /\ waitPc' = [waitPc EXCEPT ![w] = "done"]
    /\ UNCHANGED <<aborted, aborting, notices, seenNotice, aborts>>

AbortNext ==
    \/ Abort
    \/ NotifyWaiters
    \/ \E w \in Waiters : MakeNotified(w)
    \/ \E w \in Waiters : CheckFlag(w)
    \/ \E w \in Waiters : Woken(w)
    \/ \E w \in Waiters : TaskEnds(w)

WaitStep(w) == MakeNotified(w) \/ CheckFlag(w) \/ Woken(w)

AbortSpec ==
    /\ AbortInit /\ [][AbortNext]_abortVars
    /\ WF_abortVars(NotifyWaiters)
    /\ \A w \in Waiters : WF_abortVars(WaitStep(w))

-----------------------------------------------------------------------------
AbortTypeOK ==
    /\ aborted \in BOOLEAN
    /\ aborting \in 0 .. MaxAborts /\ notices \in 0 .. MaxAborts /\ aborts \in 0 .. MaxAborts
    /\ seenNotice \in [Waiters -> 0 .. MaxAborts]
    /\ waitPc \in [Waiters -> {"loop", "check", "await", "aborted", "done"}]

(* No wake-up is lost: wherever a wait stands when abort() is called,      *)
(* before its future, between the future and the flag, or asleep, it comes *)
(* back, if its task has not ended before.                                 *)
AbortReachesWaiters ==
    \A w \in Waiters : aborted ~> waitPc[w] \in {"aborted", "done"}
=============================================================================
