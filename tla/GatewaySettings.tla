-------------------------- MODULE GatewaySettings --------------------------
(***************************************************************************)
(* Settings the gateway's clients share (src/gateway/websocket.rs): the    *)
(* set-up wizard, speech, wake words, the execution policies and the       *)
(* heartbeat mode.  Each value has its own lock.  wizard.start and         *)
(* wizard.cancel write two of them one after the other, wizard.next writes *)
(* both under the lock of the step: requests of other connections run in   *)
(* between.  The requests that only read (wizard.status, tts.status, ...)  *)
(* change nothing and are left out.                                        *)
(***************************************************************************)
EXTENDS Naturals, Sequences

CONSTANTS
    SetClients,   \* connections
    TotalSteps,   \* steps of the wizard (5)
    MaxSettings   \* bound: requests handled

ASSUME SettingsAssumption == TotalSteps \in Nat \ {0} /\ MaxSettings \in Nat

VARIABLES
    wizardActive, wizardStep,
    ttsEnabled, ttsProvider,
    heartbeat,
    listOf,     \* the lists a request replaces as a whole
    setPc,      \* connection -> the request it is in the middle of, or "idle"
    handled,    \* requests handled so far
    overtook    \* history: the last start ran between a cancel's two writes

setVars == <<wizardActive, wizardStep, ttsEnabled, ttsProvider, heartbeat,
             listOf, setPc, handled, overtook>>

(* voice_wake_triggers, exec_policies and exec_node_policies.              *)
Lists == {"voicewake", "exec", "execNode"}

SetInit ==
    /\ wizardActive = FALSE /\ wizardStep = 0
    /\ ttsEnabled = FALSE /\ ttsProvider = "none"
    /\ heartbeat = "auto"
    /\ listOf = [l \in Lists |-> "default"]
    /\ setPc = [c \in SetClients |-> "idle"]
    /\ handled = 0
    /\ overtook = FALSE

Accept(c) ==
    /\ setPc[c] = "idle"
    /\ handled < MaxSettings
    /\ handled' = handled + 1

Starting == \E c \in SetClients : setPc[c] = "start"
Cancelling == \E c \in SetClients : setPc[c] = "cancel"

UnchangedTts == UNCHANGED <<ttsEnabled, ttsProvider, heartbeat, listOf>>

WizardStart(c) ==
    /\ Accept(c)
    /\ wizardActive' = TRUE
    /\ setPc' = [setPc EXCEPT ![c] = "start"]
    /\ overtook' = (overtook \/ Cancelling)
    /\ UNCHANGED wizardStep /\ UnchangedTts

WizardStarted(c) ==
    /\ setPc[c] = "start"
    /\ wizardStep' = 1
    /\ setPc' = [setPc EXCEPT ![c] = "idle"]
    /\ overtook' = (overtook /\ Cancelling)
    /\ UNCHANGED <<wizardActive, handled>> /\ UnchangedTts

(* Mutant of WizardNext: the wizard ends one step late.                    *)
WizardNextLate(c) ==
    /\ Accept(c)
    /\ wizardStep' = wizardStep + 1
    /\ wizardActive' = (wizardActive /\ wizardStep <= TotalSteps)
    /\ setPc' = [setPc EXCEPT ![c] = "idle"]
    /\ UNCHANGED overtook /\ UnchangedTts

WizardNext(c) ==
    /\ Accept(c)
    /\ wizardStep' = wizardStep + 1
    /\ wizardActive' = (wizardActive /\ wizardStep' <= TotalSteps)
    /\ setPc' = [setPc EXCEPT ![c] = "idle"]
    /\ UNCHANGED overtook /\ UnchangedTts

WizardCancel(c) ==
    /\ Accept(c)
    /\ wizardActive' = FALSE
    /\ setPc' = [setPc EXCEPT ![c] = "cancel"]
    /\ UNCHANGED <<wizardStep, overtook>> /\ UnchangedTts

WizardCancelled(c) ==
    /\ setPc[c] = "cancel"
    /\ wizardStep' = 0
    /\ setPc' = [setPc EXCEPT ![c] = "idle"]
    /\ UNCHANGED <<wizardActive, handled, overtook>> /\ UnchangedTts

(* tts.enable / .disable, tts.setProvider and set-heartbeats: one lock,    *)
(* one write; a request without the parameter writes nothing.              *)
TtsSwitch(c, on) ==
    /\ Accept(c)
    /\ ttsEnabled' = on
    /\ UNCHANGED <<wizardActive, wizardStep, ttsProvider, heartbeat, listOf, setPc,
                   overtook>>

TtsSetProvider(c, p) ==
    /\ Accept(c)
    /\ ttsProvider' = p
    /\ UNCHANGED <<wizardActive, wizardStep, ttsEnabled, heartbeat, listOf, setPc,
                   overtook>>

SetHeartbeats(c, mode) ==
    /\ Accept(c)
    /\ heartbeat' = mode
    /\ UNCHANGED <<wizardActive, wizardStep, ttsEnabled, ttsProvider, listOf, setPc,
                   overtook>>

(* voicewake.set, exec.approvals.set and exec.approvals.node.set replace a *)
(* list by the client's, whatever other clients wrote since it was read.   *)
ListWritten(c, l) ==
    /\ Accept(c)
    /\ listOf' = [listOf EXCEPT ![l] = c]
    /\ UNCHANGED <<wizardActive, wizardStep, ttsEnabled, ttsProvider, heartbeat, setPc,
                   overtook>>

VoicewakeSet(c) == ListWritten(c, "voicewake")
ExecApprovalsSet(c) == ListWritten(c, "exec")
ExecApprovalsNodeSet(c) == ListWritten(c, "execNode")

SetNext ==
    \E c \in SetClients :
        \/ WizardStart(c)
        \/ WizardStarted(c)
        \/ WizardNext(c)
        \/ WizardCancel(c)
        \/ WizardCancelled(c)
        \/ \E on \in BOOLEAN : TtsSwitch(c, on)
        \/ \E p \in {"openai", "system"} : TtsSetProvider(c, p)
        \/ \E mode \in {"auto", "off"} : SetHeartbeats(c, mode)
        \/ VoicewakeSet(c) \/ ExecApprovalsSet(c) \/ ExecApprovalsNodeSet(c)

SetSpec == SetInit /\ [][SetNext]_setVars

-----------------------------------------------------------------------------
SetTypeOK ==
    /\ wizardActive \in BOOLEAN /\ ttsEnabled \in BOOLEAN
    /\ wizardStep \in 0 .. MaxSettings + 1
    /\ listOf \in [Lists -> SetClients \cup {"default"}]
    /\ setPc \in [SetClients -> {"idle", "start", "cancel"}]
    /\ handled \in 0 .. MaxSettings
    /\ overtook \in BOOLEAN

(* However start, next and cancel of several connections interleave, a     *)
(* wizard that is active with no start under way does not stand past its   *)
(* last step, and it stands before its first one only when a start ran     *)
(* between the two writes of another connection's wizard.cancel, whose     *)
(* second write then takes the started wizard back to step 0.              *)
WizardWithinSteps ==
    wizardActive /\ ~Starting =>
        /\ wizardStep <= TotalSteps
        /\ wizardStep = 0 => overtook
=============================================================================
