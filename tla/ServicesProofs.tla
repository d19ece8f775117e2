---------------------------- MODULE ServicesProofs ----------------------------
(***************************************************************************)
(* What holds of the services around the chat path for every instance: the *)
(* gateway's records and settings under racing clients, the channels and   *)
(* the web chat; and of the services side by side, each a behaviour of its *)
(* own specification.  One section per component.                          *)
(***************************************************************************)
EXTENDS MCServices, TransportProofs, RuntimeProofs, FiniteSetTheorems, SequenceTheorems, TLAPS

-----------------------------------------------------------------------------
(* The gateway's records.  A job that is not scheduled has at least as     *)
(* many stray runs to its account as there are requests between their two  *)
(* locks for it; every file of an agent was an edit.                       *)

Triggerers(i) == {c \in RecClients : triggering[c] = i}

StraysCovered ==
    \A i \in Ids \ Scheduled : Cardinality(Triggerers(i)) <= strays[i]

RecInv ==
    /\ RecTypeOK
    /\ edits \in 0 .. MaxEdits
    /\ \A i \in Ids : files[i] <= edits
    /\ strays \in [Ids -> Nat]
    /\ StraysCovered

LEMMA RecTyped ==
    ASSUME RecInv
    PROVE  /\ MaxIds \in Nat /\ MaxEdits \in Nat /\ edits \in Nat /\ edits <= MaxEdits
           /\ Ids \subseteq Nat /\ 0 \notin Ids
           /\ agents \in [Ids -> Full \cup {NoRecord}]
           /\ files \in [Ids -> 0 .. MaxEdits]
           /\ jobs \in [Ids -> {"added", "updated", NoRecord}]
           /\ runs \in Seq(Ids)
           /\ triggering \in [RecClients -> Ids \cup {0}]
           /\ approvals \in [Ids -> Decisions \cup {"pending", NoRecord}]
           /\ minted \in 0 .. MaxIds
           /\ strays \in [Ids -> Nat]
           /\ \A i \in Ids : files[i] \in Nat /\ files[i] <= edits
<1>1. MaxIds \in Nat /\ MaxEdits \in Nat
  BY RecAssumption DEF RecAssumption
<1>2. edits \in Nat /\ edits <= MaxEdits
  BY <1>1 DEF RecInv
<1>3. Ids \subseteq Nat /\ 0 \notin Ids
  BY <1>1 DEF Ids
<1>4. \A i \in Ids : files[i] \in Nat
  BY <1>1 DEF RecInv, RecTypeOK
<1> QED BY <1>1, <1>2, <1>3, <1>4, Zenon DEF RecInv, RecTypeOK

LEMMA TriggerersFinite ==
    ASSUME NEW f, NEW i
    PROVE  /\ IsFiniteSet({c \in RecClients : f[c] = i})
           /\ Cardinality({c \in RecClients : f[c] = i}) \in Nat
<1>1. IsFiniteSet(RecClients)
  BY RecAssumption DEF RecAssumption
<1>2. IsFiniteSet({c \in RecClients : f[c] = i})
  BY <1>1, FS_Subset
<1> QED BY <1>2, FS_CardinalityType

LEMMA RecInitInv ==
    ASSUME RecInit
    PROVE  RecInv
<1>1. MaxIds \in Nat /\ MaxEdits \in Nat
  BY RecAssumption DEF RecAssumption
<1>2. /\ files \in [Ids -> 0 .. MaxEdits] /\ minted \in 0 .. MaxIds
      /\ edits \in 0 .. MaxEdits /\ \A i \in Ids : files[i] <= edits
  BY <1>1 DEF RecInit
<1>3. RecTypeOK /\ strays \in [Ids -> Nat]
  BY <1>2 DEF RecInit, RecTypeOK
<1>4. ASSUME NEW i \in Ids PROVE Cardinality(Triggerers(i)) <= strays[i]
  <2>1. i # 0
    BY <1>1 DEF Ids
  <2>2. Triggerers(i) = {}
    BY <2>1 DEF RecInit, Triggerers
  <2> QED BY <2>2, FS_EmptySet DEF RecInit
<1> QED BY <1>2, <1>3, <1>4 DEF RecInv, StraysCovered

(* Steps that leave the cron jobs, their runs and the strays alone.        *)
LEMMA RecordsAlone ==
    ASSUME RecInv, UNCHANGED <<jobs, runs, triggering, strays>>,
           agents' \in [Ids -> Full \cup {NoRecord}],
           files' \in [Ids -> 0 .. MaxEdits],
           approvals' \in [Ids -> Decisions \cup {"pending", NoRecord}],
           minted' \in 0 .. MaxIds,
           edits' \in 0 .. MaxEdits,
           \A i \in Ids : files'[i] <= edits'
    PROVE  RecInv'
<1>1. StraysCovered'
  BY DEF RecInv, StraysCovered, Scheduled, Triggerers
<1> QED BY <1>1, RecTyped DEF RecInv, RecTypeOK

LEMMA AgentsUpdateInv ==
    ASSUME RecInv, NEW id \in Ids, NEW g \in Partial, AgentsUpdate(id, g)
    PROVE  RecInv'
<1>1. /\ edits < MaxEdits /\ edits' = edits + 1 /\ agents[id] # NoRecord
      /\ agents' = [agents EXCEPT ![id] = Merged(@, g)]
      /\ UNCHANGED <<files, jobs, runs, triggering, approvals, minted, strays>>
  BY DEF AgentsUpdate, MayEdit
<1>2. agents[id] \in Full
  BY <1>1, RecTyped
<1>3. PICK S \in SUBSET Fields : g \in [S -> FieldValues]
  BY DEF Partial
<1>4. Merged(agents[id], g) \in Full
  <2>1. ASSUME NEW f \in Fields
        PROVE  (IF f \in DOMAIN g THEN g[f] ELSE agents[id][f]) \in FieldValues
    BY <1>2, <1>3 DEF Full
  <2> QED BY <2>1 DEF Merged, Full
<1>5. agents' \in [Ids -> Full \cup {NoRecord}]
  BY <1>1, <1>4, RecTyped
<1>6. edits' \in 0 .. MaxEdits /\ \A i \in Ids : files'[i] <= edits'
  BY <1>1, RecTyped
<1> QED BY <1>1, <1>5, <1>6, RecTyped, RecordsAlone

LEMMA RecordEditsInv ==
    ASSUME RecInv,
           \/ \E g \in Full : AgentsCreate(g)
           \/ \E i \in Ids : AgentsDelete(i) \/ FilesSet(i)
           \/ ApprovalRequest
           \/ \E i \in Ids, d \in Decisions : ApprovalResolve(i, d)
    PROVE  RecInv'
<1>1. edits \in 0 .. MaxEdits /\ (edits < MaxEdits => edits + 1 \in 0 .. MaxEdits)
  BY RecTyped
<1>2. \A i \in Ids : files[i] <= edits + 1 /\ files[i] + 1 <= edits + 1
  BY RecTyped
<1>3. Fresh \in Ids => Fresh \in 0 .. MaxIds
  BY RecTyped DEF Ids, Fresh
<1>4. ASSUME NEW g \in Full, AgentsCreate(g) PROVE RecInv'
  <2>1. /\ Fresh \in Ids /\ agents' = [agents EXCEPT ![Fresh] = g] /\ minted' = Fresh
        /\ UNCHANGED <<files, jobs, runs, triggering, approvals, edits, strays>>
    BY <1>4 DEF AgentsCreate
  <2>2. agents' \in [Ids -> Full \cup {NoRecord}]
    BY <2>1, RecTyped
  <2> QED BY <2>1, <2>2, <1>1, <1>3, RecTyped, RecordsAlone
<1>5. ASSUME NEW i \in Ids, AgentsDelete(i) PROVE RecInv'
  <2>1. /\ agents' = [agents EXCEPT ![i] = NoRecord]
        /\ UNCHANGED <<files, jobs, runs, triggering, approvals, minted, edits, strays>>
    BY <1>5 DEF AgentsDelete
  <2>2. agents' \in [Ids -> Full \cup {NoRecord}]
    BY <2>1, RecTyped
  <2> QED BY <2>1, <2>2, <1>1, RecTyped, RecordsAlone
<1>6. ASSUME NEW i \in Ids, FilesSet(i) PROVE RecInv'
  <2>1. /\ edits < MaxEdits /\ edits' = edits + 1 /\ files' = [files EXCEPT ![i] = @ + 1]
        /\ UNCHANGED <<agents, jobs, runs, triggering, approvals, minted, strays>>
    BY <1>6 DEF FilesSet, MayEdit
  <2>2. files[i] + 1 \in 0 .. MaxEdits
    BY <2>1, RecTyped
  <2>3. files' \in [Ids -> 0 .. MaxEdits]
    BY <2>1, <2>2, RecTyped
  <2>4. \A j \in Ids : files'[j] = IF j = i THEN files[j] + 1 ELSE files[j]
    BY <2>1, RecTyped
  <2>5. \A j \in Ids : files'[j] <= edits'
    BY <2>1, <2>4, <1>2
  <2> QED BY <2>1, <2>3, <2>5, <1>1, RecTyped, RecordsAlone
<1>7. CASE ApprovalRequest
  <2>1. /\ Fresh \in Ids /\ approvals' = [approvals EXCEPT ![Fresh] = "pending"] /\ minted' = Fresh
        /\ UNCHANGED <<agents, files, jobs, runs, triggering, edits, strays>>
    BY <1>7 DEF ApprovalRequest
  <2>2. approvals' \in [Ids -> Decisions \cup {"pending", NoRecord}]
    BY <2>1, RecTyped
  <2> QED BY <2>1, <2>2, <1>1, <1>3, RecTyped, RecordsAlone
<1>8. ASSUME NEW i \in Ids, NEW d \in Decisions, ApprovalResolve(i, d) PROVE RecInv'
  <2>1. /\ edits < MaxEdits /\ edits' = edits + 1 /\ approvals' = [approvals EXCEPT ![i] = d]
        /\ UNCHANGED <<agents, files, jobs, runs, triggering, minted, strays>>
    BY <1>8 DEF ApprovalResolve, MayEdit
  <2>2. approvals' \in [Ids -> Decisions \cup {"pending", NoRecord}]
    BY <2>1, RecTyped
  <2> QED BY <2>1, <2>2, <1>1, <1>2, RecTyped, RecordsAlone
<1> QED BY <1>4, <1>5, <1>6, <1>7, <1>8

(* Steps on the cron jobs.                                                 *)
LEMMA CronAlone ==
    ASSUME RecInv, UNCHANGED <<agents, files, approvals>>,
           jobs' \in [Ids -> {"added", "updated", NoRecord}],
           runs' \in Seq(Ids),
           triggering' \in [RecClients -> Ids \cup {0}],
           minted' \in 0 .. MaxIds,
           edits' \in {edits, edits + 1} /\ edits' <= MaxEdits,
           strays' \in [Ids -> Nat],
           StraysCovered'
    PROVE  RecInv'
<1>1. edits' \in 0 .. MaxEdits /\ \A i \in Ids : files'[i] <= edits'
  BY RecTyped
<1> QED BY <1>1, RecTyped DEF RecInv, RecTypeOK

LEMMA CronScheduleInv ==
    ASSUME RecInv, CronAdd \/ \E i \in Ids : CronUpdate(i)
    PROVE  RecInv'
<1>1. PICK i \in Ids, j \in {"added", "updated"} :
          /\ jobs' = [jobs EXCEPT ![i] = j]
          /\ UNCHANGED <<agents, files, runs, triggering, approvals, strays>>
          /\ minted' \in 0 .. MaxIds /\ edits' \in {edits, edits + 1} /\ edits' <= MaxEdits
  <2>1. CASE CronAdd
    <3>1. /\ Fresh \in Ids /\ jobs' = [jobs EXCEPT ![Fresh] = "added"]
          /\ UNCHANGED <<agents, files, runs, triggering, approvals, strays>>
          /\ minted' = Fresh /\ edits' = edits
      BY <2>1 DEF CronAdd
    <3>2. Fresh \in 0 .. MaxIds /\ edits <= MaxEdits
      BY <3>1, RecTyped DEF Ids
    <3> QED BY <3>1, <3>2
  <2>2. ASSUME NEW k \in Ids, CronUpdate(k)
        PROVE  \E i \in Ids, j \in {"added", "updated"} :
                   /\ jobs' = [jobs EXCEPT ![i] = j]
                   /\ UNCHANGED <<agents, files, runs, triggering, approvals, strays>>
                   /\ minted' \in 0 .. MaxIds /\ edits' \in {edits, edits + 1} /\ edits' <= MaxEdits
    <3>1. /\ jobs' = [jobs EXCEPT ![k] = "updated"]
          /\ UNCHANGED <<agents, files, runs, triggering, approvals, minted, strays>>
          /\ edits < MaxEdits /\ edits' = edits + 1
      BY <2>2 DEF CronUpdate, MayEdit
    <3>2. edits' <= MaxEdits
      BY <3>1, RecTyped
    <3> QED BY <3>1, <3>2, RecTyped
  <2> QED BY <2>1, <2>2
<1>2. jobs' \in [Ids -> {"added", "updated", NoRecord}]
  BY <1>1, RecTyped
<1>3. \A k \in Ids : k \notin Scheduled' => k \notin Scheduled
  <2>1. j # NoRecord
    BY RecAssumption DEF RecAssumption
  <2>2. \A k \in Ids : jobs'[k] = IF k = i THEN j ELSE jobs[k]
    BY <1>1, RecTyped
  <2> QED BY <2>1, <2>2 DEF Scheduled
<1>4. StraysCovered'
  <2>1. \A k \in Ids : k \notin Scheduled => Cardinality(Triggerers(k)) <= strays[k]
    BY DEF RecInv, StraysCovered
  <2>2. \A k \in Ids : k \notin Scheduled' => Cardinality(Triggerers(k)') <= strays'[k]
    BY <2>1, <1>1, <1>3 DEF Triggerers
  <2> QED BY <2>2 DEF StraysCovered
<1> QED BY <1>1, <1>2, <1>4, RecTyped, CronAlone

LEMMA CronRemoveInv ==
    ASSUME RecInv, NEW id \in Ids, CronRemove(id)
    PROVE  RecInv'
<1> DEFINE n == Cardinality({c \in RecClients : triggering[c] = id})
<1>1. /\ jobs' = [jobs EXCEPT ![id] = NoRecord]
      /\ strays' = [strays EXCEPT ![id] = n]
      /\ UNCHANGED <<agents, files, runs, triggering, approvals, minted, edits>>
  BY DEF CronRemove
<1>2. n \in Nat /\ n = Cardinality(Triggerers(id))
  BY TriggerersFinite DEF Triggerers
<1> HIDE DEF n
<1>3. /\ jobs' \in [Ids -> {"added", "updated", NoRecord}] /\ strays' \in [Ids -> Nat]
      /\ \A k \in Ids \ {id} : jobs'[k] = jobs[k] /\ strays'[k] = strays[k]
      /\ strays'[id] = n
  BY <1>1, <1>2, RecTyped
<1>4. StraysCovered'
  <2>1. \A k \in Ids : Triggerers(k)' = Triggerers(k)
    BY <1>1 DEF Triggerers
  <2>2. \A k \in Ids \ {id} : k \notin Scheduled' => Cardinality(Triggerers(k)') <= strays'[k]
    BY <1>3, <2>1 DEF RecInv, StraysCovered, Scheduled
  <2>3. Cardinality(Triggerers(id)') <= strays'[id]
    BY <1>2, <1>3, <2>1
  <2> QED BY <2>2, <2>3 DEF StraysCovered
<1>5. edits' \in {edits, edits + 1} /\ edits' <= MaxEdits
  BY <1>1, RecTyped
<1> QED BY <1>1, <1>3, <1>4, <1>5, RecTyped, CronAlone

LEMMA CronRunInv ==
    ASSUME RecInv, NEW c \in RecClients, NEW id \in Ids, CronRun(c, id)
    PROVE  RecInv'
<1>1. /\ triggering[c] = 0 /\ id \in Scheduled
      /\ triggering' = [triggering EXCEPT ![c] = id]
      /\ UNCHANGED <<agents, files, jobs, runs, approvals, minted, strays>>
      /\ edits < MaxEdits /\ edits' = edits + 1
  BY DEF CronRun, MayEdit
<1>2. triggering' \in [RecClients -> Ids \cup {0}]
  BY <1>1, RecTyped
<1>3. ASSUME NEW k \in Ids, k \notin Scheduled PROVE Triggerers(k)' = Triggerers(k)
  <2>1. k # id /\ k # 0
    BY <1>1, <1>3, RecTyped
  <2>2. \A d \in RecClients : triggering'[d] = k <=> triggering[d] = k
    BY <1>1, <2>1, RecTyped
  <2> QED BY <2>2 DEF Triggerers
<1>4. StraysCovered'
  <2>1. Scheduled' = Scheduled
    BY <1>1 DEF Scheduled
  <2> QED BY <1>1, <1>3, <2>1 DEF RecInv, StraysCovered
<1>5. edits' <= MaxEdits
  BY <1>1, RecTyped
<1> QED BY <1>1, <1>2, <1>4, <1>5, RecTyped, CronAlone

LEMMA CronRecordInv ==
    ASSUME RecInv, NEW c \in RecClients, CronRecord(c)
    PROVE  RecInv'
<1>1. triggering[c] \in Ids
  BY RecTyped DEF CronRecord
<1>2. PICK t \in Ids : t = triggering[c]
  BY <1>1
<1>3. /\ t # 0 /\ runs' = Append(runs, t)
      /\ strays' = IF t \in Scheduled THEN strays ELSE [strays EXCEPT ![t] = @ - 1]
      /\ triggering' = [triggering EXCEPT ![c] = 0]
      /\ UNCHANGED <<agents, files, jobs, approvals, minted, edits>>
  BY <1>2 DEF CronRecord
<1>4. runs' \in Seq(Ids)
  BY <1>3, <1>2, RecTyped
<1>5. /\ triggering' \in [RecClients -> Ids \cup {0}]
      /\ \A d \in RecClients : triggering'[d] = IF d = c THEN 0 ELSE triggering[d]
  BY <1>3, RecTyped
<1>6. ASSUME NEW k \in Ids, k # t PROVE Triggerers(k)' = Triggerers(k)
  <2>1. \A d \in RecClients : triggering'[d] = k <=> triggering[d] = k
    BY <1>5, <1>6, <1>2, RecTyped
  <2> QED BY <2>1 DEF Triggerers
<1>7. /\ Triggerers(t)' = Triggerers(t) \ {c} /\ c \in Triggerers(t)
      /\ Cardinality(Triggerers(t)) \in Nat
      /\ Cardinality(Triggerers(t)') = Cardinality(Triggerers(t)) - 1
      /\ Cardinality(Triggerers(t)') \in Nat
  <2>1. Triggerers(t)' = Triggerers(t) \ {c} /\ c \in Triggerers(t)
    <3>1. \A d \in RecClients : triggering'[d] = t <=> triggering[d] = t /\ d # c
      BY <1>3, <1>5, <1>2
    <3> QED BY <3>1, <1>2 DEF Triggerers
  <2>2. IsFiniteSet(Triggerers(t)) /\ Cardinality(Triggerers(t)) \in Nat
    BY TriggerersFinite DEF Triggerers
  <2>3. Cardinality(Triggerers(t) \ {c}) = Cardinality(Triggerers(t)) - 1
    BY <2>1, <2>2, FS_RemoveElement
  <2>4. Cardinality(Triggerers(t) \ {c}) \in Nat
    BY <2>2, FS_RemoveElement, FS_CardinalityType
  <2> QED BY <2>1, <2>2, <2>3, <2>4
<1>8. Scheduled' = Scheduled
  BY <1>3 DEF Scheduled
<1>9. \A k \in Ids : k \notin Scheduled => Cardinality(Triggerers(k)) <= strays[k]
  BY DEF RecInv, StraysCovered
<1>10. strays' \in [Ids -> Nat] /\ StraysCovered'
  <2>1. CASE t \in Scheduled
    <3>1. strays' = strays
      BY <1>3, <2>1
    <3>2. \A k \in Ids : k \notin Scheduled => Cardinality(Triggerers(k)') <= strays[k]
      BY <1>6, <1>9, <2>1
    <3> QED BY <3>1, <3>2, <1>8, RecTyped DEF StraysCovered
  <2>2. CASE t \notin Scheduled
    <3>1. strays' = [strays EXCEPT ![t] = strays[t] - 1]
      BY <1>3, <2>2
    <3>2. strays[t] \in Nat /\ Cardinality(Triggerers(t)) <= strays[t]
      BY <1>2, <1>9, <2>2, RecTyped
    <3>3. strays[t] - 1 \in Nat /\ Cardinality(Triggerers(t)') <= strays[t] - 1
      BY <3>2, <1>7
    <3>4. strays' \in [Ids -> Nat] /\ strays'[t] = strays[t] - 1
          /\ \A k \in Ids \ {t} : strays'[k] = strays[k]
      BY <3>1, <3>3, <1>2, RecTyped
    <3>5. \A k \in Ids : k \notin Scheduled => Cardinality(Triggerers(k)') <= strays'[k]
      BY <3>3, <3>4, <1>6, <1>9
    <3> QED BY <3>4, <3>5, <1>8 DEF StraysCovered
  <2> QED BY <2>1, <2>2
<1>11. edits' \in {edits, edits + 1} /\ edits' <= MaxEdits
  BY <1>3, RecTyped
<1> QED BY <1>3, <1>4, <1>5, <1>10, <1>11, RecTyped, CronAlone

LEMMA RecStepInv == RecInv /\ [RecNext]_recVars => RecInv'
<1> SUFFICES ASSUME RecInv, [RecNext]_recVars PROVE RecInv'
  OBVIOUS
<1>1. ASSUME NEW i \in Ids, NEW g \in Partial, AgentsUpdate(i, g) PROVE RecInv'
  BY <1>1, AgentsUpdateInv
<1>2. ASSUME NEW i \in Ids, CronRemove(i) PROVE RecInv'
  BY <1>2, CronRemoveInv
<1>3. ASSUME NEW c \in RecClients, NEW i \in Ids, CronRun(c, i) PROVE RecInv'
  BY <1>3, CronRunInv
<1>4. ASSUME NEW c \in RecClients, CronRecord(c) PROVE RecInv'
  BY <1>4, CronRecordInv
<1>5. CASE UNCHANGED recVars
  BY <1>5 DEF recVars, RecInv, RecTypeOK, StraysCovered, Scheduled, Triggerers
<1> QED BY <1>1, <1>2, <1>3, <1>4, <1>5, RecordEditsInv, CronScheduleInv DEF RecNext

(* A run recorded of a removed job was asked for while the job existed:    *)
(* there is at most one for each request that stood between the two locks  *)
(* of handle_cron_run when the job went (src/gateway/websocket.rs).        *)
THEOREM StrayRunsAreBounded == RecSpec => []StrayRunsBounded
<1>1. RecInv => StrayRunsBounded
  BY DEF RecInv, StrayRunsBounded
<1> QED BY <1>1, RecInitInv, RecStepInv, PTL DEF RecSpec
-----------------------------------------------------------------------------
(* The settings.  The wizard's step grows with the requests handled; while  *)
(* a cancel stands between its two writes the wizard is off, unless a start *)
(* has run since.                                                          *)

CancelledIsOff == Cancelling /\ ~overtook => ~wizardActive

SetInv ==
    /\ SetTypeOK
    /\ wizardStep <= handled + 1
    /\ CancelledIsOff
    /\ WizardWithinSteps

LEMMA SetTyped ==
    ASSUME SetInv
    PROVE  /\ MaxSettings \in Nat /\ TotalSteps \in Nat /\ TotalSteps >= 1
           /\ wizardActive \in BOOLEAN /\ ttsEnabled \in BOOLEAN /\ overtook \in BOOLEAN
           /\ wizardStep \in Nat /\ handled \in Nat
           /\ wizardStep <= handled + 1 /\ handled <= MaxSettings
           /\ listOf \in [Lists -> SetClients \cup {"default"}]
           /\ setPc \in [SetClients -> {"idle", "start", "cancel"}]
<1>1. MaxSettings \in Nat /\ TotalSteps \in Nat /\ TotalSteps >= 1
  BY SettingsAssumption DEF SettingsAssumption
<1>2. wizardStep \in Nat /\ handled \in Nat /\ handled <= MaxSettings
  BY <1>1 DEF SetInv, SetTypeOK
<1> QED BY <1>1, <1>2, Zenon DEF SetInv, SetTypeOK

LEMMA SetInitInv ==
    ASSUME SetInit
    PROVE  SetInv
<1>1. MaxSettings \in Nat
  BY SettingsAssumption DEF SettingsAssumption
<1>2. wizardStep \in 0 .. MaxSettings + 1 /\ handled \in 0 .. MaxSettings /\ wizardStep <= handled + 1
  BY <1>1 DEF SetInit
<1> QED BY <1>2 DEF SetInit, SetInv, SetTypeOK, WizardWithinSteps, CancelledIsOff

(* Steps on the wizard: what they leave of the rest.                       *)
LEMMA WizardAlone ==
    ASSUME SetInv, UnchangedTts,
           wizardActive' \in BOOLEAN, overtook' \in BOOLEAN,
           wizardStep' \in 0 .. MaxSettings + 1,
           handled' \in 0 .. MaxSettings, wizardStep' <= handled' + 1,
           setPc' \in [SetClients -> {"idle", "start", "cancel"}],
           CancelledIsOff', WizardWithinSteps'
    PROVE  SetInv'
<1> QED BY SetTyped DEF SetInv, SetTypeOK, UnchangedTts

(* What one connection's place says of all of them.                        *)
LEMMA PlacesMove ==
    ASSUME SetInv, NEW c \in SetClients, NEW v \in {"idle", "start", "cancel"},
           setPc' = [setPc EXCEPT ![c] = v]
    PROVE  /\ setPc' \in [SetClients -> {"idle", "start", "cancel"}]
           /\ v = "start" => Starting'
           /\ v # "cancel" /\ Cancelling' => Cancelling
           /\ v = "idle" /\ setPc[c] # "start" /\ ~Starting' => ~Starting
           /\ v = "cancel" /\ ~Starting' /\ setPc[c] # "start" => ~Starting
<1>1. setPc \in [SetClients -> {"idle", "start", "cancel"}]
  BY SetTyped
<1> QED BY <1>1 DEF Starting, Cancelling

LEMMA WizardInv ==
    ASSUME SetInv, NEW c \in SetClients,
           \/ WizardStart(c) \/ WizardStarted(c) \/ WizardNext(c)
           \/ WizardCancel(c) \/ WizardCancelled(c)
    PROVE  SetInv'
<1>1. /\ handled < MaxSettings => /\ handled + 1 \in 0 .. MaxSettings
                                  /\ wizardStep <= handled + 1 + 1
                                  /\ wizardStep + 1 <= handled + 1 + 1
                                  /\ wizardStep + 1 \in 0 .. MaxSettings + 1
      /\ handled \in 0 .. MaxSettings /\ wizardStep \in 0 .. MaxSettings + 1
      /\ \A k \in {0, 1} : k \in 0 .. MaxSettings + 1 /\ k <= handled + 1
  BY SetTyped
<1>2. (overtook \/ Cancelling) \in BOOLEAN /\ (overtook /\ Cancelling) \in BOOLEAN
  BY Zenon
<1>3. CASE WizardStart(c)
  <2>1. /\ handled < MaxSettings /\ handled' = handled + 1 /\ wizardActive' = TRUE
        /\ setPc' = [setPc EXCEPT ![c] = "start"] /\ wizardStep' = wizardStep
        /\ overtook' = (overtook \/ Cancelling) /\ UnchangedTts
    BY <1>3 DEF WizardStart, Accept
  <2>2. WizardWithinSteps'
    BY <2>1, PlacesMove DEF WizardWithinSteps
  <2>3. CancelledIsOff'
    BY <2>1, PlacesMove DEF CancelledIsOff
  <2> QED BY <2>1, <2>2, <2>3, <1>1, <1>2, SetTyped, PlacesMove, WizardAlone
<1>4. CASE WizardStarted(c)
  <2>1. /\ wizardStep' = 1 /\ setPc' = [setPc EXCEPT ![c] = "idle"]
        /\ overtook' = (overtook /\ Cancelling)
        /\ UNCHANGED <<wizardActive, handled>> /\ UnchangedTts
    BY <1>4 DEF WizardStarted
  <2>2. WizardWithinSteps'
    BY <2>1, SetTyped DEF WizardWithinSteps
  <2>3. CancelledIsOff'
    BY <2>1, PlacesMove DEF CancelledIsOff, SetInv
  <2> QED BY <2>1, <2>2, <2>3, <1>1, <1>2, SetTyped, PlacesMove, WizardAlone
<1>5. CASE WizardNext(c)
  <2>1. /\ handled < MaxSettings /\ handled' = handled + 1 /\ wizardStep' = wizardStep + 1
        /\ wizardActive' = (wizardActive /\ wizardStep' <= TotalSteps)
        /\ setPc[c] = "idle" /\ setPc' = [setPc EXCEPT ![c] = "idle"]
        /\ overtook' = overtook /\ UnchangedTts
    BY <1>5 DEF WizardNext, Accept
  <2>2. /\ wizardActive' => wizardActive /\ wizardStep' <= TotalSteps
        /\ wizardActive' \in BOOLEAN
    <3>1. (wizardActive /\ wizardStep' <= TotalSteps) \in BOOLEAN
      OBVIOUS
    <3> QED BY <3>1, <2>1, Zenon
  <2>3. wizardStep' # 0
    BY <2>1, SetTyped
  <2>4. WizardWithinSteps'
    BY <2>2, <2>3 DEF WizardWithinSteps
  <2>5. CancelledIsOff'
    BY <2>1, <2>2, PlacesMove DEF CancelledIsOff, SetInv
  <2> QED BY <2>1, <2>2, <2>4, <2>5, <1>1, SetTyped, PlacesMove, WizardAlone
<1>6. CASE WizardCancel(c)
  <2>1. /\ handled < MaxSettings /\ handled' = handled + 1 /\ wizardActive' = FALSE
        /\ setPc' = [setPc EXCEPT ![c] = "cancel"] /\ wizardStep' = wizardStep
        /\ overtook' = overtook /\ UnchangedTts
    BY <1>6 DEF WizardCancel, Accept
  <2>2. WizardWithinSteps' /\ CancelledIsOff'
    BY <2>1 DEF WizardWithinSteps, CancelledIsOff
  <2> QED BY <2>1, <2>2, <1>1, SetTyped, PlacesMove, WizardAlone
<1>7. CASE WizardCancelled(c)
  <2>1. /\ wizardStep' = 0 /\ setPc[c] = "cancel" /\ setPc' = [setPc EXCEPT ![c] = "idle"]
        /\ UNCHANGED <<wizardActive, handled, overtook>> /\ UnchangedTts
    BY <1>7 DEF WizardCancelled
  <2>2. Cancelling
    BY <2>1 DEF Cancelling
  <2>3. WizardWithinSteps'
    BY <2>1, <2>2, SetTyped DEF WizardWithinSteps, CancelledIsOff, SetInv
  <2>4. CancelledIsOff'
    BY <2>1, <2>2 DEF CancelledIsOff, SetInv
  <2> QED BY <2>1, <2>3, <2>4, <1>1, SetTyped, PlacesMove, WizardAlone
<1> QED BY <1>3, <1>4, <1>5, <1>6, <1>7

(* The other settings: one lock, one write, and never the wizard.          *)
LEMMA ValueInv ==
    ASSUME SetInv, UNCHANGED <<wizardActive, wizardStep, setPc, overtook>>,
           handled < MaxSettings, handled' = handled + 1,
           ttsEnabled' \in BOOLEAN,
           listOf' \in [Lists -> SetClients \cup {"default"}]
    PROVE  SetInv'
<1>1. handled' \in 0 .. MaxSettings /\ wizardStep' \in 0 .. MaxSettings + 1 /\ wizardStep' <= handled' + 1
  BY SetTyped
<1>2. WizardWithinSteps' /\ CancelledIsOff'
  BY DEF SetInv, WizardWithinSteps, CancelledIsOff, Starting, Cancelling
<1> QED BY <1>1, <1>2, SetTyped DEF SetInv, SetTypeOK

LEMMA SetStepInv == SetInv /\ [SetNext]_setVars => SetInv'
<1> SUFFICES ASSUME SetInv, [SetNext]_setVars PROVE SetInv'
  OBVIOUS
<1>1. ASSUME NEW c \in SetClients, NEW l \in Lists, ListWritten(c, l) PROVE SetInv'
  <2>1. listOf' \in [Lists -> SetClients \cup {"default"}]
    BY <1>1, SetTyped DEF ListWritten
  <2> QED BY <2>1, <1>1, SetTyped, ValueInv DEF ListWritten, Accept
<1>2. ASSUME NEW c \in SetClients, NEW on \in BOOLEAN, TtsSwitch(c, on) PROVE SetInv'
  BY <1>2, SetTyped, ValueInv DEF TtsSwitch, Accept
<1>3. ASSUME NEW c \in SetClients,
             \/ \E p \in {"openai", "system"} : TtsSetProvider(c, p)
             \/ \E mode \in {"auto", "off"} : SetHeartbeats(c, mode)
      PROVE  SetInv'
  BY <1>3, SetTyped, ValueInv DEF TtsSetProvider, SetHeartbeats, Accept
<1>4. ASSUME NEW c \in SetClients, VoicewakeSet(c) \/ ExecApprovalsSet(c) \/ ExecApprovalsNodeSet(c)
      PROVE  SetInv'
  BY <1>1, <1>4 DEF VoicewakeSet, ExecApprovalsSet, ExecApprovalsNodeSet, Lists
<1>5. CASE UNCHANGED setVars
  BY <1>5 DEF setVars, SetInv, SetTypeOK, WizardWithinSteps, CancelledIsOff, Starting,
                 Cancelling
<1> QED BY <1>2, <1>3, <1>4, <1>5, WizardInv DEF SetNext

(* The wizard (src/gateway/websocket.rs), active and with no start under    *)
(* way, does not stand past its last step, and it stands at step 0 only     *)
(* when a start ran between the two writes of a cancel, whatever requests  *)
(* of whichever connections interleave.                                    *)
THEOREM WizardStaysInside == SetSpec => []WizardWithinSteps
<1>1. SetInv => WizardWithinSteps
  BY DEF SetInv
<1> QED BY <1>1, SetInitInv, SetStepInv, PTL DEF SetSpec
-----------------------------------------------------------------------------
(* The channels.  The call a send is about to make is the one after those  *)
(* that have been answered, none of which failed.                          *)

AllCallsAccepted ==
    sendResult = "ok" =>
        /\ Len(replies) = Len(script.calls)
        /\ \A k \in 1 .. Len(replies) : ~Fails(script.calls[k], replies[k])

SendInOrder ==
    /\ sending > 0 => /\ sendResult = "none" /\ Len(replies) = sending - 1
                      /\ \A k \in 1 .. Len(replies) : ~Fails(script.calls[k], replies[k])
    /\ AllCallsAccepted
    /\ chanOps = 0 => sending = 0 /\ replies = <<>> /\ sendResult = "none"

ChanInv == ChanTypeOK /\ chanOps \in Nat /\ SendInOrder

(* Every plugin has a finite list of calls.                                *)
LEMMA PluginCalls ==
    ASSUME NEW p \in Plugins
    PROVE  p.calls \in Seq({"status", "code"}) /\ Len(p.calls) \in Nat
<1>1. /\ Telegram.calls = <<>> /\ Discord.calls = <<>> /\ Slack.calls = <<>>
      /\ WhatsApp.calls = <<>> /\ Signal.calls = <<>> /\ IMessage.calls = <<>>
      /\ Irc.calls = <<>> /\ Twitch.calls = <<>> /\ Nostr.calls = <<>>
  BY DEF Script, Telegram, Discord, Slack, WhatsApp, Signal, IMessage, Irc, Twitch, Nostr
<1>2. /\ Synology.calls = Post /\ Matrix.calls = Post /\ Mattermost.calls = Post
      /\ Nextcloud.calls = Post /\ BlueBubbles.calls = Post /\ Line.calls = Post
      /\ Tlon.calls = Post /\ GoogleChat.calls = Post
  BY DEF Script, Synology, Matrix, Mattermost, Nextcloud, BlueBubbles, Line, Tlon, GoogleChat
<1>3. /\ Zalo.calls = PostCode /\ ZaloUser.calls = PostCode
      /\ Feishu.calls = <<"code", "code">> /\ Teams.calls = <<"status", "status">>
  BY DEF Script, Zalo, ZaloUser, Feishu, Teams
<1>4. p.calls \in {<<>>, Post, PostCode, <<"code", "code">>, <<"status", "status">>}
  BY <1>1, <1>2, <1>3 DEF Plugins
<1>5. \A s \in {<<>>, Post, PostCode, <<"code", "code">>, <<"status", "status">>} :
          s \in Seq({"status", "code"})
  <2>1. /\ <<>> \in Seq({"status", "code"})
        /\ <<"status">> \in Seq({"status", "code"}) /\ <<"code">> \in Seq({"status", "code"})
        /\ <<"code", "code">> \in Seq({"status", "code"})
        /\ <<"status", "status">> \in Seq({"status", "code"})
    OBVIOUS
  <2> QED BY <2>1, Zenon DEF Post, PostCode
<1> QED BY <1>4, <1>5, LenProperties

LEMMA ChanTyped ==
    ASSUME ChanInv
    PROVE  /\ script \in Plugins /\ given \subseteq script.starts \cup script.sends
           /\ Len(script.calls) \in Nat
           /\ sending \in Nat /\ sending <= Len(script.calls)
           /\ replies \in Seq(Replies) /\ Len(replies) \in Nat
           /\ enabled \in BOOLEAN /\ cookie \in BOOLEAN
           /\ sendResult \in {"none", "ok", "error"}
           /\ chanOps \in Nat /\ MaxOps \in Nat
<1>1. script \in Plugins /\ replies \in Seq(Replies)
  BY DEF ChanInv, ChanTypeOK
<1>2. Len(script.calls) \in Nat /\ Len(replies) \in Nat /\ MaxOps \in Nat
  BY <1>1, PluginCalls, ChannelsAssumption DEF ChannelsAssumption
<1>3. sending \in Nat /\ sending <= Len(script.calls)
  BY <1>2 DEF ChanInv, ChanTypeOK
<1> QED BY <1>1, <1>2, <1>3, Zenon DEF ChanInv, ChanTypeOK

LEMMA ChanInitInv ==
    ASSUME ChanInit
    PROVE  ChanInv
<1>1. script \in Plugins
  BY DEF ChanInit, Plugins
<1>2. Len(script.calls) \in Nat
  BY <1>1, PluginCalls
<1>3. sending \in 0 .. Len(script.calls) /\ replies \in Seq(Replies)
  BY <1>2 DEF ChanInit
<1>4. ChanTypeOK
  BY <1>1, <1>3 DEF ChanInit, ChanTypeOK
<1> QED BY <1>4 DEF ChanInit, ChanInv, SendInOrder, AllCallsAccepted

LEMMA ChanStepInv == ChanInv /\ [ChanNext]_chanVars => ChanInv'
<1> SUFFICES ASSUME ChanInv, [ChanNext]_chanVars PROVE ChanInv'
  OBVIOUS
<1>1. ASSUME NEW p \in Plugins, Construct(p) PROVE ChanInv'
  <2>1. /\ chanOps = 0 /\ script' = p /\ given' \subseteq p.starts \cup p.sends
        /\ enabled' \in BOOLEAN /\ chanOps' = 1
        /\ UNCHANGED <<cookie, sending, replies, sendResult>>
    BY <1>1 DEF Construct
  <2>2. sending = 0 /\ replies = <<>> /\ sendResult = "none"
    BY <2>1 DEF ChanInv, SendInOrder
  <2>3. 0 \in 0 .. Len(p.calls)
    BY PluginCalls
  <2>4. ChanTypeOK'
    BY <2>1, <2>2, <2>3, ChanTyped DEF ChanTypeOK
  <2> QED BY <2>1, <2>2, <2>4 DEF ChanInv, SendInOrder, AllCallsAccepted
<1>2. CASE StartAccount \/ StopAccount
  <2>1. /\ chanOps \in 1 .. MaxOps /\ chanOps' = chanOps + 1 /\ cookie' \in BOOLEAN
        /\ UNCHANGED <<script, given, enabled, sending, replies, sendResult>>
    BY <1>2, ChanTyped DEF StartAccount, StopAccount, Op
  <2>2. chanOps' \in Nat /\ chanOps' # 0
    BY <2>1, ChanTyped
  <2>3. ChanTypeOK'
    BY <2>1, ChanTyped DEF ChanInv, ChanTypeOK
  <2> QED BY <2>1, <2>2, <2>3 DEF ChanInv, SendInOrder, AllCallsAccepted, Fails
<1>3. ASSUME NEW noReply \in BOOLEAN, SendMessage(noReply) PROVE ChanInv'
  <2>1. /\ chanOps \in 1 .. MaxOps /\ chanOps' = chanOps + 1 /\ replies' = <<>>
        /\ UNCHANGED <<script, given, enabled, cookie>>
    BY <1>3 DEF SendMessage, Op
  <2>2. chanOps' \in Nat /\ chanOps' # 0
    BY <2>1, ChanTyped
  <2>3. Slack.calls = <<>>
    BY DEF Slack, Script
  <2>4. \/ sending' = 0 /\ sendResult' = "ok" /\ script.calls = <<>>
        \/ sending' = 0 /\ sendResult' = "error"
        \/ sending' = 1 /\ sendResult' = "none" /\ script.calls # <<>>
    BY <1>3, <2>3 DEF SendMessage
  <2>5. script.calls # <<>> => 1 \in 0 .. Len(script.calls)
    BY ChanTyped, PluginCalls, EmptySeq
  <2>6. 0 \in 0 .. Len(script.calls) /\ <<>> \in Seq(Replies)
    BY ChanTyped
  <2>7. ChanTypeOK'
    BY <2>1, <2>4, <2>5, <2>6, ChanTyped DEF ChanTypeOK
  <2> QED BY <2>1, <2>2, <2>4, <2>7 DEF ChanInv, SendInOrder, AllCallsAccepted
<1>4. ASSUME NEW r \in Replies, CallReturns(r) PROVE ChanInv'
  <2>1. /\ sending > 0 /\ replies' = Append(replies, r)
        /\ UNCHANGED <<script, given, enabled, cookie, chanOps>>
    BY <1>4 DEF CallReturns
  <2>2. /\ sendResult = "none" /\ Len(replies) = sending - 1 /\ chanOps # 0
        /\ \A k \in 1 .. Len(replies) : ~Fails(script.calls[k], replies[k])
    BY <2>1 DEF ChanInv, SendInOrder
  <2>3. /\ replies' \in Seq(Replies) /\ Len(replies') = sending /\ replies'[sending] = r
        /\ \A k \in 1 .. sending - 1 : replies'[k] = replies[k]
    BY <2>1, <2>2, ChanTyped
  <2>4. ~Fails(script.calls[sending], r) =>
            \A k \in 1 .. Len(replies') : ~Fails(script'.calls[k], replies'[k])
    <3> SUFFICES ASSUME ~Fails(script.calls[sending], r), NEW k \in 1 .. Len(replies')
                 PROVE  ~Fails(script.calls[k], replies'[k])
      BY <2>1
    <3>1. CASE k = sending
      BY <3>1, <2>3
    <3>2. CASE k # sending
      <4>1. k \in 1 .. sending - 1 /\ k \in 1 .. Len(replies)
        BY <3>2, <2>2, <2>3, ChanTyped
      <4> QED BY <4>1, <2>2, <2>3
    <3> QED BY <3>1, <3>2
  <2>5. \/ sending' = 0 /\ sendResult' = "error"
        \/ /\ ~Fails(script.calls[sending], r) /\ sending < Len(script.calls)
           /\ sending' = sending + 1 /\ sendResult' = "none"
        \/ /\ ~Fails(script.calls[sending], r) /\ ~(sending < Len(script.calls))
           /\ sending' = 0 /\ sendResult' = "ok"
    BY <1>4 DEF CallReturns, Judged
  <2>6. sending' \in 0 .. Len(script.calls)
    BY <2>5, ChanTyped
  <2>7. ChanTypeOK'
    BY <2>1, <2>3, <2>5, <2>6, ChanTyped DEF ChanTypeOK
  <2>8. SendInOrder'
    <3>1. CASE sending' = 0 /\ sendResult' = "error"
      BY <3>1, <2>1, <2>2 DEF SendInOrder, AllCallsAccepted
    <3>2. CASE /\ ~Fails(script.calls[sending], r) /\ sending < Len(script.calls)
               /\ sending' = sending + 1 /\ sendResult' = "none"
      <4>1. Len(replies') = sending' - 1
        BY <3>2, <2>3, ChanTyped
      <4> QED BY <4>1, <3>2, <2>1, <2>2, <2>4 DEF SendInOrder, AllCallsAccepted
    <3>3. CASE /\ ~Fails(script.calls[sending], r) /\ ~(sending < Len(script.calls))
               /\ sending' = 0 /\ sendResult' = "ok"
      <4>1. Len(replies') = Len(script'.calls)
        BY <3>3, <2>1, <2>3, ChanTyped
      <4> QED BY <4>1, <3>3, <2>1, <2>2, <2>4 DEF SendInOrder, AllCallsAccepted
    <3> QED BY <2>5, <3>1, <3>2, <3>3
  <2> QED BY <2>1, <2>7, <2>8 DEF ChanInv
<1>5. CASE UNCHANGED chanVars
  BY <1>5 DEF chanVars, ChanInv, ChanTypeOK, SendInOrder, AllCallsAccepted, Fails
<1> QED BY <1>1, <1>2, <1>3, <1>4, <1>5 DEF ChanNext

(* A send of a channel plugin (src/channels/*.rs) that sends anything at    *)
(* all, and that answers ok, has made all its calls, and no reply of the   *)
(* platform said it failed.                                                *)
THEOREM ChannelsOkMeansAccepted == ChanSpec => []OkMeansAccepted
<1>1. ChanInv => OkMeansAccepted
  <2> SUFFICES ASSUME ChanInv, sendResult = "ok", script \notin Stubs
               PROVE  /\ replies # <<>> /\ Len(replies) = Len(script.calls)
                      /\ \A k \in 1 .. Len(replies) : ~Fails(script.calls[k], replies[k])
    BY DEF OkMeansAccepted
  <2>1. /\ Len(replies) = Len(script.calls)
        /\ \A k \in 1 .. Len(replies) : ~Fails(script.calls[k], replies[k])
    BY DEF ChanInv, SendInOrder, AllCallsAccepted
  <2>2. script.calls # <<>> /\ script.calls \in Seq({"status", "code"})
    BY ChanTyped, PluginCalls DEF Stubs
  <2>3. Len(script.calls) # 0
    BY <2>2, EmptySeq
  <2>4. replies # <<>>
    BY <2>1, <2>3
  <2> QED BY <2>1, <2>4
<1> QED BY <1>1, ChanInitInv, ChanStepInv, PTL DEF ChanSpec
-----------------------------------------------------------------------------
(* The web chat.  A broadcast under way is in nobody's inbox, and no inbox *)
(* has a message twice.                                                    *)

(* The client of i has been sent m.                                        *)
InboxHas(i, m) == \E k \in 1 .. Len(inboxes[i]) : inboxes[i][k] = m

Delivered(m) == \A i \in listeners[m] : InboxHas(i, m)
Once(i) == \A k, l \in 1 .. Len(inboxes[i]) : inboxes[i][k] = inboxes[i][l] => k = l

(* Only what has been sent and is not under way is in an inbox.            *)
NoneTooEarly(i) ==
    \A k \in 1 .. Len(inboxes[i]) :
        inboxes[i][k] \in 1 .. chatSends /\ inboxes[i][k] \notin underway

WebInv ==
    /\ WebTypeOK
    /\ \A m \in Messages : listeners[m] \subseteq clients \ dropped
    /\ \A m \in 1 .. chatSends : m \notin underway => Delivered(m)
    /\ \A i \in ChatIds : Once(i) /\ NoneTooEarly(i)

LEMMA WebTyped ==
    ASSUME WebTypeOK
    PROVE  /\ MaxSends \in Nat /\ clients \subseteq ChatIds /\ dropped \subseteq clients
           /\ chatSends \in Nat /\ chatSends <= MaxSends /\ underway \subseteq 1 .. chatSends
           /\ inboxes \in [ChatIds -> Seq(Messages)]
           /\ listeners \in [Messages -> SUBSET ChatIds]
           /\ \A m \in 1 .. chatSends : m \in Messages
<1>1. MaxSends \in Nat
  BY WebChatAssumption DEF WebChatAssumption
<1>2. chatSends \in Nat /\ chatSends <= MaxSends
  BY <1>1 DEF WebTypeOK
<1>3. \A m \in 1 .. chatSends : m \in Messages
  BY <1>1, <1>2 DEF Messages
<1> QED BY <1>1, <1>2, <1>3, Zenon DEF WebTypeOK

LEMMA WebInitInv ==
    ASSUME WebInit
    PROVE  WebInv
<1>1. MaxSends \in Nat
  BY WebChatAssumption DEF WebChatAssumption
<1>2. WebTypeOK
  BY <1>1 DEF WebInit, WebTypeOK
<1> QED BY <1>2 DEF WebInit, WebInv, Delivered, Once, NoneTooEarly

(* Listeners leave and inboxes are emptied of clients that left.           *)
LEMMA LeaveInv ==
    ASSUME WebInv, NEW S \in SUBSET ChatIds, Leave(S),
           clients' \subseteq ChatIds, dropped' \subseteq clients',
           (clients \ dropped) \ S \subseteq clients' \ dropped',
           UNCHANGED <<chatSends, underway>>,
           inboxes' \in [ChatIds -> Seq(Messages)],
           \A i \in ChatIds : \/ inboxes'[i] = inboxes[i]
                              \/ i \in S /\ inboxes'[i] = <<>>
    PROVE  WebInv'
<1> USE DEF WebInv
<1>1. /\ listeners' \in [Messages -> SUBSET ChatIds]
      /\ \A m \in Messages : listeners'[m] = listeners[m] \ S
  BY WebTyped DEF Leave
<1>2. WebTypeOK'
  BY <1>1 DEF WebTypeOK
<1>3. ASSUME NEW m \in 1 .. chatSends, m \notin underway, NEW i \in listeners'[m]
      PROVE  InboxHas(i, m)'
  <2>1. m \in Messages /\ i \in listeners[m] /\ i \notin S /\ i \in ChatIds
    BY <1>1, <1>3, WebTyped
  <2>2. InboxHas(i, m) /\ inboxes'[i] = inboxes[i]
    BY <2>1, <1>3 DEF Delivered
  <2> QED BY <2>2 DEF InboxHas
<1>4. ASSUME NEW i \in ChatIds PROVE Once(i)' /\ NoneTooEarly(i)'
  BY <1>4 DEF Once, NoneTooEarly
<1>5. ASSUME NEW m \in Messages PROVE listeners'[m] \subseteq clients' \ dropped'
  <2>1. listeners[m] \subseteq clients \ dropped
    OBVIOUS
  <2> QED BY <1>1, <2>1
<1>6. \A m \in 1 .. chatSends : m \notin underway => Delivered(m)'
  BY <1>3 DEF Delivered
<1> QED BY <1>2, <1>4, <1>5, <1>6

(* A message that was in no inbox is put into those of the ids in S.       *)
LEMMA PutTyped ==
    ASSUME WebTypeOK, NEW S \in SUBSET ChatIds, NEW m \in Messages, Put(S, m)
    PROVE  /\ inboxes' \in [ChatIds -> Seq(Messages)]
           /\ \A i \in ChatIds : i \notin S => inboxes'[i] = inboxes[i]
           /\ \A i \in S : /\ Len(inboxes'[i]) = Len(inboxes[i]) + 1
                           /\ inboxes'[i][Len(inboxes[i]) + 1] = m
                           /\ \A k \in 1 .. Len(inboxes[i]) : inboxes'[i][k] = inboxes[i][k]
           /\ \A i \in ChatIds : Len(inboxes[i]) \in Nat
<1>1. inboxes \in [ChatIds -> Seq(Messages)]
  BY WebTyped
<1>2. \A i \in ChatIds : Append(inboxes[i], m) \in Seq(Messages) /\ inboxes[i] \in Seq(Messages)
  BY <1>1
<1>3. /\ inboxes' \in [ChatIds -> Seq(Messages)]
      /\ \A i \in ChatIds : inboxes'[i] = IF i \in S THEN Append(inboxes[i], m) ELSE inboxes[i]
  BY <1>2 DEF Put
<1>4. ASSUME NEW i \in ChatIds
      PROVE  /\ Len(inboxes[i]) \in Nat
             /\ Len(Append(inboxes[i], m)) = Len(inboxes[i]) + 1
             /\ Append(inboxes[i], m)[Len(inboxes[i]) + 1] = m
             /\ \A k \in 1 .. Len(inboxes[i]) : Append(inboxes[i], m)[k] = inboxes[i][k]
  BY <1>2, AppendProperties
<1> QED BY <1>3, <1>4

LEMMA PutOne ==
    ASSUME WebTypeOK, NEW S \in SUBSET ChatIds, NEW m \in Messages, Put(S, m), NEW i \in S
    PROVE  /\ Len(inboxes[i]) \in Nat /\ Len(inboxes'[i]) = Len(inboxes[i]) + 1
           /\ inboxes'[i][Len(inboxes[i]) + 1] = m
           /\ \A k \in 1 .. Len(inboxes[i]) : inboxes'[i][k] = inboxes[i][k]
<1>1. inboxes \in [ChatIds -> Seq(Messages)] /\ i \in ChatIds
  BY WebTyped
<1>2. inboxes[i] \in Seq(Messages)
  BY <1>1
<1>3. inboxes'[i] = Append(inboxes[i], m)
  BY <1>1 DEF Put
<1>4. /\ Len(inboxes[i]) \in Nat /\ Len(Append(inboxes[i], m)) = Len(inboxes[i]) + 1
      /\ Append(inboxes[i], m)[Len(inboxes[i]) + 1] = m
      /\ \A k \in 1 .. Len(inboxes[i]) : Append(inboxes[i], m)[k] = inboxes[i][k]
  BY <1>2, AppendProperties
<1> QED BY <1>3, <1>4

LEMMA PutOld ==
    ASSUME WebTypeOK, NEW S \in SUBSET ChatIds, NEW m \in Messages, Put(S, m),
           NEW i \in ChatIds, NEW k \in 1 .. Len(inboxes'[i])
    PROVE  \/ inboxes'[i][k] = m
           \/ k \in 1 .. Len(inboxes[i]) /\ inboxes'[i][k] = inboxes[i][k]
<1>1. CASE i \in S
  <2>1. /\ Len(inboxes[i]) \in Nat /\ Len(inboxes'[i]) = Len(inboxes[i]) + 1
        /\ inboxes'[i][Len(inboxes[i]) + 1] = m
        /\ \A l \in 1 .. Len(inboxes[i]) : inboxes'[i][l] = inboxes[i][l]
    BY <1>1, PutOne
  <2>2. k = Len(inboxes[i]) + 1 \/ k \in 1 .. Len(inboxes[i])
    BY <2>1
  <2> QED BY <2>1, <2>2
<1>2. CASE i \notin S
  <2>1. inboxes'[i] = inboxes[i]
    BY <1>2, PutTyped
  <2> QED BY <2>1
<1> QED BY <1>1, <1>2

LEMMA PutInv ==
    ASSUME WebTypeOK, NEW S \in SUBSET ChatIds, NEW m \in Messages, Put(S, m),
           \A i \in ChatIds : Once(i) /\ \A k \in 1 .. Len(inboxes[i]) : inboxes[i][k] # m
    PROVE  /\ \A i \in ChatIds : Once(i)'
           /\ \A i \in S : InboxHas(i, m)'
           /\ \A i \in ChatIds, n \in Messages : InboxHas(i, n) => InboxHas(i, n)'
           /\ \A i \in ChatIds : \A k \in 1 .. Len(inboxes'[i]) :
                 \/ inboxes'[i][k] = m
                 \/ k \in 1 .. Len(inboxes[i]) /\ inboxes'[i][k] = inboxes[i][k]
<1>1. ASSUME NEW i \in ChatIds
      PROVE  /\ Once(i)'
             /\ i \in S => InboxHas(i, m)'
             /\ \A n \in Messages : InboxHas(i, n) => InboxHas(i, n)'
             /\ \A k \in 1 .. Len(inboxes'[i]) :
                  \/ inboxes'[i][k] = m
                  \/ k \in 1 .. Len(inboxes[i]) /\ inboxes'[i][k] = inboxes[i][k]
  <2>1. CASE i \notin S
    <3>1. inboxes'[i] = inboxes[i]
      BY <2>1, PutTyped
    <3> QED BY <2>1, <3>1 DEF Once, InboxHas
  <2>2. CASE i \in S
    <3> DEFINE a == inboxes[i]
               b == inboxes'[i]
    <3>1. /\ Len(a) \in Nat /\ Len(b) = Len(a) + 1 /\ b[Len(a) + 1] = m
          /\ \A k \in 1 .. Len(a) : b[k] = a[k]
      BY <2>2, PutOne
    <3>2. /\ \A k, l \in 1 .. Len(a) : a[k] = a[l] => k = l
          /\ \A k \in 1 .. Len(a) : a[k] # m
      BY DEF Once
    <3> HIDE DEF a, b
    <3>3. \A k \in 1 .. Len(b) : k = Len(a) + 1 \/ k \in 1 .. Len(a)
      BY <3>1
    <3>4. \A k, l \in 1 .. Len(b) : b[k] = b[l] => k = l
      BY <3>1, <3>2, <3>3
    <3>5. \A k \in 1 .. Len(b) : b[k] = m \/ (k \in 1 .. Len(a) /\ b[k] = a[k])
      BY <3>1, <3>3
    <3>6. \E k \in 1 .. Len(b) : b[k] = m
      BY <3>1
    <3>7. ASSUME NEW n \in Messages, \E k \in 1 .. Len(a) : a[k] = n
          PROVE  \E k \in 1 .. Len(b) : b[k] = n
      BY <3>1, <3>7
    <3> QED BY <3>4, <3>5, <3>6, <3>7 DEF a, b, Once, InboxHas
  <2> QED BY <2>1, <2>2
<1> QED BY <1>1

LEMMA BroadcastInv ==
    ASSUME WebInv, NEW m \in Messages, Broadcast(m)
    PROVE  WebInv'
<1> DEFINE S == clients \ dropped
<1>1. /\ m \in underway /\ underway' = underway \ {m}
      /\ Put(S, m)
      /\ UNCHANGED <<clients, dropped, chatSends, listeners>>
  BY DEF Broadcast
<1>2. WebTypeOK /\ S \in SUBSET ChatIds
  BY WebTyped DEF WebInv
<1> HIDE DEF S
<1>3. \A i \in ChatIds : Once(i) /\ \A k \in 1 .. Len(inboxes[i]) : inboxes[i][k] # m
  BY <1>1 DEF WebInv, NoneTooEarly
<1>4. WebTypeOK'
  BY <1>1, <1>2, <1>3, PutTyped DEF WebTypeOK
<1>5. \A i \in ChatIds : Once(i)' /\ NoneTooEarly(i)'
  <2> SUFFICES ASSUME NEW i \in ChatIds, NEW k \in 1 .. Len(inboxes'[i])
               PROVE  inboxes'[i][k] \in 1 .. chatSends /\ inboxes'[i][k] \notin underway'
    BY <1>1, <1>2, <1>3, PutInv DEF NoneTooEarly
  <2>1. \/ inboxes'[i][k] = m
        \/ k \in 1 .. Len(inboxes[i]) /\ inboxes'[i][k] = inboxes[i][k]
    BY <1>1, <1>2, <1>3, PutOld
  <2>2. m \in 1 .. chatSends
    BY <1>1, <1>2, WebTyped
  <2> QED BY <2>1, <2>2, <1>1 DEF WebInv, NoneTooEarly
<1>6. ASSUME NEW n \in 1 .. chatSends, n \notin underway', NEW i \in listeners[n]
      PROVE  InboxHas(i, n)'
  <2>1. n \in Messages /\ i \in S /\ i \in ChatIds
    BY <1>2, <1>6, WebTyped DEF WebInv, S
  <2>2. CASE n = m
    BY <2>1, <2>2, <1>1, <1>2, <1>3, PutInv
  <2>3. CASE n # m
    <3>1. n \notin underway
      BY <2>3, <1>1, <1>6
    <3>2. InboxHas(i, n)
      BY <3>1, <1>6 DEF WebInv, Delivered
    <3> QED BY <3>2, <2>1, <1>1, <1>2, <1>3, PutInv
  <2> QED BY <2>2, <2>3
<1> QED BY <1>1, <1>4, <1>5, <1>6 DEF WebInv, Delivered

(* A new message: nobody has it, and it has as listeners who is there.     *)
LEMMA NextMessageInv ==
    ASSUME WebInv, NEW S \in SUBSET (clients \ dropped), NextMessage(S)
    PROVE  /\ chatSends + 1 \in Messages /\ chatSends' = chatSends + 1 /\ chatSends' \in 0 .. MaxSends
           /\ chatSends + 1 \notin underway
           /\ 1 .. chatSends' = 1 .. chatSends \cup {chatSends + 1}
           /\ underway \subseteq 1 .. chatSends'
           /\ listeners' \in [Messages -> SUBSET ChatIds]
           /\ listeners'[chatSends + 1] = S
           /\ \A m \in 1 .. chatSends : listeners'[m] = listeners[m]
           /\ \A m \in Messages : listeners'[m] \subseteq clients \ dropped
           /\ \A i \in ChatIds : \A k \in 1 .. Len(inboxes[i]) : inboxes[i][k] # chatSends + 1
<1>1. WebTypeOK /\ S \in SUBSET ChatIds
  BY WebTyped DEF WebInv
<1>2. /\ chatSends < MaxSends /\ chatSends' = chatSends + 1
      /\ listeners' = [listeners EXCEPT ![chatSends + 1] = S]
  BY DEF NextMessage
<1>3. /\ chatSends \in Nat /\ MaxSends \in Nat /\ underway \subseteq 1 .. chatSends
      /\ listeners \in [Messages -> SUBSET ChatIds]
  BY <1>1, WebTyped
<1>4. /\ chatSends + 1 \in Messages /\ chatSends' \in 0 .. MaxSends
      /\ 1 .. chatSends' = 1 .. chatSends \cup {chatSends + 1}
      /\ chatSends + 1 \notin underway
      /\ \A m \in 1 .. chatSends : m # chatSends + 1
  BY <1>2, <1>3 DEF Messages
<1>5. \A i \in ChatIds : \A k \in 1 .. Len(inboxes[i]) : inboxes[i][k] # chatSends + 1
  BY <1>4 DEF WebInv, NoneTooEarly
<1>6. /\ listeners' \in [Messages -> SUBSET ChatIds]
      /\ listeners'[chatSends + 1] = S
      /\ \A m \in Messages \ {chatSends + 1} : listeners'[m] = listeners[m]
  BY <1>1, <1>2, <1>3, <1>4
<1>7. \A m \in 1 .. chatSends : m \in Messages \ {chatSends + 1}
  BY <1>1, <1>4, WebTyped
<1>8. \A m \in Messages : listeners'[m] \subseteq clients \ dropped
  BY <1>6 DEF WebInv
<1> QED BY <1>2, <1>3, <1>4, <1>5, <1>6, <1>7, <1>8

LEMMA SendToOneInv ==
    ASSUME WebInv, NEW i \in ChatIds, SendToOne(i)
    PROVE  WebInv'
<1> DEFINE m == chatSends + 1
<1>1. /\ {i} \in SUBSET (clients \ dropped) /\ {i} \in SUBSET ChatIds
      /\ NextMessage({i}) /\ Put({i}, m)
      /\ UNCHANGED <<clients, dropped, underway>>
  BY DEF SendToOne
<1>2. /\ m \in Messages /\ chatSends' \in 0 .. MaxSends /\ m \notin underway
      /\ 1 .. chatSends' = 1 .. chatSends \cup {m}
      /\ underway \subseteq 1 .. chatSends'
      /\ listeners' \in [Messages -> SUBSET ChatIds]
      /\ listeners'[m] = {i}
      /\ \A n \in 1 .. chatSends : listeners'[n] = listeners[n]
      /\ \A n \in Messages : listeners'[n] \subseteq clients \ dropped
      /\ \A j \in ChatIds : \A k \in 1 .. Len(inboxes[j]) : inboxes[j][k] # m
  BY <1>1, NextMessageInv
<1> HIDE DEF m
<1>3. WebTypeOK /\ \A j \in ChatIds : Once(j) /\ \A k \in 1 .. Len(inboxes[j]) : inboxes[j][k] # m
  BY <1>2 DEF WebInv
<1>4. WebTypeOK'
  BY <1>1, <1>2, <1>3, PutTyped DEF WebTypeOK
<1>5. \A j \in ChatIds : Once(j)' /\ NoneTooEarly(j)'
  <2> SUFFICES ASSUME NEW j \in ChatIds, NEW k \in 1 .. Len(inboxes'[j])
               PROVE  inboxes'[j][k] \in 1 .. chatSends' /\ inboxes'[j][k] \notin underway
    BY <1>1, <1>2, <1>3, PutInv DEF NoneTooEarly
  <2>1. \/ inboxes'[j][k] = m
        \/ k \in 1 .. Len(inboxes[j]) /\ inboxes'[j][k] = inboxes[j][k]
    <3>1. PICK T \in SUBSET ChatIds : Put(T, m)
      BY <1>1
    <3> QED BY <1>2, <1>3, <3>1, PutOld
  <2> QED BY <2>1, <1>2 DEF WebInv, NoneTooEarly
<1>6. ASSUME NEW n \in 1 .. chatSends', n \notin underway, NEW j \in listeners'[n]
      PROVE  InboxHas(j, n)'
  <2>1. CASE n = m
    BY <2>1, <1>1, <1>2, <1>3, <1>6, PutInv
  <2>2. CASE n # m
    <3>1. n \in 1 .. chatSends /\ listeners'[n] = listeners[n]
      BY <2>2, <1>2, <1>6
    <3>2. InboxHas(j, n) /\ n \in Messages /\ j \in ChatIds
      BY <3>1, <1>3, <1>6, WebTyped DEF WebInv, Delivered
    <3> QED BY <3>2, <1>1, <1>2, <1>3, PutInv
  <2> QED BY <2>1, <2>2
<1> QED BY <1>1, <1>2, <1>4, <1>5, <1>6 DEF WebInv, Delivered

LEMMA SendToAllInv ==
    ASSUME WebInv, SendToAll
    PROVE  WebInv'
<1> DEFINE m == chatSends + 1
           S == clients \ dropped
<1>1. /\ NextMessage(S) /\ underway' = underway \cup {m}
      /\ UNCHANGED <<clients, dropped, inboxes>>
  BY DEF SendToAll
<1>2. /\ m \in Messages /\ chatSends' \in 0 .. MaxSends /\ m \notin underway
      /\ 1 .. chatSends' = 1 .. chatSends \cup {m}
      /\ underway \subseteq 1 .. chatSends'
      /\ listeners' \in [Messages -> SUBSET ChatIds]
      /\ \A n \in 1 .. chatSends : listeners'[n] = listeners[n]
      /\ \A n \in Messages : listeners'[n] \subseteq clients \ dropped
      /\ \A j \in ChatIds : \A k \in 1 .. Len(inboxes[j]) : inboxes[j][k] # m
  BY <1>1, NextMessageInv
<1> HIDE DEF m, S
<1>3. WebTypeOK'
  BY <1>1, <1>2 DEF WebInv, WebTypeOK
<1>4. \A j \in ChatIds : Once(j)' /\ NoneTooEarly(j)'
  BY <1>1, <1>2 DEF WebInv, Once, NoneTooEarly
<1>5. ASSUME NEW n \in 1 .. chatSends', n \notin underway', NEW j \in listeners'[n]
      PROVE  InboxHas(j, n)'
  <2>1. n \in 1 .. chatSends /\ n \notin underway /\ listeners'[n] = listeners[n]
    BY <1>1, <1>2, <1>5
  <2> QED BY <2>1, <1>1, <1>5 DEF WebInv, Delivered, InboxHas
<1> QED BY <1>1, <1>2, <1>3, <1>4, <1>5 DEF WebInv, Delivered

LEMMA WebStepInv == WebInv /\ [WebNext]_chatVars => WebInv'
<1> SUFFICES ASSUME WebInv, [WebNext]_chatVars PROVE WebInv'
  OBVIOUS
<1>1. WebTypeOK
  BY DEF WebInv
<1>2. ASSUME NEW i \in ChatIds, RegisterClient(i) PROVE WebInv'
  <2>1. /\ clients' = clients \cup {i} /\ dropped' = dropped \ {i}
        /\ inboxes' = [inboxes EXCEPT ![i] = <<>>] /\ Leave({i})
        /\ UNCHANGED <<chatSends, underway>>
    BY <1>2 DEF RegisterClient
  <2>2. /\ inboxes' \in [ChatIds -> Seq(Messages)]
        /\ \A j \in ChatIds : inboxes'[j] = IF j = i THEN <<>> ELSE inboxes[j]
    BY <2>1, <1>1, WebTyped
  <2>3. /\ clients' \subseteq ChatIds /\ dropped' \subseteq clients'
        /\ (clients \ dropped) \ {i} \subseteq clients' \ dropped'
    BY <2>1, <1>1, WebTyped
  <2> QED BY <2>1, <2>2, <2>3, LeaveInv
<1>3. ASSUME NEW S \in SUBSET ChatIds, Leave(S),
             clients' \subseteq ChatIds, dropped' \subseteq clients',
             (clients \ dropped) \ S \subseteq clients' \ dropped',
             UNCHANGED <<chatSends, underway, inboxes>>
      PROVE  WebInv'
  BY <1>1, <1>3, WebTyped, LeaveInv
<1>4. ASSUME NEW i \in ChatIds, UnregisterClient(i) \/ ClientDrops(i) PROVE WebInv'
  BY <1>1, <1>3, <1>4, WebTyped DEF UnregisterClient, ClientDrops
<1>5. CASE StopWebChat
  BY <1>1, <1>3, <1>5, WebTyped DEF StopWebChat
<1>6. ASSUME NEW m \in Messages, Broadcast(m) PROVE WebInv'
  BY <1>6, BroadcastInv
<1>7. ASSUME NEW i \in ChatIds, SendToOne(i) PROVE WebInv'
  BY <1>7, SendToOneInv
<1>8. CASE UNCHANGED chatVars
  BY <1>8 DEF chatVars, WebInv, WebTypeOK, Delivered, Once, NoneTooEarly, InboxHas
<1> QED BY <1>2, <1>4, <1>5, <1>6, <1>7, <1>8, SendToAllInv DEF WebNext

(* Every message of the web chat (src/channels/webchat.rs) whose broadcast *)
(* is over is once in the inbox of every client it was meant for that has  *)
(* listened ever since.                                                    *)
THEOREM NobodyIsStarved == WebSpec => []NoClientStarved
<1>1. WebInv => NoClientStarved
  BY DEF WebInv, NoClientStarved, Delivered, Once, InboxHas
<1> QED BY <1>1, WebInitInv, WebStepInv, PTL DEF WebSpec

-----------------------------------------------------------------------------
(* Rule lists (Access).                                                    *)

OfAccount(o) == {r \in Rules : r.account = o}

RoutesInv ==
    /\ routes \in Seq(Rules)
    /\ bound \in [Owners -> Seq(Rules)]
    /\ \A o \in Accounts : Only(routes, OfAccount(o)) = bound[o]

(* The policies asked so far did not match; the one that decided is the    *)
(* first that does, and when there is none the answer is to ask.           *)
ApprovalInv ==
    approval # NoDecision =>
      /\ approval \in [at : Nat, policies : Seq(Policy),
                       action : {"none", "allow", "deny", "ask"}]
      /\ approval.at \in 1 .. Len(approval.policies) + 1
      /\ approval.action = "none" =>
           \A j \in 1 .. approval.at - 1 : ~MatchesPolicy(approval.policies[j])
      /\ approval.action # "none" =>
           \/ /\ approval.action = "ask"
              /\ \A j \in 1 .. Len(approval.policies) : ~MatchesPolicy(approval.policies[j])
           \/ \E i \in 1 .. Len(approval.policies) :
                /\ MatchesPolicy(approval.policies[i])
                /\ approval.action = Outcome(approval.policies[i])
                /\ \A j \in 1 .. i - 1 : ~MatchesPolicy(approval.policies[j])

(* Source i still counts for account a after the first n: none of a group  *)
(* came later.                                                             *)
StillCounts(sources, n, a, i) ==
    /\ i \in 1 .. n /\ sources[i].account = a
    /\ \A j \in 1 .. n : j > i /\ sources[j].account = a => ~sources[j].group

MergeInv ==
    allowList # NoDecision =>
      /\ allowList \in [at : Nat, sources : Seq(Sources),
                        merged : [Accounts -> SUBSET (Peers \cup {"*"})]]
      /\ allowList.at \in 1 .. Len(allowList.sources) + 1
      /\ \A a \in Accounts : \A x \in Peers \cup {"*"} :
           x \in allowList.merged[a] <=>
             \E i \in 1 .. allowList.at - 1 :
                StillCounts(allowList.sources, allowList.at - 1, a, i)
                /\ x \in allowList.sources[i].entries

AccInv == RoutesInv /\ FirstRouteWins /\ ApprovalInv /\ MergeInv

LEMMA AccInitInv == AccInit => AccInv
<1> SUFFICES ASSUME AccInit PROVE AccInv
  OBVIOUS
<1>1. routes = <<>> /\ bound = [o \in Owners |-> <<>>]
  BY DEF AccInit
<1>2. \A o \in Accounts : Only(routes, OfAccount(o)) = bound[o]
  BY <1>1, OnlyOfEmpty DEF Owners
<1>3. RoutesInv
  BY <1>1, <1>2 DEF RoutesInv
<1>4. FirstRouteWins /\ ApprovalInv /\ MergeInv
  BY DEF AccInit, FirstRouteWins, ApprovalInv, MergeInv
<1> QED BY <1>3, <1>4 DEF AccInv

LEMMA BindInv ==
    ASSUME RoutesInv, NEW agent \in RouteAgents, NEW owner \in Owners,
           NEW peer \in Peers \cup {"*", Unset}, AgentsBind(agent, owner, peer)
    PROVE  RoutesInv'
<1>1. /\ routes \in Seq(Rules) /\ bound \in [Owners -> Seq(Rules)]
      /\ \A o \in Accounts : Only(routes, OfAccount(o)) = bound[o]
  BY DEF RoutesInv
<1>2. PICK r \in Rules :
        /\ r.account = owner
        /\ routes' = Append(routes, r)
        /\ bound' = [bound EXCEPT ![owner] = Append(@, r)]
  <2>1. [agent |-> agent, account |-> owner, peer |-> peer] \in Rules
    BY DEF Rules
  <2> QED BY <2>1 DEF AgentsBind
<1>3. routes' \in Seq(Rules) /\ bound' \in [Owners -> Seq(Rules)]
  BY <1>1, <1>2
<1>4. ASSUME NEW o \in Accounts
      PROVE  Only(routes', OfAccount(o)) = bound'[o]
  <2>1. o \in Owners /\ (r \in OfAccount(o) <=> o = owner)
    BY <1>2 DEF Owners, OfAccount
  <2>2. /\ r \in OfAccount(o) => Only(Append(routes, r), OfAccount(o))
                                   = Append(Only(routes, OfAccount(o)), r)
        /\ r \notin OfAccount(o) => Only(Append(routes, r), OfAccount(o))
                                      = Only(routes, OfAccount(o))
    BY <1>1, OnlyOfAppend, Zenon
  <2>3. Only(routes, OfAccount(o)) = bound[o]
    BY <1>1
  <2>4. CASE o = owner
    BY <2>1, <2>2, <2>3, <2>4, <1>1, <1>2
  <2>5. CASE o # owner
    BY <2>1, <2>2, <2>3, <2>5, <1>1, <1>2
  <2> QED BY <2>4, <2>5
<1> QED BY <1>3, <1>4 DEF RoutesInv, OfAccount

(* Taking an agent's routes of one account leaves those of the others.     *)
LEMMA UnbindInv ==
    ASSUME RoutesInv, NEW agent \in RouteAgents, NEW account \in Owners,
           AgentsUnbind(agent, account)
    PROVE  RoutesInv'
<1> DEFINE S == {r \in Rules : Stays(r, agent, account)}
           D == {r \in Rules : r.agent # agent}
<1>1. /\ routes \in Seq(Rules) /\ bound \in [Owners -> Seq(Rules)]
      /\ \A o \in Accounts : Only(routes, OfAccount(o)) = bound[o]
  BY DEF RoutesInv
<1>2. /\ routes' = Only(routes, S)
      /\ bound' = [o \in Owners |-> IF account \in {o, Unset} THEN Only(bound[o], D) ELSE bound[o]]
  BY DEF AgentsUnbind
<1>3. ASSUME NEW o \in Accounts
      PROVE  /\ account \in {o, Unset} => S \cap OfAccount(o) = OfAccount(o) \cap D
             /\ account \notin {o, Unset} => S \cap OfAccount(o) = OfAccount(o)
  BY AccessAssumption DEF OfAccount, Stays, AccessAssumption
<1> HIDE DEF S, D
<1>4. routes' \in Seq(Rules)
  BY <1>1, <1>2, OnlyTyped
<1>5. bound' \in [Owners -> Seq(Rules)]
  <2>1. \A o \in Owners : bound[o] \in Seq(Rules) /\ Only(bound[o], D) \in Seq(Rules)
    BY <1>1, OnlyTyped
  <2> QED BY <2>1, <1>2
<1>6. ASSUME NEW o \in Accounts
      PROVE  Only(routes', OfAccount(o)) = bound'[o]
  <2>1. Only(Only(routes, S), OfAccount(o)) = Only(routes, S \cap OfAccount(o))
    BY <1>1, OnlyOfOnly
  <2>2. Only(Only(routes, OfAccount(o)), D) = Only(routes, OfAccount(o) \cap D)
    BY <1>1, OnlyOfOnly
  <2>3. o \in Owners /\ Only(routes, OfAccount(o)) = bound[o]
    BY <1>1 DEF Owners
  <2>4. CASE account \in {o, Unset}
    <3>1. bound'[o] = Only(bound[o], D)
      BY <2>3, <2>4, <1>2
    <3> QED BY <3>1, <2>1, <2>2, <2>3, <2>4, <1>2, <1>3
  <2>5. CASE account \notin {o, Unset}
    <3>1. bound'[o] = bound[o]
      BY <2>3, <2>5, <1>2
    <3> QED BY <3>1, <2>1, <2>3, <2>5, <1>2, <1>3
  <2> QED BY <2>4, <2>5
<1> QED BY <1>4, <1>5, <1>6 DEF RoutesInv, OfAccount

LEMMA ResolveInv ==
    ASSUME routes \in Seq(Rules), NEW ctx, Resolve(ctx)
    PROVE  FirstRouteWins'
<1> DEFINE hits == {i \in 1 .. Len(routes) : MatchesBinding(routes[i], ctx)}
           first == CHOOSE i \in hits : \A j \in hits : i <= j
<1>1. routed' = [at |-> 1, ctx |-> ctx, list |-> routes,
                 agent |-> IF hits = {} THEN Unset ELSE routes[first].agent]
  BY DEF Resolve, ResolveAgent
<1>2. DOMAIN routes = 1 .. Len(routes) /\ Len(routes) \in Nat
  OBVIOUS
<1>3. CASE hits = {}
  <2>1. routed'.agent = Unset /\ routed'.list = routes /\ routed'.ctx = ctx
    BY <1>1, <1>3
  <2>2. \A i \in DOMAIN routes : ~MatchesBinding(routes[i], ctx)
    BY <1>2, <1>3
  <2> QED BY <2>1, <2>2 DEF FirstRouteWins
<1>4. CASE hits # {}
  <2>1. hits \in SUBSET Nat
    BY <1>2
  <2>2. \E i \in hits : \A j \in hits : i <= j
    <3> HIDE DEF hits
    <3> QED BY <2>1, <1>4, LeastElement
  <2>3. first \in hits /\ \A j \in hits : first <= j
    <3> HIDE DEF hits
    <3> QED BY <2>2
  <2>4. routed'.agent = routes[first].agent /\ routed'.list = routes /\ routed'.ctx = ctx
    BY <1>1, <1>4
  <2> HIDE DEF first
  <2>5. /\ first \in DOMAIN routes /\ MatchesBinding(routes[first], ctx)
        /\ \A j \in 1 .. first - 1 : ~MatchesBinding(routes[j], ctx)
    BY <1>2, <2>3
  <2> QED BY <2>4, <2>5 DEF FirstRouteWins
<1> QED BY <1>3, <1>4

LEMMA OutcomeOfPolicy ==
    \A p \in Policy :
        /\ ~MatchesPolicy(p) <=> Outcome(p) = "none"
        /\ MatchesPolicy(p) => /\ Outcome(p) = "allow" => p.action = "allow" /\ p.env
                               /\ Outcome(p) = "deny" <=> p.action = "deny"
<1> TAKE p \in Policy
<1>1. p.action \in {"allow", "deny", "ask"} /\ p.action # "none"
  BY DEF Policy
<1>2. CASE ~MatchesPolicy(p)
  <2>1. Outcome(p) = "none"
    BY <1>2 DEF Outcome
  <2> QED BY <2>1, <1>2
<1>3. CASE MatchesPolicy(p) /\ p.action = "allow" /\ ~p.env
  <2>1. Outcome(p) = "ask"
    BY <1>3 DEF Outcome
  <2> QED BY <2>1, <1>3
<1>4. CASE MatchesPolicy(p) /\ ~(p.action = "allow" /\ ~p.env)
  <2>1. Outcome(p) = p.action
    BY <1>4 DEF Outcome
  <2> QED BY <2>1, <1>1, <1>4
<1> QED BY <1>2, <1>3, <1>4

LEMMA BeginApprovalInv ==
    ASSUME NEW n \in Nat, NEW s \in [1 .. n -> Policy], BeginApproval(s)
    PROVE  ApprovalInv'
<1>1. s \in Seq(Policy) /\ Len(s) \in Nat
  OBVIOUS
<1>2. approval' = [at |-> 1, policies |-> s, action |-> "none"]
  BY DEF BeginApproval
<1>3. /\ approval' \in [at : Nat, policies : Seq(Policy), action : {"none", "allow", "deny", "ask"}]
      /\ approval'.policies = s /\ approval'.at = 1 /\ approval'.action = "none"
  BY <1>1, <1>2
<1> QED BY <1>1, <1>3 DEF ApprovalInv

(* One more policy is asked, or there is none left.                        *)
LEMMA EvaluateInv ==
    ASSUME ApprovalInv, EvaluatePolicy
    PROVE  ApprovalInv'
<1> DEFINE ps == approval.policies
           at == approval.at
<1>1. approval # NoDecision /\ at > 0 /\ approval.action = "none"
  BY DEF EvaluatePolicy, NoDecision
<1>2. approval \in [at : Nat, policies : Seq(Policy), action : {"none", "allow", "deny", "ask"}]
  BY <1>1 DEF ApprovalInv
<1>3. /\ ps \in Seq(Policy) /\ at \in 1 .. Len(ps) + 1 /\ Len(ps) \in Nat
      /\ \A j \in 1 .. at - 1 : ~MatchesPolicy(ps[j])
  BY <1>1, <1>2 DEF ApprovalInv
<1>4. CASE at > Len(ps)
  <2>1. approval' = [approval EXCEPT !.action = "ask"]
    BY <1>4 DEF EvaluatePolicy
  <2>2. /\ approval' \in [at : Nat, policies : Seq(Policy), action : {"none", "allow", "deny", "ask"}]
        /\ approval'.policies = ps /\ approval'.at = at /\ approval'.action = "ask"
    BY <2>1, <1>2
  <2>3. \A j \in 1 .. Len(ps) : ~MatchesPolicy(ps[j])
    BY <1>3, <1>4
  <2> HIDE DEF ps, at
  <2> QED BY <2>2, <2>3, <1>3 DEF ApprovalInv
<1>5. CASE at <= Len(ps)
  <2>1. approval' = [approval EXCEPT !.at = @ + 1, !.action = Outcome(ps[at])]
    BY <1>3, <1>5 DEF EvaluatePolicy
  <2>2. ps[at] \in Policy /\ at \in 1 .. Len(ps)
    BY <1>3, <1>5
  <2>3. Outcome(ps[at]) \in {"none", "allow", "deny", "ask"}
    BY <2>2 DEF Outcome, Policy
  <2>4. /\ approval' \in [at : Nat, policies : Seq(Policy), action : {"none", "allow", "deny", "ask"}]
        /\ approval'.policies = ps /\ approval'.at = at + 1 /\ approval'.action = Outcome(ps[at])
    <3>1. PICK a : a = Outcome(ps[at])
      OBVIOUS
    <3>2. approval' = [approval EXCEPT !.at = @ + 1, !.action = a]
      BY <2>1, <3>1
    <3>3. a \in {"none", "allow", "deny", "ask"}
      BY <2>3, <3>1
    <3>4. at + 1 \in Nat /\ DOMAIN approval = {"at", "policies", "action"}
      BY <1>2, <1>3
    <3> HIDE DEF at, ps
    <3>5. /\ approval'.policies = approval.policies /\ approval'.at = at + 1 /\ approval'.action = a
      BY <3>2, <3>4 DEF at
    <3>6. approval' = [at |-> at + 1, policies |-> approval.policies, action |-> a]
      BY <3>2, <3>5, <1>2 DEF at
    <3>7. approval.policies \in Seq(Policy)
      BY <1>2
    <3> QED BY <3>1, <3>3, <3>4, <3>5, <3>6, <3>7 DEF ps
  <2>5. ~MatchesPolicy(ps[at]) <=> Outcome(ps[at]) = "none"
    BY <2>2, OutcomeOfPolicy
  <2> HIDE DEF ps, at
  <2>6. CASE Outcome(ps[at]) = "none"
    <3>1. \A j \in 1 .. at + 1 - 1 : ~MatchesPolicy(ps[j])
      BY <2>5, <2>6, <1>3
    <3> QED BY <3>1, <2>2, <2>4, <2>6, <1>3 DEF ApprovalInv
  <2>7. CASE Outcome(ps[at]) # "none"
    <3>1. /\ MatchesPolicy(ps[at]) /\ \A j \in 1 .. at - 1 : ~MatchesPolicy(ps[j])
          /\ at + 1 \in 1 .. Len(ps) + 1
      BY <2>2, <2>5, <2>7, <1>3
    <3> QED BY <3>1, <2>2, <2>4, <2>7 DEF ApprovalInv
  <2> QED BY <2>6, <2>7
<1> QED BY <1>3, <1>4, <1>5

LEMMA BeginMergeInv ==
    ASSUME NEW n \in Nat, NEW s \in [1 .. n -> Sources], BeginMerge(s)
    PROVE  MergeInv'
<1>1. s \in Seq(Sources) /\ Len(s) \in Nat
  OBVIOUS
<1>2. allowList' = [at |-> 1, sources |-> s, merged |-> [a \in Accounts |-> {}]]
  BY DEF BeginMerge
<1>3. /\ allowList' \in [at : Nat, sources : Seq(Sources),
                          merged : [Accounts -> SUBSET (Peers \cup {"*"})]]
      /\ allowList'.sources = s /\ allowList'.at = 1
      /\ \A a \in Accounts : allowList'.merged[a] = {}
  BY <1>1, <1>2
<1> QED BY <1>1, <1>3 DEF MergeInv

(* A source of a group puts out the earlier ones of its account; any other *)
(* joins them.                                                             *)
LEMMA LiveGrows ==
    ASSUME NEW sources \in Seq(Sources), NEW n \in 1 .. Len(sources), NEW a \in Accounts
    PROVE  /\ sources[n].account # a =>
                 \A i \in 1 .. n : StillCounts(sources, n, a, i) <=> StillCounts(sources, n - 1, a, i)
           /\ sources[n].account = a => StillCounts(sources, n, a, n)
           /\ sources[n].account = a /\ sources[n].group =>
                 \A i \in 1 .. n - 1 : ~StillCounts(sources, n, a, i)
           /\ sources[n].account = a /\ ~sources[n].group =>
                 \A i \in 1 .. n - 1 : StillCounts(sources, n, a, i) <=> StillCounts(sources, n - 1, a, i)
BY DEF StillCounts

LEMMA MergeStepInv ==
    ASSUME MergeInv, MergeSource
    PROVE  MergeInv'
<1> DEFINE ss == allowList.sources
           n == allowList.at
           m == allowList.merged
           Seen == [at : Nat, sources : Seq(Sources),
                    merged : [Accounts -> SUBSET (Peers \cup {"*"})]]
<1>1. allowList # NoDecision /\ n <= Len(ss)
  BY DEF MergeSource
<1>2. /\ allowList \in Seen /\ n \in 1 .. Len(ss) + 1
      /\ \A a \in Accounts : \A x \in Peers \cup {"*"} :
           x \in m[a] <=> \E i \in 1 .. n - 1 : StillCounts(ss, n - 1, a, i) /\ x \in ss[i].entries
  BY <1>1 DEF MergeInv
<1>3. /\ ss \in Seq(Sources) /\ n \in 1 .. Len(ss) /\ Len(ss) \in Nat
      /\ m \in [Accounts -> SUBSET (Peers \cup {"*"})]
  BY <1>1, <1>2
<1>4. ss[n] \in Sources
  BY <1>3
<1>5. PICK b, E, g : /\ b = ss[n].account /\ E = ss[n].entries /\ g = ss[n].group
                    /\ b \in Accounts /\ E \in SUBSET (Peers \cup {"*"}) /\ g \in BOOLEAN
  BY <1>4 DEF Sources
<1>6. allowList' = [allowList EXCEPT !.at = @ + 1,
                                     !.merged[b] = E \cup IF g THEN {} ELSE @]
  BY <1>5 DEF MergeSource
<1>7. /\ allowList' \in Seen
      /\ allowList'.sources = ss /\ allowList'.at = n + 1
      /\ allowList'.merged = [m EXCEPT ![b] = E \cup IF g THEN {} ELSE m[b]]
  <2>1. PICK F : F = E \cup IF g THEN {} ELSE m[b]
    OBVIOUS
  <2>2. F \in SUBSET (Peers \cup {"*"})
    BY <2>1, <1>3, <1>5
  <2>3. allowList' = [allowList EXCEPT !.at = n + 1, !.merged = [m EXCEPT ![b] = F]]
    BY <2>1, <1>2, <1>6
  <2>4. [m EXCEPT ![b] = F] \in [Accounts -> SUBSET (Peers \cup {"*"})]
    BY <2>2, <1>3
  <2>5. n + 1 \in Nat
    BY <1>3
  <2> QED BY <2>1, <2>3, <2>4, <2>5, <1>2
<1> HIDE DEF ss, n, m
<1>8. ASSUME NEW a \in Accounts, NEW x \in Peers \cup {"*"}
      PROVE  x \in allowList'.merged[a]
               <=> \E i \in 1 .. n : StillCounts(ss, n, a, i) /\ x \in ss[i].entries
  <2>1. x \in m[a] <=> \E i \in 1 .. n - 1 : StillCounts(ss, n - 1, a, i) /\ x \in ss[i].entries
    BY <1>2
  <2>2. /\ n \in Nat /\ n >= 1 /\ \A i \in 1 .. n : i = n \/ i \in 1 .. n - 1
        /\ n \in 1 .. n /\ \A i \in 1 .. n - 1 : i \in 1 .. n
    BY <1>3
  <2>3. CASE b # a
    <3>1. allowList'.merged[a] = m[a]
      BY <2>3, <1>3, <1>7
    <3>2. \A i \in 1 .. n : StillCounts(ss, n, a, i) <=> StillCounts(ss, n - 1, a, i)
      BY <2>3, <1>3, <1>5, LiveGrows
    <3>3. ~StillCounts(ss, n - 1, a, n)
      BY <2>2 DEF StillCounts
    <3> QED BY <3>1, <3>2, <3>3, <2>1, <2>2
  <2>4. CASE b = a /\ g
    <3>1. allowList'.merged[a] = E
      BY <2>4, <1>3, <1>7
    <3>2. StillCounts(ss, n, a, n) /\ \A i \in 1 .. n - 1 : ~StillCounts(ss, n, a, i)
      BY <2>4, <1>3, <1>5, LiveGrows
    <3> QED BY <3>1, <3>2, <2>2, <1>5
  <2>5. CASE b = a /\ ~g
    <3>1. allowList'.merged[a] = E \cup m[a]
      BY <2>5, <1>3, <1>7
    <3>2. /\ StillCounts(ss, n, a, n)
          /\ \A i \in 1 .. n - 1 : StillCounts(ss, n, a, i) <=> StillCounts(ss, n - 1, a, i)
      BY <2>5, <1>3, <1>5, LiveGrows
    <3> QED BY <3>1, <3>2, <2>1, <2>2, <1>5
  <2> QED BY <2>3, <2>4, <2>5, <1>5
<1>9. n + 1 \in 1 .. Len(ss) + 1 /\ n + 1 - 1 = n
  BY <1>3
<1>10. \A a \in Accounts : \A x \in Peers \cup {"*"} :
         x \in allowList'.merged[a] <=>
           \E i \in 1 .. allowList'.at - 1 :
              StillCounts(allowList'.sources, allowList'.at - 1, a, i)
              /\ x \in allowList'.sources[i].entries
  <2>1. allowList'.sources = ss /\ allowList'.at - 1 = n
    BY <1>3, <1>7
  <2> QED BY <2>1, <1>8
<1>11. allowList'.at \in 1 .. Len(allowList'.sources) + 1
  BY <1>7, <1>9
<1> QED BY <1>7, <1>10, <1>11 DEF MergeInv

LEMMA AccStepInv == AccInv /\ [AccNext]_accVars => AccInv'
<1> SUFFICES ASSUME AccInv, [AccNext]_accVars PROVE AccInv'
  OBVIOUS
<1>1. RoutesInv /\ FirstRouteWins /\ ApprovalInv /\ MergeInv
  BY DEF AccInv
<1>2. UNCHANGED <<routes, bound>> => RoutesInv'
  BY <1>1 DEF RoutesInv, OfAccount
<1>3. UNCHANGED routed => FirstRouteWins'
  BY <1>1 DEF FirstRouteWins
<1>4. UNCHANGED approval => ApprovalInv'
  BY <1>1 DEF ApprovalInv
<1>5. UNCHANGED allowList => MergeInv'
  BY <1>1 DEF MergeInv
<1>6. CASE \E a \in RouteAgents, o \in Owners, p \in Peers \cup {"*", Unset} : AgentsBind(a, o, p)
  <2>1. UNCHANGED <<routed, approval, allowList>>
    BY <1>6 DEF AgentsBind
  <2> QED BY <2>1, <1>1, <1>3, <1>4, <1>5, <1>6, BindInv DEF AccInv
<1>7. CASE \E a \in RouteAgents, o \in Owners : AgentsUnbind(a, o)
  <2>1. UNCHANGED <<routed, approval, allowList>>
    BY <1>7 DEF AgentsUnbind
  <2> QED BY <2>1, <1>1, <1>3, <1>4, <1>5, <1>7, UnbindInv DEF AccInv
<1>8. CASE \E ctx \in Contexts : Resolve(ctx)
  <2>1. UNCHANGED <<routes, bound, approval, allowList>>
    BY <1>8 DEF Resolve
  <2>2. FirstRouteWins'
    BY <1>1, <1>8, ResolveInv DEF RoutesInv
  <2> QED BY <2>1, <2>2, <1>2, <1>4, <1>5 DEF AccInv
<1>9. CASE \E n \in 0 .. MaxRules : \E s \in [1 .. n -> Policy] : BeginApproval(s)
  <2>1. UNCHANGED <<routes, bound, routed, allowList>>
    BY <1>9 DEF BeginApproval
  <2>2. \A n \in 0 .. MaxRules : n \in Nat
    BY AccessAssumption DEF AccessAssumption
  <2>3. ApprovalInv'
    BY <2>2, <1>9, BeginApprovalInv
  <2> QED BY <2>1, <2>3, <1>2, <1>3, <1>5 DEF AccInv
<1>10. CASE \E n \in 0 .. MaxRules : \E s \in [1 .. n -> Sources] : BeginMerge(s)
  <2>1. UNCHANGED <<routes, bound, routed, approval>>
    BY <1>10 DEF BeginMerge
  <2>2. \A n \in 0 .. MaxRules : n \in Nat
    BY AccessAssumption DEF AccessAssumption
  <2>3. MergeInv'
    BY <2>2, <1>10, BeginMergeInv
  <2> QED BY <2>1, <2>3, <1>2, <1>3, <1>4 DEF AccInv
<1>11. CASE EvaluatePolicy
  <2>1. UNCHANGED <<routes, bound, routed, allowList>>
    BY <1>11 DEF EvaluatePolicy
  <2> QED BY <2>1, <1>1, <1>2, <1>3, <1>5, <1>11, EvaluateInv DEF AccInv
<1>12. CASE MergeSource
  <2>1. UNCHANGED <<routes, bound, routed, approval>>
    BY <1>12 DEF MergeSource
  <2> QED BY <2>1, <1>1, <1>2, <1>3, <1>4, <1>12, MergeStepInv DEF AccInv
<1>13. CASE UNCHANGED accVars
  BY <1>13, <1>2, <1>3, <1>4, <1>5 DEF accVars, AccInv
<1> QED BY <1>6, <1>7, <1>8, <1>9, <1>10, <1>11, <1>12, <1>13 DEF AccNext

(* What the invariant says of a decided approval and of a merged list is   *)
(* what a reader of the rules expects.                                     *)
LEMMA FirstPolicy == ApprovalInv => FirstPolicyDecides
<1> SUFFICES ASSUME ApprovalInv, approval.at > 0, approval.action # "none"
             PROVE  LET ps == approval.policies
                        hits == {i \in DOMAIN ps : MatchesPolicy(ps[i])}
                        first == CHOOSE i \in hits : \A j \in hits : i <= j
                    IN  /\ approval.action = "allow" =>
                             hits # {} /\ ps[first].action = "allow" /\ ps[first].env
                        /\ approval.action = "deny" <=> hits # {} /\ ps[first].action = "deny"
  BY DEF FirstPolicyDecides
<1> DEFINE ps == approval.policies
           hits == {i \in DOMAIN ps : MatchesPolicy(ps[i])}
           first == CHOOSE i \in hits : \A j \in hits : i <= j
<1>1. approval # NoDecision
  BY DEF NoDecision
<1>2. /\ ps \in Seq(Policy) /\ DOMAIN ps = 1 .. Len(ps) /\ Len(ps) \in Nat
      /\ \/ /\ approval.action = "ask"
            /\ \A j \in 1 .. Len(ps) : ~MatchesPolicy(ps[j])
         \/ \E i \in 1 .. Len(ps) :
              /\ MatchesPolicy(ps[i])
              /\ approval.action = Outcome(ps[i])
              /\ \A j \in 1 .. i - 1 : ~MatchesPolicy(ps[j])
  BY <1>1 DEF ApprovalInv
<1>3. CASE approval.action = "ask" /\ \A j \in 1 .. Len(ps) : ~MatchesPolicy(ps[j])
  <2>1. hits = {}
    BY <1>2, <1>3
  <2> QED BY <2>1, <1>3
<1>4. CASE \E i \in 1 .. Len(ps) :
              /\ MatchesPolicy(ps[i])
              /\ approval.action = Outcome(ps[i])
              /\ \A j \in 1 .. i - 1 : ~MatchesPolicy(ps[j])
  <2>1. PICK i \in 1 .. Len(ps) :
              /\ MatchesPolicy(ps[i])
              /\ approval.action = Outcome(ps[i])
              /\ \A j \in 1 .. i - 1 : ~MatchesPolicy(ps[j])
    BY <1>4
  <2>2. i \in hits /\ \A j \in hits : i <= j
    BY <2>1, <1>2
  <2>3. hits \subseteq Nat
    BY <1>2
  <2>4. first = i
    <3>1. first \in hits /\ \A j \in hits : first <= j
      <4> HIDE DEF hits
      <4> QED BY <2>2
    <3> HIDE DEF hits, first
    <3> QED BY <3>1, <2>2, <2>3
  <2>5. ps[i] \in Policy
    BY <1>2
  <2>6. /\ Outcome(ps[i]) = "allow" => ps[i].action = "allow" /\ ps[i].env
        /\ Outcome(ps[i]) = "deny" <=> ps[i].action = "deny"
    BY <2>1, <2>5, OutcomeOfPolicy
  <2>7. hits # {}
    BY <2>2
  <2> HIDE DEF hits, first, ps
  <2>8. /\ approval.action = "allow" => hits # {} /\ ps[first].action = "allow" /\ ps[first].env
        /\ approval.action = "deny" <=> hits # {} /\ ps[first].action = "deny"
    BY <2>1, <2>4, <2>6, <2>7, Zenon
  <2> QED BY <2>8 DEF hits, first, ps
<1> QED BY <1>2, <1>3, <1>4

LEMMA MergedList == MergeInv => GroupReplacesAccount
<1> SUFFICES ASSUME MergeInv, allowList.at > 0, NEW a \in Accounts, NEW s \in Peers
             PROVE  LET seen == {i \in 1 .. allowList.at - 1 : allowList.sources[i].account = a}
                        groups == {i \in seen : allowList.sources[i].group}
                    IN  /\ groups = {} =>
                             (Matching(allowList.merged[a], s)
                                <=> \E i \in seen : Matching(allowList.sources[i].entries, s))
                        /\ \A i \in groups :
                             (\A j \in seen : j <= i) =>
                               (CheckDmAccess(allowList.merged, "allowlist", s, a, TRUE)
                                  <=> Matching(allowList.sources[i].entries, s))
  BY DEF GroupReplacesAccount
<1> DEFINE ss == allowList.sources
           n == allowList.at - 1
           m == allowList.merged
           seen == {i \in 1 .. n : ss[i].account = a}
           groups == {i \in seen : ss[i].group}
           live == {i \in seen : \A j \in seen : j > i => ~ss[j].group}
<1>1. allowList # NoDecision
  BY DEF NoDecision
<1>2. \A x \in Peers \cup {"*"} :
        x \in m[a] <=> \E i \in 1 .. n : StillCounts(ss, n, a, i) /\ x \in ss[i].entries
  BY <1>1 DEF MergeInv
<1>3. \A i \in 1 .. n : StillCounts(ss, n, a, i) <=> i \in live
  BY DEF StillCounts
<1>4. live \subseteq 1 .. n
  OBVIOUS
<1>5. CheckDmAccess(m, "allowlist", s, a, TRUE) <=> Matching(m[a], s)
  BY AccessAssumption DEF CheckDmAccess, AccessAssumption
<1>6. Matching(m[a], s) <=> \E i \in live : Matching(ss[i].entries, s)
  <2> HIDE DEF live, n, m, ss
  <2> QED BY <1>2, <1>3, <1>4 DEF Matching
<1>7. groups = {} => live = seen
  OBVIOUS
<1>8. ASSUME NEW i \in groups, \A j \in seen : j <= i
      PROVE  live = {i}
  <2>1. i \in live
    <3>1. \A j \in seen : ~(j > i)
      BY <1>8, SMT DEF seen
    <3> QED BY <3>1
  <2>2. ASSUME NEW k \in live, k # i PROVE FALSE
    <3>1. k \in seen /\ k <= i /\ i \in seen /\ ss[i].group
      BY <2>2, <1>8
    <3>2. i > k
      BY <3>1, <2>2
    <3> QED BY <3>1, <3>2, <2>2
  <2> QED BY <2>1, <2>2
<1>9. ASSUME NEW i \in groups, \A j \in seen : j <= i
      PROVE  CheckDmAccess(m, "allowlist", s, a, TRUE) <=> Matching(ss[i].entries, s)
  <2>1. live = {i}
    BY <1>8, <1>9
  <2> HIDE DEF live, m, ss
  <2> QED BY <2>1, <1>5, <1>6
<1>10. groups = {} => (Matching(m[a], s) <=> \E i \in seen : Matching(ss[i].entries, s))
  <2> HIDE DEF live, m, ss, groups, seen
  <2> QED BY <1>6, <1>7
<1> QED BY <1>9, <1>10 DEF seen, groups, n, m, ss

(* The rule lists decide as their order says (routing/mod.rs,              *)
(* exec_approval.rs, dm_policy.rs): an account's routes are those it bound *)
(* and did not unbind, the first route or policy that matches decides, and *)
(* a group's allow list that comes last replaces the account's.            *)
THEOREM RulesDecideInOrder == AccSpec => []FirstRuleDecides
<1>1. AccInv => FirstRuleDecides
  <2>1. ASSUME AccInv, NEW o \in Accounts
        PROVE  ListRoutes(o) = bound[o]
    <3>1. Only(routes, OfAccount(o)) = bound[o] /\ o # Unset
      BY <2>1, AccessAssumption DEF AccInv, RoutesInv, AccessAssumption
    <3> QED BY <3>1 DEF ListRoutes, OfAccount
  <2>2. AccInv => RoutesStayOwned
    BY <2>1 DEF RoutesStayOwned
  <2> QED BY <2>2, FirstPolicy, MergedList DEF AccInv, FirstRuleDecides
<1> QED BY <1>1, AccInitInv, AccStepInv, PTL DEF AccSpec
-----------------------------------------------------------------------------
(* Chunking.  The words before a line are the sum of those of the lines    *)
(* before it.                                                              *)

LEMMA WordsSum ==
    ASSUME NEW lines \in Seq(0 .. MaxWords)
    PROVE  /\ WordsBefore(lines, 1) = 0
           /\ \A l \in 1 .. Len(lines) + 1 : WordsBefore(lines, l) \in Nat
           /\ \A l \in 1 .. Len(lines) :
                  WordsBefore(lines, l + 1) = WordsBefore(lines, l) + lines[l]
<1> DEFINE N == Len(lines)
           Up(f) == [k \in 0 .. N |-> IF k = 0 THEN 0 ELSE f[k - 1] + lines[k]]
           g == [p \in (1 .. N) \X Nat |-> p[2] + lines[p[1]]]
           upTo == CHOOSE f : f = Up(f)
<1>1. N \in Nat /\ \A k \in 1 .. N : lines[k] \in Nat
  BY ChunkingAssumption DEF ChunkingAssumption
<1>2. g \in [(1 .. N) \X Nat -> Nat]
  BY <1>1
<1>3. PICK f : Recurs(f, 0, g, N, Nat)
  <2> HIDE DEF g, N
  <2> QED BY <1>1, <1>2, RecursionExists
<1>4. f \in [0 .. N -> Nat] /\ f[0] = 0
  BY <1>3 DEF Recurs
<1>5. ASSUME NEW k \in 1 .. N PROVE f[k] = f[k - 1] + lines[k]
  <2>1. f[k] = g[<<k, f[k - 1]>>]
    BY <1>3 DEF Recurs
  <2>2. k - 1 \in 0 .. N
    BY <1>1
  <2>3. f[k - 1] \in Nat
    BY <1>4, <2>2
  <2>4. <<k, f[k - 1]>> \in (1 .. N) \X Nat
    BY <2>3
  <2>5. g[<<k, f[k - 1]>>] = f[k - 1] + lines[k]
    BY <2>4
  <2> QED BY <2>1, <2>5
<1>6. f = Up(f)
  <2>1. \A k \in 0 .. N : f[k] = IF k = 0 THEN 0 ELSE f[k - 1] + lines[k]
    BY <1>1, <1>4, <1>5
  <2> HIDE DEF N
  <2> QED BY <1>4, <2>1
<1>7. upTo = Up(upTo)
  <2> HIDE DEF Up
  <2> QED BY <1>6
<1>8. \A l \in 1 .. N + 1 : WordsBefore(lines, l) = upTo[l - 1]
  BY DEF WordsBefore
<1> HIDE DEF upTo, g
<1>9. upTo[0] = 0 /\ \A k \in 1 .. N : upTo[k] = upTo[k - 1] + lines[k]
  BY <1>1, <1>7
<1> DEFINE T == {n \in Nat : n <= N => upTo[n] \in Nat}
<1>10. 0 \in T
  BY <1>9
<1>11. \A n \in Nat : n \in T => n + 1 \in T
  BY <1>1, <1>9
<1>12. \A n \in 0 .. N : upTo[n] \in Nat
  <2> HIDE DEF T
  <2>1. Nat \subseteq T
    BY <1>10, <1>11, NaturalsInSet
  <2> QED BY <2>1, <1>1 DEF T
<1> HIDE DEF N
<1>13. \A l \in 1 .. N + 1 : l - 1 \in 0 .. N
  BY <1>1
<1>14. ASSUME NEW l \in 1 .. N PROVE WordsBefore(lines, l + 1) = WordsBefore(lines, l) + lines[l]
  <2>1. l + 1 \in 1 .. N + 1 /\ l \in 1 .. N + 1 /\ (l + 1) - 1 = l
    BY <1>1
  <2>2. upTo[l] = upTo[l - 1] + lines[l]
    BY <1>9
  <2> QED BY <2>1, <2>2, <1>8
<1>15. WordsBefore(lines, 1) = 0
  BY <1>1, <1>8, <1>9
<1> QED BY <1>8, <1>12, <1>13, <1>14, <1>15 DEF N

LEMMA WordsGrow ==
    ASSUME NEW lines \in Seq(0 .. MaxWords)
    PROVE  /\ \A l, m \in 1 .. Len(lines) + 1 :
                  l <= m => WordsBefore(lines, l) <= WordsBefore(lines, m)
           /\ \A l \in 1 .. Len(lines) + 1 : WordsBefore(lines, l) <= (l - 1) * MaxWords
<1> DEFINE N == Len(lines)
<1>1. /\ N \in Nat /\ MaxWords \in Nat
      /\ \A l \in 1 .. N : lines[l] \in Nat /\ lines[l] <= MaxWords
  BY ChunkingAssumption DEF ChunkingAssumption
<1>2. /\ WordsBefore(lines, 1) = 0 /\ \A l \in 1 .. N + 1 : WordsBefore(lines, l) \in Nat
      /\ \A l \in 1 .. N : WordsBefore(lines, l + 1) = WordsBefore(lines, l) + lines[l]
  BY WordsSum
<1> HIDE DEF N
<1>3. ASSUME NEW l \in 1 .. N + 1, NEW m \in 1 .. N + 1, l <= m
      PROVE  WordsBefore(lines, l) <= WordsBefore(lines, m)
  <2> DEFINE T == {d \in Nat : l + d <= N + 1 => WordsBefore(lines, l) <= WordsBefore(lines, l + d)}
  <2>1. 0 \in T
    BY <1>1, <1>2
  <2>2. ASSUME NEW d \in Nat, d \in T PROVE d + 1 \in T
    <3> SUFFICES ASSUME l + (d + 1) <= N + 1
                 PROVE  WordsBefore(lines, l) <= WordsBefore(lines, l + (d + 1))
      OBVIOUS
    <3>1. PICK k \in 1 .. N : k = l + d
      BY <1>1
    <3>2. k + 1 = l + (d + 1) /\ k \in 1 .. N + 1 /\ k + 1 \in 1 .. N + 1
      BY <3>1, <1>1
    <3>3. WordsBefore(lines, l) <= WordsBefore(lines, k)
      BY <2>2, <3>1, <1>1
    <3>4. WordsBefore(lines, k + 1) = WordsBefore(lines, k) + lines[k] /\ lines[k] \in Nat
          /\ WordsBefore(lines, k) \in Nat /\ WordsBefore(lines, l) \in Nat
      BY <3>2, <1>1, <1>2
    <3> QED BY <3>2, <3>3, <3>4
  <2> HIDE DEF T
  <2>3. m - l \in T
    <3>1. Nat \subseteq T /\ m - l \in Nat
      BY <2>1, <2>2, <1>1, <1>3, NaturalsInSet
    <3> QED BY <3>1
  <2>4. l + (m - l) = m
    BY <1>1
  <2> QED BY <2>3, <2>4, <1>1 DEF T
<1>4. ASSUME NEW l \in 1 .. N + 1 PROVE WordsBefore(lines, l) <= (l - 1) * MaxWords
  <2> DEFINE T == {d \in Nat : d <= N => WordsBefore(lines, d + 1) <= d * MaxWords}
  <2>1. 0 \in T
    BY <1>1, <1>2
  <2>2. ASSUME NEW d \in Nat, d \in T PROVE d + 1 \in T
    <3> SUFFICES ASSUME d + 1 <= N PROVE WordsBefore(lines, (d + 1) + 1) <= (d + 1) * MaxWords
      OBVIOUS
    <3>1. PICK k \in 1 .. N : k = d + 1
      BY <1>1
    <3>2. WordsBefore(lines, k + 1) = WordsBefore(lines, k) + lines[k] /\ lines[k] \in Nat
          /\ WordsBefore(lines, k) \in Nat /\ lines[k] <= MaxWords
      BY <1>1, <1>2
    <3>3. WordsBefore(lines, k) <= d * MaxWords
      BY <2>2, <3>1, <1>1
    <3>4. PICK p \in Nat : p = d * MaxWords
      BY <1>1
    <3>5. (d + 1) * MaxWords = p + MaxWords
      BY <1>1, <3>4
    <3>6. WordsBefore(lines, k + 1) <= p + MaxWords
      BY <3>2, <3>3, <3>4, <1>1
    <3> QED BY <3>1, <3>5, <3>6
  <2> HIDE DEF T
  <2>3. PICK d \in Nat : d = l - 1
    BY <1>1
  <2>4. Nat \subseteq T
    BY <2>1, <2>2, NaturalsInSet
  <2>5. d \in T /\ d + 1 = l /\ d <= N
    BY <2>3, <2>4, <1>1
  <2> QED BY <2>3, <2>5 DEF T
<1> QED BY <1>3, <1>4 DEF N

(* A word that is past the lines before s and not past line e is on a line *)
(* from s to e.                                                            *)
LEMMA LineBetween ==
    ASSUME textLines \in Seq(0 .. MaxWords), NEW w \in Nat,
           NEW s \in 1 .. Len(textLines) + 1, NEW e \in 1 .. Len(textLines),
           WordsBefore(textLines, s) < w, w <= WordsBefore(textLines, e + 1)
    PROVE  LineOf(w) \in s .. e
<1> DEFINE N == Len(textLines)
           OnLine(l) == WordsBefore(textLines, l) < w /\ w <= WordsBefore(textLines, l) + textLines[l]
<1>1. N \in Nat /\ \A l \in 1 .. N : textLines[l] \in Nat
  BY ChunkingAssumption DEF ChunkingAssumption
<1>2. /\ WordsBefore(textLines, 1) = 0 /\ \A l \in 1 .. N + 1 : WordsBefore(textLines, l) \in Nat
      /\ \A l \in 1 .. N : WordsBefore(textLines, l + 1) = WordsBefore(textLines, l) + textLines[l]
  BY WordsSum
<1>3. \A l, m \in 1 .. N + 1 : l <= m => WordsBefore(textLines, l) <= WordsBefore(textLines, m)
  BY WordsGrow
<1>4. \E l \in 1 .. N : OnLine(l)
  <2> DEFINE T == {l \in Nat : l \in 1 .. N /\ w <= WordsBefore(textLines, l + 1)}
  <2>1. e \in T /\ T \in SUBSET Nat
    BY <1>1
  <2>2. PICK l \in T : \A m \in T : l <= m
    BY <2>1, LeastElement
  <2>3. l \in 1 .. N /\ w <= WordsBefore(textLines, l) + textLines[l]
    BY <2>2, <1>2
  <2>4. WordsBefore(textLines, l) < w
    <3>1. CASE l = 1
      <4>1. 1 \in 1 .. N + 1 /\ WordsBefore(textLines, s) \in Nat
        BY <1>1, <1>2
      <4> QED BY <3>1, <4>1, <1>2
    <3>2. CASE l # 1
      <4>1. PICK k \in 1 .. N : k + 1 = l
        BY <2>3, <3>2, <1>1
      <4>2. k \notin T
        BY <2>2, <4>1
      <4>3. ~(w <= WordsBefore(textLines, l)) /\ WordsBefore(textLines, l) \in Nat
        BY <4>1, <4>2, <2>3, <1>2, <1>1
      <4> QED BY <4>3
    <3> QED BY <3>1, <3>2
  <2> QED BY <2>3, <2>4
<1>5. LineOf(w) \in 1 .. N /\ OnLine(LineOf(w))
  BY <1>4 DEF LineOf
<1>6. PICK l \in 1 .. N : l = LineOf(w)
  BY <1>5
<1>7. WordsBefore(textLines, l) < w /\ w <= WordsBefore(textLines, l + 1)
  BY <1>5, <1>6, <1>2
<1> HIDE DEF N
<1>8. l + 1 \in 1 .. N + 1 /\ l \in 1 .. N + 1 /\ e + 1 \in 1 .. N + 1 /\ s \in 1 .. N + 1
  BY <1>1 DEF N
<1>9. ~(l < s)
  <2> SUFFICES ASSUME l < s PROVE FALSE
    OBVIOUS
  <2>1. WordsBefore(textLines, l + 1) <= WordsBefore(textLines, s)
    BY <1>3, <1>8, <1>1
  <2> QED BY <2>1, <1>7, <1>8, <1>2
<1>10. ~(e < l)
  <2> SUFFICES ASSUME e < l PROVE FALSE
    OBVIOUS
  <2>1. WordsBefore(textLines, e + 1) <= WordsBefore(textLines, l)
    BY <1>3, <1>8, <1>1
  <2> QED BY <2>1, <1>7, <1>8, <1>2
<1> QED BY <1>6, <1>8, <1>9, <1>10, <1>1 DEF N

(* What chunk_text holds between two words: where the last chunk ends, and *)
(* which words are gathered for the next.                                  *)
LastEnd == IF chunks = <<>> THEN 0 ELSE chunks[Len(chunks)].words.last

Cut == [words : [first : Nat, last : Nat], start : Nat, end : Nat]

ChunkTyped ==
    /\ textLines \in Seq(0 .. MaxWords) /\ Len(textLines) \in 1 .. MaxLines
    /\ lineAt \in 1 .. Len(textLines) + 2
    /\ maxTokens \in 1 .. MaxTokens + 1
    /\ overlap \in 0 .. MaxTokens /\ overlap < maxTokens
    /\ wordsDone \in Nat /\ inLine \in Nat
    /\ startLine \in 1 .. Len(textLines) /\ endLine \in 1 .. Len(textLines)
    /\ current \in [first : Nat \ {0}, last : Nat]
    /\ chunks \in Seq(Cut)

ChunkPlace ==
    /\ lineAt <= Len(textLines) =>
           /\ wordsDone = WordsBefore(textLines, lineAt) + inLine
           /\ inLine = 0 \/ inLine < textLines[lineAt]
    /\ lineAt > Len(textLines) => wordsDone = WordsBefore(textLines, Len(textLines) + 1)
    /\ wordsDone <= WordsBefore(textLines, endLine + 1)
    /\ WordsBefore(textLines, startLine) <= LastEnd /\ LastEnd <= wordsDone

ChunkGathers ==
    /\ current.last = wordsDone
    /\ Size(current) \in 0 .. maxTokens - 1
    /\ lineAt <= Len(textLines) + 1 =>
           current.first = IF chunks = <<>> THEN 1 ELSE LastEnd - overlap + 1

ChunkInv ==
    IF lineAt = 0
    THEN /\ textLines = <<>> /\ maxTokens = 0 /\ overlap = 0
         /\ wordsDone = 0 /\ inLine = 0
         /\ current = [first |-> 1, last |-> 0]
         /\ startLine = 1 /\ endLine = 1 /\ chunks = <<>>
    ELSE ChunkTyped /\ ChunkPlace /\ ChunkGathers /\ ChunksCoverText

LEMMA ChunkInitInv == ChunkInit => ChunkInv
BY DEF ChunkInit, ChunkInv

LEMMA ChunkInvIsSound ==
    ASSUME ChunkInv
    PROVE  ChunkTypeOK /\ ChunksCoverText
<1>0. MaxLines \in Nat \ {0} /\ MaxWords \in Nat /\ MaxTokens \in Nat
  BY ChunkingAssumption DEF ChunkingAssumption
<1>1. CASE lineAt = 0
  <2>1. ChunksCoverText
    BY <1>1 DEF ChunkInv, ChunksCoverText
  <2>2. MaxLines * MaxWords \in Nat
    BY <1>0
  <2> QED BY <1>0, <1>1, <2>1, <2>2 DEF ChunkInv, ChunkTypeOK
<1>2. CASE lineAt # 0
  <2>1. ChunkTyped /\ ChunkPlace /\ ChunkGathers /\ ChunksCoverText
    BY <1>2 DEF ChunkInv
  <2>2. PICK N \in 1 .. MaxLines : N = Len(textLines)
    BY <2>1 DEF ChunkTyped
  <2>3. /\ lineAt \in 0 .. MaxLines + 2 /\ maxTokens \in 0 .. MaxTokens + 1
        /\ overlap \in 0 .. MaxTokens
        /\ startLine \in 1 .. MaxLines /\ endLine \in 1 .. MaxLines
    BY <1>0, <2>1, <2>2 DEF ChunkTyped
  <2>4. wordsDone \in 0 .. MaxLines * MaxWords
    <3>1. PICK e \in 1 .. N + 1 : e = endLine + 1
      BY <2>1, <2>2, <1>0 DEF ChunkTyped
    <3>2. WordsBefore(textLines, e) <= (e - 1) * MaxWords /\ wordsDone <= WordsBefore(textLines, e)
      BY <3>1, <2>1, <2>2, WordsGrow DEF ChunkTyped, ChunkPlace
    <3>3. e - 1 \in Nat /\ e - 1 <= MaxLines
      BY <3>1, <2>2, <1>0
    <3>4. (e - 1) * MaxWords <= MaxLines * MaxWords /\ (e - 1) * MaxWords \in Nat
      <4>1. PICK k \in Nat : MaxLines = (e - 1) + k
        <5>1. MaxLines - (e - 1) \in Nat
          BY <3>3, <1>0
        <5> QED BY <5>1, <3>3, <1>0
      <4>2. MaxLines * MaxWords = (e - 1) * MaxWords + k * MaxWords
        BY <4>1, <3>3, <1>0
      <4>3. k * MaxWords \in Nat /\ (e - 1) * MaxWords \in Nat
        BY <4>1, <3>3, <1>0
      <4> QED BY <4>2, <4>3
    <3>5. WordsBefore(textLines, e) \in Nat /\ wordsDone \in Nat /\ MaxLines * MaxWords \in Nat
      BY <3>1, <2>1, <2>2, <1>0, WordsSum DEF ChunkTyped
    <3> QED BY <3>2, <3>4, <3>5
  <2> QED BY <2>1, <2>3, <2>4 DEF ChunkTypeOK
<1> QED BY <1>1, <1>2

FitsIn(cs, i) ==
    /\ Size(cs[i].words) \in 1 .. maxTokens
    /\ i = 1 => cs[i].words.first = 1
    /\ i > 1 => cs[i - 1].words.last - cs[i].words.first + 1 = overlap
    /\ \A w \in (IF i = 1 THEN cs[i].words.first .. cs[i].words.last
                 ELSE cs[i - 1].words.last + 1 .. cs[i].words.last) :
           LineOf(w) \in cs[i].start .. cs[i].end

LEMMA CoverIsFit ==
    ASSUME chunks \in Seq(Cut)
    PROVE  ChunksCoverText <=>
             \A i \in 1 .. Len(chunks) :
                 /\ FitsIn(chunks, i)
                 /\ lineAt = Len(textLines) + 2 /\ i = Len(chunks)
                        => chunks[i].words.last = wordsDone
BY DEF ChunksCoverText, FitsIn, NewWords

(* A chunk that starts where the last one says and ends on a line read     *)
(* fits behind the others.                                                 *)
LEMMA CutFits ==
    ASSUME ChunkTyped, ChunkPlace, NEW k \in Cut, NEW e \in 1 .. Len(textLines),
           Size(k.words) \in 1 .. maxTokens,
           k.words.first = IF chunks = <<>> THEN 1 ELSE LastEnd - overlap + 1,
           k.words.last <= WordsBefore(textLines, e + 1),
           k.start = startLine, k.end = e,
           \A i \in 1 .. Len(chunks) : FitsIn(chunks, i)
    PROVE  /\ Append(chunks, k) \in Seq(Cut) /\ Len(Append(chunks, k)) = Len(chunks) + 1
           /\ Append(chunks, k)[Len(chunks) + 1] = k
           /\ \A i \in 1 .. Len(chunks) + 1 : FitsIn(Append(chunks, k), i)
<1> DEFINE cs == Append(chunks, k)
           n == Len(chunks)
<1>1. /\ n \in Nat /\ chunks \in Seq(Cut) /\ cs \in Seq(Cut) /\ Len(cs) = n + 1
      /\ cs[n + 1] = k /\ \A i \in 1 .. n : cs[i] = chunks[i]
      /\ n = 0 <=> chunks = <<>>
      /\ n # 0 => LastEnd = chunks[n].words.last
      /\ n = 0 => LastEnd = 0
  BY DEF ChunkTyped, LastEnd
<1> HIDE DEF cs, n
<1>2. ASSUME NEW i \in 1 .. n PROVE FitsIn(cs, i)
  <2>1. cs[i] = chunks[i] /\ (i > 1 => cs[i - 1] = chunks[i - 1]) /\ FitsIn(chunks, i)
    <3>1. i > 1 => i - 1 \in 1 .. n
      BY <1>1
    <3> QED BY <3>1, <1>1 DEF n
  <2> QED BY <2>1 DEF FitsIn
<1>3. FitsIn(cs, n + 1)
  <2>1. LastEnd \in Nat /\ k.words.first \in Nat /\ k.words.last \in Nat /\ overlap \in Nat
    <3>1. n # 0 => n \in 1 .. n /\ chunks[n] \in Cut
      BY <1>1
    <3>2. k.words.first \in Nat /\ k.words.last \in Nat
      BY DEF Cut
    <3>3. n # 0 => chunks[n].words.last \in Nat
      BY <3>1 DEF Cut
    <3>4. overlap \in Nat
      BY ChunkingAssumption DEF ChunkTyped, ChunkingAssumption
    <3> QED BY <3>2, <3>3, <3>4, <1>1
  <2>2. ASSUME NEW w \in Nat, LastEnd < w, w <= k.words.last
        PROVE  LineOf(w) \in startLine .. e
    <3>1. textLines \in Seq(0 .. MaxWords) /\ startLine \in 1 .. Len(textLines) + 1
      BY DEF ChunkTyped
    <3>2. WordsBefore(textLines, startLine) \in Nat /\ WordsBefore(textLines, e + 1) \in Nat
      BY <3>1, WordsSum
    <3>3. WordsBefore(textLines, startLine) < w
      BY <3>2, <2>1, <2>2 DEF ChunkPlace
    <3>4. w <= WordsBefore(textLines, e + 1)
      BY <3>2, <2>1, <2>2
    <3> QED BY <3>1, <3>3, <3>4, LineBetween
  <2>3. CASE n = 0
    <3>1. k.words.first = 1 /\ LastEnd = 0 /\ n + 1 = 1 /\ cs[1] = k
      BY <2>3, <1>1
    <3>2. ASSUME NEW w \in 1 .. k.words.last PROVE LineOf(w) \in startLine .. e
      BY <3>1, <2>2
    <3> QED BY <3>1, <3>2 DEF FitsIn
  <2>4. CASE n # 0
    <3>1. /\ k.words.first = LastEnd - overlap + 1 /\ n + 1 > 1 /\ (n + 1) - 1 = n
          /\ cs[n] = chunks[n] /\ LastEnd = chunks[n].words.last
      BY <2>4, <1>1
    <3>2. LastEnd - k.words.first + 1 = overlap
      BY <3>1, <2>1
    <3>3. ASSUME NEW w \in LastEnd + 1 .. k.words.last PROVE LineOf(w) \in startLine .. e
      BY <2>1, <2>2
    <3>4. cs[(n + 1) - 1].words.last = LastEnd /\ cs[n + 1] = k /\ n + 1 # 1
      BY <3>1, <1>1
    <3> QED BY <3>1, <3>2, <3>3, <3>4 DEF FitsIn
  <2> QED BY <2>3, <2>4
<1>4. \A i \in 1 .. n + 1 : i = n + 1 \/ i \in 1 .. n
  BY <1>1
<1> QED BY <1>1, <1>2, <1>3, <1>4 DEF cs, n

(* What a step of the loop leaves to show.                                 *)
SameFile == UNCHANGED <<textLines, maxTokens, overlap>>

LEMMA SameLines ==
    ASSUME SameFile
    PROVE  /\ \A l : WordsBefore(textLines', l) = WordsBefore(textLines, l)
           /\ \A w : LineOf(w)' = LineOf(w)
           /\ \A cs, i : FitsIn(cs, i)' = FitsIn(cs, i)
<1>1. textLines' = textLines /\ maxTokens' = maxTokens /\ overlap' = overlap
  BY DEF SameFile
<1>2. \A l : WordsBefore(textLines', l) = WordsBefore(textLines, l)
  BY <1>1 DEF WordsBefore
<1>3. \A w : LineOf(w)' = LineOf(w)
  BY <1>1, <1>2 DEF LineOf
<1> QED BY <1>1, <1>2, <1>3 DEF FitsIn

LEMMA ChunkTextInv ==
    ASSUME ChunkInv, NEW file \in Files, NEW tokens \in 0 .. MaxTokens,
           NEW shared \in 0 .. MaxTokens, ChunkText(file, tokens, shared)
    PROVE  ChunkInv'
<1>0. MaxLines \in Nat \ {0} /\ MaxWords \in Nat /\ MaxTokens \in Nat
  BY ChunkingAssumption DEF ChunkingAssumption
<1>1. PICK n \in 1 .. MaxLines : file \in [1 .. n -> 0 .. MaxWords]
  BY DEF Files
<1>2. file \in Seq(0 .. MaxWords) /\ Len(file) = n
  BY <1>1, <1>0
<1>3. /\ lineAt = 0 /\ lineAt' = 1 /\ textLines' = file
      /\ maxTokens' = (IF tokens < 1 THEN 1 ELSE tokens)
      /\ overlap' = Lower(shared, maxTokens' - 1)
      /\ UNCHANGED <<wordsDone, inLine, current, startLine, endLine, chunks>>
  BY DEF ChunkText
<1>4. /\ wordsDone' = 0 /\ inLine' = 0 /\ current' = [first |-> 1, last |-> 0]
      /\ startLine' = 1 /\ endLine' = 1 /\ chunks' = <<>>
  BY <1>3 DEF ChunkInv
<1>5. maxTokens' \in 1 .. MaxTokens + 1 /\ overlap' \in 0 .. MaxTokens /\ overlap' < maxTokens'
  BY <1>0, <1>3 DEF Lower
<1>6. ChunkTyped'
  BY <1>0, <1>1, <1>2, <1>3, <1>4, <1>5 DEF ChunkTyped, Cut
<1>7. WordsBefore(textLines', 1) = 0 /\ WordsBefore(textLines', 2) \in Nat
  <2>1. \A l \in 1 .. Len(textLines') + 1 : WordsBefore(textLines', l) \in Nat
    BY <1>2, <1>3, WordsSum
  <2>2. 2 \in 1 .. Len(textLines') + 1
    BY <1>1, <1>2, <1>3, <1>0
  <2> QED BY <2>1, <2>2, <1>2, <1>3, WordsSum
<1>8. ChunkPlace'
  <2>1. lineAt' <= Len(textLines') /\ LastEnd' = 0
    BY <1>1, <1>2, <1>3, <1>4, <1>0 DEF LastEnd
  <2>2. endLine' + 1 = 2
    BY <1>4
  <2>3. ~(lineAt' > Len(textLines'))
    BY <1>1, <1>2, <1>3, <1>0
  <2>4. wordsDone' = WordsBefore(textLines', lineAt') + inLine'
    BY <1>3, <1>4, <1>7
  <2>5. wordsDone' <= WordsBefore(textLines', endLine' + 1)
    BY <1>4, <1>7, <2>2
  <2>6. WordsBefore(textLines', startLine') <= LastEnd' /\ LastEnd' <= wordsDone'
    BY <1>4, <1>7, <2>1
  <2> QED BY <1>4, <2>3, <2>4, <2>5, <2>6 DEF ChunkPlace
<1>9. ChunkGathers'
  <2>1. current'.first = 1 /\ current'.last = 0
    BY <1>4
  <2>2. Size(current') = 0
    BY <2>1 DEF Size
  <2>3. Size(current)' \in 0 .. maxTokens' - 1
    BY <2>2, <1>5, <1>0 DEF Size
  <2>4. current'.last = wordsDone'
    BY <1>4, <2>1
  <2>5. current'.first = IF chunks' = <<>> THEN 1 ELSE LastEnd' - overlap' + 1
    BY <1>4, <2>1
  <2> QED BY <2>3, <2>4, <2>5 DEF ChunkGathers
<1>10. ChunksCoverText'
  BY <1>4 DEF ChunksCoverText
<1> QED BY <1>3, <1>6, <1>8, <1>9, <1>10 DEF ChunkInv

LEMMA BlankLineInv ==
    ASSUME ChunkInv, BlankLine
    PROVE  ChunkInv'
<1>1. PICK N \in Nat \ {0} : N = Len(textLines)
  BY DEF BlankLine, Reading, ChunkInv, ChunkTyped
<1>2. /\ lineAt \in 1 .. N /\ textLines[lineAt] = 0
      /\ endLine' = lineAt /\ lineAt' = lineAt + 1
      /\ UNCHANGED <<textLines, maxTokens, overlap, wordsDone, inLine, current, startLine,
                     chunks>>
  BY <1>1 DEF BlankLine, Reading
<1>3. ChunkTyped /\ ChunkPlace /\ ChunkGathers /\ ChunksCoverText
  BY <1>2 DEF ChunkInv
<1>4. SameFile
  BY <1>2 DEF SameFile
<1>5. \A l : WordsBefore(textLines', l) = WordsBefore(textLines, l)
  BY <1>4, SameLines
<1>6. /\ WordsBefore(textLines, lineAt + 1) = WordsBefore(textLines, lineAt) /\ WordsBefore(textLines, lineAt) \in Nat
      /\ wordsDone = WordsBefore(textLines, lineAt)
  <2>1. WordsBefore(textLines, lineAt + 1) = WordsBefore(textLines, lineAt) + textLines[lineAt]
    BY <1>1, <1>2, <1>3, WordsSum DEF ChunkTyped
  <2>2. WordsBefore(textLines, lineAt) \in Nat
    BY <1>1, <1>2, <1>3, WordsSum DEF ChunkTyped
  <2>3. wordsDone = WordsBefore(textLines, lineAt) + inLine /\ (inLine = 0 \/ inLine < 0) /\ inLine \in Nat
    BY <1>1, <1>2, <1>3 DEF ChunkPlace, ChunkTyped
  <2> QED BY <1>2, <2>1, <2>2, <2>3
<1>7. ChunkTyped'
  BY <1>1, <1>2, <1>3 DEF ChunkTyped
<1>8. ChunkPlace'
  <2>1. LastEnd' = LastEnd
    BY <1>2 DEF LastEnd
  <2>2. lineAt' > N => lineAt' = N + 1
    BY <1>2, <1>1
  <2>3. inLine' = 0
    BY <1>1, <1>2, <1>3 DEF ChunkPlace, ChunkTyped
  <2>4. wordsDone' = WordsBefore(textLines', lineAt') + inLine' /\ wordsDone' <= WordsBefore(textLines', endLine' + 1)
    BY <1>2, <1>5, <1>6, <2>3
  <2>5. lineAt' > Len(textLines') => wordsDone' = WordsBefore(textLines', Len(textLines') + 1)
    <3>1. wordsDone' = WordsBefore(textLines, lineAt + 1)
      BY <1>2, <1>6
    <3> QED BY <3>1, <1>1, <1>2, <1>5, <2>2
  <2>6. WordsBefore(textLines', startLine') <= LastEnd' /\ LastEnd' <= wordsDone'
    BY <1>2, <1>3, <2>1 DEF ChunkPlace
  <2> QED BY <2>3, <2>4, <2>5, <2>6 DEF ChunkPlace
<1>9. ChunkGathers'
  <2>1. LastEnd' = LastEnd
    BY <1>2 DEF LastEnd
  <2> QED BY <1>1, <1>2, <1>3, <2>1 DEF ChunkGathers, Size
<1>10. ChunksCoverText'
  <2>1. \A w : LineOf(w)' = LineOf(w)
    BY <1>4, SameLines
  <2>2. ~(lineAt' = N + 2)
    BY <1>1, <1>2
  <2> QED BY <1>1, <1>2, <1>3, <2>1, <2>2 DEF ChunksCoverText, NewWords, Size
<1> QED BY <1>1, <1>2, <1>7, <1>8, <1>9, <1>10 DEF ChunkInv

LEMMA NextWordInv ==
    ASSUME ChunkInv, NextWord
    PROVE  ChunkInv'
<1>1. PICK N \in Nat \ {0} : N = Len(textLines)
  <2>1. lineAt # 0
    BY DEF NextWord, Reading, ChunkInv
  <2>2. Len(textLines) \in 1 .. MaxLines
    BY <2>1 DEF ChunkInv, ChunkTyped
  <2>3. Len(textLines) \in Nat \ {0}
    BY <2>2, ChunkingAssumption DEF ChunkingAssumption
  <2> QED BY <2>3
<1>2. lineAt \in 1 .. N /\ SameFile
  BY <1>1 DEF NextWord, Reading, SameFile
<1>3. ChunkTyped /\ ChunkPlace /\ ChunkGathers /\ ChunksCoverText
  BY <1>2 DEF ChunkInv
<1>4. PICK l \in 1 .. N : l = lineAt
  BY <1>2
<1> DEFINE W(k) == WordsBefore(textLines, k)
           c == [current EXCEPT !.last = wordsDone + 1]
<1>5. /\ inLine < textLines[l] /\ wordsDone' = wordsDone + 1 /\ endLine' = l
      /\ inLine' = IF inLine + 1 = textLines[l] THEN 0 ELSE inLine + 1
      /\ lineAt' = IF inLine + 1 = textLines[l] THEN l + 1 ELSE l
      /\ IF Size(c) >= maxTokens
         THEN /\ chunks' = Append(chunks, [words |-> c, start |-> startLine, end |-> l])
              /\ current' = Retained(c, overlap)
              /\ startLine' = l
         ELSE current' = c /\ chunks' = chunks /\ startLine' = startLine
  BY <1>4 DEF NextWord
<1>6. /\ textLines' = textLines /\ maxTokens' = maxTokens /\ overlap' = overlap
  BY <1>2 DEF SameFile
<1>7. /\ inLine \in Nat /\ wordsDone \in Nat /\ textLines[l] \in Nat
      /\ maxTokens \in Nat \ {0} /\ overlap \in Nat /\ overlap < maxTokens
      /\ current \in [first : Nat \ {0}, last : Nat]
      /\ chunks \in Seq(Cut) /\ MaxTokens \in Nat
  <2>1. textLines[l] \in 0 .. MaxWords
    <3>1. textLines \in Seq(0 .. MaxWords)
      BY <1>3 DEF ChunkTyped
    <3>2. l \in 1 .. Len(textLines)
      BY <1>1
    <3>3. PICK S : S = 0 .. MaxWords
      OBVIOUS
    <3>4. textLines \in Seq(S)
      BY <3>1, <3>3
    <3>5. textLines[l] \in S
      BY <3>2, <3>4
    <3> QED BY <3>3, <3>5
  <2>2. MaxWords \in Nat /\ MaxTokens \in Nat
    BY ChunkingAssumption DEF ChunkingAssumption
  <2> QED BY <1>3, <2>1, <2>2 DEF ChunkTyped
<1>8. /\ W(l) \in Nat /\ W(l + 1) = W(l) + textLines[l]
      /\ wordsDone = W(l) + inLine
  <2>1. wordsDone = W(l) + inLine
    BY <1>1, <1>3, <1>4 DEF ChunkPlace
  <2> QED BY SMTT(60), <2>1, <1>1, <1>3, WordsSum DEF ChunkTyped
<1> HIDE DEF W
<1>9. /\ wordsDone' <= W(l + 1) /\ W(l) <= wordsDone' /\ W(l + 1) \in Nat
      /\ inLine + 1 = textLines[l] => wordsDone' = W(l + 1)
      /\ inLine + 1 # textLines[l] => /\ wordsDone' = W(l) + inLine'
                                      /\ inLine' < textLines[l]
  <2>1. /\ inLine < textLines[l] /\ wordsDone' = wordsDone + 1
        /\ inLine' = IF inLine + 1 = textLines[l] THEN 0 ELSE inLine + 1
    BY <1>5
  <2>2. inLine \in Nat /\ wordsDone \in Nat /\ textLines[l] \in Nat
    BY <1>7
  <2>3. W(l) \in Nat /\ W(l + 1) = W(l) + textLines[l] /\ wordsDone = W(l) + inLine
    BY <1>8 DEF W
  <2>4. PICK t \in Nat : t = textLines[l]
    BY <2>2
  <2>5. inLine + 1 <= t
    BY <2>1, <2>2, <2>4
  <2> QED BY <2>1, <2>2, <2>3, <2>4, <2>5
<1>10. /\ c.first = current.first /\ c.last = wordsDone + 1
       /\ c \in [first : Nat \ {0}, last : Nat]
       /\ Size(c) = Size(current) + 1 /\ Size(c) \in 1 .. maxTokens
  <2>1. current.last = wordsDone /\ Size(current) \in 0 .. maxTokens - 1
    BY <1>3 DEF ChunkGathers
  <2>2. c.first = current.first /\ c.last = wordsDone + 1 /\ c \in [first : Nat \ {0}, last : Nat]
    BY <1>7
  <2> HIDE DEF c
  <2> QED BY <2>1, <2>2, <1>7 DEF Size
<1>11. c.first = IF chunks = <<>> THEN 1 ELSE LastEnd - overlap + 1
  BY <1>1, <1>2, <1>3, <1>10 DEF ChunkGathers
<1> HIDE DEF c
<1>12. \A i \in 1 .. Len(chunks) : FitsIn(chunks, i)
  BY <1>3, <1>7, CoverIsFit
<1>13. \A w : LineOf(w)' = LineOf(w)
  BY <1>2, SameLines
<1>14. ASSUME startLine' \in 1 .. N, current' \in [first : Nat \ {0}, last : Nat],
              chunks' \in Seq(Cut), \A i \in 1 .. Len(chunks') : FitsIn(chunks', i),
              W(startLine') <= LastEnd', LastEnd' <= wordsDone',
              current'.last = wordsDone', Size(current') \in 0 .. maxTokens - 1,
              current'.first = IF chunks' = <<>> THEN 1 ELSE LastEnd' - overlap + 1
       PROVE  ChunkInv'
  <2>1. lineAt' \in 1 .. N + 1 /\ endLine' \in 1 .. N /\ wordsDone' \in Nat /\ inLine' \in Nat
    BY <1>4, <1>5, <1>7, <1>1
  <2>2. ChunkTyped'
    BY <2>1, <1>1, <1>3, <1>6, <1>14 DEF ChunkTyped
  <2>3. ChunkPlace'
    <3>1. lineAt' <= N => /\ wordsDone' = W(lineAt') + inLine'
                          /\ inLine' = 0 \/ inLine' < textLines[lineAt']
      <4>1. CASE inLine + 1 = textLines[l]
        BY <4>1, <1>5, <1>7, <1>9
      <4>2. CASE inLine + 1 # textLines[l]
        BY <4>2, <1>5, <1>7, <1>9
      <4> QED BY <4>1, <4>2
    <3>2. lineAt' > N => wordsDone' = W(N + 1)
      <4>1. lineAt' > N => l = N /\ inLine + 1 = textLines[l]
        BY <1>1, <1>4, <1>5
      <4> QED BY <4>1, <1>9
    <3>3. wordsDone' <= W(endLine' + 1)
      BY <1>5, <1>9
    <3> QED BY <3>1, <3>2, <3>3, <1>1, <1>6, <1>14 DEF ChunkPlace, W
  <2>4. ChunkGathers'
    BY <1>6, <1>14 DEF ChunkGathers
  <2>5. ChunksCoverText'
    <3>1. ~(lineAt' = Len(textLines') + 2)
      BY <2>1, <1>1, <1>6
    <3>2. ASSUME NEW i \in 1 .. Len(chunks')
          PROVE  FitsIn(chunks', i) <=>
                   /\ Size(chunks'[i].words) \in 1 .. maxTokens'
                   /\ i = 1 => chunks'[i].words.first = 1
                   /\ i > 1 => chunks'[i - 1].words.last - chunks'[i].words.first + 1 = overlap'
                   /\ \A w \in NewWords(i)' :
                         LineOf(w)' \in chunks'[i].start .. chunks'[i].end
      <4>1. NewWords(i)' = IF i = 1 THEN chunks'[i].words.first .. chunks'[i].words.last
                           ELSE chunks'[i - 1].words.last + 1 .. chunks'[i].words.last
        BY DEF NewWords
      <4> HIDE DEF NewWords
      <4> QED BY <4>1, <1>6, <1>13 DEF FitsIn
    <3> QED BY <3>1, <3>2, <1>14 DEF ChunksCoverText, Size
  <2>6. lineAt' # 0
    BY <2>1, <1>1
  <2> QED BY <2>2, <2>3, <2>4, <2>5, <2>6 DEF ChunkInv
<1>15. CASE Size(c) >= maxTokens
  <2> DEFINE k == [words |-> c, start |-> startLine, end |-> l]
  <2>1. /\ chunks' = Append(chunks, k) /\ current' = Retained(c, overlap) /\ startLine' = l
        /\ Size(c) = maxTokens
    BY <1>5, <1>7, <1>10, <1>15
  <2>2. k \in Cut /\ k.words = c /\ k.start = startLine /\ k.end = l
    BY <1>1, <1>3, <1>4, <1>10 DEF ChunkTyped, Cut
  <2> HIDE DEF k
  <2>3. /\ chunks' \in Seq(Cut) /\ Len(chunks') = Len(chunks) + 1
        /\ chunks'[Len(chunks) + 1] = k
        /\ \A i \in 1 .. Len(chunks) + 1 : FitsIn(chunks', i)
    <3>1. k.words.last <= WordsBefore(textLines, l + 1)
      BY <2>2, <1>5, <1>9, <1>10 DEF W
    <3>2. l \in 1 .. Len(textLines) /\ Size(k.words) \in 1 .. maxTokens
      BY <1>1, <1>4, <1>10, <2>2
    <3> QED BY <3>1, <3>2, <2>1, <2>2, <1>3, <1>11, <1>12, CutFits
  <2>4. LastEnd' = wordsDone' /\ chunks' # <<>>
    BY <2>2, <2>3, <1>5, <1>7, <1>10 DEF LastEnd
  <2>5. /\ current'.last = wordsDone' /\ current'.first = wordsDone' - overlap + 1
        /\ current' \in [first : Nat \ {0}, last : Nat]
    <3>1. ~(Size(c) < overlap)
      BY <2>1, <1>7
    <3>2. current' = [c EXCEPT !.first = c.last - overlap + 1]
      BY <2>1, <3>1 DEF Retained
    <3>3. c.last - overlap + 1 \in Nat \ {0}
      <4>1. c.last - c.first + 1 = maxTokens /\ c.first \in Nat \ {0} /\ c.last \in Nat
        BY <2>1, <1>10 DEF Size
      <4> QED BY <4>1, <1>7
    <3> QED BY <3>2, <3>3, <1>5, <1>10
  <2>6. Size(current') \in 0 .. maxTokens - 1
    <3>1. wordsDone' \in Nat
      BY <1>5, <1>7
    <3>2. Size(current') = overlap
      <4>1. PICK d \in Nat : d = wordsDone'
        BY <3>1
      <4>2. current'.last = d /\ current'.first = d - overlap + 1
        BY <2>5, <4>1
      <4>3. Size(current') = current'.last - current'.first + 1
        BY DEF Size
      <4>4. Size(current') = d - (d - overlap + 1) + 1
        BY <4>2, <4>3
      <4>5. overlap \in Nat
        BY <1>7
      <4>6. d - (d - overlap + 1) + 1 = overlap
        <5> HIDE <4>4
        <5> QED BY <4>5
      <4> QED BY <4>4, <4>6, Zenon
    <3> QED BY <3>2, <1>7
  <2>7. W(startLine') <= LastEnd' /\ LastEnd' <= wordsDone'
    BY <2>1, <2>4, <1>5, <1>7, <1>9
  <2> QED BY <2>1, <2>3, <2>4, <2>5, <2>6, <2>7, <1>4, <1>14
<1>16. CASE ~(Size(c) >= maxTokens)
  <2>1. current' = c /\ chunks' = chunks /\ startLine' = startLine
    BY <1>5, <1>16
  <2>2. LastEnd' = LastEnd
    BY <2>1 DEF LastEnd
  <2>3. Size(current') \in 0 .. maxTokens - 1
    BY <2>1, <1>7, <1>10, <1>16
  <2>4. W(startLine') <= LastEnd' /\ LastEnd' <= wordsDone'
    <3>1. W(startLine) <= LastEnd /\ LastEnd <= wordsDone
      BY <1>3 DEF ChunkPlace, W
    <3>2. LastEnd \in Nat
      <4>1. chunks # <<>> => chunks[Len(chunks)] \in Cut
        BY <1>7
      <4> QED BY <4>1 DEF LastEnd, Cut
    <3> QED BY <3>1, <3>2, <2>1, <2>2, <1>5, <1>7
  <2>5. startLine' \in 1 .. N
    BY <2>1, <1>1, <1>3 DEF ChunkTyped
  <2> QED BY <2>1, <2>2, <2>3, <2>4, <2>5, <1>5, <1>7, <1>10, <1>11, <1>12, <1>14
<1> QED BY <1>15, <1>16

LEMMA RemainderInv ==
    ASSUME ChunkInv, Remainder
    PROVE  ChunkInv'
<1>1. PICK N \in Nat \ {0} : N = Len(textLines)
  <2>1. lineAt # 0
    BY DEF Remainder, ChunkInv
  <2>2. Len(textLines) \in 1 .. MaxLines
    BY <2>1 DEF ChunkInv, ChunkTyped
  <2>3. Len(textLines) \in Nat \ {0}
    BY <2>2, ChunkingAssumption DEF ChunkingAssumption
  <2> QED BY <2>3
<1>2. /\ lineAt = N + 1 /\ lineAt' = N + 2 /\ SameFile
      /\ UNCHANGED <<wordsDone, inLine, current, startLine, endLine>>
      /\ IF Size(current) = 0 THEN chunks' = chunks
         ELSE chunks' = Append(chunks, [words |-> current, start |-> startLine,
                                        end |-> endLine])
  BY <1>1 DEF Remainder, SameFile
<1>3. ChunkTyped /\ ChunkPlace /\ ChunkGathers /\ ChunksCoverText
  BY <1>1, <1>2 DEF ChunkInv
<1>4. /\ textLines' = textLines /\ maxTokens' = maxTokens /\ overlap' = overlap
  BY <1>2 DEF SameFile
<1>5. \A w : LineOf(w)' = LineOf(w)
  BY <1>2, SameLines
<1>6. /\ wordsDone \in Nat /\ maxTokens \in Nat \ {0} /\ overlap \in Nat
      /\ current \in [first : Nat \ {0}, last : Nat]
      /\ chunks \in Seq(Cut) /\ MaxTokens \in Nat
      /\ startLine \in 1 .. N /\ endLine \in 1 .. N
  BY <1>1, <1>3, ChunkingAssumption DEF ChunkTyped, ChunkingAssumption
<1>7. /\ wordsDone = WordsBefore(textLines, N + 1)
      /\ wordsDone <= WordsBefore(textLines, endLine + 1)
      /\ WordsBefore(textLines, startLine) <= LastEnd /\ LastEnd <= wordsDone
  BY <1>1, <1>2, <1>3 DEF ChunkPlace
<1>8. /\ current.last = wordsDone /\ Size(current) \in 0 .. maxTokens - 1
      /\ current.first = IF chunks = <<>> THEN 1 ELSE LastEnd - overlap + 1
  BY <1>1, <1>2, <1>3 DEF ChunkGathers
<1>9. \A i \in 1 .. Len(chunks) : FitsIn(chunks, i)
  BY <1>3, <1>6, CoverIsFit
<1>10. LastEnd \in Nat
  <2>1. chunks # <<>> => chunks[Len(chunks)] \in Cut
    BY <1>6
  <2> QED BY <2>1 DEF LastEnd, Cut
<1>11. ASSUME chunks' \in Seq(Cut), \A i \in 1 .. Len(chunks') : FitsIn(chunks', i),
              WordsBefore(textLines, startLine) <= LastEnd', LastEnd' <= wordsDone,
              chunks' # <<>> => chunks'[Len(chunks')].words.last = wordsDone
       PROVE  ChunkInv'
  <2>1. ChunkTyped'
    BY <1>1, <1>2, <1>3, <1>4, <1>11 DEF ChunkTyped
  <2>2. ChunkPlace'
    <3>1. ~(lineAt' <= Len(textLines'))
      BY <1>1, <1>2, <1>4
    <3> QED BY <3>1, <1>1, <1>2, <1>4, <1>7, <1>11 DEF ChunkPlace
  <2>3. ChunkGathers'
    <3>1. ~(lineAt' <= Len(textLines') + 1)
      BY <1>1, <1>2, <1>4
    <3>2. Size(current)' \in 0 .. maxTokens' - 1
      BY <1>2, <1>4, <1>8 DEF Size
    <3> QED BY <3>1, <3>2, <1>2, <1>8 DEF ChunkGathers
  <2>4. ChunksCoverText'
    <3>1. ASSUME NEW i \in 1 .. Len(chunks')
          PROVE  FitsIn(chunks', i) <=>
                   /\ Size(chunks'[i].words) \in 1 .. maxTokens'
                   /\ i = 1 => chunks'[i].words.first = 1
                   /\ i > 1 => chunks'[i - 1].words.last - chunks'[i].words.first + 1 = overlap'
                   /\ \A w \in NewWords(i)' :
                         LineOf(w)' \in chunks'[i].start .. chunks'[i].end
      <4>1. NewWords(i)' = IF i = 1 THEN chunks'[i].words.first .. chunks'[i].words.last
                           ELSE chunks'[i - 1].words.last + 1 .. chunks'[i].words.last
        BY DEF NewWords
      <4> HIDE DEF NewWords
      <4> QED BY <4>1, <1>4, <1>5 DEF FitsIn
    <3>2. ASSUME NEW i \in 1 .. Len(chunks'), i = Len(chunks')
          PROVE  chunks'[i].words.last = wordsDone'
      <4>1. chunks' # <<>>
        BY <3>2
      <4> QED BY <4>1, <3>2, <1>2, <1>11
    <3> QED BY <3>1, <3>2, <1>11 DEF ChunksCoverText, Size
  <2>5. lineAt' # 0
    BY <1>1, <1>2
  <2> QED BY <2>1, <2>2, <2>3, <2>4, <2>5 DEF ChunkInv
<1>12. CASE Size(current) = 0
  <2>1. chunks' = chunks /\ LastEnd' = LastEnd
    BY <1>2, <1>12 DEF LastEnd
  <2>2. chunks # <<>> => LastEnd = wordsDone
    <3> SUFFICES ASSUME chunks # <<>> PROVE LastEnd = wordsDone
      OBVIOUS
    <3>1. wordsDone - current.first + 1 = 0 /\ current.first = LastEnd - overlap + 1
      BY <1>8, <1>12 DEF Size
    <3> QED BY <3>1, <1>6, <1>7, <1>10
  <2>3. chunks' # <<>> => chunks'[Len(chunks')].words.last = wordsDone
    BY <2>1, <2>2 DEF LastEnd
  <2> QED BY <2>1, <2>3, <1>6, <1>7, <1>9, <1>11
<1>13. CASE Size(current) # 0
  <2> DEFINE k == [words |-> current, start |-> startLine, end |-> endLine]
  <2>1. chunks' = Append(chunks, k)
    BY <1>2, <1>13
  <2>2. k \in Cut /\ k.words = current /\ k.start = startLine /\ k.end = endLine
    BY <1>1, <1>6 DEF Cut
  <2> HIDE DEF k
  <2>3. /\ chunks' \in Seq(Cut) /\ Len(chunks') = Len(chunks) + 1
        /\ chunks'[Len(chunks) + 1] = k
        /\ \A i \in 1 .. Len(chunks) + 1 : FitsIn(chunks', i)
    <3>1. k.words.last <= WordsBefore(textLines, endLine + 1)
      BY <2>2, <1>7, <1>8
    <3>2. endLine \in 1 .. Len(textLines) /\ Size(k.words) \in 1 .. maxTokens
      BY <1>1, <1>6, <1>8, <1>13, <2>2
    <3>3. k.words.first = IF chunks = <<>> THEN 1 ELSE LastEnd - overlap + 1
      BY <1>8, <2>2
    <3> QED BY <3>1, <3>2, <3>3, <2>1, <2>2, <1>3, <1>9, CutFits
  <2>4. chunks' # <<>> /\ chunks'[Len(chunks')].words.last = wordsDone
    BY <2>2, <2>3, <1>6, <1>8
  <2>5. LastEnd' = wordsDone
    BY <2>4 DEF LastEnd
  <2>6. WordsBefore(textLines, startLine) \in Nat
    <3>1. startLine \in 1 .. Len(textLines) + 1 /\ textLines \in Seq(0 .. MaxWords)
      BY <1>1, <1>3, <1>6 DEF ChunkTyped
    <3> QED BY <3>1, WordsSum
  <2> QED BY <2>3, <2>4, <2>5, <2>6, <1>6, <1>7, <1>10, <1>11
<1> QED BY <1>12, <1>13

LEMMA ChunkStepInv == ChunkInv /\ [ChunkNext]_chunkVars => ChunkInv'
<1> SUFFICES ASSUME ChunkInv, [ChunkNext]_chunkVars PROVE ChunkInv'
  OBVIOUS
<1>1. CASE UNCHANGED chunkVars
  <2>1. /\ textLines' = textLines /\ maxTokens' = maxTokens /\ overlap' = overlap
        /\ lineAt' = lineAt /\ wordsDone' = wordsDone /\ inLine' = inLine
        /\ current' = current /\ startLine' = startLine /\ endLine' = endLine
        /\ chunks' = chunks
    BY <1>1 DEF chunkVars
  <2>2. SameFile
    BY <2>1 DEF SameFile
  <2>3. \A w : LineOf(w)' = LineOf(w)
    BY <2>2, SameLines
  <2>4. LastEnd' = LastEnd
    BY <2>1 DEF LastEnd
  <2>5. ChunksCoverText => ChunksCoverText'
    BY <2>1, <2>3 DEF ChunksCoverText, NewWords, Size
  <2>6. ChunkTyped => ChunkTyped'
    BY <2>1 DEF ChunkTyped
  <2>7. ChunkPlace => ChunkPlace'
    BY <2>1, <2>4 DEF ChunkPlace
  <2>8. ChunkGathers => ChunkGathers'
    BY <2>1, <2>4 DEF ChunkGathers, Size
  <2> QED BY <2>1, <2>5, <2>6, <2>7, <2>8 DEF ChunkInv
<1>2. CASE ChunkNext
  BY <1>2, ChunkTextInv, BlankLineInv, NextWordInv, RemainderInv DEF ChunkNext
<1> QED BY <1>1, <1>2

(* The chunks of a file hold every word read so far, in order; neighbours  *)
(* share exactly the overlap, no chunk is longer than asked for, and each  *)
(* names the lines its new words are on (chunk_text).                      *)
THEOREM ChunksCoverTheText == ChunkSpec => [](ChunkTypeOK /\ ChunksCoverText)
BY ChunkInitInv, ChunkStepInv, ChunkInvIsSound, PTL DEF ChunkSpec

-----------------------------------------------------------------------------
(* Memory.  Every rank's score divides the common denominator, so a better *)
(* rank has the higher score.                                              *)

LEMMA MinOfTwo ==
    ASSUME NEW a \in Nat, NEW b \in Nat
    PROVE  /\ Min({a, b}) \in Nat /\ Min({a, b}) <= a /\ Min({a, b}) <= b
           /\ Min({a, b}) = a \/ Min({a, b}) = b
<1> DEFINE P(x) == x \in {a, b} /\ \A y \in {a, b} : x <= y
<1>1. \E x : P(x)
  <2>1. P(a) \/ P(b)
    OBVIOUS
  <2> QED BY <2>1
<1>2. P(CHOOSE x : P(x))
  <2> HIDE DEF P
  <2> QED BY <1>1
<1>3. Min({a, b}) = CHOOSE x : P(x)
  BY DEF Min
<1>4. P(Min({a, b}))
  <2> HIDE DEF P
  <2> QED BY <1>2, <1>3
<1> QED BY <1>4

LEMMA ScaleShares ==
    /\ MaxRank \in Nat /\ Scale \in Nat \ {0}
    /\ \A r \in 1 .. MaxRank : \E q \in Nat \ {0} : Scale = q * (RrfK + r)
<1>1. MaxRank \in Nat /\ RrfK = 60
  BY FS_CardinalityType, MemoryAssumption DEF MaxRank, MemoryAssumption, RrfK
<1> DEFINE N == MaxRank
           Up(f) == [r \in 0 .. N |-> IF r = 0 THEN 1 ELSE f[r - 1] * (RrfK + r)]
           g == [p \in (1 .. N) \X Nat |-> p[2] * (RrfK + p[1])]
           upTo == CHOOSE f : f = Up(f)
<1>2. g \in [(1 .. N) \X Nat -> Nat]
  BY <1>1
<1>3. PICK f : Recurs(f, 1, g, N, Nat)
  <2> HIDE DEF g, N
  <2> QED BY <1>1, <1>2, RecursionExists DEF N
<1>4. f \in [0 .. N -> Nat] /\ f[0] = 1
  BY <1>3 DEF Recurs
<1>5. ASSUME NEW k \in 1 .. N PROVE f[k] = f[k - 1] * (RrfK + k)
  <2>1. f[k] = g[<<k, f[k - 1]>>]
    BY <1>3 DEF Recurs
  <2>2. k - 1 \in 0 .. N
    BY <1>1
  <2>3. <<k, f[k - 1]>> \in (1 .. N) \X Nat
    BY <1>4, <2>2
  <2>4. g[<<k, f[k - 1]>>] = f[k - 1] * (RrfK + k)
    BY <2>3
  <2> QED BY <2>1, <2>4
<1>6. f = Up(f)
  <2>1. \A k \in 0 .. N : f[k] = IF k = 0 THEN 1 ELSE f[k - 1] * (RrfK + k)
    BY <1>1, <1>4, <1>5
  <2> HIDE DEF N
  <2> QED BY <1>4, <2>1
<1>7. upTo = Up(upTo)
  <2> HIDE DEF Up
  <2> QED BY <1>6
<1>8. Scale = upTo[N]
  BY DEF Scale
<1> HIDE DEF upTo, g
<1>9. upTo[0] = 1 /\ \A k \in 1 .. N : upTo[k] = upTo[k - 1] * (60 + k)
  BY <1>1, <1>7
<1> HIDE DEF N
<1> DEFINE T == {n \in Nat : n <= N => /\ upTo[n] \in Nat \ {0}
                                      /\ \A r \in 1 .. n : \E q \in Nat \ {0} :
                                             upTo[n] = q * (60 + r)}
<1>10. 0 \in T
  BY <1>9
<1>11. ASSUME NEW n \in Nat, n \in T PROVE n + 1 \in T
  <2> SUFFICES ASSUME n + 1 <= N
               PROVE  /\ upTo[n + 1] \in Nat \ {0}
                      /\ \A r \in 1 .. n + 1 : \E q \in Nat \ {0} :
                             upTo[n + 1] = q * (60 + r)
    OBVIOUS
  <2>0. N \in Nat /\ n <= N
    BY <1>1 DEF N
  <2>1. PICK u \in Nat \ {0} : u = upTo[n]
    BY <1>11, <2>0
  <2>2. upTo[n + 1] = u * (60 + (n + 1))
    <3>1. n + 1 \in 1 .. N /\ (n + 1) - 1 = n
      BY <2>0
    <3> QED BY <3>1, <2>1, <1>9
  <2>3. ASSUME NEW r \in 1 .. n + 1 PROVE \E q \in Nat \ {0} : upTo[n + 1] = q * (60 + r)
    <3>1. CASE r = n + 1
      BY <3>1, <2>1, <2>2
    <3>2. CASE r # n + 1
      <4>1. r \in 1 .. n
        BY <3>2
      <4>2. PICK q \in Nat \ {0} : u = q * (60 + r)
        BY <4>1, <2>0, <2>1, <1>11
      <4> DEFINE p == q * (60 + (n + 1))
      <4>3. p \in Nat \ {0}
        OBVIOUS
      <4>4. u * (60 + (n + 1)) = p * (60 + r)
        BY <4>2
      <4> QED BY <4>3, <4>4, <2>2
    <3> QED BY <3>1, <3>2
  <2>4. upTo[n + 1] \in Nat \ {0}
    BY <2>1, <2>2
  <2> QED BY <2>3, <2>4
<1> HIDE DEF T
<1>12. N \in T /\ N \in Nat
  <2>1. Nat \subseteq T
    BY <1>10, <1>11, NaturalsInSet
  <2> QED BY <2>1, <1>1 DEF N
<1>13. /\ upTo[N] \in Nat \ {0}
       /\ \A r \in 1 .. N : \E q \in Nat \ {0} : upTo[N] = q * (60 + r)
  BY <1>12 DEF T
<1> QED BY <1>1, <1>8, <1>13 DEF N

LEMMA BetterRank ==
    ASSUME NEW r \in 1 .. MaxRank, NEW t \in 1 .. MaxRank
    PROVE  /\ Scale \div (RrfK + r) \in Nat \ {0}
           /\ r < t => Scale \div (RrfK + t) < Scale \div (RrfK + r)
<1>1. RrfK = 60 /\ MaxRank \in Nat
  BY ScaleShares DEF RrfK
<1>2. PICK p \in Nat \ {0} : Scale = p * (60 + r)
  BY <1>1, ScaleShares
<1>3. PICK q \in Nat \ {0} : Scale = q * (60 + t)
  BY <1>1, ScaleShares
<1>4. PICK m \in Nat \ {0} : m = 60 + r
  BY <1>1
<1>5. PICK n \in Nat \ {0} : n = 60 + t
  BY <1>1
<1>6. Scale \div (RrfK + r) = p
  <2>1. (p * m) \div m = p
    OBVIOUS
  <2> QED BY <2>1, <1>1, <1>2, <1>4
<1>7. Scale \div (RrfK + t) = q
  <2>1. (q * n) \div n = q
    OBVIOUS
  <2> QED BY <2>1, <1>1, <1>3, <1>5
<1>8. r < t => q < p
  <2> SUFFICES ASSUME r < t PROVE q < p
    OBVIOUS
  <2>1. m < n /\ p * m = q * n
    BY <1>1, <1>2, <1>3, <1>4, <1>5
  <2> QED BY <2>1
<1> QED BY <1>6, <1>7, <1>8

LEMMA RankingIs ==
    ASSUME NEW s \in Rankings
    PROVE  /\ s \in Seq(Texts) /\ Len(s) \in 0 .. MaxRank /\ DOMAIN s = 1 .. Len(s)
           /\ \A i, j \in 1 .. Len(s) : s[i] = s[j] => i = j
<1>1. PICK m \in 0 .. MaxRank : s \in [1 .. m -> Texts]
  BY DEF Rankings, SeqOf
<1>2. m \in Nat /\ s \in Seq(Texts) /\ Len(s) = m
  BY <1>1, ScaleShares
<1>3. \A i, j \in DOMAIN s : s[i] = s[j] => i = j
  BY DEF Rankings, IsInjective
<1> QED BY <1>1, <1>2, <1>3

LEMMA RankFound ==
    ASSUME NEW s, DOMAIN s = 1 .. Len(s), NEW c,
           \A i, j \in 1 .. Len(s) : s[i] = s[j] => i = j
    PROVE  /\ c \in Range(s) <=> \E i \in 1 .. Len(s) : s[i] = c
           /\ \A i \in 1 .. Len(s) : s[i] = c => c \in Range(s) /\ RankIn(s, c) = i
           /\ c \in Range(s) => RankIn(s, c) \in 1 .. Len(s) /\ s[RankIn(s, c)] = c
<1>1. c \in Range(s) <=> \E i \in 1 .. Len(s) : s[i] = c
  BY DEF Range
<1>2. ASSUME c \in Range(s) PROVE RankIn(s, c) \in 1 .. Len(s) /\ s[RankIn(s, c)] = c
  BY <1>1, <1>2 DEF RankIn
<1> QED BY <1>1, <1>2

LEMMA TruncatedRanking ==
    ASSUME NEW s \in Rankings, NEW n \in Nat
    PROVE  Truncated(s, n) \in Rankings
<1>1. s \in Seq(Texts) /\ Len(s) \in 0 .. MaxRank /\ MaxRank \in Nat
      /\ \A i, j \in 1 .. Len(s) : s[i] = s[j] => i = j
  BY RankingIs, ScaleShares
<1>2. PICK k \in Nat : k = Min({n, Len(s)}) /\ k <= Len(s)
  BY <1>1, MinOfTwo
<1>3. Truncated(s, n) = SubSeq(s, 1, k)
  BY <1>2 DEF Truncated
<1>4. /\ SubSeq(s, 1, k) \in Seq(Texts) /\ Len(SubSeq(s, 1, k)) = k
      /\ \A i \in 1 .. k : SubSeq(s, 1, k)[i] = s[i]
  <2>1. 1 \in 1 .. Len(s) + 1 /\ k \in 1 - 1 .. Len(s) /\ k - 1 + 1 = k
    BY <1>1, <1>2
  <2>2. /\ SubSeq(s, 1, k) \in Seq(Texts) /\ Len(SubSeq(s, 1, k)) = k - 1 + 1
        /\ \A i \in 1 .. k - 1 + 1 : SubSeq(s, 1, k)[i] = s[1 + i - 1]
    BY <1>1, <2>1, SubSeqProperties
  <2> QED BY <2>1, <2>2
<1>5. SubSeq(s, 1, k) \in [1 .. k -> Texts] /\ k \in 0 .. MaxRank
  <2>1. PICK q : q = SubSeq(s, 1, k)
    OBVIOUS
  <2>2. q \in Seq(Texts) /\ Len(q) = k
    BY <2>1, <1>4, Zenon
  <2>3. q \in [1 .. k -> Texts] /\ k \in 0 .. MaxRank
    BY <2>2, <1>1, <1>2
  <2> QED BY <2>1, <2>3, Zenon
<1>6. IsInjective(SubSeq(s, 1, k))
  BY <1>1, <1>2, <1>4 DEF IsInjective
<1>7. SubSeq(s, 1, k) \in SeqOf(Texts, MaxRank)
  <2>1. [1 .. k -> Texts] \in {[1 .. m -> Texts] : m \in 0 .. MaxRank}
    BY <1>5
  <2> QED BY <2>1, <1>5 DEF SeqOf
<1> QED BY <1>3, <1>6, <1>7 DEF Rankings

LEMMA RrfOfRanking ==
    ASSUME NEW s \in Rankings, NEW a, NEW b
    PROVE  /\ RrfIn(s, a) \in Nat
           /\ a \notin Range(s) => RrfIn(s, a) = 0
           /\ b \in Range(s) /\ a \in Range(s) /\ RankIn(s, a) < RankIn(s, b)
                => RrfIn(s, b) < RrfIn(s, a)
<1>1. /\ Len(s) \in 0 .. MaxRank /\ MaxRank \in Nat /\ DOMAIN s = 1 .. Len(s)
      /\ \A i, j \in 1 .. Len(s) : s[i] = s[j] => i = j
  BY RankingIs, ScaleShares
<1>2. ASSUME NEW c, c \in Range(s)
      PROVE  RankIn(s, c) \in 1 .. MaxRank /\ RrfIn(s, c) = Scale \div (RrfK + RankIn(s, c))
  <2>1. RankIn(s, c) \in 1 .. Len(s)
    BY <1>1, <1>2, RankFound
  <2> QED BY <2>1, <1>1, <1>2 DEF RrfIn
<1>3. ASSUME NEW c, c \notin Range(s) PROVE RrfIn(s, c) = 0
  BY <1>3 DEF RrfIn
<1>4. RrfIn(s, a) \in Nat
  <2>1. CASE a \in Range(s)
    BY <2>1, <1>2, BetterRank
  <2> QED BY <2>1, <1>3
<1>5. ASSUME b \in Range(s), a \in Range(s), RankIn(s, a) < RankIn(s, b)
      PROVE  RrfIn(s, b) < RrfIn(s, a)
  BY <1>2, <1>5, BetterRank
<1> QED BY <1>3, <1>4, <1>5

(* A chunk that is ahead of another in every list the other is in has the  *)
(* higher sum.                                                             *)
LEMMA AheadScoresMore ==
    ASSUME NEW fts \in Rankings, NEW vec \in Rankings, NEW a, NEW b,
           b \in Range(fts) \cup Range(vec),
           \A s \in {fts, vec} : b \in Range(s) =>
               a \in Range(s) /\ RankIn(s, a) < RankIn(s, b)
    PROVE  /\ a \in Range(fts) \cup Range(vec)
           /\ Rrf(fts, vec, a) \in Nat /\ Rrf(fts, vec, b) \in Nat
           /\ Rrf(fts, vec, b) < Rrf(fts, vec, a)
<1>1. ASSUME NEW s \in {fts, vec}
      PROVE  /\ RrfIn(s, a) \in Nat /\ RrfIn(s, b) \in Nat
             /\ RrfIn(s, b) <= RrfIn(s, a)
             /\ b \in Range(s) => RrfIn(s, b) < RrfIn(s, a)
  <2>1. s \in Rankings
    OBVIOUS
  <2>2. RrfIn(s, a) \in Nat /\ RrfIn(s, b) \in Nat
    BY <2>1, RrfOfRanking
  <2>3. b \in Range(s) => RrfIn(s, b) < RrfIn(s, a)
    BY <2>1, RrfOfRanking
  <2>4. b \notin Range(s) => RrfIn(s, b) = 0
    BY <2>1, RrfOfRanking
  <2> QED BY <2>2, <2>3, <2>4
<1> QED BY <1>1 DEF Rrf

(* What merge_results hands to search, and what search leaves of it.       *)
LEMMA MergedIs ==
    ASSUME NEW fts \in Rankings, NEW vec \in Rankings, NEW limit \in Nat,
           NEW list \in MergedRanking(fts, vec, limit)
    PROVE  \E s \in Rankings, k \in Nat :
             /\ Range(s) = Range(fts) \cup Range(vec)
             /\ k <= limit /\ k <= Len(s)
             /\ \A i, j \in 1 .. Len(s) :
                  i < j => Rrf(fts, vec, s[i]) >= Rrf(fts, vec, s[j])
             /\ list = [i \in 1 .. k |-> [id |-> s[i], score |-> Rrf(fts, vec, s[i])]]
<1>1. PICK s \in Rankings :
        /\ Range(s) = Range(fts) \cup Range(vec)
        /\ \A i, j \in DOMAIN s : i < j => Rrf(fts, vec, s[i]) >= Rrf(fts, vec, s[j])
        /\ list = [i \in 1 .. Min({limit, Len(s)}) |->
                      [id |-> s[i], score |-> Rrf(fts, vec, s[i])]]
  BY DEF MergedRanking
<1>2. DOMAIN s = 1 .. Len(s) /\ Len(s) \in Nat
  BY RankingIs, ScaleShares
<1>3. PICK k \in Nat : k = Min({limit, Len(s)}) /\ k <= limit /\ k <= Len(s)
  BY <1>2, MinOfTwo
<1> QED BY <1>1, <1>2, <1>3

(* An answer t to the lists fts and vec as HybridRanksRight has it.        *)
KeepsOrder(t, fts, vec, limit, lost) ==
    LET ids == [i \in DOMAIN t |-> t[i].id]
    IN /\ Len(ids) <= limit /\ IsInjective(ids)
       /\ \A i, j \in DOMAIN ids : i < j => t[i].score >= t[j].score
       /\ \A b \in Range(ids) : \A a :
            /\ a \notin lost /\ a # b
            /\ \A l \in {fts, vec} : b \in Range(l) =>
                 a \in Range(l) /\ RankIn(l, a) < RankIn(l, b)
            => a \in Range(ids) /\ RankIn(ids, a) < RankIn(ids, b)

LEMMA KeptRanksRight ==
    ASSUME NEW fts \in Rankings, NEW vec \in Rankings, NEW limit \in Nat,
           NEW lost, NEW minScore \in Int,
           NEW list \in MergedRanking(fts, vec, limit), NEW t,
           t = Only(list, {r \in Range(list) : r.id \notin lost /\ r.score >= minScore})
    PROVE  KeepsOrder(t, fts, vec, limit, lost)
<1>1. PICK s \in Rankings, k \in Nat :
        /\ Range(s) = Range(fts) \cup Range(vec)
        /\ k <= limit /\ k <= Len(s)
        /\ \A i, j \in 1 .. Len(s) : i < j => Rrf(fts, vec, s[i]) >= Rrf(fts, vec, s[j])
        /\ list = [i \in 1 .. k |-> [id |-> s[i], score |-> Rrf(fts, vec, s[i])]]
  BY MergedIs
<1>2. /\ s \in Seq(Texts) /\ Len(s) \in Nat /\ DOMAIN s = 1 .. Len(s)
      /\ \A i, j \in 1 .. Len(s) : s[i] = s[j] => i = j
  BY RankingIs, ScaleShares
<1> DEFINE score(c) == Rrf(fts, vec, c)
           K == {r \in Range(list) : r.id \notin lost /\ r.score >= minScore}
           ids == [i \in DOMAIN t |-> t[i].id]
           n == Len(t)
<1>3. \A c : score(c) \in Nat
  BY RrfOfRanking DEF Rrf
<1> HIDE DEF score
<1>4. /\ list \in Seq([id : Texts, score : Nat]) /\ Len(list) = k
      /\ \A i \in 1 .. k : list[i].id = s[i] /\ list[i].score = score(s[i])
  <2>1. list = [i \in 1 .. k |-> [id |-> s[i], score |-> score(s[i])]]
    BY <1>1 DEF score
  <2>2. \A i \in 1 .. k : s[i] \in Texts /\ score(s[i]) \in Nat
    BY <1>1, <1>2, <1>3
  <2> QED BY <2>1, <2>2
<1>5. t \in Seq([id : Texts, score : Nat]) /\ n \in Nat /\ n <= k
      /\ t = Only(list, K)
  BY <1>4, OnlyTyped, OnlyNoLonger
<1>6. PICK h : Embeds(h, list, t, K)
  <2> HIDE DEF K
  <2> QED BY <1>4, <1>5, OnlyEmbeds
<1>7. /\ h \in [1 .. n -> 1 .. k]
      /\ \A i \in 1 .. n : t[i] = list[h[i]] /\ list[h[i]] \in K
      /\ \A i, j \in 1 .. n : i < j => h[i] < h[j]
      /\ \A p \in 1 .. k : list[p] \in K => \E i \in 1 .. n : h[i] = p
  BY <1>4, <1>6 DEF Embeds
<1>8. /\ DOMAIN t = 1 .. n /\ DOMAIN ids = 1 .. n
      /\ \A i \in 1 .. n : /\ h[i] \in 1 .. k
                           /\ ids[i] = s[h[i]] /\ t[i].score = score(s[h[i]])
                           /\ score(s[h[i]]) >= minScore
  <2>1. \A i \in 1 .. n : list[h[i]].score >= minScore
    BY <1>7 DEF K
  <2>2. \A i \in 1 .. n : h[i] \in 1 .. k /\ t[i] = list[h[i]]
    BY <1>7
  <2>3. DOMAIN t = 1 .. n
    BY <1>5
  <2> HIDE DEF K
  <2>4. \A i \in 1 .. n : /\ t[i].id = s[h[i]] /\ t[i].score = score(s[h[i]])
                          /\ score(s[h[i]]) >= minScore
    BY <1>4, <2>1, <2>2, Zenon
  <2> QED BY <2>2, <2>3, <2>4
<1>9. \A p \in 1 .. k : list[p] \in K <=> s[p] \notin lost /\ score(s[p]) >= minScore
  <2>1. \A p \in 1 .. k : list[p] \in Range(list)
    BY <1>1 DEF Range
  <2> QED BY <2>1, <1>4
<1> HIDE DEF ids, K, n
<1>10. \A i, j \in 1 .. n : i # j => h[i] # h[j]
  BY <1>5, <1>7
<1>11. \A i, j \in 1 .. n : ids[i] = ids[j] => i = j
  <2>1. \A i \in 1 .. k : i \in 1 .. Len(s)
    BY <1>1, <1>2
  <2>2. \A i \in 1 .. n : h[i] \in 1 .. Len(s) /\ ids[i] = s[h[i]]
    BY <2>1, <1>8, Zenon
  <2> QED BY <2>2, <1>2, <1>10
<1>12. Len(ids) = n /\ n <= limit
  <2>1. Len(ids) = n
    BY <1>5, <1>8 DEF ids
  <2> QED BY <2>1, <1>1, <1>5
<1>13. IsInjective(ids)
  BY <1>8, <1>11 DEF IsInjective
<1>14. ASSUME NEW i \in 1 .. n, NEW j \in 1 .. n, i < j
       PROVE  t[i].score >= t[j].score
  <2>1. h[i] < h[j] /\ h[i] \in 1 .. Len(s) /\ h[j] \in 1 .. Len(s)
    BY <1>1, <1>2, <1>7, <1>8, <1>14
  <2>2. score(s[h[i]]) >= score(s[h[j]])
    BY <1>1, <2>1 DEF score
  <2> QED BY <1>8, <2>2
<1>15. ASSUME NEW b \in Range(ids), NEW a, a \notin lost, a # b,
              \A l \in {fts, vec} : b \in Range(l) =>
                  a \in Range(l) /\ RankIn(l, a) < RankIn(l, b)
       PROVE  a \in Range(ids) /\ RankIn(ids, a) < RankIn(ids, b)
  <2>1. PICK j \in 1 .. n : b = ids[j] /\ b = s[h[j]] /\ h[j] \in 1 .. k
    BY <1>8 DEF Range
  <2>2. h[j] \in 1 .. Len(s) /\ b \in Range(s)
    BY <1>1, <1>2, <2>1 DEF Range
  <2>3. a \in Range(s) /\ score(b) < score(a)
    BY <1>1, <1>15, <2>2, AheadScoresMore DEF score
  <2>4. PICK p \in 1 .. Len(s) : a = s[p]
    BY <1>2, <2>3 DEF Range
  <2>5. p < h[j]
    <3>1. p # h[j]
      BY <2>1, <2>4, <1>15
    <3>2. ~ (h[j] < p)
      <4> SUFFICES ASSUME h[j] < p PROVE FALSE
        OBVIOUS
      <4>1. score(b) >= score(a)
        BY <1>1, <2>1, <2>2, <2>4 DEF score
      <4> QED BY <4>1, <2>3, <1>3
    <3> QED BY <3>1, <3>2, <2>2, <1>2
  <2>6. p \in 1 .. k /\ list[p] \in K
    <3>1. p \in 1 .. k
      BY <2>1, <2>4, <2>5, <1>2
    <3>2. score(b) >= minScore /\ score(a) >= minScore
      <4>1. score(b) >= minScore
        BY <1>8, <2>1
      <4> QED BY <4>1, <2>3, <1>3
    <3> QED BY <3>1, <3>2, <2>4, <1>9, <1>15
  <2>7. PICK i \in 1 .. n : h[i] = p
    BY <2>6, <1>7
  <2>8. i < j
    <3>1. ~ (h[j] < h[i]) /\ i # j
      BY <2>5, <2>7, <2>2, <2>4, <1>2
    <3> QED BY <3>1, <1>5, <1>7
  <2>9. ids[i] = a
    BY <2>4, <2>7, <1>8
  <2>10. a \in Range(ids) /\ RankIn(ids, a) = i /\ RankIn(ids, b) = j
    <3>1. DOMAIN ids = 1 .. Len(ids)
          /\ \A x, y \in 1 .. Len(ids) : ids[x] = ids[y] => x = y
      BY <1>8, <1>11, <1>12
    <3>2. i \in 1 .. Len(ids) /\ j \in 1 .. Len(ids) /\ ids[i] = a /\ ids[j] = b
      BY <1>12, <2>1, <2>9
    <3> HIDE DEF ids
    <3> QED BY <3>1, <3>2, RankFound, Zenon
  <2> QED BY <2>8, <2>10
<1> QED BY <1>8, <1>12, <1>13, <1>14, <1>15 DEF ids, KeepsOrder

LEMMA SearchRanksRight ==
    ASSUME NEW fts \in Rankings, NEW vec \in Rankings, NEW limit \in Nat,
           NEW lost, NEW minScore \in Int, NEW f, f.fts = fts, f.vec = vec,
           f.limit = limit, f.gone = lost,
           NEW list \in MergedRanking(Truncated(fts, 2 * limit), Truncated(vec, 2 * limit), limit),
           f.answer = Only(list, {r \in Range(list) : r.id \notin lost /\ r.score >= minScore})
    PROVE  RanksRight(f)
<1> DEFINE left == Truncated(fts, 2 * limit)
           right == Truncated(vec, 2 * limit)
<1>1. PICK t : t = f.answer
  OBVIOUS
<1> DEFINE ids == [i \in DOMAIN t |-> t[i].id]
<1>2. left \in Rankings /\ right \in Rankings
  BY TruncatedRanking
<1>3. KeepsOrder(t, left, right, limit, lost)
  <2>1. list \in MergedRanking(left, right, limit)
    OBVIOUS
  <2>2. t = Only(list, {r \in Range(list) : r.id \notin lost /\ r.score >= minScore})
    BY <1>1
  <2> HIDE DEF left, right
  <2> QED BY <1>2, <2>1, <2>2, KeptRanksRight, Zenon
<1>4. ASSUME NEW b \in Range(ids), NEW a \in Range(f.fts) \ f.gone, Ahead(f, a, b)
      PROVE  a \in Range(ids) /\ RankIn(ids, a) < RankIn(ids, b)
  <2>1. a \notin lost /\ a # b
    BY <1>4 DEF Ahead
  <2>2. \A l \in {left, right} : b \in Range(l) =>
           a \in Range(l) /\ RankIn(l, a) < RankIn(l, b)
    BY <1>4 DEF Ahead
  <2> HIDE DEF left, right, ids
  <2>3. \A y \in Range(ids) : \A x :
           /\ x \notin lost /\ x # y
           /\ \A l \in {left, right} : y \in Range(l) =>
                x \in Range(l) /\ RankIn(l, x) < RankIn(l, y)
           => x \in Range(ids) /\ RankIn(ids, x) < RankIn(ids, y)
    BY <1>3 DEF KeepsOrder, ids
  <2> QED BY <2>1, <2>2, <2>3
<1>5. /\ Len(ids) <= limit /\ IsInjective(ids)
      /\ \A i, j \in DOMAIN ids : i < j => t[i].score >= t[j].score
  BY <1>3 DEF KeepsOrder
<1> QED BY <1>1, <1>4, <1>5 DEF RanksRight

(* Every vector is its text's while the service keeps the texts in order,  *)
(* and an embed call of one request per text has so far the vectors of the *)
(* first texts.                                                            *)
Answered == Texts \cup {"alien", "none"}
Pairs == [id : Texts, embedding : Answered]
Own == {[id |-> t, embedding |-> t] : t \in Texts}

EmbedRight(e) ==
    /\ e \in [kind : {"none", "local"} \cup OneRequest \cup OnePerText, texts : Seq(Texts),
              vectors : Seq(Answered \cup {"zero"}), outcome : {"none", "ok", "failed"}]
    /\ e.kind \in OnePerText /\ e.outcome = "ok" => e.vectors = e.texts
    /\ e.kind \in OnePerText /\ e.outcome = "none" =>
         /\ Len(e.vectors) < Len(e.texts)
         /\ \A i \in 1 .. Len(e.vectors) : e.vectors[i] = e.texts[i]

QueueRight ==
    /\ memQueue \in SeqOf(Texts, MaxTexts) /\ taken \in SeqOf(Texts, MaxTexts)
    /\ embedded \in 0 .. MaxTexts /\ flushed \in {"none", "ok", "failed"}
    /\ taken # <<>> => embedded < Len(taken)
    /\ outOfOrder \in BOOLEAN
    /\ vectors \in Seq(Pairs) /\ (~outOfOrder => vectors \in Seq(Own))

MemInv ==
    /\ QueueRight /\ EmbedRight(embedCall) /\ HybridRanksRight
    /\ memStatus \in {"Ready", "Syncing", "Closed"}

LEMMA TextsBounded ==
    ASSUME NEW s
    PROVE  s \in SeqOf(Texts, MaxTexts) <=> s \in Seq(Texts) /\ Len(s) <= MaxTexts
<1>1. MaxTexts \in Nat
  BY MemoryAssumption DEF MemoryAssumption
<1>2. ASSUME s \in SeqOf(Texts, MaxTexts) PROVE s \in Seq(Texts) /\ Len(s) <= MaxTexts
  <2>1. PICK m \in 0 .. MaxTexts : s \in [1 .. m -> Texts]
    BY <1>2 DEF SeqOf
  <2> QED BY <1>1, <2>1
<1>3. ASSUME s \in Seq(Texts), Len(s) <= MaxTexts PROVE s \in SeqOf(Texts, MaxTexts)
  <2>1. Len(s) \in 0 .. MaxTexts /\ s \in [1 .. Len(s) -> Texts]
    BY <1>1, <1>3
  <2> QED BY <2>1 DEF SeqOf
<1> QED BY <1>2, <1>3

LEMMA AnswersTyped ==
    ASSUME NEW items \in Seq(Texts), NEW data \in BatchAnswers(items)
    PROVE  data \in Seq(Answered)
<1>1. PICK n \in 0 .. Len(items) + 1 : data \in [1 .. n -> Range(items) \cup {"none", "alien"}]
  BY DEF BatchAnswers, SeqOf
<1>2. Range(items) \subseteq Texts
  BY DEF Range
<1>3. data \in [1 .. n -> Answered] /\ n \in Nat
  BY <1>1, <1>2 DEF Answered
<1> QED BY <1>3

LEMMA PairedAre ==
    ASSUME NEW items \in Seq(Texts), NEW data \in BatchAnswers(items)
    PROVE  /\ Paired(items, data) \in Seq(Pairs)
           /\ InOrder(items, data) => Paired(items, data) \in Seq(Own)
<1>2. data \in Seq(Answered) /\ Len(data) \in Nat /\ Len(items) \in Nat /\ DOMAIN data = 1 .. Len(data)
  BY AnswersTyped
<1> DEFINE I == {i \in 1 .. Len(data) : data[i] # "none" /\ i <= Len(items)}
           at == Only([i \in 1 .. Len(data) |-> i], I)
<1>3. at \in Seq(I)
  <2>1. [i \in 1 .. Len(data) |-> i] \in Seq(Nat)
    BY <1>2
  <2>2. Nat \cap I = I
    BY <1>2
  <2> HIDE DEF I
  <2>3. at \in Seq(Nat \cap I)
    BY <2>1, OnlyTyped
  <2> QED BY <2>2, <2>3
<1>4. \A i \in I : items[i] \in Texts /\ data[i] \in Answered
  BY <1>2
<1>5. InOrder(items, data) => \A i \in I : data[i] = items[i]
  BY <1>2 DEF InOrder
<1>6. Paired(items, data) = [k \in 1 .. Len(at) |-> [id |-> items[at[k]], embedding |-> data[at[k]]]]
  BY DEF Paired
<1> HIDE DEF at, I
<1>7. \A k \in 1 .. Len(at) : [id |-> items[at[k]], embedding |-> data[at[k]]] \in Pairs
  BY <1>3, <1>4 DEF Pairs
<1>8. ASSUME InOrder(items, data)
      PROVE  \A k \in 1 .. Len(at) : [id |-> items[at[k]], embedding |-> data[at[k]]] \in Own
  BY <1>3, <1>4, <1>5, <1>8 DEF Own
<1>9. Paired(items, data) \in Seq(Pairs)
  BY <1>3, <1>6, <1>7
<1>10. ASSUME InOrder(items, data) PROVE Paired(items, data) \in Seq(Own)
  BY <1>3, <1>6, <1>8, <1>10
<1> QED BY <1>9, <1>10

LEMMA BatchIs ==
    ASSUME NEW s \in Seq(Texts), NEW n \in Nat, n < Len(s)
    PROVE  /\ SubSeq(s, n + 1, Min({n + BatchSize, Len(s)})) \in Seq(Texts)
           /\ n + Len(SubSeq(s, n + 1, Min({n + BatchSize, Len(s)}))) \in n + 1 .. Len(s)
<1>1. BatchSize \in Nat /\ BatchSize > 0
  BY MemoryAssumption DEF MemoryAssumption
<1>2. PICK m \in Nat : m = Min({n + BatchSize, Len(s)}) /\ m <= Len(s) /\ n < m
  BY <1>1, MinOfTwo
<1>3. /\ SubSeq(s, n + 1, m) \in Seq(Texts)
      /\ Len(SubSeq(s, n + 1, m)) = IF n + 1 <= m THEN m - (n + 1) + 1 ELSE 0
  <2>1. \A i \in n + 1 .. m : s[i] \in Texts
    BY <1>2
  <2>2. n + 1 \in Int /\ m \in Int
    BY <1>2
  <2> QED BY <2>1, <2>2, SubSeqProperties
<1>4. PICK l : l = Len(SubSeq(s, n + 1, m))
  OBVIOUS
<1>5. n + l = m
  BY <1>2, <1>3, <1>4
<1>6. n + l \in n + 1 .. Len(s)
  BY <1>2, <1>5
<1> QED BY <1>2, <1>3, <1>4, <1>6, Zenon

LEMMA NoTexts == <<>> \in SeqOf(Texts, MaxTexts)
<1>1. PICK e \in Seq(Texts) : e = <<>> /\ Len(e) = 0
  BY EmptySeq
<1>2. Len(e) <= MaxTexts
  BY <1>1, MemoryAssumption DEF MemoryAssumption
<1>3. e \in SeqOf(Texts, MaxTexts)
  BY <1>2, TextsBounded
<1> QED BY <1>1, <1>3, Zenon

LEMMA MemInitInv == MemInit => MemInv
<1> SUFFICES ASSUME MemInit PROVE MemInv
  OBVIOUS
<1> USE DEF MemInit
<1>1. QueueRight
  <2>1. <<>> \in Seq(Own) /\ <<>> \in Seq(Pairs) /\ 0 \in 0 .. MaxTexts
    BY MemoryAssumption DEF MemoryAssumption
  <2> QED BY <2>1, NoTexts DEF QueueRight
<1>2. EmbedRight(embedCall)
  BY DEF EmbedRight, NoEmbed, OneRequest, OnePerText
<1>3. HybridRanksRight
  BY DEF HybridRanksRight, NoSearch
<1> QED BY <1>1, <1>2, <1>3 DEF MemInv

LEMMA BatchKeeps ==
    ASSUME QueueRight, BatchNext
    PROVE  /\ QueueRight'
           /\ embedCall' = embedCall /\ found' = found /\ memStatus' = memStatus
<1> USE DEF QueueRight
<1>1. /\ memQueue \in Seq(Texts) /\ Len(memQueue) <= MaxTexts
      /\ taken \in Seq(Texts) /\ Len(taken) <= MaxTexts /\ MaxTexts \in Nat
  BY TextsBounded, MemoryAssumption DEF MemoryAssumption
<1>2. ASSUME NEW t \in Texts, EnqueueText(t)
      PROVE  QueueRight' /\ embedCall' = embedCall /\ found' = found /\ memStatus' = memStatus
  <2>1. memQueue' \in SeqOf(Texts, MaxTexts)
    <3>1. PICK q : q = memQueue'
      OBVIOUS
    <3>2. q \in Seq(Texts) /\ Len(q) <= MaxTexts
      BY <1>1, <1>2, <3>1 DEF EnqueueText
    <3> QED BY <3>1, <3>2, TextsBounded, Zenon
  <2> QED BY <2>1, <1>2 DEF EnqueueText
<1>3. ASSUME Flush
      PROVE  QueueRight' /\ embedCall' = embedCall /\ found' = found /\ memStatus' = memStatus
  <2>1. <<>> \in SeqOf(Texts, MaxTexts)
    BY NoTexts
  <2>2. memQueue # <<>> => 0 < Len(memQueue)
    BY <1>1
  <2>3. <<>> \in Seq(Own) /\ <<>> \in Seq(Pairs)
    OBVIOUS
  <2>4. memQueue' = <<>> /\ taken' = memQueue /\ embedded' = 0 /\ vectors' = <<>> /\ outOfOrder' = FALSE
        /\ flushed' \in {"none", "ok", "failed"}
    BY <1>3 DEF Flush
  <2>5. outOfOrder' \in BOOLEAN /\ vectors' \in Seq(Pairs) /\ (~outOfOrder' => vectors' \in Seq(Own))
    BY <2>3, <2>4, Zenon
  <2>6. /\ memQueue' \in SeqOf(Texts, MaxTexts) /\ taken' \in SeqOf(Texts, MaxTexts)
        /\ embedded' \in 0 .. MaxTexts /\ (taken' # <<>> => embedded' < Len(taken'))
    BY <2>1, <2>2, <2>4, <1>1
  <2> QED BY <2>4, <2>5, <2>6, <1>3, Zenon DEF Flush
<1>4. ASSUME NEW data \in BatchAnswers(Batch), BatchAnswered(data)
      PROVE  QueueRight' /\ embedCall' = embedCall /\ found' = found /\ memStatus' = memStatus
  <2>1. taken # <<>> /\ embedded \in Nat /\ embedded < Len(taken)
    BY <1>1, <1>4 DEF BatchAnswered
  <2>2. PICK m : m = embedded + Len(Batch) /\ m \in embedded + 1 .. Len(taken)
    BY <1>1, <2>1, BatchIs DEF Batch
  <2>3. /\ Paired(Batch, data) \in Seq(Pairs)
        /\ InOrder(Batch, data) => Paired(Batch, data) \in Seq(Own)
    <3>1. Batch \in Seq(Texts)
      BY <1>1, <2>1, BatchIs DEF Batch
    <3> QED BY <3>1, <1>4, PairedAre
  <2>4. /\ vectors' = vectors \o Paired(Batch, data) /\ embedded' = m
        /\ outOfOrder' = (outOfOrder \/ ~InOrder(Batch, data))
        /\ memQueue' = memQueue
        /\ \/ m = Len(taken) /\ taken' = <<>> /\ flushed' = "ok"
           \/ m # Len(taken) /\ taken' = taken /\ flushed' = flushed
        /\ embedCall' = embedCall /\ found' = found /\ memStatus' = memStatus
    BY <1>4, <2>2, Zenon DEF BatchAnswered
  <2>5. /\ outOfOrder' \in BOOLEAN /\ vectors' \in Seq(Pairs)
        /\ ~outOfOrder' => vectors' \in Seq(Own)
    <3>1. vectors' \in Seq(Pairs)
      BY <2>3, <2>4
    <3>2. ASSUME ~outOfOrder' PROVE vectors' \in Seq(Own)
      <4>1. ~outOfOrder /\ InOrder(Batch, data)
        BY <2>4, <3>2, Zenon
      <4> QED BY <2>3, <2>4, <4>1
    <3>3. outOfOrder' \in BOOLEAN
      BY <2>4, Zenon
    <3> QED BY <3>1, <3>2, <3>3, Zenon
  <2>6. <<>> \in SeqOf(Texts, MaxTexts)
    BY NoTexts
  <2>7. embedded' \in 0 .. MaxTexts /\ (taken' # <<>> => embedded' < Len(taken'))
    BY <1>1, <2>1, <2>2, <2>4
  <2> QED BY <2>4, <2>5, <2>6, <2>7
<1>5. ASSUME BatchFails
      PROVE  QueueRight' /\ embedCall' = embedCall /\ found' = found /\ memStatus' = memStatus
  <2>1. <<>> \in SeqOf(Texts, MaxTexts)
    BY NoTexts
  <2> QED BY <2>1, <1>5 DEF BatchFails
<1> QED BY <1>2, <1>3, <1>4, <1>5 DEF BatchNext

LEMMA EmbedKeeps ==
    ASSUME EmbedRight(embedCall), EmbedNext
    PROVE  /\ EmbedRight(embedCall')
           /\ <<memQueue, taken, embedded, vectors, outOfOrder, flushed, found, memStatus>>'
                = <<memQueue, taken, embedded, vectors, outOfOrder, flushed, found, memStatus>>
<1> DEFINE Rest == <<memQueue, taken, embedded, vectors, outOfOrder, flushed, found, memStatus>>
           V == Answered \cup {"zero"}
           EmbedKinds == {"none", "local"} \cup OneRequest \cup OnePerText
           EmbedCalls == [kind : EmbedKinds, texts : Seq(Texts), vectors : Seq(V),
                     outcome : {"none", "ok", "failed"}]
<1>1. embedCall \in EmbedCalls
  BY DEF EmbedRight
<1>2. ASSUME NEW kind \in OneRequest \cup OnePerText \cup {"local"},
             NEW texts \in SeqOf(Texts, MaxTexts), Embed(kind, texts)
      PROVE  EmbedRight(embedCall') /\ Rest' = Rest
  <2>1. texts \in Seq(Texts)
    BY TextsBounded
  <2>a. PICK v : v = IF kind = "local" THEN [i \in 1 .. Len(texts) |-> "zero"] ELSE <<>>
    OBVIOUS
  <2>2. embedCall' = [kind |-> kind, texts |-> texts, vectors |-> v,
                      outcome |-> IF kind = "local" \/ texts = <<>> THEN "ok" ELSE "none"]
    BY <1>2, <2>a DEF Embed
  <2>3. texts # <<>> => 0 < Len(texts)
    BY <2>1
  <2>b. v \in Seq(V) /\ (kind # "local" => v = <<>> /\ Len(v) = 0)
    <3>1. Len(texts) \in Nat /\ "zero" \in V
      BY <2>1
    <3> HIDE DEF V
    <3> QED BY <2>a, <3>1
  <2>4. embedCall' \in EmbedCalls
    BY <2>1, <2>2, <2>b
  <2>5. kind \in OnePerText => kind # "local"
    BY DEF OnePerText
  <2>6. EmbedRight(embedCall')
    BY <2>2, <2>3, <2>4, <2>5, <2>b DEF EmbedRight
  <2> QED BY <2>6, <1>2 DEF Embed
<1>3. ASSUME NEW data \in BatchAnswers(embedCall.texts), AllEmbedded(data)
      PROVE  EmbedRight(embedCall') /\ Rest' = Rest
  <2>1. embedCall.kind \notin OnePerText
    BY <1>3 DEF AllEmbedded, OneRequest, OnePerText
  <2>2. data \in Seq(V)
    <3>1. embedCall.texts \in Seq(Texts)
      BY <1>1
    <3> QED BY <3>1, <1>3, AnswersTyped
  <2>3. embedCall' = [embedCall EXCEPT !.vectors = data, !.outcome = "ok"]
    BY <1>3 DEF AllEmbedded
  <2>4. embedCall' \in EmbedCalls /\ embedCall'.kind = embedCall.kind
    BY <1>1, <2>2, <2>3
  <2>5. EmbedRight(embedCall')
    BY <2>1, <2>4 DEF EmbedRight
  <2> QED BY <2>5, <1>3 DEF AllEmbedded
<1>4. ASSUME OneEmbedded PROVE EmbedRight(embedCall') /\ Rest' = Rest
  <2>1. /\ embedCall.kind \in OnePerText /\ embedCall.outcome = "none"
    BY <1>4 DEF OneEmbedded, Embedding
  <2>2. PICK v \in Seq(V), t \in Seq(Texts) : v = embedCall.vectors /\ t = embedCall.texts
    BY <1>1
  <2>3. /\ Len(v) \in Nat /\ Len(t) \in Nat /\ Len(v) < Len(t)
        /\ \A i \in 1 .. Len(v) : v[i] = t[i]
    BY <2>1, <2>2 DEF EmbedRight
  <2>4. PICK w : w = Append(v, t[Len(v) + 1])
    OBVIOUS
  <2>5. w \in Seq(V) /\ Len(w) = Len(v) + 1 /\ \A i \in 1 .. Len(w) : w[i] = t[i]
    <3>1. t[Len(v) + 1] \in Texts
      BY <2>2, <2>3
    <3>2. w \in Seq(V) /\ Len(w) = Len(v) + 1 /\ w[Len(v) + 1] = t[Len(v) + 1]
          /\ \A i \in 1 .. Len(v) : w[i] = v[i]
      <4>1. t[Len(v) + 1] \in V
        BY <3>1 DEF Answered
      <4> HIDE DEF V
      <4> QED BY <2>2, <2>4, <4>1
    <3>3. \A i \in 1 .. Len(w) : i \in 1 .. Len(v) \/ i = Len(v) + 1
      BY <3>2, <2>3
    <3> QED BY <3>2, <3>3, <2>3
  <2>6. embedCall' = [embedCall EXCEPT !.vectors = w,
                          !.outcome = IF Len(w) = Len(t) THEN "ok" ELSE "none"]
    BY <1>4, <2>2, <2>4 DEF OneEmbedded
  <2>7. /\ embedCall' \in EmbedCalls /\ embedCall'.kind = embedCall.kind
        /\ embedCall'.texts = t /\ embedCall'.vectors = w
        /\ embedCall'.outcome = IF Len(w) = Len(t) THEN "ok" ELSE "none"
    BY <1>1, <2>2, <2>5, <2>6
  <2>8. Len(w) = Len(t) => w = t
    <3> HIDE DEF V
    <3>1. t \in Seq(V)
      <4>1. Texts \subseteq V
        BY DEF V, Answered
      <4> QED BY <2>2, <4>1
    <3>2. ASSUME Len(w) = Len(t) PROVE w = t
      BY <2>5, <3>1, <3>2, SeqEqual
    <3> QED BY <3>2
  <2>9. Len(w) # Len(t) => Len(w) < Len(t)
    BY <2>3, <2>5
  <2>10. EmbedRight(embedCall')
    BY <2>5, <2>7, <2>8, <2>9 DEF EmbedRight
  <2> QED BY <2>10, <1>4 DEF OneEmbedded
<1>5. ASSUME EmbedFails PROVE EmbedRight(embedCall') /\ Rest' = Rest
  <2>1. embedCall' = [embedCall EXCEPT !.vectors = <<>>, !.outcome = "failed"]
    BY <1>5 DEF EmbedFails
  <2>2. embedCall' \in EmbedCalls /\ embedCall'.outcome = "failed"
    <3>1. PICK e \in Seq(V) : e = <<>>
      BY EmptySeq, Zenon
    <3>2. embedCall' = [embedCall EXCEPT !.vectors = e, !.outcome = "failed"]
      BY <2>1, <3>1
    <3> QED BY <1>1, <3>2
  <2>3. EmbedRight(embedCall')
    BY <2>2 DEF EmbedRight
  <2> QED BY <2>3, <1>5 DEF EmbedFails
<1> QED BY <1>2, <1>3, <1>4, <1>5 DEF EmbedNext

LEMMA SearchKeeps ==
    ASSUME SearchNext
    PROVE  /\ HybridRanksRight'
           /\ <<memQueue, taken, embedded, vectors, outOfOrder, flushed, embedCall, memStatus>>'
                = <<memQueue, taken, embedded, vectors, outOfOrder, flushed, embedCall, memStatus>>
<1>1. PICK mode \in {"Fts", "Vector", "Hybrid"}, fts, vec \in Rankings,
           hasVector \in BOOLEAN, lost \in {{}, {CHOOSE t \in Texts : TRUE}},
           limit \in 0 .. MaxResults, minScore \in {0, Scale \div (RrfK + 1)} :
        /\ hasVector \/ vec = <<>>
        /\ SearchFor(mode, fts, vec, hasVector, lost, limit, minScore)
  BY Zenon DEF SearchNext
<1>2. limit \in Nat /\ minScore \in Int
  BY ScaleShares, MemoryAssumption DEF MemoryAssumption, RrfK
<1> DEFINE Hybrids == MergedRanking(Truncated(fts, 2 * limit), Truncated(vec, 2 * limit), limit)
<1>3. PICK list : /\ mode = "Hybrid" => list \in Hybrids
                  /\ found' = [mode |-> mode, fts |-> fts, vec |-> vec, hasVector |-> hasVector,
                               gone |-> lost, limit |-> limit, minScore |-> minScore,
                               answer |-> Only(list, {r \in Range(list) :
                                   r.id \notin lost /\ r.score >= minScore})]
  <2> HIDE DEF Hybrids
  <2> DEFINE Candidates == CASE mode = "Hybrid" -> Hybrids
                        [] mode = "Vector" /\ hasVector -> {Scored(Truncated(vec, limit))}
                        [] OTHER -> {Scored(Truncated(fts, limit))}
  <2>1. mode = "Hybrid" => Candidates = Hybrids
    OBVIOUS
  <2> HIDE DEF Candidates
  <2>2. \E list \in Candidates :
          found' = [mode |-> mode, fts |-> fts, vec |-> vec, hasVector |-> hasVector,
                    gone |-> lost, limit |-> limit, minScore |-> minScore,
                    answer |-> Only(list, {r \in Range(list) :
                        r.id \notin lost /\ r.score >= minScore})]
    BY <1>1, Zenon DEF SearchFor, Candidates, Hybrids
  <2> QED BY <2>1, <2>2, Zenon
<1>4. ASSUME mode = "Hybrid" PROVE RanksRight(found')
  <2>1. list \in Hybrids
    BY <1>3, <1>4
  <2> DEFINE f == [mode |-> mode, fts |-> fts, vec |-> vec, hasVector |-> hasVector,
                   gone |-> lost, limit |-> limit, minScore |-> minScore,
                   answer |-> Only(list, {r \in Range(list) :
                       r.id \notin lost /\ r.score >= minScore})]
  <2>2. /\ f.fts = fts /\ f.vec = vec /\ f.limit = limit /\ f.gone = lost
        /\ f.answer = Only(list, {r \in Range(list) : r.id \notin lost /\ r.score >= minScore})
    BY Zenon
  <2>3. f = found'
    BY <1>3, Zenon
  <2> HIDE DEF f
  <2>4. RanksRight(f)
    BY <1>2, <2>1, <2>2, SearchRanksRight DEF Hybrids
  <2> QED BY <2>3, <2>4, Zenon
<1>5. found'.mode = mode
  BY <1>3, Zenon
<1>6. HybridRanksRight'
  BY <1>4, <1>5, Zenon DEF HybridRanksRight
<1>7. <<memQueue, taken, embedded, vectors, outOfOrder, flushed, embedCall, memStatus>>'
        = <<memQueue, taken, embedded, vectors, outOfOrder, flushed, embedCall, memStatus>>
  BY <1>1, Zenon DEF SearchFor
<1> QED BY <1>6, <1>7, Zenon

LEMMA MemStepInv == MemInv /\ [MemNext]_memVars => MemInv'
<1> SUFFICES ASSUME MemInv, [MemNext]_memVars PROVE MemInv'
  OBVIOUS
<1> USE DEF MemInv
<1>1. ASSUME memQueue' = memQueue, taken' = taken, embedded' = embedded,
             vectors' = vectors, outOfOrder' = outOfOrder, flushed' = flushed
      PROVE  QueueRight'
  BY <1>1 DEF QueueRight
<1>2. ASSUME found' = found PROVE HybridRanksRight'
  BY <1>2 DEF HybridRanksRight
<1>3. ASSUME embedCall' = embedCall PROVE EmbedRight(embedCall')
  BY <1>3
<1>4. CASE BatchNext
  <2>1. /\ QueueRight'
        /\ embedCall' = embedCall /\ found' = found /\ memStatus' = memStatus
    BY <1>4, BatchKeeps
  <2> QED BY <2>1, <1>2, <1>3
<1>5. CASE EmbedNext
  <2>1. /\ EmbedRight(embedCall')
        /\ memQueue' = memQueue /\ taken' = taken /\ embedded' = embedded
        /\ vectors' = vectors /\ outOfOrder' = outOfOrder /\ flushed' = flushed /\ found' = found
        /\ memStatus' = memStatus
    BY <1>5, EmbedKeeps
  <2> QED BY <2>1, <1>1, <1>2
<1>6. CASE SearchNext
  <2>1. /\ HybridRanksRight'
        /\ memQueue' = memQueue /\ taken' = taken /\ embedded' = embedded
        /\ vectors' = vectors /\ outOfOrder' = outOfOrder /\ flushed' = flushed /\ embedCall' = embedCall
        /\ memStatus' = memStatus
    BY <1>6, SearchKeeps
  <2> QED BY <2>1, <1>1, <1>3
<1>7. CASE SyncBegins \/ SyncEnds \/ CloseMemory
  <2>1. /\ memQueue' = memQueue /\ taken' = taken /\ embedded' = embedded
        /\ vectors' = vectors /\ outOfOrder' = outOfOrder /\ flushed' = flushed /\ embedCall' = embedCall
        /\ found' = found /\ memStatus' \in {"Ready", "Syncing", "Closed"}
    BY <1>7 DEF SyncBegins, SyncEnds, CloseMemory
  <2> QED BY <2>1, <1>1, <1>2, <1>3
<1>8. CASE UNCHANGED memVars
  <2>1. /\ memQueue' = memQueue /\ taken' = taken /\ embedded' = embedded
        /\ vectors' = vectors /\ outOfOrder' = outOfOrder /\ flushed' = flushed /\ embedCall' = embedCall
        /\ found' = found /\ memStatus' = memStatus
    BY <1>8 DEF memVars
  <2> QED BY <2>1, <1>1, <1>2, <1>3
<1> QED BY <1>4, <1>5, <1>6, <1>7, <1>8 DEF MemNext

(* Every vector of a flush is that of the text with its id, as long as the *)
(* service answers each batch in the order of its texts; an embed call of  *)
(* one request per text answers one vector per text in order; and a hybrid *)
(* search puts no chunk before one that is ahead of it in every list       *)
(* (src/memory): whatever the service leaves out or adds, whatever the     *)
(* lists, the limit, the files that are lost and the lowest score.         *)
THEOREM MemoryIsRight == MemSpec => [](MemTypeOK /\ MemoryMatches)
<1>1. MemInv => MemTypeOK
  BY DEF MemInv, MemTypeOK, QueueRight, EmbedRight
<1>2. MemInv => MemoryMatches
  <2> SUFFICES ASSUME MemInv PROVE MemoryMatches
    OBVIOUS
  <2>1. VectorsMatch
    <3>1. SUFFICES ASSUME ~outOfOrder PROVE \A i \in DOMAIN vectors : vectors[i].embedding = vectors[i].id
      BY DEF VectorsMatch
    <3>2. vectors \in Seq(Own)
      BY <3>1 DEF MemInv, QueueRight
    <3>3. \A i \in DOMAIN vectors : vectors[i] \in Own
      BY <3>2
    <3> QED BY <3>3 DEF Own
  <2> QED BY <2>1 DEF MemInv, MemoryMatches, OneVectorPerText, EmbedRight
<1> QED BY <1>1, <1>2, MemInitInv, MemStepInv, PTL DEF MemSpec
-----------------------------------------------------------------------------
(* Types.  The invariants of the sections above hold the types of their    *)
(* services; those of the client, the typing loops, the rule lists and the *)
(* providers come here.                                                    *)

(* The flags of the client, and the rest of its state.                     *)
CliFlags ==
    /\ sender \in BOOLEAN /\ connected \in BOOLEAN /\ writer \in BOOLEAN
    /\ receiver \in {"held", "taken", "dropped"}

CallStates == {"new", "wait", "ok", "refused", "given up"}
FromServer == Calls \cup {"event"}

CliShape ==
    /\ dial \in 0 .. MaxDials /\ readers \subseteq 1 .. dial
    /\ call \in [Calls -> CallStates] /\ sentOn \in [Calls -> 0 .. dial]
    /\ waiting \subseteq Calls
    /\ inbound \in [Dials -> Seq(FromServer)]
    /\ events \in 0 .. EventRoom /\ sent \in 0 .. MaxEvents

LEMMA CliFlagsAndShape == CliTypeOK <=> CliFlags /\ CliShape
BY Zenon DEF CliTypeOK, CliFlags, CliShape, CallStates, FromServer

LEMMA CliFlagsStep == CliFlags /\ [CliNext]_cliVars => CliFlags'
<1> SUFFICES ASSUME CliFlags, [CliNext]_cliVars PROVE CliFlags'
  OBVIOUS
<1> USE DEF CliFlags
<1>1. CASE Dial \/ Hangup \/ WriterEnds
  BY <1>1, Zenon DEF Dial, Hangup, WriterEnds
<1>2. CASE \E d \in Dials : ReaderEnds(d) \/ ServerEvent(d) \/ ReadAnswer(d) \/ ReadEvent(d)
  BY <1>2, Zenon DEF ReaderEnds, ServerEvent, ReadAnswer, ReadEvent
<1>3. CASE \E q \in Calls : CallRefused(q) \/ CallSent(q) \/ GiveUp(q) \/ ServerAnswers(q)
  BY <1>3, Zenon DEF CallRefused, CallSent, GiveUp, ServerAnswers
<1>4. CASE TakeEventReceiver \/ AppPolls \/ AppDrops \/ UNCHANGED cliVars
  BY <1>4, Zenon DEF TakeEventReceiver, AppPolls, AppDrops, cliVars
<1> QED BY <1>1, <1>2, <1>3, <1>4, Zenon DEF CliNext

LEMMA CliShapeStep == CliShape /\ [CliNext]_cliVars => CliShape'
<1> SUFFICES ASSUME CliShape, [CliNext]_cliVars PROVE CliShape'
  OBVIOUS
<1>0. /\ dial \in 0 .. MaxDials /\ readers \subseteq 1 .. dial
      /\ call \in [Calls -> CallStates] /\ sentOn \in [Calls -> 0 .. dial]
      /\ waiting \subseteq Calls
      /\ inbound \in [Dials -> Seq(FromServer)]
      /\ events \in 0 .. EventRoom /\ sent \in 0 .. MaxEvents
  BY Zenon DEF CliShape
<1>1. /\ dial \in Nat /\ MaxDials \in Nat /\ EventRoom \in Nat /\ MaxEvents \in Nat
      /\ dial <= MaxDials
  <2>1. MaxDials \in Nat /\ EventRoom \in Nat /\ MaxEvents \in Nat
    BY ClientAssumption, Zenon DEF ClientAssumption
  <2> QED BY <2>1, <1>0
<1>2. CASE Dial
  <2>1. /\ dial' = dial + 1 /\ dial < MaxDials /\ readers' = readers \cup {dial + 1}
        /\ UNCHANGED <<call, sentOn, waiting, inbound, events, sent>>
    BY <1>2, Zenon DEF Dial
  <2>2. dial' \in 0 .. MaxDials /\ readers' \subseteq 1 .. dial'
    BY <2>1, <1>0, <1>1
  <2>3. sentOn' \in [Calls -> 0 .. dial']
    BY <2>1, <1>0, <1>1
  <2> QED BY <2>1, <2>2, <2>3, <1>0 DEF CliShape
<1>3. CASE Hangup \/ WriterEnds
  <2>1. UNCHANGED <<dial, readers, call, sentOn, waiting, inbound, events, sent>>
    BY <1>3, Zenon DEF Hangup, WriterEnds
  <2> QED BY <2>1, <1>0 DEF CliShape
<1>4. ASSUME NEW d \in Dials, ReaderEnds(d) PROVE CliShape'
  <2>1. /\ readers' = readers \ {d}
        /\ UNCHANGED <<dial, call, sentOn, waiting, inbound, events, sent>>
    BY <1>4, Zenon DEF ReaderEnds
  <2> QED BY <2>1, <1>0 DEF CliShape
<1>5. ASSUME NEW q \in Calls, CallRefused(q) \/ CallSent(q) \/ GiveUp(q) PROVE CliShape'
  <2>1. /\ waiting' \in {waiting, waiting \cup {q}}
        /\ sentOn' \in {sentOn, [sentOn EXCEPT ![q] = dial]}
        /\ \E s \in CallStates : call' = [call EXCEPT ![q] = s]
        /\ UNCHANGED <<dial, readers, inbound, events, sent>>
    BY <1>5, Zenon DEF CallRefused, CallSent, GiveUp, CallStates
  <2>2. sentOn' \in [Calls -> 0 .. dial] /\ waiting' \subseteq Calls
        /\ call' \in [Calls -> CallStates]
    BY <2>1, <1>0, <1>1
  <2> QED BY <2>1, <2>2, <1>0 DEF CliShape
<1>6. ASSUME NEW q \in Calls, ServerAnswers(q) PROVE CliShape'
  <2>1. /\ sentOn[q] \in readers
        /\ inbound' = [inbound EXCEPT ![sentOn[q]] = Append(@, q)]
        /\ UNCHANGED <<dial, readers, call, sentOn, waiting, events, sent>>
    BY <1>6, Zenon DEF ServerAnswers
  <2>2. PICK d \in Dials : d = sentOn[q]
    BY <2>1, <1>0, <1>1 DEF Dials
  <2>3. q \in FromServer
    BY DEF FromServer
  <2>4. Append(inbound[d], q) \in Seq(FromServer)
    BY <2>3, <1>0
  <2>5. inbound' \in [Dials -> Seq(FromServer)]
    BY <2>1, <2>2, <2>4, <1>0
  <2> QED BY <2>1, <2>5, <1>0 DEF CliShape
<1>7. ASSUME NEW d \in Dials, ServerEvent(d) PROVE CliShape'
  <2>1. /\ sent < MaxEvents /\ sent' = sent + 1
        /\ inbound' = [inbound EXCEPT ![d] = Append(@, "event")]
        /\ UNCHANGED <<dial, readers, call, sentOn, waiting, events>>
    BY <1>7, Zenon DEF ServerEvent
  <2>2. "event" \in FromServer
    BY DEF FromServer
  <2>3. Append(inbound[d], "event") \in Seq(FromServer)
    BY <2>2, <1>0
  <2>4. inbound' \in [Dials -> Seq(FromServer)]
    BY <2>1, <2>3, <1>0
  <2>5. sent' \in 0 .. MaxEvents
    BY <2>1, <1>0, <1>1
  <2> QED BY <2>1, <2>4, <2>5, <1>0 DEF CliShape
<1>8. ASSUME NEW d \in Dials, Reads(d)
      PROVE  inbound' \in [Dials -> Seq(FromServer)] /\ Head(inbound[d]) \in FromServer
  <2>1. inbound[d] # <<>> /\ inbound' = [inbound EXCEPT ![d] = Tail(@)]
    BY <1>8, Zenon DEF Reads
  <2>2. Tail(inbound[d]) \in Seq(FromServer) /\ Head(inbound[d]) \in FromServer
    BY <2>1, <1>0
  <2> QED BY <2>1, <2>2, <1>0
<1>9. ASSUME NEW d \in Dials, ReadAnswer(d) PROVE CliShape'
  <2>1. inbound' \in [Dials -> Seq(FromServer)] /\ Head(inbound[d]) \in Calls
    BY <1>8, <1>9, Zenon DEF ReadAnswer, FromServer
  <2>2. PICK q \in Calls : q = Head(inbound[d])
    BY <2>1
  <2>3. /\ call' \in {call, [call EXCEPT ![q] = "ok"]} /\ waiting' = waiting \ {q}
        /\ UNCHANGED <<dial, readers, sentOn, events, sent>>
    BY <1>9, <2>2, Zenon DEF ReadAnswer
  <2>4. call' \in [Calls -> CallStates]
    BY <2>3, <1>0 DEF CallStates
  <2> QED BY <2>1, <2>3, <2>4, <1>0 DEF CliShape
<1>10. ASSUME NEW d \in Dials, ReadEvent(d) PROVE CliShape'
  <2>1. inbound' \in [Dials -> Seq(FromServer)]
    BY <1>8, <1>10, Zenon DEF ReadEvent
  <2>2. /\ receiver = "dropped" \/ events < EventRoom
        /\ events' = IF receiver = "dropped" THEN events ELSE events + 1
        /\ UNCHANGED <<dial, readers, call, sentOn, waiting, sent>>
    BY <1>10, Zenon DEF ReadEvent
  <2>3. events' = events \/ (events < EventRoom /\ events' = events + 1)
    BY <2>2
  <2>4. events' \in 0 .. EventRoom
    BY <2>3, <1>0, <1>1
  <2> QED BY <2>1, <2>2, <2>4, <1>0 DEF CliShape
<1>11. CASE AppPolls
  <2>1. /\ events > 0 /\ events' = events - 1
        /\ UNCHANGED <<dial, readers, call, sentOn, waiting, inbound, sent>>
    BY <1>11, Zenon DEF AppPolls
  <2>2. events' \in 0 .. EventRoom
    BY <2>1, <1>0, <1>1
  <2> QED BY <2>1, <2>2, <1>0 DEF CliShape
<1>13. CASE TakeEventReceiver \/ AppDrops
  <2>1. /\ events' \in {0, events}
        /\ UNCHANGED <<dial, readers, call, sentOn, waiting, inbound, sent>>
    BY <1>13, Zenon DEF TakeEventReceiver, AppDrops
  <2>2. events' \in 0 .. EventRoom
    BY <2>1, <1>0, <1>1
  <2> QED BY <2>1, <2>2, <1>0 DEF CliShape
<1>12. CASE UNCHANGED cliVars
  <2>1. UNCHANGED <<dial, readers, call, sentOn, waiting, inbound, events, sent>>
    BY <1>12, Zenon DEF cliVars
  <2> QED BY <2>1, <1>0 DEF CliShape
<1> QED BY <1>2, <1>3, <1>4, <1>5, <1>6, <1>7, <1>9, <1>10, <1>11, <1>12, <1>13, Zenon DEF CliNext

LEMMA CliTyped == CliTypeOK /\ [CliNext]_cliVars => CliTypeOK'
<1> SUFFICES ASSUME CliTypeOK, [CliNext]_cliVars PROVE CliTypeOK'
  OBVIOUS
<1>1. CliFlags' /\ CliShape'
  BY CliFlagsAndShape, CliFlagsStep, CliShapeStep
<1> QED BY <1>1, Zenon DEF CliTypeOK, CliFlags, CliShape, CallStates, FromServer

LEMMA CliInitTyped == CliInit => CliTypeOK
<1> SUFFICES ASSUME CliInit PROVE CliTypeOK
  OBVIOUS
<1>1. MaxDials \in Nat /\ EventRoom \in Nat /\ MaxEvents \in Nat
  BY ClientAssumption, Zenon DEF ClientAssumption
<1>2. CliFlags
  BY Zenon DEF CliInit, CliFlags
<1>3. /\ dial = 0 /\ readers = {} /\ waiting = {} /\ events = 0 /\ sent = 0
      /\ call = [q \in Calls |-> "new"] /\ sentOn = [q \in Calls |-> 0]
      /\ inbound = [d \in Dials |-> <<>>]
  BY Zenon DEF CliInit
<1>4. CliShape
  <2>1. inbound \in [Dials -> Seq(FromServer)]
    BY <1>3
  <2>2. call \in [Calls -> CallStates]
    BY <1>3 DEF CallStates
  <2> QED BY <2>1, <2>2, <1>1, <1>3 DEF CliShape
<1> QED BY <1>2, <1>4, CliFlagsAndShape

LEMMA TypingTyped == TypingTypeOK /\ [TypingNext]_typingVars => TypingTypeOK'
<1> SUFFICES ASSUME TypingTypeOK, [TypingNext]_typingVars PROVE TypingTypeOK'
  OBVIOUS
<1> USE DEF TypingTypeOK
<1>1. started \in Nat /\ MaxLoops \in Nat /\ MaxDuration \in Nat
  BY TypingAssumption DEF TypingAssumption
<1>2. CASE StartLoop
  BY <1>1, <1>2 DEF StartLoop
<1>3. CASE StopLoop \/ Suppress \/ Unsuppress
  <2>1. /\ running' \in BOOLEAN /\ suppressed' \in BOOLEAN
        /\ UNCHANGED <<loopAge, loopLive, started, typing>>
    BY <1>3 DEF StopLoop, Suppress, Unsuppress, Switch
  <2> QED BY <2>1
<1>4. ASSUME NEW l \in Loops, Tick(l) PROVE TypingTypeOK'
  <2>1. PICK a \in 0 .. MaxDuration + 1 : a = loopAge[l]
    OBVIOUS
  <2>2. loopAge' = [loopAge EXCEPT ![l] = IF a > MaxDuration THEN a ELSE a + 1]
    BY <1>4, <2>1 DEF Tick
  <2>3. (IF a > MaxDuration THEN a ELSE a + 1) \in 0 .. MaxDuration + 1
    BY <1>1
  <2>4. loopAge' \in [Loops -> 0 .. MaxDuration + 1]
    BY <2>2, <2>3
  <2>5. /\ running' \in BOOLEAN /\ typing' \in BOOLEAN /\ loopLive' \subseteq loopLive
        /\ suppressed' = suppressed /\ started' = started
    BY <1>4 DEF Tick
  <2> QED BY <2>4, <2>5
<1>5. CASE UNCHANGED typingVars
  BY <1>5 DEF typingVars
<1> QED BY <1>2, <1>3, <1>4, <1>5 DEF TypingNext

LEMMA TypingInitTyped == TypingInit => TypingTypeOK
<1> SUFFICES ASSUME TypingInit PROVE TypingTypeOK
  OBVIOUS
<1>1. loopAge = [l \in Loops |-> 0] /\ loopLive = {} /\ started = 0
  BY Zenon DEF TypingInit
<1>2. running \in BOOLEAN /\ suppressed \in BOOLEAN /\ typing \in BOOLEAN
  BY Zenon DEF TypingInit
<1>3. 0 \in 0 .. MaxDuration + 1 /\ 0 \in 0 .. MaxLoops
  BY TypingAssumption DEF TypingAssumption
<1>4. loopAge \in [Loops -> 0 .. MaxDuration + 1]
  BY <1>1, <1>3
<1>5. loopLive \subseteq 1 .. started
  BY <1>1
<1> QED BY <1>1, <1>2, <1>3, <1>4, <1>5, Zenon DEF TypingTypeOK

(* The bounds of the rule lists.                                           *)
AccBounds ==
    /\ Len(routes) <= MaxRoutes /\ binds \in 0 .. MaxBinds
    /\ routed.at \in {0, 1}
    /\ approval = NoDecision \/ Len(approval.policies) <= MaxRules
    /\ allowList = NoDecision \/ Len(allowList.sources) <= MaxRules

LEMMA AccBounded == AccInv /\ AccBounds /\ [AccNext]_accVars => AccBounds'
<1> SUFFICES ASSUME AccInv, AccBounds, [AccNext]_accVars PROVE AccBounds'
  OBVIOUS
<1> USE DEF AccBounds
<1>1. /\ MaxRoutes \in Nat /\ MaxBinds \in Nat /\ MaxRules \in Nat
      /\ routes \in Seq(Rules)
  BY AccessAssumption DEF AccessAssumption, AccInv, RoutesInv
<1>2. CASE \E a \in RouteAgents, o \in Owners, p \in Peers \cup {"*", Unset} : AgentsBind(a, o, p)
  <2>1. PICK a \in RouteAgents, o \in Owners, p \in Peers \cup {"*", Unset} : AgentsBind(a, o, p)
    BY <1>2
  <2>2. Len(routes') <= MaxRoutes /\ binds' \in 0 .. MaxBinds
    BY <1>1, <2>1 DEF AgentsBind
  <2> QED BY <2>1, <2>2 DEF AgentsBind
<1>3. CASE \E a \in RouteAgents, o \in Owners : AgentsUnbind(a, o)
  <2>1. PICK a \in RouteAgents, o \in Owners : AgentsUnbind(a, o)
    BY <1>3
  <2>2. PICK S : routes' = Only(routes, S)
    BY <2>1 DEF AgentsUnbind
  <2>3. Len(routes') <= MaxRoutes
    BY <1>1, <2>2, OnlyNoLonger
  <2>4. binds' \in 0 .. MaxBinds
    BY <1>1, <2>1 DEF AgentsUnbind
  <2> QED BY <2>1, <2>3, <2>4 DEF AgentsUnbind
<1>4. CASE \E ctx \in Contexts : Resolve(ctx)
  <2>1. PICK ctx \in Contexts : Resolve(ctx)
    BY <1>4
  <2>2. routed'.at = 1
    BY <2>1 DEF Resolve, ResolveAgent
  <2> QED BY <2>1, <2>2 DEF Resolve
<1>5. ASSUME NEW n \in 0 .. MaxRules, NEW s \in [1 .. n -> Policy], BeginApproval(s)
      PROVE  AccBounds'
  <2>1. Len(s) = n
    BY <1>1
  <2>2. approval'.policies = s
    BY <1>5 DEF BeginApproval
  <2> QED BY <2>1, <2>2, <1>5, <1>1 DEF BeginApproval
<1>6. ASSUME NEW n \in 0 .. MaxRules, NEW s \in [1 .. n -> Sources], BeginMerge(s)
      PROVE  AccBounds'
  <2>1. Len(s) = n
    BY <1>1
  <2>2. allowList'.sources = s
    BY <1>6 DEF BeginMerge
  <2> QED BY <2>1, <2>2, <1>6, <1>1 DEF BeginMerge
<1>7. CASE EvaluatePolicy
  <2>1. approval # NoDecision
    BY <1>7 DEF EvaluatePolicy, NoDecision
  <2>2. approval \in [at : Nat, policies : Seq(Policy), action : {"none", "allow", "deny", "ask"}]
    BY <2>1 DEF AccInv, ApprovalInv
  <2>3. approval'.policies = approval.policies
    BY <2>2, <1>7 DEF EvaluatePolicy
  <2> QED BY <2>1, <2>3, <1>7 DEF EvaluatePolicy
<1>8. CASE MergeSource
  <2>1. allowList # NoDecision
    BY <1>8 DEF MergeSource
  <2>2. allowList \in [at : Nat, sources : Seq(Sources),
                       merged : [Accounts -> SUBSET (Peers \cup {"*"})]]
    BY <2>1 DEF AccInv, MergeInv
  <2>3. allowList'.sources = allowList.sources
    BY <2>2, <1>8 DEF MergeSource
  <2> QED BY <2>1, <2>3, <1>8 DEF MergeSource
<1>9. CASE UNCHANGED accVars
  BY <1>9 DEF accVars
<1> QED BY <1>2, <1>3, <1>4, <1>5, <1>6, <1>7, <1>8, <1>9 DEF AccNext

LEMMA AccInitBounded == AccInit => AccBounds
BY AccessAssumption DEF AccInit, AccBounds, NoDecision, AccessAssumption

LEMMA AccTyped == AccInv /\ AccBounds => AccTypeOK
<1> SUFFICES ASSUME AccInv, AccBounds PROVE AccTypeOK
  OBVIOUS
<1>1. MaxRules \in Nat
  BY AccessAssumption DEF AccessAssumption
<1>2. approval.at \in 0 .. MaxRules + 1
  <2>1. CASE approval = NoDecision
    BY <1>1, <2>1 DEF NoDecision
  <2>2. CASE approval # NoDecision
    <3>1. /\ approval.policies \in Seq(Policy)
          /\ approval.at \in 1 .. Len(approval.policies) + 1
      BY <2>2 DEF AccInv, ApprovalInv
    <3>2. Len(approval.policies) \in Nat /\ Len(approval.policies) <= MaxRules
      BY <2>2, <3>1 DEF AccBounds
    <3> QED BY <1>1, <3>1, <3>2
  <2> QED BY <2>1, <2>2
<1>3. allowList.at \in 0 .. MaxRules + 1
  <2>1. CASE allowList = NoDecision
    BY <1>1, <2>1 DEF NoDecision
  <2>2. CASE allowList # NoDecision
    <3>1. /\ allowList.sources \in Seq(Sources)
          /\ allowList.at \in 1 .. Len(allowList.sources) + 1
      BY <2>2 DEF AccInv, MergeInv
    <3>2. Len(allowList.sources) \in Nat /\ Len(allowList.sources) <= MaxRules
      BY <2>2, <3>1 DEF AccBounds
    <3> QED BY <1>1, <3>1, <3>2
  <2> QED BY <2>1, <2>2
<1> QED BY <1>2, <1>3 DEF AccBounds, AccTypeOK

(* What chat() keeps besides the stream.                                   *)
ChatKept == copilot \in BOOLEAN /\ chatAnswer \subseteq BlockKinds \cup {"error"}

LEMMA ChatKeptTyped == ChatKept /\ [ProvNext]_provVars => ChatKept'
<1> SUFFICES ASSUME ChatKept, [ProvNext]_provVars PROVE ChatKept'
  OBVIOUS
<1> USE DEF ChatKept
<1>1. ASSUME NEW p \in ModelPrefixes \cup {"none"}, NEW f \in Families, NEW g \in BOOLEAN,
             NEW t \in BOOLEAN, StreamChat(p, f, g, t)
      PROVE  ChatKept'
  BY <1>1 DEF StreamChat
<1>2. ASSUME NEW a \in Answers, NEW b \in SUBSET BlockKinds, NEW c \in BOOLEAN,
             NEW v \in BOOLEAN, Chat(a, b, c, v)
      PROVE  ChatKept'
  <2>1. chatAnswer' \in {{"error"}, b \cap a.keeps, {}} /\ copilot' = copilot
    BY <1>2 DEF Chat
  <2> QED BY <2>1
<1>3. CASE CodexStreamChat
  BY <1>3 DEF CodexStreamChat
<1>4. CASE TokenAges
  BY <1>4 DEF TokenAges
<1>5. CASE UNCHANGED <<copilot, chatAnswer>>
  BY <1>5
<1>6. \/ RequestFails \/ Accepted \/ LineParsed \/ BodyEnds \/ BodyBreaks \/ LoopEnds \/ NextTurn
        => UNCHANGED <<copilot, chatAnswer>>
  BY Zenon DEF RequestFails, Accepted, LineParsed, BodyEnds, BodyBreaks, LoopEnds, NextTurn
<1>7. /\ \A f \in Frames, lacks \in Lacks : FrameArrives(f, lacks) => UNCHANGED <<copilot, chatAnswer>>
      /\ \A torn \in BOOLEAN : RestArrives(torn) => UNCHANGED <<copilot, chatAnswer>>
  BY Zenon DEF FrameArrives, RestArrives
<1>8. UNCHANGED provVars => UNCHANGED <<copilot, chatAnswer>>
  BY DEF provVars
<1> QED BY <1>1, <1>2, <1>3, <1>4, <1>5, <1>6, <1>7, <1>8 DEF ProvNext

LEMMA ChatKeptInit == ProvInit => ChatKept
BY DEF ProvInit, ChatKept

LEMMA ProvTyped == StreamInv /\ ChatKept => ProvTypeOK
<1> SUFFICES ASSUME StreamInv, ChatKept PROVE ProvTypeOK
  OBVIOUS
<1>1. /\ dialect \in Dialects /\ wire \in {"idle", "asked", "open", "ended", "broken", "over"}
      /\ body \in Seq(Frames) /\ unfinished \in Lacks
  BY DEF StreamInv
<1>2. parsed.at \in 0 .. Len(body) /\ parsed.state \in {"go", "end", "error", "done"}
  <2>1. CASE wire \in {"idle", "asked"}
    BY <2>1, <1>1 DEF StreamInv, Nothing
  <2>2. CASE wire \in {"open", "ended", "broken"}
    <3>1. parsed \in Parsers /\ parsed.at <= Len(body)
      BY <2>2 DEF StreamInv, Runs
    <3> QED BY <3>1, <1>1 DEF Parsers
  <2>3. CASE wire = "over"
    BY <2>3, <1>1 DEF StreamInv, Terminals
  <2> QED BY <2>1, <2>2, <2>3, <1>1
<1> QED BY <1>1, <1>2 DEF ProvTypeOK, ChatKept
-----------------------------------------------------------------------------
(* The composition.  A step of the services is a step of one of them, and  *)
(* to every other a stutter: what is proved of a service alone holds of it *)
(* among the others.                                                       *)

LEMMA ServicesInitParts ==
    ASSUME ServicesInit
    PROVE  /\ NodeInit /\ RecInit /\ SetInit /\ CliInit /\ ChanInit /\ WebInit
           /\ AcpInit /\ AbortInit /\ TypingInit /\ DelInit /\ FbInit /\ HookInit
           /\ ProvInit /\ ToolsInit /\ ChunkInit /\ MemInit /\ AccInit /\ FfiInit
BY Zenon DEF ServicesInit

LEMMA ServicesStepParts ==
    ASSUME [ServicesNext]_servicesVars
    PROVE  /\ [NodeNext]_nodeVars /\ [RecNext]_recVars /\ [SetNext]_setVars
           /\ [CliNext]_cliVars /\ [ChanNext]_chanVars /\ [WebNext]_chatVars
           /\ [AcpNext]_acpVars /\ [AbortNext]_abortVars /\ [TypingNext]_typingVars
           /\ [DelNext]_delVars /\ [FbNext]_fbVars /\ [HookNext]_hookVars
           /\ [ProvNext]_provVars /\ [ToolsNext]_toolVars /\ [ChunkNext]_chunkVars
           /\ [MemNext]_memVars /\ [AccNext]_accVars /\ [FfiNext]_ffiVars
           /\ UNCHANGED service
<1>1. CASE UNCHANGED servicesVars
  BY <1>1, Zenon DEF servicesVars
<1>2. CASE ServicesNext
  <2>1. UNCHANGED service
    BY <1>2 DEF ServicesNext, Keep
  <2>2. [NodeNext]_nodeVars /\ [RecNext]_recVars /\ [SetNext]_setVars
    BY <1>2 DEF ServicesNext, Keep
  <2>3. [CliNext]_cliVars /\ [ChanNext]_chanVars /\ [WebNext]_chatVars
    BY <1>2 DEF ServicesNext, Keep
  <2>4. [AcpNext]_acpVars /\ [AbortNext]_abortVars /\ [TypingNext]_typingVars
    BY <1>2 DEF ServicesNext, Keep
  <2>5. [DelNext]_delVars /\ [FbNext]_fbVars /\ [HookNext]_hookVars
    BY <1>2 DEF ServicesNext, Keep
  <2>6. [ProvNext]_provVars /\ [ToolsNext]_toolVars /\ [ChunkNext]_chunkVars
    BY <1>2 DEF ServicesNext, Keep
  <2>7. [MemNext]_memVars /\ [AccNext]_accVars /\ [FfiNext]_ffiVars
    BY <1>2 DEF ServicesNext, Keep
  <2> QED BY <2>1, <2>2, <2>3, <2>4, <2>5, <2>6, <2>7
<1> QED BY <1>1, <1>2

(* A behaviour of the composition is a behaviour of each of the services;  *)
(* of those that assume fairness, as far as their steps go.                *)
THEOREM ServicesHostTheirParts ==
    ServicesSpec =>
        /\ NodeSpec /\ RecSpec /\ SetSpec /\ ChanSpec /\ WebSpec /\ AcpSpec
        /\ DelSpec /\ FbSpec /\ HookSpec /\ ProvSpec /\ ToolsSpec /\ ChunkSpec
        /\ MemSpec /\ AccSpec
        /\ CliInit /\ [][CliNext]_cliVars
        /\ AbortInit /\ [][AbortNext]_abortVars
        /\ TypingInit /\ [][TypingNext]_typingVars
        /\ FfiInit /\ [][FfiNext]_ffiVars
BY ServicesInitParts, ServicesStepParts, PTL
   DEF ServicesSpec, NodeSpec, RecSpec, SetSpec, ChanSpec, WebSpec, AcpSpec, DelSpec,
       FbSpec, HookSpec, ProvSpec, ToolsSpec, ChunkSpec, MemSpec, AccSpec

(* Every variable of every service keeps its type, the services that need  *)
(* fairness among them.                                                    *)
THEOREM ServicesTypeCorrect == ServicesSpec => []ServicesTypeOK
<1>1. ServicesSpec => [](NodeTypeOK /\ RecTypeOK /\ SetTypeOK)
  <2>1. NodeInv /\ RecInv /\ SetInv => NodeTypeOK /\ RecTypeOK /\ SetTypeOK
    BY DEF NodeInv, RecInv, SetInv
  <2> QED BY <2>1, ServicesHostTheirParts, NodeInvariant, RecInitInv, RecStepInv,
             SetInitInv, SetStepInv, PTL DEF RecSpec, SetSpec
<1>2. ServicesSpec => [](ChanTypeOK /\ WebTypeOK /\ AcpTypeOK)
  <2>1. ChanInv /\ WebInv /\ AcpInv => ChanTypeOK /\ WebTypeOK /\ AcpTypeOK
    BY DEF ChanInv, WebInv, AcpInv
  <2> QED BY <2>1, ServicesHostTheirParts, ChanInitInv, ChanStepInv, WebInitInv,
             WebStepInv, AcpInitInv, AcpStepInv, PTL DEF ChanSpec, WebSpec, AcpSpec
<1>3. ServicesSpec => [](DelTypeOK /\ FbTypeOK /\ HookTypeOK)
  <2>1. DelInv /\ FbInv /\ HookInv => DelTypeOK /\ FbTypeOK /\ HookTypeOK
    BY DEF DelInv, FbInv, HookInv
  <2> QED BY <2>1, ServicesHostTheirParts, DelInitInv, DelStepInv, FbInitInv,
             FbStepInv, HookInitInv, HookStepInv, PTL DEF DelSpec, FbSpec, HookSpec
<1>4. ServicesSpec => [](ProvTypeOK /\ ToolsTypeOK)
  BY ServicesHostTheirParts, StreamInitInv, StreamStepInv, ChatKeptInit, ChatKeptTyped,
     ProvTyped, ToolsInitInv, ToolsStepInv, ToolsHonest, PTL DEF ProvSpec, ToolsSpec
<1>5. ServicesSpec => [](ChunkTypeOK /\ MemTypeOK /\ AccTypeOK)
  BY ServicesHostTheirParts, ChunksCoverTheText, MemoryIsRight, AccInitInv, AccStepInv,
     AccInitBounded, AccBounded, AccTyped, PTL DEF AccSpec
<1>6. ServicesSpec => [](CliTypeOK /\ TypingTypeOK)
  BY ServicesInitParts, ServicesStepParts, CliInitTyped, CliTyped, TypingInitTyped,
     TypingTyped, PTL DEF ServicesSpec
<1>7. ServicesSpec => [](AbortTypeOK /\ FfiTypeOK)
  <2>1. AbortInv /\ FfiInv => AbortTypeOK /\ FfiTypeOK
    BY DEF AbortInv, FfiInv
  <2> QED BY <2>1, ServicesInitParts, ServicesStepParts, AbortInitInv, AbortStepInv,
             FfiInitInv, FfiStepInv, PTL DEF ServicesSpec
<1>8. ServicesSpec => [](service \in Services)
  <2>1. ServicesInit => service \in Services
    BY DEF ServicesInit
  <2>2. service \in Services /\ [ServicesNext]_servicesVars => (service \in Services)'
    BY ServicesStepParts
  <2> QED BY <2>1, <2>2, PTL DEF ServicesSpec
<1> QED BY <1>1, <1>2, <1>3, <1>4, <1>5, <1>6, <1>7, <1>8, PTL DEF ServicesTypeOK

(* A cron job that is not scheduled has as many stray runs as removals met *)
(* requests between their two locks, no more (handle_cron_run), and an     *)
(* active wizard stands within its steps unless a start ran between the    *)
(* two writes of a cancel (handle_wizard_next, handle_wizard_cancel).      *)
THEOREM RecordsAreSound == ServicesSpec => []RecordsSound
BY ServicesHostTheirParts, StrayRunsAreBounded, WizardStaysInside, PTL DEF RecordsSound

(* No channel's send that sends at all reports ok for what the platform    *)
(* has said it did not take, and no client of the web chat that has        *)
(* listened since a message was sent misses it or has it twice             *)
(* (channels/*.rs).                                                        *)
THEOREM ChannelsAlwaysDeliver == ServicesSpec => []ChannelsDeliver
BY ServicesHostTheirParts, ChannelsOkMeansAccepted, NobodyIsStarved, PTL
   DEF ChannelsDeliver

(* The chunks of a file hold its words and name their lines, and what the  *)
(* memory index answers belongs to what it was asked, as long as the       *)
(* embedding service answers in the order it was asked (src/memory).       *)
THEOREM MemoryIsSound == ServicesSpec => []MemorySound
BY ServicesHostTheirParts, ChunksCoverTheText, MemoryIsRight, PTL DEF MemorySound

(* Every safety property proved of a service alone holds of the gateway    *)
(* that has them all: work is handed out once, records and the wizard are  *)
(* sound, a stop is complete, deliveries keep up, failed models rest,      *)
(* hooks run in order, no abort is missed, streams are faithful, tools     *)
(* tell the truth, the memory answers what it was asked, the first rule    *)
(* decides, and an embedded gateway runs once.                             *)
THEOREM ServicesAreSound ==
    ServicesSpec => []( /\ WorkOnce /\ RecordsSound /\ ChannelsDeliver
                        /\ StopIsComplete /\ NoWakeUpLost /\ TargetsKeepUp
                        /\ FailedModelsRest /\ ChainsRunInOrder /\ StreamIsFaithful
                        /\ ToolAnswersHonest /\ MemorySound /\ FirstRuleDecides
                        /\ EmbeddingSound )
<1>1. ServicesSpec => [](NoWakeUpLost /\ EmbeddingSound)
  <2>1. /\ AbortInv => NoWakeUpLost
        /\ FfiInv => EmbeddingSound
    BY EmbeddingIsSound DEF AbortInv
  <2> QED BY <2>1, ServicesHostTheirParts, AbortInitInv, AbortStepInv, FfiInitInv, FfiStepInv, PTL
<1> QED BY <1>1, ServicesHostTheirParts, WorkIsHandedOutOnce, RecordsAreSound,
           ChannelsAlwaysDeliver, AgentStopsComplete, DeliveryKeepsUp, FallbackRests,
           HookChainsRunInOrder, StreamsAreFaithful, ToolsTellTheTruth, MemoryIsSound,
           RulesDecideInOrder, PTL
=============================================================================
