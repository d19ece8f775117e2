---------------------------- MODULE StoresProofs ----------------------------
(***************************************************************************)
(* Theorems about what the requests of all clients share, for any fields,  *)
(* values, connections, runs, keys, requests and files.  The running       *)
(* configuration: a strict reload never activates a required field that is *)
(* still a reference; what was configured last is only lost to a reload    *)
(* that writes an outdated copy back, and not at all as long as one        *)
(* connection makes the changes.  The session store: the history a run was *)
(* given stays the beginning of its session's, and unless first messages   *)
(* of a session race, a session holds the answers given since it was last  *)
(* reset, each once and in order.  The configuration files: whatever files *)
(* include each other, reading fails exactly when it has to, and otherwise *)
(* all that is reached is merged and the include read last wins.           *)
(***************************************************************************)
EXTENDS MCStores, FiniteSetTheorems, SequenceTheorems, SubsequenceProofs, TLAPS

-----------------------------------------------------------------------------
(* Strict reloads.                                                         *)

Shapes ==
    /\ reader \in [Conns -> {"ready", "resolve", "activate"}]
    /\ DOMAIN draft = Conns
    /\ DOMAIN req = Conns
    /\ \A c \in Conns : reader[c] # "ready" => DOMAIN draft[c] \subseteq Fields

(* What a strict reload is about to activate has passed the check.         *)
DraftChecked ==
    \A c \in Conns : reader[c] = "activate" /\ req[c].resolve /\ req[c].strict =>
        \A f \in DOMAIN draft[c] \cap req[c].required : draft[c][f] \notin Refs

StrictInv == Shapes /\ DraftChecked

LEMMA StrictInit == Init => StrictInv
BY DEF Init, StrictInv, Shapes, DraftChecked

(* A draft taken from the running configuration or the file, or given up.  *)
LEMMA BeginStrict ==
    ASSUME StrictInv, NEW c \in Conns, NEW q,
           ReloadBegin(c, q) \/ (SecretsBegin(c, q) /\ q.resolve)
    PROVE  StrictInv'
<1>1. Shapes /\ DraftChecked
  BY DEF StrictInv
<1>2. /\ req' = [req EXCEPT ![c] = q]
      /\ \/ draft' = [draft EXCEPT ![c] = Disk]
         \/ draft' = [draft EXCEPT ![c] = Snapshot]
      /\ \/ reader' = [reader EXCEPT ![c] = "resolve"]
         \/ reader' = [reader EXCEPT ![c] = "activate"] /\ ~q.resolve
  BY DEF ReloadBegin, SecretsBegin
<1>3. DOMAIN Disk \subseteq Fields /\ DOMAIN Snapshot \subseteq Fields
  BY ConfigStoreAssumption DEF ConfigStoreAssumption, Snapshot, Restrict
<1>4. Shapes'
  BY <1>1, <1>2, <1>3 DEF Shapes
<1>5. DraftChecked'
  BY <1>1, <1>2 DEF Shapes, DraftChecked
<1> QED BY <1>4, <1>5 DEF StrictInv

(* The check and the substitution of the references that resolved.         *)
LEMMA ResolvedStrict ==
    ASSUME StrictInv, NEW c \in Conns, NEW ok \in SUBSET Refs, ReloadResolved(c, ok)
    PROVE  StrictInv'
<1>1. Shapes /\ DraftChecked
  BY DEF StrictInv
<1>2. /\ reader[c] = "resolve" /\ ~Refused(c, ok)
      /\ draft' = [draft EXCEPT ![c] = Substituted(@, ok)]
      /\ reader' = [reader EXCEPT ![c] = "activate"] /\ req' = req
  BY DEF ReloadResolved
<1>3. /\ DOMAIN Substituted(draft[c], ok) = DOMAIN draft[c]
      /\ \A f \in DOMAIN draft[c] :
            Substituted(draft[c], ok)[f] = IF draft[c][f] \in ok THEN Resolved(draft[c][f])
                                                                ELSE draft[c][f]
  BY DEF Substituted
<1>4. Shapes'
  BY <1>1, <1>2, <1>3 DEF Shapes
<1>5. DraftChecked'
  <2> SUFFICES ASSUME NEW d \in Conns, reader'[d] = "activate",
                      req[d].resolve, req[d].strict,
                      NEW f \in DOMAIN draft'[d] \cap req[d].required
               PROVE  draft'[d][f] \notin Refs
    BY <1>2 DEF DraftChecked
  <2>1. CASE d # c
    BY <2>1, <1>1, <1>2 DEF Shapes, DraftChecked
  <2>2. CASE d = c
    <3>1. f \in DOMAIN draft[c] \cap req[c].required /\ draft'[c] = Substituted(draft[c], ok)
      BY <2>2, <1>1, <1>2, <1>3 DEF Shapes
    <3>2. draft[c][f] \notin Refs \ ok
      BY <2>2, <3>1, <1>2 DEF Refused, Unresolved
    <3>3. CASE draft[c][f] \in ok
      BY <2>2, <3>1, <3>3, <1>3, ConfigStoreAssumption DEF Resolved, ConfigStoreAssumption
    <3>4. CASE draft[c][f] \notin ok
      BY <2>2, <3>1, <3>2, <3>4, <1>3
    <3> QED BY <3>3, <3>4
  <2> QED BY <2>1, <2>2
<1> QED BY <1>4, <1>5 DEF StrictInv

(* A connection that is done, and a patch, leave every other draft alone.  *)
LEMMA DoneStrict ==
    ASSUME StrictInv, NEW c \in Conns, UNCHANGED req,
           reader' = [reader EXCEPT ![c] = "ready"],
           UNCHANGED draft \/ \E w : draft' = [draft EXCEPT ![c] = w]
    PROVE  StrictInv'
<1>1. \A d \in Conns \ {c} : reader'[d] = reader[d] /\ draft'[d] = draft[d]
  BY DEF StrictInv, Shapes
<1>2. reader'[c] = "ready" /\ DOMAIN draft' = Conns
  BY DEF StrictInv, Shapes
<1>3. Shapes'
  BY <1>1, <1>2 DEF StrictInv, Shapes
<1>4. DraftChecked'
  BY <1>1, <1>2 DEF StrictInv, DraftChecked
<1> QED BY <1>3, <1>4 DEF StrictInv

LEMMA StrictStep == StrictInv /\ [Next]_vars => StrictInv'
<1> SUFFICES ASSUME StrictInv, [Next]_vars PROVE StrictInv'
  OBVIOUS
<1>1. CASE UNCHANGED <<reader, draft, req>>
  BY <1>1 DEF StrictInv, Shapes, DraftChecked
<1>2. CASE UNCHANGED vars
  BY <1>1, <1>2 DEF vars
<1>3. ASSUME NEW c \in Conns, \E patch \in Patches : ConfigPatch(c, patch)
      PROVE  StrictInv'
  BY <1>1, <1>3 DEF ConfigPatch
<1>4. ASSUME NEW c \in Conns, ReloadUnread(c) \/ \E q \in Reloads : ReloadBegin(c, q)
      PROVE  StrictInv'
  BY <1>1, <1>4, BeginStrict DEF ReloadUnread
<1>5. ASSUME NEW c \in Conns, \E q \in SecretReloads : SecretsBegin(c, q)
      PROVE  StrictInv'
  <2> PICK q \in SecretReloads : SecretsBegin(c, q) BY <1>5
  <2>1. q.resolve
    BY DEF SecretReloads
  <2> QED BY <2>1, BeginStrict
<1>6. ASSUME NEW c \in Conns, NEW ok \in SUBSET Refs,
             ResolveFails(c, ok) \/ SecretsDone(c, ok)
      PROVE  StrictInv'
  BY <1>6, DoneStrict DEF ResolveFails, SecretsDone
<1>7. ASSUME NEW c \in Conns, NEW ok \in SUBSET Refs, ReloadResolved(c, ok)
      PROVE  StrictInv'
  BY <1>7, ResolvedStrict
<1>8. ASSUME NEW c \in Conns, Activate(c)
      PROVE  StrictInv'
  BY <1>8, DoneStrict DEF Activate
<1> QED BY <1>2, <1>3, <1>4, <1>5, <1>6, <1>7, <1>8 DEF Next

(* The step that activates a draft gives each of its fields that value.    *)
LEMMA ActivatedStrict ==
    ASSUME StrictInv, [Next]_vars, NEW c \in Conns, Activated(c),
           req[c].resolve, req[c].strict
    PROVE  RawRequired(c) = {}
<1>1. Shapes /\ DraftChecked
  BY DEF StrictInv
<1>2. reader[c] = "activate" /\ reader'[c] = "ready"
  BY DEF Activated
<1>3. Activate(c)
  <2>1. \E d \in Conns :
           \/ \E patch \in Patches : ConfigPatch(d, patch)
           \/ ReloadUnread(d)
           \/ \E q \in Reloads : ReloadBegin(d, q)
           \/ \E q \in SecretReloads : SecretsBegin(d, q)
           \/ \E ok \in SUBSET Refs :
                ResolveFails(d, ok) \/ SecretsDone(d, ok) \/ ReloadResolved(d, ok)
           \/ Activate(d)
    BY <1>2 DEF Next, vars
  <2>2. PICK d \in Conns :
           \/ /\ reader[d] # "activate"
              /\ reader' = reader \/ \E w : reader' = [reader EXCEPT ![d] = w]
           \/ Activate(d)
    BY <2>1 DEF ConfigPatch, ReloadUnread, ReloadBegin, SecretsBegin, ResolveFails,
                SecretsDone, ReloadResolved
  <2>3. CASE Activate(d)
    BY <2>3, <1>1, <1>2 DEF Activate, Shapes
  <2> QED BY <2>2, <2>3, <1>1, <1>2 DEF Shapes
<1>4. \A f \in DOMAIN draft[c] : config'[f] \in {draft[c][f], NoEntry}
  BY <1>1, <1>2, <1>3 DEF Activate, Overlay, Shapes
<1> QED BY <1>1, <1>2, <1>4, ConfigStoreAssumption
        DEF DraftChecked, RawRequired, ConfigStoreAssumption

(* failOnMissing holds for any number of connections: what a strict reload *)
(* makes active contains no required field that is still a reference.      *)
THEOREM StrictReloads == Spec => StrictReloadResolves
<1>1. StrictInv /\ [Next]_vars =>
          [\A c \in Conns : Activated(c) /\ req[c].resolve /\ req[c].strict
              => RawRequired(c) = {}]_vars
  BY ActivatedStrict
<1> QED BY <1>1, StrictInit, StrictStep, PTL DEF Spec, StrictReloadResolves

-----------------------------------------------------------------------------
(* Changes made by any number of connections.                              *)

Stands(v, w) == v \in {w, Resolved(w)}

GivenTyped ==
    /\ intended \in [Fields -> Given \cup {NoEntry}]
    /\ stale \in [Conns -> SUBSET Fields]
    /\ undone \in SUBSET Fields

(* An entry is missing in both or in neither; a draft has none that is.    *)
EntriesAgree ==
    /\ \A f \in Fields : config[f] = NoEntry <=> intended[f] = NoEntry
    /\ \A c \in Conns : reader[c] # "ready" =>
           \A f \in DOMAIN draft[c] : draft[c][f] # NoEntry

(* A draft holds what the file says, or what was configured last of all    *)
(* that is not outdated.                                                   *)
DraftsCurrent ==
    \A c \in Conns : reader[c] # "ready" =>
        IF req[c].fromDisk
        THEN /\ DOMAIN draft[c] = DOMAIN Disk
             /\ \A f \in DOMAIN Disk : Stands(draft[c][f], Disk[f])
        ELSE \A f \in DOMAIN draft[c] \ stale[c] : Stands(draft[c][f], intended[f])

KeptInv ==
    /\ Shapes
    /\ GivenTyped
    /\ EntriesAgree
    /\ PatchesKept
    /\ DraftsCurrent

LEMMA KeptInit == Init => KeptInv
<1> SUFFICES ASSUME Init PROVE KeptInv
  OBVIOUS
<1>1. Shapes /\ EntriesAgree /\ DraftsCurrent
  BY DEF Init, Shapes, EntriesAgree, DraftsCurrent
<1>2. GivenTyped
  BY DEF Init, GivenTyped
<1>3. PatchesKept
  BY DEF Init, PatchesKept
<1> QED BY <1>1, <1>2, <1>3 DEF KeptInv

(* Resolving a value keeps what it stands for: a secret is no reference.   *)
LEMMA StillStands ==
    ASSUME NEW w \in Plain \cup Refs \cup {NoEntry}, NEW v, Stands(v, w), NEW ok \in SUBSET Refs
    PROVE  Stands(IF v \in ok THEN Resolved(v) ELSE v, w)
<1>1. NoEntry \notin Refs
  BY ConfigStoreAssumption DEF ConfigStoreAssumption
<1>2. CASE v = w
  BY <1>2 DEF Stands
<1>3. CASE v # w
  <2>1. v = Resolved(w)
    BY <1>3 DEF Stands
  <2>2. v \notin Refs \/ w = NoEntry
    BY <2>1, ConfigStoreAssumption DEF Resolved, ConfigStoreAssumption
  <2>3. CASE v \notin Refs
    BY <2>1, <2>3 DEF Stands
  <2>4. ~(w = NoEntry /\ v \in ok)
    BY <2>1, ConfigStoreAssumption DEF Resolved, ConfigStoreAssumption
  <2> QED BY <2>1, <2>2, <2>3, <2>4 DEF Stands
<1> QED BY <1>2, <1>3

(* What a patch or a draft is written over.                                *)
LEMMA OverlayIs ==
    ASSUME NEW conf, NEW patch, DOMAIN patch \subseteq Fields
    PROVE  /\ DOMAIN Overlay(conf, patch) = Fields
           /\ \A f \in Fields :
                 Overlay(conf, patch)[f] = IF f \in DOMAIN patch /\ conf[f] # NoEntry
                                           THEN patch[f] ELSE conf[f]
BY DEF Overlay

LEMMA PatchKeeps ==
    ASSUME KeptInv, NEW c \in Conns, NEW patch \in Patches, ConfigPatch(c, patch)
    PROVE  KeptInv'
<1>1. /\ Shapes /\ GivenTyped /\ EntriesAgree /\ PatchesKept /\ DraftsCurrent
  BY DEF KeptInv
<1>2. DOMAIN patch \subseteq Fields /\ \A f \in DOMAIN patch : patch[f] \in Given
  BY DEF Patches
<1>3. NoEntry \notin Given
  BY ConfigStoreAssumption DEF Given, ConfigStoreAssumption
<1>4. /\ reader[c] = "ready" /\ UNCHANGED <<reader, req, draft>>
      /\ config' = Overlay(config, patch) /\ intended' = Overlay(intended, patch)
      /\ undone' = undone \ DOMAIN patch
      /\ \A d \in Conns : stale'[d] = IF reader[d] # "ready" /\ ~req[d].fromDisk
                                      THEN stale[d] \cup DOMAIN patch ELSE stale[d]
      /\ DOMAIN stale' = Conns
  BY DEF ConfigPatch, Outdate
<1>5. \A f \in Fields :
          /\ config'[f] = IF f \in DOMAIN patch /\ config[f] # NoEntry
                          THEN patch[f] ELSE config[f]
          /\ intended'[f] = IF f \in DOMAIN patch /\ intended[f] # NoEntry
                            THEN patch[f] ELSE intended[f]
  BY <1>2, <1>4, OverlayIs
<1>6. DOMAIN intended' = Fields
  BY <1>2, <1>4, OverlayIs
<1>7. GivenTyped'
  <2>1. \A f \in Fields : intended'[f] \in Given \cup {NoEntry}
    BY <1>1, <1>2, <1>5 DEF GivenTyped
  <2>2. intended' \in [Fields -> Given \cup {NoEntry}]
    BY <1>4, <2>1 DEF Overlay
  <2>3. stale' \in [Conns -> SUBSET Fields]
    BY <1>1, <1>2 DEF ConfigPatch, Outdate, GivenTyped
  <2> QED BY <1>1, <1>4, <2>2, <2>3 DEF GivenTyped
<1>8. EntriesAgree'
  BY <1>1, <1>2, <1>3, <1>4, <1>5 DEF EntriesAgree
<1>9. PatchesKept'
  <2> SUFFICES ASSUME NEW f \in Fields \ undone' PROVE config'[f] \in {intended'[f], Resolved(intended'[f])}
    BY DEF PatchesKept
  <2>1. CASE f \in DOMAIN patch
    BY <1>1, <1>5, <2>1 DEF EntriesAgree
  <2>2. CASE f \notin DOMAIN patch
    BY <1>1, <1>4, <1>5, <2>2 DEF PatchesKept
  <2> QED BY <2>1, <2>2
<1>10. DraftsCurrent'
  <2> SUFFICES ASSUME NEW d \in Conns, reader[d] # "ready"
               PROVE  IF req[d].fromDisk
                      THEN /\ DOMAIN draft[d] = DOMAIN Disk
                           /\ \A f \in DOMAIN Disk : Stands(draft[d][f], Disk[f])
                      ELSE \A f \in DOMAIN draft[d] \ stale'[d] : Stands(draft[d][f], intended'[f])
    BY <1>4 DEF DraftsCurrent
  <2>1. CASE req[d].fromDisk
    BY <1>1, <2>1 DEF DraftsCurrent
  <2>2. CASE ~req[d].fromDisk
    <3>1. stale'[d] = stale[d] \cup DOMAIN patch /\ DOMAIN draft[d] \subseteq Fields
      BY <1>1, <1>4, <2>2 DEF Shapes
    <3>2. \A f \in DOMAIN draft[d] \ stale[d] : Stands(draft[d][f], intended[f])
      BY <1>1, <2>2 DEF DraftsCurrent
    <3> QED BY <1>5, <2>2, <3>1, <3>2
  <2> QED BY <2>1, <2>2
<1>11. Shapes'
  BY <1>1, <1>4 DEF Shapes
<1> QED BY <1>7, <1>8, <1>9, <1>10, <1>11 DEF KeptInv

LEMMA BeginKeeps ==
    ASSUME KeptInv, NEW c \in Conns, NEW q,
           ReloadBegin(c, q) \/ (SecretsBegin(c, q) /\ ~q.fromDisk)
    PROVE  KeptInv'
<1>1. /\ Shapes /\ GivenTyped /\ EntriesAgree /\ PatchesKept /\ DraftsCurrent
  BY DEF KeptInv
<1>2. /\ req' = [req EXCEPT ![c] = q] /\ UNCHANGED <<config, intended, undone>>
      /\ draft' = [draft EXCEPT ![c] = IF q.fromDisk THEN Disk ELSE Snapshot]
      /\ stale' = [stale EXCEPT ![c] = undone]
      /\ \/ reader' = [reader EXCEPT ![c] = "resolve"]
         \/ reader' = [reader EXCEPT ![c] = "activate"]
  BY DEF ReloadBegin, SecretsBegin
<1>3. /\ DOMAIN Disk \subseteq Fields /\ \A f \in DOMAIN Disk : Disk[f] # NoEntry
      /\ DOMAIN Snapshot \subseteq Fields
      /\ \A f \in DOMAIN Snapshot : Snapshot[f] = config[f] /\ config[f] # NoEntry
  BY ConfigStoreAssumption DEF ConfigStoreAssumption, Snapshot, Restrict
<1>4. /\ req'[c] = q /\ draft'[c] = (IF q.fromDisk THEN Disk ELSE Snapshot)
      /\ stale'[c] = undone
      /\ \A d \in Conns \ {c} : /\ req'[d] = req[d] /\ draft'[d] = draft[d]
                                /\ stale'[d] = stale[d] /\ reader'[d] = reader[d]
  BY <1>1, <1>2 DEF Shapes, GivenTyped
<1>5. Shapes'
  BY <1>1, <1>2, <1>3 DEF Shapes
<1>6. GivenTyped' /\ PatchesKept'
  BY <1>1, <1>2 DEF GivenTyped, PatchesKept
<1>7. EntriesAgree'
  <2>1. \A f \in DOMAIN draft'[c] : draft'[c][f] # NoEntry
    BY <1>3, <1>4
  <2> QED BY <1>1, <1>2, <1>4, <2>1 DEF EntriesAgree
<1>8. DraftsCurrent'
  <2>1. IF req'[c].fromDisk
        THEN /\ DOMAIN draft'[c] = DOMAIN Disk
             /\ \A f \in DOMAIN Disk : Stands(draft'[c][f], Disk[f])
        ELSE \A f \in DOMAIN draft'[c] \ stale'[c] : Stands(draft'[c][f], intended'[f])
    <3>1. CASE q.fromDisk
      BY <1>4, <3>1 DEF Stands
    <3>2. CASE ~q.fromDisk
      BY <1>1, <1>2, <1>3, <1>4, <3>2 DEF Stands, PatchesKept
    <3> QED BY <3>1, <3>2
  <2>2. \A d \in Conns \ {c} : reader'[d] # "ready" =>
            IF req'[d].fromDisk
            THEN /\ DOMAIN draft'[d] = DOMAIN Disk
                 /\ \A f \in DOMAIN Disk : Stands(draft'[d][f], Disk[f])
            ELSE \A f \in DOMAIN draft'[d] \ stale'[d] : Stands(draft'[d][f], intended'[f])
    BY <1>1, <1>2, <1>4 DEF DraftsCurrent
  <2> QED BY <2>1, <2>2 DEF DraftsCurrent
<1> QED BY <1>5, <1>6, <1>7, <1>8 DEF KeptInv

LEMMA ResolvedKeeps ==
    ASSUME KeptInv, NEW c \in Conns, NEW ok \in SUBSET Refs, ReloadResolved(c, ok)
    PROVE  KeptInv'
<1>1. /\ Shapes /\ GivenTyped /\ EntriesAgree /\ PatchesKept /\ DraftsCurrent
  BY DEF KeptInv
<1>2. /\ reader[c] = "resolve" /\ UNCHANGED <<config, req, intended, stale, undone>>
      /\ draft' = [draft EXCEPT ![c] = Substituted(@, ok)]
      /\ reader' = [reader EXCEPT ![c] = "activate"]
  BY DEF ReloadResolved, given
<1>3. /\ DOMAIN Substituted(draft[c], ok) = DOMAIN draft[c]
      /\ \A f \in DOMAIN draft[c] :
            Substituted(draft[c], ok)[f] = IF draft[c][f] \in ok THEN Resolved(draft[c][f])
                                                                ELSE draft[c][f]
  BY DEF Substituted
<1>4. /\ draft'[c] = Substituted(draft[c], ok) /\ DOMAIN draft[c] \subseteq Fields
      /\ \A d \in Conns \ {c} : draft'[d] = draft[d] /\ reader'[d] = reader[d]
  BY <1>1, <1>2 DEF Shapes
<1>5. Shapes'
  BY <1>1, <1>2, <1>3 DEF Shapes
<1>6. GivenTyped' /\ PatchesKept'
  BY <1>1, <1>2 DEF GivenTyped, PatchesKept
<1>7. EntriesAgree'
  <2>1. \A v \in Refs : Resolved(v) # NoEntry
    BY ConfigStoreAssumption DEF Resolved, ConfigStoreAssumption
  <2>2. \A f \in DOMAIN draft'[c] : draft'[c][f] # NoEntry
    BY <1>1, <1>2, <1>3, <1>4, <2>1 DEF EntriesAgree
  <2> QED BY <1>1, <1>2, <1>4, <2>2 DEF EntriesAgree
<1>8. DraftsCurrent'
  <2>1. CASE req[c].fromDisk
    <3>1. \A f \in DOMAIN Disk : Disk[f] \in Plain \cup Refs
      BY ConfigStoreAssumption DEF ConfigStoreAssumption
    <3>2. DOMAIN draft[c] = DOMAIN Disk /\ \A f \in DOMAIN Disk : Stands(draft[c][f], Disk[f])
      BY <1>1, <1>2, <2>1 DEF DraftsCurrent
    <3>3. \A f \in DOMAIN Disk : Stands(draft'[c][f], Disk[f])
      BY <1>3, <1>4, <3>1, <3>2, StillStands
    <3> QED BY <1>1, <1>2, <1>3, <1>4, <2>1, <3>2, <3>3 DEF DraftsCurrent
  <2>2. CASE ~req[c].fromDisk
    <3>1. \A f \in DOMAIN draft[c] \ stale[c] : Stands(draft[c][f], intended[f])
      BY <1>1, <1>2, <2>2 DEF DraftsCurrent
    <3>2. \A f \in DOMAIN draft[c] : intended[f] \in Plain \cup Refs \cup {NoEntry}
      BY <1>1, <1>4 DEF GivenTyped, Given
    <3>3. \A f \in DOMAIN draft[c] \ stale[c] : Stands(draft'[c][f], intended[f])
      BY <1>3, <1>4, <3>1, <3>2, StillStands
    <3> QED BY <1>1, <1>2, <1>3, <1>4, <2>2, <3>3 DEF DraftsCurrent
  <2> QED BY <2>1, <2>2
<1> QED BY <1>5, <1>6, <1>7, <1>8 DEF KeptInv

LEMMA ActivateKeeps ==
    ASSUME KeptInv, NEW c \in Conns, Activate(c)
    PROVE  KeptInv'
<1>1. /\ Shapes /\ GivenTyped /\ EntriesAgree /\ PatchesKept /\ DraftsCurrent
  BY DEF KeptInv
<1>2. /\ reader[c] = "activate" /\ UNCHANGED <<req, draft>>
      /\ config' = Overlay(config, draft[c])
      /\ reader' = [reader EXCEPT ![c] = "ready"]
  BY DEF Activate
<1>3. /\ DOMAIN draft[c] \subseteq Fields /\ reader'[c] = "ready"
      /\ \A f \in DOMAIN draft[c] : draft[c][f] # NoEntry
      /\ \A d \in Conns \ {c} : reader'[d] = reader[d]
  BY <1>1, <1>2 DEF Shapes, EntriesAgree
<1>4. \A f \in Fields : config'[f] = IF f \in DOMAIN draft[c] /\ config[f] # NoEntry
                                     THEN draft[c][f] ELSE config[f]
  BY <1>2, <1>3, OverlayIs
<1>5. Shapes'
  BY <1>1, <1>2 DEF Shapes
<1>6. CASE req[c].fromDisk
  <2>1. /\ intended' = Overlay(intended, Disk) /\ undone' = undone \ DOMAIN Disk
        /\ \A d \in Conns : stale'[d] = IF reader[d] # "ready" /\ ~req[d].fromDisk
                                        THEN stale[d] \cup DOMAIN Disk ELSE stale[d]
        /\ DOMAIN stale' = Conns
    BY <1>6 DEF Activate, Outdate
  <2>2. /\ DOMAIN Disk \subseteq Fields
        /\ \A f \in DOMAIN Disk : Disk[f] \in Given /\ Disk[f] # NoEntry
        /\ DOMAIN draft[c] = DOMAIN Disk
        /\ \A f \in DOMAIN Disk : Stands(draft[c][f], Disk[f])
    BY <1>1, <1>2, <1>6, ConfigStoreAssumption DEF DraftsCurrent, Given, ConfigStoreAssumption
  <2>3. \A f \in Fields : intended'[f] = IF f \in DOMAIN Disk /\ intended[f] # NoEntry
                                         THEN Disk[f] ELSE intended[f]
    BY <2>1, <2>2, OverlayIs
  <2>4. GivenTyped'
    <3>1. \A f \in Fields : intended'[f] \in Given \cup {NoEntry}
      BY <1>1, <2>2, <2>3 DEF GivenTyped
    <3>2. intended' \in [Fields -> Given \cup {NoEntry}]
      BY <2>1, <3>1 DEF Overlay
    <3>3. stale' \in [Conns -> SUBSET Fields]
      BY <1>1, <1>6, <2>2 DEF Activate, Outdate, GivenTyped
    <3> QED BY <1>1, <2>1, <3>2, <3>3 DEF GivenTyped
  <2>5. EntriesAgree'
    <3>1. \A f \in Fields : config'[f] = NoEntry <=> intended'[f] = NoEntry
      BY <1>1, <1>3, <1>4, <2>2, <2>3 DEF EntriesAgree
    <3> QED BY <1>1, <1>2, <1>3, <3>1 DEF EntriesAgree
  <2>6. PatchesKept'
    <3> SUFFICES ASSUME NEW f \in Fields \ undone'
                 PROVE  config'[f] \in {intended'[f], Resolved(intended'[f])}
      BY DEF PatchesKept
    <3>1. CASE f \in DOMAIN Disk
      BY <1>1, <1>4, <2>2, <2>3, <3>1 DEF EntriesAgree, Stands
    <3>2. CASE f \notin DOMAIN Disk
      BY <1>1, <1>4, <2>1, <2>2, <2>3, <3>2 DEF PatchesKept
    <3> QED BY <3>1, <3>2
  <2>7. DraftsCurrent'
    <3> SUFFICES ASSUME NEW d \in Conns \ {c}, reader[d] # "ready"
                 PROVE  IF req[d].fromDisk
                        THEN /\ DOMAIN draft[d] = DOMAIN Disk
                             /\ \A f \in DOMAIN Disk : Stands(draft[d][f], Disk[f])
                        ELSE \A f \in DOMAIN draft[d] \ stale'[d] :
                                Stands(draft[d][f], intended'[f])
      BY <1>2, <1>3 DEF DraftsCurrent
    <3>1. CASE req[d].fromDisk
      BY <1>1, <3>1 DEF DraftsCurrent
    <3>2. CASE ~req[d].fromDisk
      <4>1. stale'[d] = stale[d] \cup DOMAIN Disk /\ DOMAIN draft[d] \subseteq Fields
        BY <1>1, <2>1, <3>2 DEF Shapes
      <4>2. \A f \in DOMAIN draft[d] \ stale[d] : Stands(draft[d][f], intended[f])
        BY <1>1, <3>2 DEF DraftsCurrent
      <4> QED BY <2>3, <3>2, <4>1, <4>2
    <3> QED BY <3>1, <3>2
  <2> QED BY <1>5, <2>4, <2>5, <2>6, <2>7 DEF KeptInv
<1>7. CASE ~req[c].fromDisk
  <2>1. /\ UNCHANGED <<intended, stale>>
        /\ undone' = (undone \ DOMAIN draft[c]) \cup (stale[c] \cap DOMAIN draft[c])
    BY <1>7 DEF Activate
  <2>2. \A f \in DOMAIN draft[c] \ stale[c] : Stands(draft[c][f], intended[f])
    BY <1>1, <1>2, <1>7 DEF DraftsCurrent
  <2>3. GivenTyped'
    BY <1>1, <1>3, <2>1 DEF GivenTyped
  <2>4. EntriesAgree'
    <3>1. \A f \in Fields : config'[f] = NoEntry <=> intended'[f] = NoEntry
      BY <1>1, <1>3, <1>4, <2>1 DEF EntriesAgree
    <3> QED BY <1>1, <1>2, <1>3, <3>1 DEF EntriesAgree
  <2>5. PatchesKept'
    <3> SUFFICES ASSUME NEW f \in Fields \ undone'
                 PROVE  config'[f] \in {intended[f], Resolved(intended[f])}
      BY <2>1 DEF PatchesKept
    <3>1. CASE f \in DOMAIN draft[c]
      <4>1. f \notin stale[c]
        BY <2>1, <3>1
      <4>2. CASE config[f] = NoEntry
        BY <1>1, <1>4, <4>2 DEF EntriesAgree
      <4>3. CASE config[f] # NoEntry
        BY <1>4, <2>2, <3>1, <4>1, <4>3 DEF Stands
      <4> QED BY <4>2, <4>3
    <3>2. CASE f \notin DOMAIN draft[c]
      BY <1>1, <1>4, <2>1, <3>2 DEF PatchesKept
    <3> QED BY <3>1, <3>2
  <2>6. DraftsCurrent'
    BY <1>1, <1>2, <1>3, <2>1 DEF DraftsCurrent
  <2> QED BY <1>5, <2>3, <2>4, <2>5, <2>6 DEF KeptInv
<1> QED BY <1>6, <1>7

LEMMA KeptStep == KeptInv /\ [Next]_vars => KeptInv'
<1> SUFFICES ASSUME KeptInv, [Next]_vars PROVE KeptInv'
  OBVIOUS
<1>1. CASE UNCHANGED <<config, reader, req, draft, intended, stale, undone>>
  BY <1>1 DEF KeptInv, Shapes, GivenTyped, EntriesAgree, PatchesKept, DraftsCurrent
<1>2. CASE UNCHANGED vars
  BY <1>1, <1>2 DEF vars, given
<1>3. ASSUME NEW c \in Conns, \E patch \in Patches : ConfigPatch(c, patch)
      PROVE  KeptInv'
  BY <1>3, PatchKeeps
<1>4. ASSUME NEW c \in Conns, ReloadUnread(c)
      PROVE  KeptInv'
  BY <1>1, <1>4 DEF ReloadUnread, given
<1>5. ASSUME NEW c \in Conns, \E q \in Reloads : ReloadBegin(c, q)
      PROVE  KeptInv'
  BY <1>5, BeginKeeps
<1>6. ASSUME NEW c \in Conns, \E q \in SecretReloads : SecretsBegin(c, q)
      PROVE  KeptInv'
  <2> PICK q \in SecretReloads : SecretsBegin(c, q) BY <1>6
  <2>1. ~q.fromDisk
    BY DEF SecretReloads
  <2> QED BY <2>1, BeginKeeps
<1>7. ASSUME NEW c \in Conns, NEW ok \in SUBSET Refs,
             ResolveFails(c, ok) \/ SecretsDone(c, ok)
      PROVE  KeptInv'
  <2>1. /\ UNCHANGED <<config, req, intended, stale, undone>>
        /\ reader' = [reader EXCEPT ![c] = "ready"]
        /\ UNCHANGED draft \/ \E w : draft' = [draft EXCEPT ![c] = w]
    BY <1>7 DEF ResolveFails, SecretsDone, given
  <2>2. /\ reader'[c] = "ready"
        /\ \A d \in Conns \ {c} : reader'[d] = reader[d] /\ draft'[d] = draft[d]
        /\ Shapes'
    BY <2>1 DEF KeptInv, Shapes
  <2>3. EntriesAgree' /\ DraftsCurrent'
    BY <2>1, <2>2 DEF KeptInv, EntriesAgree, DraftsCurrent
  <2> QED BY <2>1, <2>2, <2>3 DEF KeptInv, GivenTyped, PatchesKept
<1>8. ASSUME NEW c \in Conns, NEW ok \in SUBSET Refs, ReloadResolved(c, ok)
      PROVE  KeptInv'
  BY <1>8, ResolvedKeeps
<1>9. ASSUME NEW c \in Conns, Activate(c)
      PROVE  KeptInv'
  BY <1>9, ActivateKeeps
<1> QED BY <1>2, <1>3, <1>4, <1>5, <1>6, <1>7, <1>8, <1>9 DEF Next

(* However many connections patch and reload at once: a field that no      *)
(* reload has written an outdated copy over holds what was configured      *)
(* last, or the secret that refers to.                                     *)
THEOREM OnlyOutdatedCopiesUndo == Spec => []PatchesKept
<1>1. KeptInv => PatchesKept
  BY DEF KeptInv
<1> QED BY <1>1, KeptInit, KeptStep, PTL DEF Spec

(* No draft is outdated, and no change is undone.                          *)
NothingUndone ==
    /\ stale \in [Conns -> SUBSET Fields]
    /\ undone = {}
    /\ \A c \in Conns : reader[c] # "ready" /\ ~req[c].fromDisk => stale[c] = {}

LEMMA NothingUndoneStep ==
    ASSUME KeptInv, NothingUndone, \A c, d \in Conns : c = d, [Next]_vars
    PROVE  NothingUndone'
<1>0. Shapes /\ KeptInv'
  BY KeptStep DEF KeptInv
<1>1. stale' \in [Conns -> SUBSET Fields]
  BY <1>0 DEF KeptInv, GivenTyped
<1>2. CASE UNCHANGED <<reader, req, stale, undone>>
  BY <1>2 DEF NothingUndone
<1>3. CASE UNCHANGED vars
  BY <1>2, <1>3 DEF vars, given
<1>4. ASSUME NEW c \in Conns, NEW patch \in Patches, ConfigPatch(c, patch)
      PROVE  NothingUndone'
  <2>1. \A d \in Conns : reader[d] = "ready"
    BY <1>4 DEF ConfigPatch
  <2> QED BY <1>1, <1>4, <2>1 DEF ConfigPatch, NothingUndone
<1>5. ASSUME NEW c \in Conns, ReloadUnread(c)
      PROVE  NothingUndone'
  BY <1>2, <1>5 DEF ReloadUnread, given
<1>6. ASSUME NEW c \in Conns, NEW q, ReloadBegin(c, q) \/ SecretsBegin(c, q)
      PROVE  NothingUndone'
  <2>1. stale' = [stale EXCEPT ![c] = undone] /\ undone' = undone
    BY <1>6 DEF ReloadBegin, SecretsBegin
  <2> QED BY <1>1, <2>1 DEF NothingUndone
<1>7. ASSUME NEW c \in Conns, NEW ok \in SUBSET Refs,
             ResolveFails(c, ok) \/ SecretsDone(c, ok) \/ ReloadResolved(c, ok)
      PROVE  NothingUndone'
  <2>1. reader[c] = "resolve" /\ UNCHANGED <<req, stale, undone>>
    BY <1>7 DEF ResolveFails, SecretsDone, ReloadResolved, given
  <2> QED BY <1>1, <2>1 DEF NothingUndone
<1>8. ASSUME NEW c \in Conns, Activate(c)
      PROVE  NothingUndone'
  <2>1. reader[c] = "activate" /\ \A d \in Conns : reader'[d] = "ready"
    BY <1>0, <1>8 DEF Activate, Shapes
  <2>2. undone' = {}
    BY <1>8, <2>1 DEF Activate, NothingUndone
  <2> QED BY <1>1, <2>1, <2>2 DEF NothingUndone
<1> QED BY <1>3, <1>4, <1>5, <1>6, <1>7, <1>8 DEF Next

(* With one connection to change it, nothing is undone: neither a reload   *)
(* nor secrets.reload takes a patch back.                                  *)
THEOREM OneWriterKeepsPatches ==
    ASSUME \A c, d \in Conns : c = d
    PROVE  Spec => [](PatchesKept /\ undone = {})
<1> \A c, d \in Conns : c = d OBVIOUS
<1>1. Init => NothingUndone
  BY DEF Init, NothingUndone
<1>2. KeptInv /\ NothingUndone /\ [Next]_vars => NothingUndone'
  BY NothingUndoneStep
<1>3. KeptInv /\ NothingUndone => PatchesKept /\ undone = {}
  BY DEF KeptInv, NothingUndone
<1> QED BY <1>1, <1>2, <1>3, KeptInit, KeptStep, PTL DEF Spec

-----------------------------------------------------------------------------
(* The inductive invariant.                                                *)

Typed ==
    /\ sessions \in [Keys -> Runs \cup {NoHandle}]
    /\ history \in [Runs -> Seq(Message)]
    /\ step \in [Runs -> {"idle", "insert", "held", "thinking", "done"}]
    /\ key \in [Runs -> Keys \cup {NoKey}]
    /\ handle \in [Runs -> Runs \cup {NoHandle}]
    /\ known \in [Runs -> Seq(Message)]
    /\ void \subseteq Runs

(* A run has its key once it has begun, and works on a handle of its key.  *)
HandlesOfOwnKey ==
    \A r \in Runs :
        /\ step[r] = "idle" => key[r] = NoKey
        /\ step[r] # "idle" => key[r] \in Keys
        /\ step[r] \in {"held", "thinking"} => handle[r] \in Runs /\ key[handle[r]] = key[r]

(* The handle a key leads to was made by a run on that key.                *)
EntriesOfOwnKey == \A k \in Keys : sessions[k] # NoHandle => key[sessions[k]] = k

SessionInv == Typed /\ HandlesOfOwnKey /\ EntriesOfOwnKey /\ ContextIsPrefix

-----------------------------------------------------------------------------
(* A history is a beginning of itself, and stays one of a longer history.  *)
LEMMA PrefixOfItself ==
    \A s \in Seq(Message) : IsPrefix(s, s)
BY DEF IsPrefix

LEMMA PrefixOfLonger ==
    \A s, t \in Seq(Message) : \A m \in Message :
        IsPrefix(s, t) => IsPrefix(s, Append(t, m))
<1> TAKE s, t \in Seq(Message)
<1> TAKE m \in Message
<1> HAVE IsPrefix(s, t)
<1>1. Len(s) <= Len(t) /\ SubSeq(s, 1, Len(s)) = SubSeq(t, 1, Len(s))
  BY DEF IsPrefix
<1>2. /\ Append(t, m) \in Seq(Message) /\ Len(Append(t, m)) = Len(t) + 1
      /\ \A i \in 1 .. Len(t) : Append(t, m)[i] = t[i]
  BY AppendProperties
<1>3. /\ SubSeq(t, 1, Len(s)) \in Seq(Message) /\ Len(SubSeq(t, 1, Len(s))) = Len(s)
      /\ \A i \in 1 .. Len(s) : SubSeq(t, 1, Len(s))[i] = t[i]
  BY <1>1, SubSeqProperties
<1>4. /\ SubSeq(Append(t, m), 1, Len(s)) \in Seq(Message)
      /\ Len(SubSeq(Append(t, m), 1, Len(s))) = Len(s)
      /\ \A i \in 1 .. Len(s) : SubSeq(Append(t, m), 1, Len(s))[i] = Append(t, m)[i]
  BY <1>1, <1>2, SubSeqProperties
<1>5. SubSeq(Append(t, m), 1, Len(s)) = SubSeq(t, 1, Len(s))
  BY <1>1, <1>2, <1>3, <1>4, SeqEqual
<1> QED BY <1>1, <1>2, <1>5 DEF IsPrefix

-----------------------------------------------------------------------------
(* The invariant holds at the start and is preserved, action by action.    *)

LEMMA InitInv == SessionInit => SessionInv
BY SessionStoreAssumption
DEF SessionInit, SessionInv, Typed, HandlesOfOwnKey, EntriesOfOwnKey, ContextIsPrefix,
    SessionStoreAssumption

(* A run takes the handle it finds, or begins to build one.                *)
LEMMA BeginInv ==
    ASSUME SessionInv, NEW r \in Runs, NEW k \in Keys, Found(r, k) \/ Missing(r, k)
    PROVE  SessionInv'
<1>1. Typed /\ HandlesOfOwnKey /\ EntriesOfOwnKey /\ ContextIsPrefix
  BY DEF SessionInv
<1>2. /\ step[r] = "idle" /\ key[r] = NoKey /\ key' = [key EXCEPT ![r] = k]
      /\ step' = [step EXCEPT ![r] = "held"] \/ step' = [step EXCEPT ![r] = "insert"]
      /\ UNCHANGED <<sessions, history, known, void>>
      /\ k # NoKey
  BY <1>1, SessionStoreAssumption DEF Found, Missing, HandlesOfOwnKey, SessionStoreAssumption
<1>3. /\ \A q \in Runs : q # r => key'[q] = key[q] /\ step'[q] = step[q] /\ handle'[q] = handle[q]
      /\ key'[r] = k /\ step'[r] \in {"held", "insert"}
  BY <1>1, <1>2 DEF Typed, Found, Missing
<1>4. \A h \in Runs : key[h] \in Keys => h # r
  BY <1>2, SessionStoreAssumption DEF SessionStoreAssumption
<1>5. Typed'
  BY <1>1, <1>2 DEF Typed, Found, Missing
<1>6. step'[r] = "held" =>
          handle'[r] \in Runs /\ handle'[r] = sessions[k] /\ sessions[k] # NoHandle
  BY <1>1, <1>2, <1>3 DEF Typed, Found, Missing
<1>7. EntriesOfOwnKey'
  <2> SUFFICES ASSUME NEW l \in Keys, sessions'[l] # NoHandle
               PROVE  key'[sessions'[l]] = l
    BY DEF EntriesOfOwnKey
  <2>1. key[sessions[l]] = l /\ sessions[l] \in Runs
    BY <1>1, <1>2 DEF EntriesOfOwnKey, Typed
  <2> QED BY <2>1, <1>2, <1>3, <1>4
<1>8. HandlesOfOwnKey'
  <2> SUFFICES ASSUME NEW q \in Runs
               PROVE  /\ step'[q] = "idle" => key'[q] = NoKey
                      /\ step'[q] # "idle" => key'[q] \in Keys
                      /\ step'[q] \in {"held", "thinking"} =>
                             handle'[q] \in Runs /\ key'[handle'[q]] = key'[q]
    BY DEF HandlesOfOwnKey
  <2>1. CASE q = r
    <3>1. sessions[k] # NoHandle => key'[sessions[k]] = k
      BY <1>2, <1>7 DEF EntriesOfOwnKey
    <3> QED BY <3>1, <2>1, <1>3, <1>6
  <2>2. CASE q # r
    <3>1. step[q] \in {"held", "thinking"} =>
             handle[q] \in Runs /\ key[handle[q]] = key[q] /\ key[q] \in Keys
      BY <1>1 DEF HandlesOfOwnKey
    <3>2. step[q] \in {"held", "thinking"} => key'[handle[q]] = key[q]
      BY <3>1, <1>3, <1>4
    <3> QED BY <3>1, <3>2, <2>2, <1>1, <1>3 DEF HandlesOfOwnKey
  <2> QED BY <2>1, <2>2
<1>9. ContextIsPrefix'
  <2>1. \A q \in Runs : step'[q] = "thinking" => q # r
    BY <1>3
  <2> QED BY <2>1, <1>1, <1>2, <1>3 DEF ContextIsPrefix
<1> QED BY <1>5, <1>7, <1>8, <1>9 DEF SessionInv

(* A run inserts its handle, reads the history, or ends.                   *)
LEMMA WorkInv ==
    ASSUME SessionInv, NEW r \in Runs,
           Insert(r) \/ ReadHistory(r) \/ AddMessage(r) \/ RunGivesUp(r)
    PROVE  SessionInv'
<1>1. Typed /\ HandlesOfOwnKey /\ EntriesOfOwnKey /\ ContextIsPrefix
  BY DEF SessionInv
<1>2. UNCHANGED <<key, void>>
  BY DEF Insert, ReadHistory, AddMessage, RunGivesUp
<1>3. CASE Insert(r)
  <2>1. step[r] = "insert" /\ key[r] \in Keys
    BY <1>1, <1>3 DEF Insert, HandlesOfOwnKey
  <2>2. /\ sessions' = [sessions EXCEPT ![key[r]] = r]
        /\ handle' = [handle EXCEPT ![r] = r]
        /\ step' = [step EXCEPT ![r] = "held"]
        /\ UNCHANGED <<history, known>>
    BY <1>3 DEF Insert
  <2>3. Typed'
    BY <2>1, <2>2, <1>1, <1>2 DEF Typed
  <2>4. HandlesOfOwnKey'
    BY <2>1, <2>2, <1>1, <1>2 DEF HandlesOfOwnKey, Typed
  <2>5. EntriesOfOwnKey'
    BY <2>1, <2>2, <1>1, <1>2 DEF EntriesOfOwnKey, Typed
  <2>6. ContextIsPrefix'
    BY <2>1, <2>2, <1>1, <1>2 DEF ContextIsPrefix, Typed
  <2> QED BY <2>3, <2>4, <2>5, <2>6 DEF SessionInv
<1>4. CASE ReadHistory(r)
  <2>1. /\ step[r] = "held" /\ handle[r] \in Runs
        /\ known' = [known EXCEPT ![r] = history[handle[r]]]
        /\ step' = [step EXCEPT ![r] = "thinking"]
        /\ UNCHANGED <<sessions, history, handle>>
    BY <1>1, <1>4 DEF ReadHistory, HandlesOfOwnKey
  <2>2. history[handle[r]] \in Seq(Message)
    BY <2>1, <1>1 DEF Typed
  <2>3. Typed'
    BY <2>1, <2>2, <1>1, <1>2 DEF Typed
  <2>4. HandlesOfOwnKey' /\ EntriesOfOwnKey'
    BY <2>1, <1>1, <1>2 DEF HandlesOfOwnKey, EntriesOfOwnKey, Typed
  <2>5. ContextIsPrefix'
    <3>1. IsPrefix(history[handle[r]], history[handle[r]])
      BY <2>2, PrefixOfItself
    <3> QED BY <3>1, <2>1, <1>1, <1>2 DEF ContextIsPrefix, Typed
  <2> QED BY <2>3, <2>4, <2>5 DEF SessionInv
<1>5. CASE AddMessage(r)
  <2>1. /\ step[r] = "thinking" /\ handle[r] \in Runs
        /\ history' = [history EXCEPT ![handle[r]] = Append(@, AnswerOf(r))]
        /\ step' = [step EXCEPT ![r] = "done"]
        /\ UNCHANGED <<sessions, handle, known>>
    BY <1>1, <1>5 DEF AddMessage, HandlesOfOwnKey
  <2>2. AnswerOf(r) \in Message /\ history[handle[r]] \in Seq(Message)
    BY <2>1, <1>1 DEF Typed, Message
  <2>3. Append(history[handle[r]], AnswerOf(r)) \in Seq(Message)
    BY <2>2, AppendProperties
  <2>4. Typed'
    BY <2>1, <2>3, <1>1, <1>2 DEF Typed
  <2>5. HandlesOfOwnKey' /\ EntriesOfOwnKey'
    BY <2>1, <1>1, <1>2 DEF HandlesOfOwnKey, EntriesOfOwnKey, Typed
  <2>6. ContextIsPrefix'
    <3> SUFFICES ASSUME NEW q \in Runs, step'[q] = "thinking", q \notin void'
                 PROVE  IsPrefix(known'[q], history'[handle'[q]])
      BY DEF ContextIsPrefix
    <3>1. /\ step[q] = "thinking" /\ handle[q] \in Runs /\ known[q] \in Seq(Message)
          /\ known'[q] = known[q] /\ handle'[q] = handle[q]
          /\ IsPrefix(known[q], history[handle[q]])
      BY <2>1, <1>1, <1>2 DEF Typed, HandlesOfOwnKey, ContextIsPrefix
    <3>2. CASE handle[q] = handle[r]
      <4>1. history'[handle[q]] = Append(history[handle[q]], AnswerOf(r))
        BY <3>1, <3>2, <2>1, <1>1 DEF Typed
      <4> QED BY <4>1, <3>1, <3>2, <2>2, PrefixOfLonger
    <3>3. CASE handle[q] # handle[r]
      <4>1. history'[handle[q]] = history[handle[q]]
        BY <3>1, <3>3, <2>1, <1>1 DEF Typed
      <4> QED BY <4>1, <3>1
    <3> QED BY <3>2, <3>3
  <2> QED BY <2>4, <2>5, <2>6 DEF SessionInv
<1>6. CASE RunGivesUp(r)
  <2>1. /\ step[r] = "thinking" /\ step' = [step EXCEPT ![r] = "done"]
        /\ UNCHANGED <<sessions, history, handle, known>>
    BY <1>6 DEF RunGivesUp
  <2>2. Typed' /\ HandlesOfOwnKey' /\ EntriesOfOwnKey' /\ ContextIsPrefix'
    BY <2>1, <1>1, <1>2 DEF Typed, HandlesOfOwnKey, EntriesOfOwnKey, ContextIsPrefix
  <2> QED BY <2>2 DEF SessionInv
<1> QED BY <1>3, <1>4, <1>5, <1>6

(* A reset empties one history, a delete forgets one entry: whoever works  *)
(* on that key is counted out.                                             *)
LEMMA RequestInv ==
    ASSUME SessionInv, NEW k \in Keys,
           SessionsReset(k) \/ SessionsDelete(k) \/ SessionsPatch(k)
    PROVE  SessionInv'
<1>1. Typed /\ HandlesOfOwnKey /\ EntriesOfOwnKey /\ ContextIsPrefix
  BY DEF SessionInv
<1>2. UNCHANGED <<step, key, handle, known>>
  BY DEF SessionsReset, SessionsDelete, SessionsPatch
<1>3. CASE SessionsReset(k)
  <2>1. /\ sessions[k] \in Runs /\ key[sessions[k]] = k
        /\ history' = [history EXCEPT ![sessions[k]] = <<>>]
        /\ void' = void \cup Begun(k)
        /\ UNCHANGED sessions
    BY <1>1, <1>3 DEF SessionsReset, ResetSession, Typed, EntriesOfOwnKey
  <2>2. Typed'
    BY <2>1, <1>1, <1>2 DEF Typed, Begun
  <2>3. HandlesOfOwnKey' /\ EntriesOfOwnKey'
    BY <2>1, <1>1, <1>2 DEF HandlesOfOwnKey, EntriesOfOwnKey
  <2>4. ContextIsPrefix'
    <3> SUFFICES ASSUME NEW q \in Runs, step[q] = "thinking", q \notin void'
                 PROVE  IsPrefix(known[q], history'[handle[q]])
      BY <1>2 DEF ContextIsPrefix
    <3>1. key[q] # k /\ handle[q] \in Runs /\ key[handle[q]] = key[q]
      BY <2>1, <1>1 DEF Begun, HandlesOfOwnKey
    <3>2. history'[handle[q]] = history[handle[q]]
      BY <3>1, <2>1, <1>1 DEF Typed
    <3> QED BY <3>2, <2>1, <1>1 DEF ContextIsPrefix
  <2> QED BY <2>2, <2>3, <2>4 DEF SessionInv
<1>4. CASE SessionsDelete(k)
  <2>1. /\ sessions' = [sessions EXCEPT ![k] = NoHandle]
        /\ void' = void \cup Begun(k)
        /\ UNCHANGED history
    BY <1>4 DEF SessionsDelete, DeleteSession
  <2>2. Typed'
    BY <2>1, <1>1, <1>2 DEF Typed, Begun
  <2>3. HandlesOfOwnKey' /\ ContextIsPrefix'
    BY <2>1, <1>1, <1>2 DEF HandlesOfOwnKey, ContextIsPrefix
  <2>4. EntriesOfOwnKey'
    BY <2>1, <1>1, <1>2 DEF EntriesOfOwnKey, Typed
  <2> QED BY <2>2, <2>3, <2>4 DEF SessionInv
<1>5. CASE SessionsPatch(k)
  <2>1. UNCHANGED <<sessions, history, void>>
    BY <1>5 DEF SessionsPatch, PatchSession
  <2>2. Typed' /\ HandlesOfOwnKey' /\ EntriesOfOwnKey' /\ ContextIsPrefix'
    BY <2>1, <1>1, <1>2 DEF Typed, HandlesOfOwnKey, EntriesOfOwnKey, ContextIsPrefix
  <2> QED BY <2>2 DEF SessionInv
<1> QED BY <1>3, <1>4, <1>5

LEMMA StepInv == SessionInv /\ [SessionNext]_sessionVars => SessionInv'
<1> SUFFICES ASSUME SessionInv, [SessionNext]_sessionVars PROVE SessionInv'
  OBVIOUS
<1>1. CASE \E r \in Runs : RunStep(r)
  BY <1>1, BeginInv, WorkInv DEF RunStep
<1>2. CASE \E k \in Keys : SessionsReset(k) \/ SessionsDelete(k) \/ SessionsPatch(k)
  BY <1>2, RequestInv
<1>3. CASE UNCHANGED sessionVars
  BY <1>3 DEF sessionVars, SessionInv, Typed, HandlesOfOwnKey, EntriesOfOwnKey, ContextIsPrefix
<1> QED BY <1>1, <1>2, <1>3 DEF SessionNext

(* Every reachable state of the store satisfies the invariant              *)
(* (sessions/mod.rs).                                                      *)
THEOREM SessionInvariant == SessionSpec => []SessionInv
BY InitInv, StepInv, PTL DEF SessionSpec

(* Answers of other runs are only ever added behind the history a run was  *)
(* given (SessionHandle::add_message), also when first messages race.      *)
THEOREM ContextStaysPrefix == SessionSpec => []ContextIsPrefix
<1>1. SessionInv => ContextIsPrefix
  BY DEF SessionInv
<1> QED BY <1>1, SessionInvariant, PTL

-----------------------------------------------------------------------------
(* The answers a session holds, when no two first messages of it race.     *)

Counted == admin \in 0 .. MaxAdmin /\ titled \in [Runs -> 0 .. admin]

(* One run at a time builds the handle of a key that has none.             *)
OneCreator ==
    /\ \A q, r \in Runs : step[q] = "insert" /\ step[r] = "insert" /\ key[q] = key[r] => q = r
    /\ \A r \in Runs : step[r] = "insert" => sessions[key[r]] = NoHandle

(* A handle that is not inserted yet is empty, and nobody has it.          *)
FreshHandles ==
    \A h \in Runs : step[h] \in {"idle", "insert"} =>
        /\ history[h] = <<>>
        /\ \A q \in Runs : step[q] \in {"held", "thinking"} => handle[q] # h
        /\ \A k \in Keys : sessions[k] # h

(* A run that was not reset or deleted works on its key's current handle.  *)
OnCurrentHandle ==
    \A r \in Runs : r \notin void /\ step[r] \in {"held", "thinking"} =>
        handle[r] = sessions[key[r]]

(* The runs that answered are over.                                        *)
AnsweredAreOver ==
    \A h \in Runs : \A i \in 1 .. Len(history[h]) : step[history[h][i].run] = "done"

AnswersInv ==
    /\ SessionInv
    /\ due \in [Keys -> Seq(Message)]
    /\ Counted
    /\ OneCreator
    /\ FreshHandles
    /\ OnCurrentHandle
    /\ AnsweredAreOver
    /\ AnswersKept

LEMMA AnswerIsMessage ==
    /\ \A r \in Runs : AnswerOf(r) \in Message /\ AnswerOf(r).run = r
    /\ \A m \in Message : m.run \in Runs
BY DEF AnswerOf, Message

(* An answer counts unless its run was reset or deleted, and which answers *)
(* count in a history depends on the runs of that history only.            *)
LEMMA StandingOfAppend ==
    \A s \in Seq(Message), r \in Runs :
        /\ r \notin void => Standing(Append(s, AnswerOf(r))) = Append(Standing(s), AnswerOf(r))
        /\ r \in void => Standing(Append(s, AnswerOf(r))) = Standing(s)
<1> TAKE s \in Seq(Message), r \in Runs
<1> DEFINE K == {msg \in Message : msg.run \notin void}
           m == AnswerOf(r)
<1>1. m \in Message /\ (m \in K <=> r \notin void)
  BY AnswerIsMessage
<1>2. /\ m \in K => Only(Append(s, m), K) = Append(Only(s, K), m)
      /\ m \notin K => Only(Append(s, m), K) = Only(s, K)
  <2> HIDE DEF K, m
  <2> QED BY <1>1, OnlyOfAppend, Zenon
<1> QED BY <1>1, <1>2, Zenon DEF Standing

LEMMA StandingOfSame ==
    ASSUME NEW s \in Seq(Message), NEW V, NEW W,
           \A i \in 1 .. Len(s) : s[i].run \in V <=> s[i].run \in W
    PROVE  Only(s, {msg \in Message : msg.run \notin V})
             = Only(s, {msg \in Message : msg.run \notin W})
<1> DEFINE K == {msg \in Message : msg.run \notin V}
           L == {msg \in Message : msg.run \notin W}
<1>1. \A i \in 1 .. Len(s) : s[i] \in K <=> s[i] \in L
  OBVIOUS
<1> HIDE DEF K, L
<1>2. Only(s, K) = Only(s, L)
  BY <1>1, OnlyDependsOnEntries
<1> QED BY <1>2 DEF K, L

LEMMA AnswersInit == SessionInit => AnswersInv
<1> SUFFICES ASSUME SessionInit PROVE AnswersInv
  OBVIOUS
<1>1. SessionInv
  BY InitInv
<1>2. due \in [Keys -> Seq(Message)]
  BY DEF SessionInit
<1>3. Counted
  BY SessionStoreAssumption DEF SessionInit, Counted, SessionStoreAssumption
<1>4. OneCreator /\ FreshHandles /\ OnCurrentHandle /\ AnsweredAreOver
  BY SessionStoreAssumption
  DEF SessionInit, OneCreator, FreshHandles, OnCurrentHandle, AnsweredAreOver,
      SessionStoreAssumption
<1>5. AnswersKept
  BY OnlyOfEmpty DEF SessionInit, AnswersKept, Standing, Current
<1> QED BY <1>1, <1>2, <1>3, <1>4, <1>5 DEF AnswersInv

LEMMA BeginAnswers ==
    ASSUME ~CreatorsOverlap, AnswersInv, SessionInv', NEW r \in Runs, NEW k \in Keys,
           Found(r, k) \/ Missing(r, k)
    PROVE  AnswersInv'
<1>1. /\ Typed /\ HandlesOfOwnKey /\ due \in [Keys -> Seq(Message)] /\ Counted
      /\ OneCreator /\ FreshHandles /\ OnCurrentHandle /\ AnsweredAreOver /\ AnswersKept
  BY DEF AnswersInv, SessionInv
<1>2. /\ step[r] = "idle" /\ key' = [key EXCEPT ![r] = k]
      /\ UNCHANGED <<sessions, history, titled, admin, void, due>>
      /\ \/ /\ step' = [step EXCEPT ![r] = "held"] /\ sessions[k] # NoHandle
            /\ handle' = [handle EXCEPT ![r] = sessions[k]]
         \/ /\ step' = [step EXCEPT ![r] = "insert"] /\ sessions[k] = NoHandle
            /\ \A q \in Begun(k) : step[q] # "insert"
            /\ UNCHANGED handle
  BY DEF Found, Missing
<1>3. /\ \A q \in Runs : q # r => key'[q] = key[q] /\ step'[q] = step[q] /\ handle'[q] = handle[q]
      /\ key'[r] = k
      /\ \/ step'[r] = "held" /\ handle'[r] = sessions[k]
         \/ step'[r] = "insert" /\ sessions[k] = NoHandle
            /\ \A q \in Runs : step[q] = "insert" => key[q] # k
  BY <1>1, <1>2 DEF Typed, Begun
<1>4. OneCreator'
  BY <1>1, <1>2, <1>3 DEF OneCreator
<1>5. FreshHandles'
  BY <1>1, <1>2, <1>3 DEF FreshHandles
<1>6. OnCurrentHandle'
  BY <1>1, <1>2, <1>3 DEF OnCurrentHandle
<1>7. AnsweredAreOver'
  <2> SUFFICES ASSUME NEW h \in Runs, NEW i \in 1 .. Len(history[h])
               PROVE  step'[history[h][i].run] = "done"
    BY <1>2 DEF AnsweredAreOver
  <2>1. history[h] \in Seq(Message) /\ step[history[h][i].run] = "done"
    BY <1>1 DEF AnsweredAreOver, Typed
  <2>2. history[h][i].run \in Runs
    BY <2>1, AnswerIsMessage
  <2> QED BY <2>1, <2>2, <1>2, <1>3
<1>8. AnswersKept'
  BY <1>1, <1>2 DEF AnswersKept, Standing, Current
<1> QED BY <1>1, <1>2, <1>4, <1>5, <1>6, <1>7, <1>8 DEF AnswersInv, Counted

LEMMA InsertAnswers ==
    ASSUME AnswersInv, SessionInv', NEW r \in Runs, Insert(r)
    PROVE  AnswersInv'
<1>1. /\ Typed /\ HandlesOfOwnKey /\ due \in [Keys -> Seq(Message)] /\ Counted
      /\ OneCreator /\ FreshHandles /\ OnCurrentHandle /\ AnsweredAreOver /\ AnswersKept
  BY DEF AnswersInv, SessionInv
<1>2. /\ step[r] = "insert" /\ key[r] \in Keys
      /\ sessions' = [sessions EXCEPT ![key[r]] = r]
      /\ handle' = [handle EXCEPT ![r] = r]
      /\ step' = [step EXCEPT ![r] = "held"]
      /\ UNCHANGED <<history, titled, key, admin, void, due>>
  BY <1>1 DEF Insert, HandlesOfOwnKey
<1>3. /\ \A q \in Runs : q # r => step'[q] = step[q] /\ handle'[q] = handle[q]
      /\ step'[r] = "held" /\ handle'[r] = r
      /\ \A k \in Keys : k # key[r] => sessions'[k] = sessions[k]
      /\ sessions'[key[r]] = r /\ sessions[key[r]] = NoHandle
      /\ r # NoHandle
  BY <1>1, <1>2, SessionStoreAssumption DEF Typed, OneCreator, SessionStoreAssumption
<1>4. \A q \in Runs : step[q] # "idle" => key[q] \in Keys
  BY <1>1 DEF HandlesOfOwnKey
<1>5. OneCreator'
  <2>1. ASSUME NEW q \in Runs, step'[q] = "insert"
        PROVE  sessions'[key[q]] = NoHandle
    <3>1. q # r /\ step[q] = "insert" /\ key[q] \in Keys
      BY <2>1, <1>3, <1>4
    <3>2. key[q] # key[r]
      BY <3>1, <1>1, <1>2 DEF OneCreator
    <3> QED BY <3>1, <3>2, <1>1, <1>3 DEF OneCreator
  <2> QED BY <2>1, <1>1, <1>2, <1>3 DEF OneCreator
<1>6. FreshHandles'
  <2> SUFFICES ASSUME NEW h \in Runs, step'[h] \in {"idle", "insert"}
               PROVE  /\ history[h] = <<>>
                      /\ \A q \in Runs : step'[q] \in {"held", "thinking"} => handle'[q] # h
                      /\ \A k \in Keys : sessions'[k] # h
    BY <1>2 DEF FreshHandles
  <2>1. h # r /\ step[h] \in {"idle", "insert"}
    BY <1>3
  <2> QED BY SMTT(30), <2>1, <1>1, <1>3 DEF FreshHandles
<1>7. OnCurrentHandle'
  <2> SUFFICES ASSUME NEW q \in Runs, q \notin void, step'[q] \in {"held", "thinking"}
               PROVE  handle'[q] = sessions'[key[q]]
    BY <1>2 DEF OnCurrentHandle
  <2>1. CASE q # r
    <3>1. /\ handle'[q] = handle[q] /\ handle[q] \in Runs /\ handle[q] = sessions[key[q]]
          /\ key[q] \in Keys
      BY <2>1, <1>1, <1>3 DEF OnCurrentHandle, HandlesOfOwnKey
    <3>2. key[q] # key[r]
      BY <3>1, <1>3, SessionStoreAssumption DEF SessionStoreAssumption
    <3> QED BY <3>1, <3>2, <1>3
  <2> QED BY <2>1, <1>3
<1>8. AnsweredAreOver'
  <2> SUFFICES ASSUME NEW h \in Runs, NEW i \in 1 .. Len(history[h])
               PROVE  step'[history[h][i].run] = "done"
    BY <1>2 DEF AnsweredAreOver
  <2>1. history[h] \in Seq(Message) /\ step[history[h][i].run] = "done"
    BY <1>1 DEF AnsweredAreOver, Typed
  <2>2. history[h][i].run \in Runs
    BY <2>1, AnswerIsMessage
  <2> QED BY <2>1, <2>2, <1>2, <1>3
<1>9. AnswersKept'
  <2> SUFFICES ASSUME NEW k \in Keys
               PROVE  Standing(Current(k))' = due[k]
    BY <1>2 DEF AnswersKept
  <2>1. Standing(Current(k)) = due[k]
    BY <1>1 DEF AnswersKept
  <2>2. CASE k = key[r]
    <3>1. Current(k) = <<>> /\ Current(k)' = <<>>
      BY <2>2, <1>1, <1>2, <1>3 DEF Current, FreshHandles
    <3> QED BY <3>1, <2>1, <1>2, Zenon DEF Standing
  <2>3. CASE k # key[r]
    <3>1. Current(k)' = Current(k)
      BY <2>3, <1>2, <1>3 DEF Current
    <3> QED BY <3>1, <2>1, <1>2, Zenon DEF Standing
  <2> QED BY <2>2, <2>3
<1> QED BY <1>1, <1>2, <1>5, <1>6, <1>7, <1>8, <1>9 DEF AnswersInv, Counted

(* A run reads its history, answers, or gives up.                          *)
LEMMA WorkAnswers ==
    ASSUME AnswersInv, SessionInv', NEW r \in Runs,
           ReadHistory(r) \/ AddMessage(r) \/ RunGivesUp(r)
    PROVE  AnswersInv'
<1>1. /\ Typed /\ HandlesOfOwnKey /\ EntriesOfOwnKey
      /\ due \in [Keys -> Seq(Message)] /\ Counted
      /\ OneCreator /\ FreshHandles /\ OnCurrentHandle /\ AnsweredAreOver /\ AnswersKept
  BY DEF AnswersInv, SessionInv
<1>2. /\ step[r] \in {"held", "thinking"}
      /\ \/ step' = [step EXCEPT ![r] = "thinking"] /\ step[r] = "held"
         \/ step' = [step EXCEPT ![r] = "done"]
      /\ UNCHANGED <<sessions, titled, key, handle, admin, void>>
  BY DEF ReadHistory, AddMessage, RunGivesUp
<1>3. /\ \A q \in Runs : q # r => step'[q] = step[q]
      /\ step'[r] \in {"thinking", "done"}
      /\ handle[r] \in Runs /\ key[r] \in Keys /\ key[handle[r]] = key[r]
      /\ step[handle[r]] \notin {"idle", "insert"}
  BY <1>1, <1>2 DEF Typed, HandlesOfOwnKey, FreshHandles
<1>4. /\ \A h \in Runs : h # handle[r] => history'[h] = history[h]
      /\ history'[handle[r]] = history[handle[r]]
         \/ (/\ step'[r] = "done"
             /\ history'[handle[r]] = Append(history[handle[r]], AnswerOf(r)))
  <2>1. CASE ReadHistory(r) \/ RunGivesUp(r)
    <3>1. history' = history
      BY <2>1 DEF ReadHistory, RunGivesUp
    <3> QED BY <3>1
  <2>2. CASE AddMessage(r)
    <3>1. /\ history' = [history EXCEPT ![handle[r]] = Append(@, AnswerOf(r))]
          /\ step' = [step EXCEPT ![r] = "done"]
          /\ DOMAIN history = Runs /\ DOMAIN step = Runs
      BY <2>2, <1>1 DEF AddMessage, Typed
    <3> QED BY <3>1, <1>3
  <2> QED BY <2>1, <2>2
<1>5. OneCreator'
  BY <1>1, <1>2, <1>3 DEF OneCreator
<1>6. FreshHandles'
  BY <1>1, <1>2, <1>3, <1>4 DEF FreshHandles
<1>7. OnCurrentHandle'
  BY <1>1, <1>2, <1>3 DEF OnCurrentHandle
<1>8. AnsweredAreOver'
  <2> SUFFICES ASSUME NEW h \in Runs, NEW i \in 1 .. Len(history'[h])
               PROVE  step'[history'[h][i].run] = "done"
    BY DEF AnsweredAreOver
  <2>1. ASSUME NEW j \in 1 .. Len(history[h])
        PROVE  step'[history[h][j].run] = "done"
    <3>1. history[h] \in Seq(Message) /\ step[history[h][j].run] = "done"
      BY <1>1 DEF AnsweredAreOver, Typed
    <3>2. history[h][j].run \in Runs
      BY <3>1, AnswerIsMessage
    <3> QED BY <3>1, <3>2, <1>2, <1>3
  <2>2. CASE history'[h] = history[h]
    BY <2>1, <2>2
  <2>3. CASE history'[h] # history[h]
    <3>1. h = handle[r] /\ step'[r] = "done" /\ history'[h] = Append(history[h], AnswerOf(r))
      BY <2>3, <1>4
    <3>2. history[h] \in Seq(Message) /\ AnswerOf(r) \in Message /\ AnswerOf(r).run = r
      BY <1>1, AnswerIsMessage DEF Typed
    <3>3. \/ i \in 1 .. Len(history[h]) /\ history'[h][i] = history[h][i]
          \/ history'[h][i] = AnswerOf(r)
      BY <3>1, <3>2
    <3> QED BY <3>1, <3>2, <3>3, <2>1
  <2> QED BY <2>2, <2>3
<1>9. due' \in [Keys -> Seq(Message)] /\ AnswersKept'
  <2>1. CASE ReadHistory(r) \/ RunGivesUp(r)
    <3>1. UNCHANGED <<history, due>>
      BY <2>1 DEF ReadHistory, RunGivesUp
    <3> QED BY <3>1, <1>1, <1>2 DEF AnswersKept, Standing, Current
  <2>2. CASE AddMessage(r)
    <3>1. /\ step[r] = "thinking"
          /\ history'[handle[r]] = Append(history[handle[r]], AnswerOf(r))
          /\ r \in void => due' = due
          /\ r \notin void => due' = [due EXCEPT ![key[r]] = Append(@, AnswerOf(r))]
      BY <2>2, <1>1, <1>3 DEF AddMessage, Typed
    <3>2. history[handle[r]] \in Seq(Message) /\ AnswerOf(r) \in Message
      BY <1>1, <1>3, AnswerIsMessage DEF Typed
    <3>3. due' \in [Keys -> Seq(Message)]
      <4>1. due[key[r]] \in Seq(Message)
        BY <1>1, <1>3
      <4>2. Append(due[key[r]], AnswerOf(r)) \in Seq(Message)
        BY <4>1, <3>2, AppendProperties
      <4> QED BY <4>2, <3>1, <1>1
    <3>4. ASSUME NEW k \in Keys
          PROVE  Standing(Current(k))' = due'[k]
      <4>1. Standing(Current(k)) = due[k]
        BY <1>1 DEF AnswersKept
      <4>2. CASE sessions[k] = handle[r]
        <5>1. k = key[r] /\ sessions[k] # NoHandle
          BY <4>2, <1>1, <1>3, SessionStoreAssumption DEF EntriesOfOwnKey, SessionStoreAssumption
        <5>2. /\ Current(k) = history[handle[r]]
              /\ Current(k)' = Append(history[handle[r]], AnswerOf(r))
          BY <4>2, <5>1, <3>1, <1>2 DEF Current
        <5>3. Standing(Current(k))' = Standing(Append(history[handle[r]], AnswerOf(r)))
          BY <5>2, <1>2, Zenon DEF Standing
        <5>4. CASE r \in void
          <6>1. Standing(Append(history[handle[r]], AnswerOf(r))) = Standing(history[handle[r]])
            BY <3>2, <5>4, StandingOfAppend
          <6> QED BY <6>1, <5>2, <5>3, <5>4, <3>1, <4>1
        <5>5. CASE r \notin void
          <6>1. Standing(Append(history[handle[r]], AnswerOf(r)))
                  = Append(Standing(history[handle[r]]), AnswerOf(r))
            BY <3>2, <5>5, StandingOfAppend
          <6>2. due'[k] = Append(due[k], AnswerOf(r))
            BY <5>1, <5>5, <3>1, <1>1
          <6> QED BY <6>1, <6>2, <5>2, <5>3, <4>1
        <5> QED BY <5>4, <5>5
      <4>3. CASE sessions[k] # handle[r]
        <5>1. Current(k)' = Current(k)
          BY <4>3, <1>1, <1>2, <1>4 DEF Current, Typed
        <5>2. due'[k] = due[k]
          <6>1. CASE r \in void
            BY <6>1, <3>1
          <6>2. CASE r \notin void
            <7>1. k # key[r]
              BY <6>2, <4>3, <3>1, <1>1 DEF OnCurrentHandle
            <7> QED BY <7>1, <6>2, <3>1, <1>1
          <6> QED BY <6>1, <6>2
        <5> QED BY <5>1, <5>2, <4>1, <1>2, Zenon DEF Standing
      <4> QED BY <4>2, <4>3
    <3> QED BY <3>3, <3>4 DEF AnswersKept
  <2> QED BY <2>1, <2>2
<1> QED BY <1>1, <1>2, <1>5, <1>6, <1>7, <1>8, <1>9 DEF AnswersInv, Counted

(* A reset or a delete of a session takes its answers and calls off the    *)
(* runs that are under way; the answers of all other sessions stand.       *)
LEMMA RequestAnswers ==
    ASSUME AnswersInv, SessionInv', NEW k \in Keys,
           SessionsReset(k) \/ SessionsDelete(k) \/ SessionsPatch(k)
    PROVE  AnswersInv'
<1>1. /\ Typed /\ HandlesOfOwnKey /\ EntriesOfOwnKey
      /\ due \in [Keys -> Seq(Message)] /\ Counted
      /\ OneCreator /\ FreshHandles /\ OnCurrentHandle /\ AnsweredAreOver /\ AnswersKept
  BY DEF AnswersInv, SessionInv
<1>2. /\ admin < MaxAdmin /\ admin' = admin + 1
      /\ UNCHANGED <<step, key, handle>>
      /\ \/ UNCHANGED titled
         \/ sessions[k] \in Runs /\ titled' = [titled EXCEPT ![sessions[k]] = @ + 1]
  BY <1>1
  DEF SessionsReset, SessionsDelete, SessionsPatch, MayAdmin, ResetSession, DeleteSession,
      PatchSession, Typed
<1>3. Counted'
  <2>1. admin \in 0 .. MaxAdmin /\ titled \in [Runs -> 0 .. admin] /\ MaxAdmin \in Nat
    BY <1>1, SessionStoreAssumption DEF Counted, SessionStoreAssumption
  <2>2. admin' \in 0 .. MaxAdmin /\ \A n \in 0 .. admin : n \in 0 .. admin' /\ n + 1 \in 0 .. admin'
    BY <2>1, <1>2
  <2>3. titled' \in [Runs -> 0 .. admin']
    BY <2>1, <2>2, <1>2
  <2> QED BY <2>2, <2>3 DEF Counted
<1>4. CASE SessionsPatch(k)
  <2>1. UNCHANGED <<sessions, history, void, due>>
    BY <1>4 DEF SessionsPatch, PatchSession
  <2>2. OneCreator' /\ FreshHandles' /\ OnCurrentHandle' /\ AnsweredAreOver'
    BY <2>1, <1>1, <1>2 DEF OneCreator, FreshHandles, OnCurrentHandle, AnsweredAreOver
  <2>3. AnswersKept'
    BY <2>1, <1>1 DEF AnswersKept, Standing, Current
  <2> QED BY <2>1, <2>2, <2>3, <1>1, <1>3 DEF AnswersInv
<1>5. CASE SessionsReset(k) \/ SessionsDelete(k)
  <2>1. /\ void' = void \cup Begun(k)
        /\ due' = [due EXCEPT ![k] = <<>>]
        /\ \/ /\ sessions[k] \in Runs /\ UNCHANGED sessions
              /\ history' = [history EXCEPT ![sessions[k]] = <<>>]
           \/ /\ sessions' = [sessions EXCEPT ![k] = NoHandle] /\ UNCHANGED history
    BY <1>5, <1>1 DEF SessionsReset, SessionsDelete, ResetSession, DeleteSession, Typed
  <2>2. /\ \A l \in Keys : sessions'[l] = sessions[l] \/ sessions'[l] = NoHandle
        /\ \A l \in Keys : l # k => sessions'[l] = sessions[l]
        /\ \A h \in Runs : history'[h] = history[h] \/ history'[h] = <<>>
        /\ \A l \in Keys : l # k /\ sessions[l] # NoHandle =>
               history'[sessions[l]] = history[sessions[l]]
        /\ Current(k)' = <<>>
    BY <2>1, <1>1 DEF Typed, EntriesOfOwnKey, Current
  <2>3. \A q \in Runs : step[q] # "idle" => key[q] \in Keys
    BY <1>1 DEF HandlesOfOwnKey
  <2>4. OneCreator'
    BY <2>2, <2>3, <1>1, <1>2 DEF OneCreator
  <2>5. FreshHandles'
    BY <2>2, <1>1, <1>2, SessionStoreAssumption DEF FreshHandles, SessionStoreAssumption
  <2>6. OnCurrentHandle'
    <3> SUFFICES ASSUME NEW q \in Runs, q \notin void', step[q] \in {"held", "thinking"}
                 PROVE  handle[q] = sessions'[key[q]]
      BY <1>2 DEF OnCurrentHandle
    <3>1. q \notin void /\ key[q] # k
      BY <2>1 DEF Begun
    <3> QED BY <3>1, <2>2, <2>3, <1>1 DEF OnCurrentHandle
  <2>7. AnsweredAreOver'
    <3> SUFFICES ASSUME NEW h \in Runs, NEW i \in 1 .. Len(history'[h])
                 PROVE  step[history'[h][i].run] = "done"
      BY <1>2 DEF AnsweredAreOver
    <3>1. history'[h] = history[h]
      BY <2>2
    <3> QED BY <3>1, <1>1 DEF AnsweredAreOver
  <2>8. due' \in [Keys -> Seq(Message)]
    BY <2>1, <1>1
  <2>9. AnswersKept'
    <3> SUFFICES ASSUME NEW l \in Keys
                 PROVE  Standing(Current(l))' = due'[l]
      BY DEF AnswersKept
    <3>1. Standing(Current(l)) = due[l]
      BY <1>1 DEF AnswersKept
    <3>2. CASE l = k
      <4>1. Standing(Current(l))' = Only(<<>>, {msg \in Message : msg.run \notin void'})
        BY <3>2, <2>2, Zenon DEF Standing
      <4> QED BY <4>1, <3>2, <2>1, <1>1, OnlyOfEmpty
    <3>3. CASE l # k
      <4>1. Current(l)' = Current(l) /\ due'[l] = due[l]
        BY <3>3, <2>1, <2>2, <1>1 DEF Current
      <4>2. Current(l) \in Seq(Message)
        BY <1>1 DEF Current, Typed
      <4>3. ASSUME NEW i \in 1 .. Len(Current(l))
            PROVE  Current(l)[i].run \in void <=> Current(l)[i].run \in void'
        <5>1. Current(l)[i].run \in Runs /\ step[Current(l)[i].run] = "done"
          BY <4>2, AnswerIsMessage, <1>1 DEF Current, AnsweredAreOver, Typed
        <5> QED BY <5>1, <2>1 DEF Begun
      <4>4. Only(Current(l), {msg \in Message : msg.run \notin void})
              = Only(Current(l), {msg \in Message : msg.run \notin void'})
        BY <4>2, <4>3, StandingOfSame
      <4> QED BY <4>1, <4>4, <3>1, Zenon DEF Standing
    <3> QED BY <3>2, <3>3
  <2> QED BY <2>4, <2>5, <2>6, <2>7, <2>8, <2>9, <1>3 DEF AnswersInv
<1> QED BY <1>4, <1>5

LEMMA AnswersStep ==
    ASSUME ~CreatorsOverlap
    PROVE  AnswersInv /\ [SessionNext]_sessionVars => AnswersInv'
<1> SUFFICES ASSUME AnswersInv, [SessionNext]_sessionVars PROVE AnswersInv'
  OBVIOUS
<1>0. SessionInv'
  BY StepInv DEF AnswersInv
<1>1. CASE \E r \in Runs : RunStep(r)
  BY <1>0, <1>1, BeginAnswers, InsertAnswers, WorkAnswers DEF RunStep
<1>2. CASE \E k \in Keys : SessionsReset(k) \/ SessionsDelete(k) \/ SessionsPatch(k)
  BY <1>0, <1>2, RequestAnswers
<1>3. CASE UNCHANGED sessionVars
  <2>1. due' \in [Keys -> Seq(Message)] /\ Counted'
    BY <1>3 DEF sessionVars, AnswersInv, Counted
  <2>2. OneCreator' /\ FreshHandles' /\ OnCurrentHandle' /\ AnsweredAreOver'
    BY <1>3 DEF sessionVars, AnswersInv, OneCreator, FreshHandles, OnCurrentHandle, AnsweredAreOver
  <2>3. AnswersKept'
    BY <1>3 DEF sessionVars, AnswersInv, AnswersKept, Standing, Current
  <2> QED BY <1>0, <2>1, <2>2, <2>3 DEF AnswersInv
<1> QED BY <1>1, <1>2, <1>3 DEF SessionNext

LEMMA AnswersInvIsSound == AnswersInv => SessionsSound
<1> SUFFICES ASSUME AnswersInv PROVE SessionsSound
  OBVIOUS
<1>1. Typed /\ due \in [Keys -> Seq(Message)] /\ Counted /\ AnswersKept /\ ContextIsPrefix
  BY DEF AnswersInv, SessionInv
<1>2. titled \in [Runs -> 0 .. MaxAdmin] /\ admin \in 0 .. MaxAdmin
  <2>1. /\ admin \in 0 .. MaxAdmin /\ titled \in [Runs -> 0 .. admin] /\ MaxAdmin \in Nat
    BY <1>1, SessionStoreAssumption DEF Counted, SessionStoreAssumption
  <2>2. \A n \in 0 .. admin : n \in 0 .. MaxAdmin
    BY <2>1
  <2> QED BY <2>1, <2>2
<1>3. \A h \in Runs : \A i \in 1 .. Len(history[h]) : history[h][i] \in Message
  BY <1>1 DEF Typed
<1>4. \A k \in Keys : \A i \in 1 .. Len(due[k]) : due[k][i] \in Message
  BY <1>1
<1>5. SessionTypeOK
  BY <1>1, <1>2, <1>3, <1>4 DEF SessionTypeOK, Typed
<1> QED BY <1>1, <1>5 DEF SessionsSound

(* Beside the other stores, the session store behaves as on its own.       *)
LEMMA StoresHostSessions == StoresSpec => SessionSpec
<1>1. StoresInit => SessionInit
  BY DEF StoresInit
<1>2. [StoresNext]_storesVars => [SessionNext]_sessionVars
  BY DEF StoresNext, storesVars, OnlySessions, OnlyHttp
<1> QED BY <1>1, <1>2, PTL DEF StoresSpec, SessionSpec

(* When no two first messages of a session race, a session holds exactly   *)
(* the answers given since it was last reset or deleted, each once and in  *)
(* the order they were given, but for answers of runs that were under way  *)
(* then, and the history a run was given stays its beginning               *)
(* (SessionStore in sessions/mod.rs).                                      *)
THEOREM AnswersAreKept ==
    ASSUME ~CreatorsOverlap
    PROVE  StoresSpec => []SessionsSound
<1>1. SessionSpec => []AnswersInv
  <2>1. AnswersInv /\ [SessionNext]_sessionVars => AnswersInv'
    BY AnswersStep
  <2> QED BY <2>1, AnswersInit, PTL DEF SessionSpec
<1> QED BY <1>1, StoresHostSessions, AnswersInvIsSound, PTL
-----------------------------------------------------------------------------
(* Configuration files.  What a file leads to is the least set that has    *)
(* its includes and is closed.                                             *)

Disks == [Paths -> Files]

LEMMA BelowIsLeast ==
    ASSUME NEW d \in Disks, NEW p \in Paths
    PROVE  /\ Below(d, p) \subseteq Paths /\ Leads(d, p) \subseteq Paths
           /\ Leads(d, p) \subseteq Below(d, p)
           /\ ClosedOn(d, Below(d, p))
           /\ \A C \in SUBSET Paths :
                Leads(d, p) \subseteq C /\ ClosedOn(d, C) => Below(d, p) \subseteq C
<1>1. Below(d, p) \subseteq Paths /\ \A q \in Paths : Leads(d, q) \subseteq Paths
  BY DEF Below, Leads
<1>2. Leads(d, p) \subseteq Below(d, p)
  BY <1>1, Zenon DEF Below
<1>3. ASSUME NEW q \in Below(d, p), NEW r \in Leads(d, q)
      PROVE  r \in Below(d, p)
  <2>1. q \in Paths /\ r \in Paths
    BY <1>1
  <2>2. ASSUME NEW C \in SUBSET Paths, Leads(d, p) \subseteq C, ClosedOn(d, C)
        PROVE  r \in C
    <3>1. q \in C
      BY <2>2, Zenon DEF Below
    <3> QED BY <2>2, <3>1 DEF ClosedOn
  <2> QED BY <2>1, <2>2, Zenon DEF Below
<1>4. ASSUME NEW C \in SUBSET Paths, Leads(d, p) \subseteq C, ClosedOn(d, C)
      PROVE  Below(d, p) \subseteq C
  BY <1>4, Zenon DEF Below
<1>5. ClosedOn(d, Below(d, p))
  BY <1>3, Zenon DEF ClosedOn
<1> QED BY <1>1, <1>2, <1>4, <1>5

LEMMA BelowPasses ==
    ASSUME NEW d \in Disks, NEW p \in Paths, NEW q \in Under(d, p)
    PROVE  /\ q \in Paths
           /\ Leads(d, q) \subseteq Below(d, p) /\ Below(d, q) \subseteq Below(d, p)
<1>1. q \in Paths
  BY BelowIsLeast DEF Under
<1>2. Leads(d, q) \subseteq Below(d, p)
  BY BelowIsLeast DEF Under, ClosedOn
<1>3. Below(d, q) \subseteq Below(d, p)
  BY <1>1, <1>2, BelowIsLeast
<1> QED BY <1>1, <1>2, <1>3

(* What is below a file is under one of those it includes.                 *)
LEMMA BelowIs ==
    ASSUME NEW d \in Disks, NEW p \in Paths
    PROVE  Below(d, p) = {q \in Paths : \E r \in Leads(d, p) : q \in Under(d, r)}
<1> DEFINE C == {q \in Paths : \E r \in Leads(d, p) : q \in Under(d, r)}
<1>1. Leads(d, p) \subseteq Paths
  BY BelowIsLeast
<1>2. Leads(d, p) \subseteq C
  BY <1>1 DEF Under
<1>3. ASSUME NEW q \in C, NEW s \in Leads(d, q) PROVE s \in C
  <2>1. PICK r \in Leads(d, p) : q \in Under(d, r)
    OBVIOUS
  <2>2. s \in Below(d, r)
    BY <1>1, <2>1, BelowPasses
  <2>3. s \in Paths
    BY <1>1, <2>2, BelowIsLeast
  <2> QED BY <2>1, <2>2, <2>3 DEF Under
<1>4. ClosedOn(d, C)
  BY <1>3, Zenon DEF ClosedOn
<1>5. Below(d, p) \subseteq C
  <2>1. C \in SUBSET Paths
    OBVIOUS
  <2> HIDE DEF C
  <2> QED BY <1>2, <1>4, <2>1, BelowIsLeast
<1>6. ASSUME NEW r \in Leads(d, p), NEW q \in Under(d, r) PROVE q \in Below(d, p)
  <2>1. r \in Below(d, p) /\ r \in Paths
    BY <1>1, BelowIsLeast
  <2>2. r \in Under(d, p)
    BY <2>1 DEF Under
  <2> QED BY <2>1, <2>2, BelowPasses DEF Under
<1>7. C \subseteq Below(d, p)
  BY <1>6
<1> HIDE DEF C
<1>8. Below(d, p) = C
  BY <1>5, <1>7
<1> QED BY <1>8 DEF C

(* A file that can be read in full: no link is reached from it, and no     *)
(* circle.                                                                 *)
Clean(d, p) == \A q \in Under(d, p) : d[q].state \notin FatalWords /\ q \notin Below(d, q)

LEMMA CleanFile ==
    ASSUME NEW d \in Disks, NEW p \in Paths, d[p].state \notin FatalWords,
           \A r \in Leads(d, p) : Clean(d, r)
    PROVE  Clean(d, p)
<1>1. ASSUME NEW q \in Below(d, p)
      PROVE  d[q].state \notin FatalWords /\ q \notin Below(d, q)
  <2>1. PICK r \in Leads(d, p) : q \in Under(d, r)
    BY BelowIs
  <2> QED BY <2>1 DEF Clean
<1>2. p \notin Below(d, p)
  BY <1>1
<1> QED BY <1>1, <1>2 DEF Clean, Under

LEMMA LastReadIs ==
    ASSUME NEW d \in Disks, NEW p \in Paths
    PROVE  LET t == Only(d[p].includes, Readable(d))
           IN  /\ d[p].includes \in Seq(Paths) /\ t \in Seq(Paths)
               /\ t = <<>> => LastRead(d, p) = p
               /\ t # <<>> => LastRead(d, p) = t[Len(t)] /\ LastRead(d, p) \in Leads(d, p)
<1> DEFINE inc == d[p].includes
           t == Only(inc, Readable(d))
<1>1. inc \in Seq(Paths) /\ (inc # <<>> => p \in Readable(d))
  <2>1. d[p] \in Files
    BY DEF Disks
  <2>2. CASE d[p] \in [state : {"read"}, includes : Includes]
    <3>1. inc \in Includes /\ p \in Readable(d)
      BY <2>2 DEF Readable
    <3>2. PICK m \in 0 .. MaxIncludes : inc \in [1 .. m -> Paths]
      BY <3>1 DEF Includes, SeqOf
    <3>3. m \in Nat
      BY ConfigFilesAssumption DEF ConfigFilesAssumption
    <3>4. inc \in Seq(Paths)
      <4> HIDE DEF inc
      <4> QED BY <3>2, <3>3
    <3> HIDE DEF inc
    <3> QED BY <3>1, <3>4
  <2>3. CASE d[p] \in [state : {"symlink", "missing", "worded"}, includes : {<<>>}]
    <3>1. inc = <<>>
      BY <2>3
    <3> HIDE DEF inc
    <3> QED BY <3>1, EmptySeq
  <2> QED BY <2>1, <2>2, <2>3 DEF Files
<1> HIDE DEF inc
<1>2. t \in Seq(Paths)
  BY <1>1, OnlyTyped
<1>3. CASE t = <<>>
  <2>1. LastRead(d, p) = p
    BY <1>3 DEF LastRead, inc
  <2> QED BY <1>1, <1>2, <1>3, <2>1 DEF inc
<1>4. CASE t # <<>>
  <2>1. LastRead(d, p) = t[Len(t)]
    BY <1>4 DEF LastRead, inc
  <2>2. PICK h : Embeds(h, inc, t, Readable(d))
    BY <1>1, OnlyEmbeds
  <2> HIDE DEF t
  <2>3. Len(t) \in 1 .. Len(t) /\ t[Len(t)] \in Paths
    BY <1>2, <1>4
  <2>4. PICK i \in 1 .. Len(inc) : t[Len(t)] = inc[i]
    BY <2>2, <2>3 DEF Embeds
  <2>5. inc # <<>>
    BY <2>4
  <2>6. t[Len(t)] \in ToSet(inc)
    BY <1>1, <2>4 DEF ToSet
  <2>7. t[Len(t)] \in Leads(d, p)
    BY <1>1, <2>3, <2>5, <2>6 DEF Leads, inc
  <2> QED BY <1>1, <1>2, <1>4, <2>1, <2>7 DEF t, inc
<1> QED BY <1>3, <1>4

(* The files from p on, each the include read last of the one before, up   *)
(* to one that reads none.                                                 *)
Chain(d, p, f, n) ==
    /\ f \in [0 .. n -> Paths] /\ f[0] = p
    /\ \A i \in 0 .. n - 1 : f[i + 1] = LastRead(d, f[i]) /\ f[i + 1] # f[i]
    /\ LastRead(d, f[n]) = f[n]

Wins(d, p, w) == \E n \in Nat : \E f : Chain(d, p, f, n) /\ f[n] = w

LEMMA OwnWins ==
    ASSUME NEW d \in Disks, NEW p \in Paths, LastRead(d, p) = p
    PROVE  Wins(d, p, p)
<1> DEFINE f == [i \in 0 .. 0 |-> p]
<1>1. f \in [0 .. 0 -> Paths] /\ f[0] = p /\ 0 .. 0 - 1 = {}
  OBVIOUS
<1> HIDE DEF f
<1>2. Chain(d, p, f, 0)
  BY <1>1 DEF Chain
<1> QED BY <1>1, <1>2 DEF Wins

LEMMA LastReadWins ==
    ASSUME NEW d \in Disks, NEW p \in Paths, NEW q \in Paths, NEW w,
           LastRead(d, p) = q, q # p, Wins(d, q, w)
    PROVE  Wins(d, p, w)
<1>0. PICK n \in Nat : \E f : Chain(d, q, f, n) /\ f[n] = w
  BY DEF Wins
<1>1. PICK g : Chain(d, q, g, n) /\ g[n] = w
  BY <1>0
<1> DEFINE f == [i \in 0 .. n + 1 |-> IF i = 0 THEN p ELSE g[i - 1]]
<1>2. f \in [0 .. n + 1 -> Paths] /\ f[0] = p /\ f[n + 1] = g[n]
  BY <1>1 DEF Chain
<1>3. ASSUME NEW i \in 0 .. n + 1 - 1
      PROVE  f[i + 1] = LastRead(d, f[i]) /\ f[i + 1] # f[i]
  <2>1. CASE i = 0
    <3>1. f[i + 1] = g[0] /\ f[i] = p
      BY <2>1
    <3> HIDE DEF f
    <3> QED BY <1>1, <3>1 DEF Chain
  <2>2. CASE i # 0
    <3>1. PICK j \in 0 .. n - 1 : j + 1 = i
      <4>1. i - 1 \in 0 .. n - 1 /\ (i - 1) + 1 = i
        BY <2>2
      <4> QED BY <4>1
    <3>2. f[i + 1] = g[j + 1] /\ f[i] = g[j]
      BY <3>1
    <3> HIDE DEF f
    <3> QED BY <1>1, <3>1, <3>2 DEF Chain
  <2> QED BY <2>1, <2>2
<1> HIDE DEF f
<1>4. Chain(d, p, f, n + 1)
  <2>1. LastRead(d, f[n + 1]) = f[n + 1]
    BY <1>1, <1>2 DEF Chain
  <2> QED BY <1>2, <1>3, <2>1 DEF Chain
<1>5. f[n + 1] = w /\ n + 1 \in Nat
  BY <1>1, <1>2
<1> QED BY <1>2, <1>4, <1>5 DEF Wins

(* Files each of which leads to the next, from a to b.                     *)
LeadsDown(d, f, a, b) ==
    /\ \A k \in a .. b : f[k] \in Paths
    /\ \A k \in a .. b - 1 : f[k + 1] \in Leads(d, f[k])

LEMMA Descends ==
    ASSUME NEW d \in Disks, NEW f, NEW a \in Nat, NEW b \in Nat, LeadsDown(d, f, a, b),
           NEW i \in a .. b, NEW j \in a .. b, i < j
    PROVE  f[j] \in Below(d, f[i])
<1> DEFINE T == {k \in Nat : i + 1 + k <= b => f[i + 1 + k] \in Below(d, f[i])}
<1>2. \A k \in a .. b - 1 : f[k + 1] \in Leads(d, f[k])
  BY DEF LeadsDown
<1>3. f[i] \in Paths /\ i \in Nat
  BY DEF LeadsDown
<1>4. 0 \in T
  <2>1. i \in a .. b - 1 /\ i + 1 + 0 = i + 1
    OBVIOUS
  <2>2. f[i + 1] \in Below(d, f[i])
    BY <1>2, <1>3, <2>1, BelowIsLeast
  <2> QED BY <2>1, <2>2
<1>5. ASSUME NEW k \in Nat, k \in T PROVE k + 1 \in T
  <2> SUFFICES ASSUME i + 1 + (k + 1) <= b PROVE f[i + 1 + (k + 1)] \in Below(d, f[i])
    OBVIOUS
  <2>1. PICK m \in a .. b - 1 : m = i + 1 + k
    <3>1. i + 1 + k \in a .. b - 1
      BY <1>3
    <3> QED BY <3>1
  <2>2. f[m] \in Below(d, f[i])
    BY <1>5, <2>1
  <2>3. f[m + 1] \in Leads(d, f[m])
    BY <1>2
  <2>4. f[m + 1] \in Below(d, f[i])
    BY <1>3, <2>2, <2>3, BelowIsLeast, Zenon DEF ClosedOn
  <2>5. m + 1 = i + 1 + (k + 1)
    BY <1>3, <2>1
  <2> QED BY <2>4, <2>5
<1> HIDE DEF T
<1>6. Nat \subseteq T
  BY <1>4, <1>5, NaturalsInSet
<1>7. PICK k \in Nat : k = j - i - 1
  BY <1>3
<1>8. k \in T /\ i + 1 + k = j
  BY <1>3, <1>6, <1>7
<1>9. i + 1 + k <= b => f[i + 1 + k] \in Below(d, f[i])
  BY <1>8 DEF T
<1> QED BY <1>8, <1>9

(* From a clean file the chain comes back to no file, so it is no longer   *)
(* than there are files.                                                   *)
LEMMA ChainDescends ==
    ASSUME NEW d \in Disks, NEW p \in Paths, NEW n \in Nat, NEW f, Chain(d, p, f, n)
    PROVE  LeadsDown(d, f, 0, n)
<1>1. \A k \in 0 .. n : f[k] \in Paths
  BY DEF Chain
<1>2. ASSUME NEW k \in 0 .. n - 1 PROVE f[k + 1] \in Leads(d, f[k])
  <2>1. f[k] \in Paths /\ f[k + 1] = LastRead(d, f[k]) /\ f[k + 1] # f[k]
    BY <1>1 DEF Chain
  <2> QED BY <2>1, LastReadIs, Zenon
<1> QED BY <1>1, <1>2 DEF LeadsDown

LEMMA ChainIsShort ==
    ASSUME NEW d \in Disks, NEW p \in Paths, Clean(d, p),
           NEW n \in Nat, NEW f, Chain(d, p, f, n)
    PROVE  Cardinality(Paths) \in Nat /\ n + 1 <= Cardinality(Paths)
<1>1. IsFiniteSet(Paths) /\ Cardinality(Paths) \in Nat
  BY FS_CardinalityType, ConfigFilesAssumption DEF ConfigFilesAssumption
<1>2. f \in [0 .. n -> Paths] /\ f[0] = p
  BY DEF Chain
<1>3. ASSUME NEW i \in 0 .. n PROVE f[i] \in Under(d, p)
  <2>1. CASE i = 0
    BY <1>2, <2>1 DEF Under
  <2>2. CASE i # 0
    <3>1. 0 \in 0 .. n /\ 0 < i
      BY <2>2
    <3>2. f[i] \in Below(d, f[0])
      BY <3>1, ChainDescends, Descends
    <3> QED BY <1>2, <3>2 DEF Under
  <2> QED BY <2>1, <2>2
<1>4. ASSUME NEW i \in 0 .. n, NEW j \in 0 .. n, i < j PROVE f[i] # f[j]
  <2>1. f[j] \in Below(d, f[i])
    BY <1>4, ChainDescends, Descends
  <2>2. f[i] \notin Below(d, f[i])
    BY <1>3 DEF Clean
  <2> QED BY <2>1, <2>2
<1>5. IsFiniteSet(0 .. n) /\ Cardinality(0 .. n) = n + 1
  BY FS_Interval
<1>6. \A i, j \in 0 .. n : i # j => f[i] # f[j]
  <2> SUFFICES ASSUME NEW i \in 0 .. n, NEW j \in 0 .. n, i # j PROVE f[i] # f[j]
    OBVIOUS
  <2>1. i < j \/ j < i
    OBVIOUS
  <2> QED BY <1>4, <2>1
<1>7. ~(Cardinality(Paths) < n + 1)
  BY <1>1, <1>2, <1>5, <1>6, FS_PigeonHole
<1> QED BY <1>1, <1>7

(* The file at the end of the chain is the one whose value is kept.        *)
LEMMA WinnerIs ==
    ASSUME NEW d \in Disks, NEW p \in Paths, Clean(d, p), NEW w, Wins(d, p, w)
    PROVE  Winner(d, p) = w /\ w \in Paths
<1>0. PICK n \in Nat : \E f : Chain(d, p, f, n) /\ f[n] = w
  BY DEF Wins
<1>1. PICK f : Chain(d, p, f, n) /\ f[n] = w
  BY <1>0
<1>2. PICK N \in Nat : N = Cardinality(Paths) /\ n <= N
  <2>1. Cardinality(Paths) \in Nat /\ n + 1 <= Cardinality(Paths)
    BY <1>1, ChainIsShort
  <2> QED BY <2>1
<1> DEFINE h == [k \in 0 .. N |-> IF k <= n THEN f[k] ELSE w]
           After(a) == a = [k \in 0 .. N |-> IF k = 0 THEN p ELSE LastRead(d, a[k - 1])]
           g == CHOOSE a : After(a)
<1>3. After(h)
  <2>1. ASSUME NEW k \in 0 .. N
        PROVE  h[k] = IF k = 0 THEN p ELSE LastRead(d, h[k - 1])
    <3>1. CASE k = 0
      <4>1. h[k] = f[0]
        BY <3>1
      <4> HIDE DEF h
      <4> QED BY <1>1, <3>1, <4>1 DEF Chain
    <3>2. CASE k # 0 /\ k <= n
      <4>1. PICK i \in 0 .. n - 1 : i + 1 = k
        <5>1. k - 1 \in 0 .. n - 1 /\ (k - 1) + 1 = k
          BY <3>2
        <5> QED BY <5>1
      <4>2. h[k] = f[i + 1] /\ h[k - 1] = f[i]
        BY <3>2, <4>1
      <4> HIDE DEF h
      <4>3. f[i + 1] = LastRead(d, f[i])
        BY <1>1 DEF Chain
      <4> QED BY <3>2, <4>2, <4>3
    <3>3. CASE n < k
      <4>1. h[k] = w /\ h[k - 1] = w
        BY <1>1, <3>3
      <4> HIDE DEF h
      <4>2. LastRead(d, w) = w
        BY <1>1 DEF Chain
      <4> QED BY <3>3, <4>1, <4>2
    <3> QED BY <3>1, <3>2, <3>3
  <2>2. h = [k \in 0 .. N |-> h[k]]
    OBVIOUS
  <2> HIDE DEF h
  <2> QED BY <2>1, <2>2
<1>4. After(g)
  <2> HIDE DEF h
  <2>1. \E a : After(a)
    BY <1>3, Zenon
  <2> HIDE DEF After
  <2> QED BY <2>1
<1>5. Winner(d, p) = g[N]
  BY <1>2, Zenon DEF Winner
<1>6. h[0] = p /\ \A k \in Nat : k + 1 <= N => h[k + 1] = LastRead(d, h[k])
  <2> HIDE DEF h
  <2>1. \A k \in 0 .. N : h[k] = IF k = 0 THEN p ELSE LastRead(d, h[k - 1])
    BY <1>3
  <2>2. \A k \in Nat : k + 1 <= N => k + 1 \in 0 .. N /\ (k + 1) - 1 = k /\ k + 1 # 0
    OBVIOUS
  <2> QED BY <2>1, <2>2
<1>7. g[0] = p /\ \A k \in Nat : k + 1 <= N => g[k + 1] = LastRead(d, g[k])
  <2> HIDE DEF g
  <2>1. \A k \in 0 .. N : g[k] = IF k = 0 THEN p ELSE LastRead(d, g[k - 1])
    BY <1>4
  <2>2. \A k \in Nat : k + 1 <= N => k + 1 \in 0 .. N /\ (k + 1) - 1 = k /\ k + 1 # 0
    OBVIOUS
  <2> QED BY <2>1, <2>2
<1>8. h[N] = w
  BY <1>1, <1>2
<1> HIDE DEF h, g
<1> DEFINE T == {k \in Nat : k <= N => g[k] = h[k]}
<1>9. N \in T
  <2>1. 0 \in T
    BY <1>6, <1>7
  <2>2. \A k \in Nat : k \in T => k + 1 \in T
    <3> SUFFICES ASSUME NEW k \in Nat, k \in T, k + 1 <= N PROVE g[k + 1] = h[k + 1]
      OBVIOUS
    <3>1. g[k] = h[k]
      OBVIOUS
    <3> QED BY <1>6, <1>7, <3>1
  <2> HIDE DEF T
  <2> QED BY <2>1, <2>2, NaturalsInSet
<1>10. g[N] = h[N]
  BY <1>9
<1>11. w \in Paths
  BY <1>1 DEF Chain
<1> QED BY <1>5, <1>8, <1>10, <1>11

-----------------------------------------------------------------------------
(* The calls in progress.  A call for p, from which n includes one after   *)
(* the other are one too many, that has read the includes pre and holds c: *)
(* each include was read in full or is none to read, c has all that is     *)
(* under them, and the last that was read has its way.                     *)
SoFar(d, p, n, pre, c) ==
    /\ \A q \in ToSet(pre) : Clean(d, q) /\ ~Deep(d, q, n - 1)
    /\ c.own = {p} \cup {q \in Readable(d) : \E r \in ToSet(pre) : q \in Under(d, r)}
    /\ LET read == Only(pre, Readable(d))
       IN IF read = <<>> THEN c.shared = p ELSE Wins(d, read[Len(read)], c.shared)

FrameRight(d, p, n, f) ==
    /\ p \in Readable(d) /\ n \in Nat /\ n >= 1
    /\ f \in [conf : [shared : Paths, own : SUBSET Paths], todo : Seq(Paths)]
    /\ \E pre \in Seq(Paths) : d[p].includes = pre \o f.todo /\ SoFar(d, p, n, pre, f.conf)

(* A file that was read in full.                                           *)
Result(d, p, n, c) ==
    /\ p \in Readable(d) /\ Clean(d, p) /\ ~Deep(d, p, n)
    /\ c \in [shared : Paths, own : SUBSET Paths]
    /\ c.own = Under(d, p) \cap Readable(d) /\ Wins(d, p, c.shared)

LEMMA LeadsOfRead ==
    ASSUME NEW d \in Disks, NEW p \in Readable(d)
    PROVE  /\ p \in Paths /\ d[p].includes \in Seq(Paths)
           /\ Leads(d, p) = ToSet(d[p].includes) /\ d[p].state \notin FatalWords
<1>1. p \in Paths /\ d[p].state = "read"
  BY DEF Readable
<1>2. PICK inc \in Seq(Paths) : inc = d[p].includes
  BY <1>1, LastReadIs
<1>3. ToSet(inc) \subseteq Paths
  BY DEF ToSet
<1> QED BY <1>1, <1>2, <1>3 DEF Leads, FatalWords

LEMMA OpensRight ==
    ASSUME NEW d \in Disks, NEW p \in Readable(d), NEW n \in Nat, n >= 1
    PROVE  FrameRight(d, p, n, [conf |-> Holding(p), todo |-> d[p].includes])
<1> DEFINE f == [conf |-> Holding(p), todo |-> d[p].includes]
<1>1. PICK inc \in Seq(Paths) : inc = d[p].includes
  BY LeadsOfRead
<1>2. PICK e : e = <<>>
  OBVIOUS
<1>3. e \in Seq(Paths) /\ inc = e \o inc /\ ToSet(e) = {}
  BY <1>2, EmptySeq, ConcatEmptySeq DEF ToSet
<1>4. SoFar(d, p, n, e, Holding(p))
  <2>1. Only(e, Readable(d)) = <<>>
    BY <1>2, OnlyOfEmpty
  <2> QED BY <1>3, <2>1 DEF SoFar, Holding
<1>5. p \in Paths /\ Holding(p) \in [shared : Paths, own : SUBSET Paths]
  BY LeadsOfRead DEF Holding
<1>6. f.conf = Holding(p) /\ f.todo = inc
      /\ f \in [conf : [shared : Paths, own : SUBSET Paths], todo : Seq(Paths)]
  BY <1>1, <1>5
<1> HIDE DEF f
<1>7. FrameRight(d, p, n, f)
  BY <1>1, <1>3, <1>4, <1>6 DEF FrameRight
<1> QED BY <1>7 DEF f

LEMMA ReturnsRight ==
    ASSUME NEW d \in Disks, NEW p, NEW n, NEW f, FrameRight(d, p, n, f), f.todo = <<>>
    PROVE  Result(d, p, n, f.conf)
<1>1. PICK pre \in Seq(Paths) : d[p].includes = pre \o f.todo /\ SoFar(d, p, n, pre, f.conf)
  BY DEF FrameRight
<1>2. p \in Readable(d) /\ p \in Paths
  BY LeadsOfRead DEF FrameRight
<1>3. d[p].includes = pre
  BY <1>1, ConcatEmptySeq
<1>4. Leads(d, p) = ToSet(pre) /\ d[p].state \notin FatalWords
  BY <1>2, <1>3, LeadsOfRead
<1>5. Clean(d, p)
  BY <1>1, <1>2, <1>4, CleanFile DEF SoFar
<1>6. f.conf.own = Under(d, p) \cap Readable(d)
  <2>1. Below(d, p) = {q \in Paths : \E r \in ToSet(pre) : q \in Under(d, r)}
    BY <1>2, <1>4, BelowIs
  <2>2. Readable(d) \subseteq Paths
    BY DEF Readable
  <2>3. f.conf.own = {p} \cup {q \in Readable(d) : \E r \in ToSet(pre) : q \in Under(d, r)}
    BY <1>1 DEF SoFar
  <2>4. Under(d, p) = {p} \cup Below(d, p)
    BY DEF Under
  <2>5. PICK B : B = {q \in Paths : \E r \in ToSet(pre) : q \in Under(d, r)}
    OBVIOUS
  <2>6. {q \in Readable(d) : \E r \in ToSet(pre) : q \in Under(d, r)} = B \cap Readable(d)
    BY <2>2, <2>5
  <2> QED BY <1>2, <2>1, <2>3, <2>4, <2>5, <2>6
<1>7. Wins(d, p, f.conf.shared)
  <2> DEFINE t == Only(pre, Readable(d))
  <2>1. /\ t = <<>> => f.conf.shared = p
        /\ t # <<>> => Wins(d, t[Len(t)], f.conf.shared)
    BY <1>1 DEF SoFar
  <2>2. /\ t = <<>> => LastRead(d, p) = p
        /\ t # <<>> => LastRead(d, p) = t[Len(t)] /\ LastRead(d, p) \in Leads(d, p)
    BY <1>2, <1>3, LastReadIs
  <2> HIDE DEF t
  <2>3. CASE t = <<>>
    BY <1>2, <2>1, <2>2, <2>3, OwnWins
  <2>4. CASE t # <<>>
    <3>1. LastRead(d, p) \in Paths /\ LastRead(d, p) \in Below(d, p)
      BY <1>2, <2>2, <2>4, BelowIsLeast
    <3>2. p \notin Below(d, p)
      BY <1>5 DEF Clean, Under
    <3> QED BY <1>2, <2>1, <2>2, <2>4, <3>1, <3>2, LastReadWins
  <2> QED BY <2>3, <2>4
<1>8. f.conf \in [shared : Paths, own : SUBSET Paths]
  BY DEF FrameRight
<1>9. ~Deep(d, p, n)
  <2> SUFFICES ASSUME Deep(d, p, n) PROVE FALSE
    OBVIOUS
  <2>1. n \in Nat /\ n >= 1
    BY DEF FrameRight
  <2>2. PICK way \in [0 .. n -> Paths] :
          way[0] = p /\ \A i \in 0 .. n - 1 : way[i + 1] \in Leads(d, way[i])
    BY DEF Deep
  <2>3. way[1] \in ToSet(pre)
    BY <1>4, <2>1, <2>2
  <2> DEFINE rest == [i \in 0 .. n - 1 |-> way[i + 1]]
  <2>4. rest \in [0 .. n - 1 -> Paths] /\ rest[0] = way[1]
    BY <2>1, <2>2
  <2>5. \A i \in 0 .. n - 1 - 1 : rest[i + 1] \in Leads(d, rest[i])
    BY <2>1, <2>2
  <2> HIDE DEF rest
  <2>6. Deep(d, way[1], n - 1)
    BY <2>4, <2>5 DEF Deep
  <2> QED BY <1>1, <2>3, <2>6 DEF SoFar
<1> QED BY <1>2, <1>5, <1>6, <1>7, <1>8, <1>9 DEF Result

LEMMA HeadMoves ==
    ASSUME NEW S, NEW a \in Seq(S), NEW b \in Seq(S), b # <<>>
    PROVE  /\ Head(b) \in S /\ Tail(b) \in Seq(S) /\ Append(a, Head(b)) \in Seq(S)
           /\ a \o b = Append(a, Head(b)) \o Tail(b)
           /\ Head(b) \in ToSet(a \o b)
<1>1. /\ Head(b) \in S /\ Tail(b) \in Seq(S) /\ Len(Tail(b)) = Len(b) - 1
      /\ \A i \in 1 .. Len(Tail(b)) : Tail(b)[i] = b[i + 1]
  BY HeadTailProperties
<1>0. Head(b) = b[1]
  OBVIOUS
<1>2. PICK e \in S, t \in Seq(S) : e = Head(b) /\ t = Tail(b) /\ Len(t) = Len(b) - 1
                                 /\ (\A i \in 1 .. Len(t) : t[i] = b[i + 1]) /\ b[1] = e
  BY <1>0, <1>1, Zenon
<1>3. Append(a, e) \in Seq(S) /\ Len(Append(a, e)) = Len(a) + 1
      /\ \A i \in 1 .. Len(a) + 1 : Append(a, e)[i] = IF i <= Len(a) THEN a[i] ELSE e
  OBVIOUS
<1>4. a \o b = Append(a, e) \o t
  <2>1. a \o b \in Seq(S) /\ Append(a, e) \o t \in Seq(S)
    BY <1>3, ConcatProperties
  <2>2. Len(a \o b) = Len(Append(a, e) \o t)
    BY <1>2, <1>3, ConcatProperties
  <2>3. ASSUME NEW i \in 1 .. Len(a \o b) PROVE (a \o b)[i] = (Append(a, e) \o t)[i]
    BY <1>2, <1>3, ConcatProperties
  <2> QED BY <2>1, <2>2, <2>3, SeqEqual
<1>6. e \in ToSet(a \o b)
  <2>1. a \o b \in Seq(S) /\ Len(a \o b) = Len(a) + Len(b) /\ Len(b) >= 1
    BY ConcatProperties, EmptySeq
  <2>2. Len(a) + 1 \in 1 .. Len(a \o b) /\ (a \o b)[Len(a) + 1] = e
    BY <1>2, <2>1, ConcatProperties
  <2> QED BY <2>1, <2>2 DEF ToSet
<1> QED BY <1>1, <1>2, <1>3, <1>4, <1>6

LEMMA ReadMoves ==
    ASSUME NEW a \in Seq(Paths), NEW b \in Seq(Paths), b # <<>>
    PROVE  a \o b = Append(a, Head(b)) \o Tail(b) /\ Head(b) \in ToSet(a \o b)
BY HeadMoves, SMT

LEMMA OneMoreRead ==
    ASSUME NEW a \in Seq(Paths), NEW q \in Paths
    PROVE  \A r : r \in ToSet(Append(a, q)) <=> r \in ToSet(a) \/ r = q
<1>0. /\ Append(a, q) \in Seq(Paths) /\ Len(Append(a, q)) = Len(a) + 1
      /\ \A i \in 1 .. Len(a) + 1 : Append(a, q)[i] = IF i <= Len(a) THEN a[i] ELSE q
  OBVIOUS
<1>1. \A x : x \in ToSet(Append(a, q)) <=> \E i \in 1 .. Len(a) + 1 : x = Append(a, q)[i]
  BY <1>0 DEF ToSet
<1>2. \A x : x \in ToSet(a) <=> \E i \in 1 .. Len(a) : x = a[i]
  BY DEF ToSet
<1>3. ASSUME NEW x PROVE x \in ToSet(Append(a, q)) <=> x \in ToSet(a) \/ x = q
  <2>1. ASSUME x \in ToSet(Append(a, q)) PROVE x \in ToSet(a) \/ x = q
    BY <1>0, <1>1, <1>2, <2>1
  <2>2. ASSUME x \in ToSet(a) PROVE x \in ToSet(Append(a, q))
    <3>1. PICK i \in 1 .. Len(a) : x = a[i]
      BY <1>2, <2>2
    <3>2. i \in 1 .. Len(a) + 1 /\ Append(a, q)[i] = x
      BY <1>0, <3>1
    <3> QED BY <1>1, <3>2
  <2>3. q \in ToSet(Append(a, q))
    <3>1. Len(a) + 1 \in 1 .. Len(a) + 1 /\ Append(a, q)[Len(a) + 1] = q
      BY <1>0
    <3> QED BY <1>1, <3>1
  <2> QED BY <2>1, <2>2, <2>3
<1> QED BY <1>3

LEMMA TakesRight ==
    ASSUME NEW d \in Disks, NEW p, NEW n, NEW f, NEW c, FrameRight(d, p, n, f), f.todo # <<>>,
           Result(d, Head(f.todo), n - 1, c)
    PROVE  FrameRight(d, p, n, [conf |-> MergedOver(f.conf, c), todo |-> Tail(f.todo)])
<1>1. PICK pre \in Seq(Paths) : d[p].includes = pre \o f.todo /\ SoFar(d, p, n, pre, f.conf)
  BY DEF FrameRight
<1>2. PICK s \in Seq(Paths) : s = f.todo /\ s # <<>>
  BY DEF FrameRight
<1>3. PICK q \in Paths, t \in Seq(Paths), now \in Seq(Paths) :
        q = Head(s) /\ t = Tail(s) /\ now = Append(pre, q)
  BY <1>1, <1>2, HeadMoves
<1>4. /\ pre \o s = now \o t
      /\ \A r : r \in ToSet(now) <=> r \in ToSet(pre) \/ r = q
  <2>1. pre \o s = now \o t
    BY <1>2, <1>3, ReadMoves
  <2> QED BY <1>3, <2>1, OneMoreRead
<1>5. q \in Readable(d) /\ Clean(d, q) /\ ~Deep(d, q, n - 1) /\ Wins(d, q, c.shared)
      /\ c.own = Under(d, q) \cap Readable(d) /\ c \in [shared : Paths, own : SUBSET Paths]
  BY <1>2, <1>3 DEF Result
<1> DEFINE m == MergedOver(f.conf, c)
<1>6. m.own = f.conf.own \cup c.own /\ m.shared = c.shared
      /\ m \in [shared : Paths, own : SUBSET Paths]
  <2>1. f.conf \in [shared : Paths, own : SUBSET Paths]
    BY DEF FrameRight
  <2> QED BY <2>1, <1>5 DEF MergedOver
<1> HIDE DEF m
<1>7. SoFar(d, p, n, now, m)
  <2>1. \A r \in ToSet(now) : Clean(d, r) /\ ~Deep(d, r, n - 1)
    BY <1>1, <1>4, <1>5 DEF SoFar
  <2>2. m.own = {p} \cup {x \in Readable(d) : \E r \in ToSet(now) : x \in Under(d, r)}
    <3>1. PICK R : R = Readable(d)
      OBVIOUS
    <3>2. f.conf.own = {p} \cup {x \in R : \E r \in ToSet(pre) : x \in Under(d, r)}
      BY <1>1, <3>1 DEF SoFar
    <3>3. {x \in R : \E r \in ToSet(now) : x \in Under(d, r)}
            = {x \in R : \E r \in ToSet(pre) : x \in Under(d, r)} \cup (Under(d, q) \cap R)
      BY <1>4
    <3> QED BY <1>5, <1>6, <3>1, <3>2, <3>3
  <2>3. PICK r \in Seq(Paths) : r = Only(pre, Readable(d))
    BY <1>1, OnlyTyped
  <2>4. Only(now, Readable(d)) = Append(r, q)
    BY <1>1, <1>3, <1>5, <2>3, OnlyOfAppend
  <2>5. PICK u \in Seq(Paths) : u = Append(r, q) /\ u # <<>> /\ u[Len(u)] = q
    <3>1. Append(r, q) \in Seq(Paths) /\ Len(Append(r, q)) = Len(r) + 1 /\ Len(r) \in Nat
          /\ Append(r, q)[Len(r) + 1] = q
      OBVIOUS
    <3>2. PICK u \in Seq(Paths) : u = Append(r, q)
      BY <3>1
    <3>3. Len(u) = Len(r) + 1 /\ u[Len(u)] = q
      BY <3>1, <3>2
    <3>4. u # <<>>
      BY <3>1, <3>3, EmptySeq
    <3> QED BY <3>2, <3>3, <3>4
  <2>6. Only(now, Readable(d)) = u
    BY <2>4, <2>5
  <2> QED BY <1>5, <1>6, <2>1, <2>2, <2>5, <2>6, Zenon DEF SoFar
<1>8. p \in Readable(d) /\ n \in Nat /\ n >= 1
  BY DEF FrameRight
<1> DEFINE g == [conf |-> m, todo |-> t]
<1>9. g.conf = m /\ g.todo = t
      /\ g \in [conf : [shared : Paths, own : SUBSET Paths], todo : Seq(Paths)]
  BY <1>6
<1> HIDE DEF g
<1>10. d[p].includes = now \o t
  BY <1>1, <1>2, <1>4
<1>11. FrameRight(d, p, n, g)
  BY <1>7, <1>8, <1>9, <1>10 DEF FrameRight
<1> QED BY <1>2, <1>3, <1>11 DEF g, m

LEMMA SkipsRight ==
    ASSUME NEW d \in Disks, NEW p, NEW n, NEW f, FrameRight(d, p, n, f), f.todo # <<>>,
           Head(f.todo) \notin Readable(d), d[Head(f.todo)].state \notin FatalWords,
           n > 1
    PROVE  FrameRight(d, p, n, [f EXCEPT !.todo = Tail(f.todo)])
<1>1. PICK pre \in Seq(Paths) : d[p].includes = pre \o f.todo /\ SoFar(d, p, n, pre, f.conf)
  BY DEF FrameRight
<1>2. PICK s \in Seq(Paths) : s = f.todo /\ s # <<>>
  BY DEF FrameRight
<1>3. PICK q \in Paths, t \in Seq(Paths), now \in Seq(Paths) :
        q = Head(s) /\ t = Tail(s) /\ now = Append(pre, q)
  BY <1>1, <1>2, HeadMoves
<1>4. /\ pre \o s = now \o t
      /\ \A r : r \in ToSet(now) <=> r \in ToSet(pre) \/ r = q
  <2>1. pre \o s = now \o t
    BY <1>2, <1>3, ReadMoves
  <2> QED BY <1>3, <2>1, OneMoreRead
<1>5. Clean(d, q) /\ ~Deep(d, q, n - 1) /\ Under(d, q) = {q} /\ q \notin Readable(d)
  <2>1. q \notin Readable(d) /\ d[q].state \notin FatalWords
    BY <1>2, <1>3
  <2>2. Leads(d, q) = {}
    BY <2>1 DEF Leads
  <2>3. Below(d, q) = {}
    BY <2>2, BelowIs
  <2>4. ~Deep(d, q, n - 1)
    <3> SUFFICES ASSUME NEW way, way[0] = q,
                        \A i \in 0 .. n - 1 - 1 : way[i + 1] \in Leads(d, way[i])
                 PROVE  FALSE
      BY DEF Deep
    <3>1. 0 \in 0 .. n - 1 - 1
      BY DEF FrameRight
    <3> QED BY <2>2, <3>1
  <2> QED BY <2>1, <2>2, <2>3, <2>4, CleanFile DEF Under
<1>7. SoFar(d, p, n, now, f.conf)
  <2>1. \A r \in ToSet(now) : Clean(d, r) /\ ~Deep(d, r, n - 1)
    BY <1>1, <1>4, <1>5 DEF SoFar
  <2>2. f.conf.own = {p} \cup {x \in Readable(d) : \E r \in ToSet(now) : x \in Under(d, r)}
    <3>1. PICK R : R = Readable(d)
      OBVIOUS
    <3>2. f.conf.own = {p} \cup {x \in R : \E r \in ToSet(pre) : x \in Under(d, r)}
      BY <1>1, <3>1 DEF SoFar
    <3>3. {x \in R : \E r \in ToSet(now) : x \in Under(d, r)}
            = {x \in R : \E r \in ToSet(pre) : x \in Under(d, r)}
      BY <1>4, <1>5, <3>1
    <3> QED BY <3>1, <3>2, <3>3
  <2>3. Only(now, Readable(d)) = Only(pre, Readable(d))
    BY <1>1, <1>3, <1>5, OnlyOfAppend
  <2> QED BY <1>1, <2>1, <2>2, <2>3, Zenon DEF SoFar
<1>8. p \in Readable(d) /\ n \in Nat /\ n >= 1
      /\ f \in [conf : [shared : Paths, own : SUBSET Paths], todo : Seq(Paths)]
  BY DEF FrameRight
<1> DEFINE g == [f EXCEPT !.todo = Tail(f.todo)]
<1>9. g.conf = f.conf /\ g.todo = t
      /\ g \in [conf : [shared : Paths, own : SUBSET Paths], todo : Seq(Paths)]
  BY <1>2, <1>3, <1>8
<1> HIDE DEF g
<1>10. d[p].includes = now \o t
  BY <1>1, <1>2, <1>4
<1>11. FrameRight(d, p, n, g)
  BY <1>7, <1>8, <1>9, <1>10 DEF FrameRight
<1> QED BY <1>11 DEF g

-----------------------------------------------------------------------------
(* The stack of calls cs, for the files at: each is the right call for its *)
(* file, and was made for the include its caller is at.                    *)
Calls == [conf : [shared : Paths, own : SUBSET Paths], todo : Seq(Paths)]

Walking(d, cs, at) ==
    /\ cs \in Seq(Calls) /\ at \in Seq(Paths) /\ Len(at) = Len(cs)
    /\ Len(cs) <= MaxIncludeDepth + 1
    /\ cs # <<>> => at[1] = Root
    /\ \A i \in 1 .. Len(cs) : FrameRight(d, at[i], MaxIncludeDepth + 2 - i, cs[i])
    /\ \A i \in 1 .. Len(cs) - 1 : cs[i].todo # <<>> /\ at[i + 1] = Head(cs[i].todo)

(* q is the file of the next call.                                         *)
Wanted(cs, q) ==
    IF cs = <<>> THEN q = Root
    ELSE cs[Len(cs)].todo # <<>> /\ q = Head(cs[Len(cs)].todo)

Hopeless(d) ==
    \/ Root \notin Readable(d) \/ Circular(d, Root) \/ TooDeep(d)
    \/ \E p \in Under(d, Root) : d[p].state \in FatalWords

FilesInv ==
    /\ disk \in Disks
    /\ loaded \in [shared : Paths, own : SUBSET Paths]
    /\ loading \in {"reading", "error", "loaded"}
    /\ \E at : Walking(disk, calls, at)
    /\ loading = "error" => Hopeless(disk)
    /\ loading = "loaded" => Result(disk, Root, MaxIncludeDepth + 1, loaded)

LEMMA HeadIsLed ==
    ASSUME NEW d \in Disks, NEW p, NEW n, NEW f, FrameRight(d, p, n, f), f.todo # <<>>
    PROVE  Head(f.todo) \in Leads(d, p) /\ Head(f.todo) \in Paths /\ p \in Paths
<1>1. PICK pre \in Seq(Paths) : d[p].includes = pre \o f.todo
  BY DEF FrameRight
<1>2. PICK s \in Seq(Paths) : s = f.todo /\ s # <<>>
  BY DEF FrameRight
<1>3. Head(s) \in ToSet(pre \o s) /\ Head(s) \in Paths
  BY <1>2, ReadMoves, HeadTailProperties
<1>4. p \in Readable(d)
  BY DEF FrameRight
<1>5. p \in Paths /\ Leads(d, p) = ToSet(d[p].includes)
  BY <1>4, LeadsOfRead
<1> QED BY <1>1, <1>2, <1>3, <1>5

LEMMA CallsLeadDown ==
    ASSUME NEW d \in Disks, NEW cs, NEW at, Walking(d, cs, at)
    PROVE  LeadsDown(d, at, 1, Len(cs))
<1>1. \A i \in 1 .. Len(cs) : at[i] \in Paths
  BY DEF Walking
<1>2. ASSUME NEW i \in 1 .. Len(cs) - 1 PROVE at[i + 1] \in Leads(d, at[i])
  <2>1. i \in 1 .. Len(cs)
    BY DEF Walking
  <2>2. FrameRight(d, at[i], MaxIncludeDepth + 2 - i, cs[i]) /\ cs[i].todo # <<>> /\ at[i + 1] = Head(cs[i].todo)
    BY <2>1 DEF Walking
  <2> QED BY <2>2, HeadIsLed
<1> QED BY <1>1, <1>2 DEF LeadsDown

(* The next call is for a file under the one that is asked for.            *)
LEMMA NextIsUnder ==
    ASSUME NEW d \in Disks, NEW cs, NEW at, Walking(d, cs, at), NEW q, Wanted(cs, q)
    PROVE  /\ q \in Under(d, Root) /\ q \in Paths
           /\ \A i \in 1 .. Len(cs) : at[i] \in Under(d, Root) /\ q \in Below(d, at[i])
<1>1. Root \in Paths /\ Root \in Under(d, Root)
  BY ConfigFilesAssumption DEF ConfigFilesAssumption, Under
<1>2. CASE cs = <<>>
  <2>1. q = Root /\ 1 .. Len(cs) = {}
    BY <1>2 DEF Wanted
  <2> QED BY <1>1, <2>1
<1>3. CASE cs # <<>>
  <2>1. PICK n \in Nat : n = Len(cs) /\ n >= 1
    BY <1>3, EmptySeq DEF Walking
  <2>2. FrameRight(d, at[n], MaxIncludeDepth + 2 - n, cs[n]) /\ cs[n].todo # <<>> /\ q = Head(cs[n].todo)
    BY <1>3, <2>1 DEF Walking, Wanted
  <2>3. q \in Leads(d, at[n]) /\ q \in Paths /\ at[n] \in Paths
    BY <2>2, HeadIsLed
  <2>4. LeadsDown(d, at, 1, n)
    BY <2>1, CallsLeadDown
  <2>5. \A i \in 1 .. n : at[i] \in Paths
    BY <2>4 DEF LeadsDown
  <2>6. ASSUME NEW i \in 1 .. n PROVE q \in Below(d, at[i])
    <3>1. CASE i = n
      BY <2>3, <3>1, BelowIsLeast
    <3>2. CASE i < n
      <4>1. at[n] \in Below(d, at[i])
        BY <2>1, <2>4, <3>2, Descends
      <4> QED BY <2>3, <2>5, <4>1, BelowPasses DEF Under
    <3> QED BY <3>1, <3>2
  <2>7. at[1] = Root
    BY <1>3 DEF Walking
  <2>8. ASSUME NEW i \in 1 .. n PROVE at[i] \in Under(d, Root)
    <3>1. CASE i = 1
      BY <1>1, <2>7, <3>1
    <3>2. CASE 1 < i
      <4>1. 1 \in 1 .. n
        BY <2>1
      <4>2. at[i] \in Below(d, at[1])
        BY <2>1, <2>4, <3>2, <4>1, Descends
      <4> QED BY <2>7, <4>2 DEF Under
    <3> QED BY <3>1, <3>2
  <2>9. q \in Under(d, Root)
    BY <2>1, <2>6, <2>7 DEF Under
  <2> QED BY <2>1, <2>3, <2>6, <2>8, <2>9
<1> QED BY <1>2, <1>3

(* A call too deep: the files on the way are one include too many.         *)
LEMMA TooDeepACall ==
    ASSUME NEW d \in Disks, NEW cs, NEW at, Walking(d, cs, at), NEW q, Wanted(cs, q),
           Len(cs) > MaxIncludeDepth
    PROVE  TooDeep(d)
<1>1. MaxIncludeDepth \in Nat
  BY ConfigFilesAssumption DEF ConfigFilesAssumption
<1>2. PICK n \in Nat : n = Len(cs) /\ n = MaxIncludeDepth + 1
  <2>1. Len(cs) \in Nat /\ Len(cs) <= MaxIncludeDepth + 1
    BY DEF Walking
  <2> QED BY <1>1, <2>1
<1>3. LeadsDown(d, at, 1, n)
  BY <1>2, CallsLeadDown
<1>4. cs # <<>> /\ at[1] = Root
  <2>1. Len(cs) # 0
    BY <1>1, <1>2
  <2>2. cs # <<>>
    BY <2>1, EmptySeq
  <2> QED BY <2>2 DEF Walking
<1>5. q \in Leads(d, at[n]) /\ q \in Paths
  <2>1. n \in 1 .. Len(cs)
    BY <1>1, <1>2
  <2>2. FrameRight(d, at[n], MaxIncludeDepth + 2 - n, cs[n])
    BY <2>1 DEF Walking
  <2>3. cs[n].todo # <<>> /\ q = Head(cs[n].todo)
    BY <1>2, <1>4 DEF Wanted
  <2> QED BY <2>2, <2>3, HeadIsLed
<1> DEFINE way == [i \in 0 .. n |-> IF i < n THEN at[i + 1] ELSE q]
<1>6. way \in [0 .. n -> Paths]
  BY <1>3, <1>5 DEF LeadsDown
<1>7. way[0] = Root
  BY <1>1, <1>2, <1>4
<1>8. ASSUME NEW i \in 0 .. n - 1 PROVE way[i + 1] \in Leads(d, way[i])
  <2>1. CASE i = n - 1
    <3>1. way[i] = at[n] /\ way[i + 1] = q
      BY <2>1
    <3> QED BY <1>5, <3>1
  <2>2. CASE i < n - 1
    <3>1. way[i] = at[i + 1] /\ way[i + 1] = at[i + 1 + 1] /\ i + 1 \in 1 .. n - 1
      BY <2>2
    <3> HIDE DEF way
    <3>2. at[i + 1 + 1] \in Leads(d, at[i + 1])
      BY <1>3, <3>1 DEF LeadsDown
    <3> QED BY <3>1, <3>2
  <2> QED BY <2>1, <2>2
<1> HIDE DEF way
<1>9. Deep(d, Root, n)
  BY <1>6, <1>7, <1>8 DEF Deep
<1> QED BY <1>2, <1>9 DEF TooDeep

(* The innermost call goes on, opens another, returns.                     *)
LEMMA InnerGoesOn ==
    ASSUME NEW d \in Disks, NEW cs, NEW at, Walking(d, cs, at), cs # <<>>,
           NEW f, FrameRight(d, at[Len(cs)], MaxIncludeDepth + 2 - Len(cs), f)
    PROVE  Walking(d, [cs EXCEPT ![Len(cs)] = f], at)
<1>1. PICK n \in Nat : n = Len(cs) /\ n >= 1
  BY EmptySeq DEF Walking
<1>2. f \in Calls /\ cs \in Seq(Calls)
  BY DEF FrameRight, Calls, Walking
<1>3. PICK s \in Seq(Calls) : s = [cs EXCEPT ![n] = f] /\ Len(s) = n
                              /\ \A i \in 1 .. n : s[i] = IF i = n THEN f ELSE cs[i]
  <2>1. [cs EXCEPT ![n] = f] \in Seq(Calls) /\ Len([cs EXCEPT ![n] = f]) = n
        /\ \A i \in 1 .. n : [cs EXCEPT ![n] = f][i] = IF i = n THEN f ELSE cs[i]
    BY <1>1, <1>2, ExceptSeq
  <2> QED BY <2>1, Zenon
<1>4. \A i \in 1 .. n : FrameRight(d, at[i], MaxIncludeDepth + 2 - i, s[i])
  <2> SUFFICES ASSUME NEW i \in 1 .. n PROVE FrameRight(d, at[i], MaxIncludeDepth + 2 - i, s[i])
    OBVIOUS
  <2>1. CASE i = n
    <3>1. s[i] = f
      BY <1>3, <2>1
    <3> QED BY <1>1, <2>1, <3>1
  <2>2. CASE i # n
    <3>1. s[i] = cs[i]
      BY <1>3, <2>2
    <3> QED BY <1>1, <3>1 DEF Walking
  <2> QED BY <2>1, <2>2
<1>5. \A i \in 1 .. n - 1 : s[i].todo # <<>> /\ at[i + 1] = Head(s[i].todo)
  <2> SUFFICES ASSUME NEW i \in 1 .. n - 1 PROVE s[i].todo # <<>> /\ at[i + 1] = Head(s[i].todo)
    OBVIOUS
  <2>1. s[i] = cs[i]
    BY <1>3
  <2> QED BY <1>1, <2>1 DEF Walking
<1>6. at \in Seq(Paths) /\ Len(at) = Len(s) /\ at[1] = Root /\ Len(s) <= MaxIncludeDepth + 1
  BY <1>1, <1>3 DEF Walking
<1> QED BY <1>1, <1>3, <1>4, <1>5, <1>6 DEF Walking

LEMMA InnerOpens ==
    ASSUME NEW d \in Disks, NEW cs, NEW at, Walking(d, cs, at), NEW q, Wanted(cs, q),
           Len(cs) <= MaxIncludeDepth, q \in Readable(d)
    PROVE  Walking(d, Append(cs, [conf |-> Holding(q), todo |-> d[q].includes]), Append(at, q))
<1> DEFINE f == [conf |-> Holding(q), todo |-> d[q].includes]
<1>0. MaxIncludeDepth \in Nat /\ Len(cs) \in Nat
  BY ConfigFilesAssumption DEF ConfigFilesAssumption, Walking
<1>1. FrameRight(d, q, MaxIncludeDepth + 1 - Len(cs), f)
  <2>1. MaxIncludeDepth + 1 - Len(cs) \in Nat /\ MaxIncludeDepth + 1 - Len(cs) >= 1
    BY <1>0
  <2> QED BY <2>1, OpensRight
<1>2. f \in Calls /\ q \in Paths
  BY <1>1, LeadsOfRead DEF FrameRight, Calls
<1> HIDE DEF f
<1>3. PICK n \in Nat : n = Len(cs) /\ cs \in Seq(Calls) /\ at \in Seq(Paths) /\ Len(at) = n
  BY DEF Walking
<1>4. PICK s \in Seq(Calls) : s = Append(cs, f) /\ Len(s) = n + 1
                              /\ \A i \in 1 .. n + 1 : s[i] = IF i <= n THEN cs[i] ELSE f
  <2>1. Append(cs, f) \in Seq(Calls) /\ Len(Append(cs, f)) = n + 1
        /\ \A i \in 1 .. n + 1 : Append(cs, f)[i] = IF i <= n THEN cs[i] ELSE f
    BY <1>2, <1>3
  <2> QED BY <2>1, Zenon
<1>5. PICK a \in Seq(Paths) : a = Append(at, q) /\ Len(a) = n + 1
                              /\ \A i \in 1 .. n + 1 : a[i] = IF i <= n THEN at[i] ELSE q
  <2>1. Append(at, q) \in Seq(Paths) /\ Len(Append(at, q)) = n + 1
        /\ \A i \in 1 .. n + 1 : Append(at, q)[i] = IF i <= n THEN at[i] ELSE q
    BY <1>2, <1>3
  <2> QED BY <2>1, Zenon
<1>6. \A i \in 1 .. n + 1 : FrameRight(d, a[i], MaxIncludeDepth + 2 - i, s[i])
  <2> SUFFICES ASSUME NEW i \in 1 .. n + 1 PROVE FrameRight(d, a[i], MaxIncludeDepth + 2 - i, s[i])
    OBVIOUS
  <2>1. CASE i <= n
    <3>1. s[i] = cs[i] /\ a[i] = at[i] /\ i \in 1 .. n
      BY <1>4, <1>5, <2>1
    <3> QED BY <1>3, <3>1 DEF Walking
  <2>2. CASE i > n
    <3>1. s[i] = f /\ a[i] = q
      BY <1>4, <1>5, <2>2
    <3>2. i = Len(cs) + 1
      BY <1>3, <2>2
    <3>3. MaxIncludeDepth + 2 - i = MaxIncludeDepth + 1 - Len(cs)
      BY <1>0, <3>2
    <3> QED BY <1>1, <3>1, <3>3
  <2> QED BY <2>1, <2>2
<1>7. \A i \in 1 .. n + 1 - 1 : s[i].todo # <<>> /\ a[i + 1] = Head(s[i].todo)
  <2> SUFFICES ASSUME NEW i \in 1 .. n PROVE s[i].todo # <<>> /\ a[i + 1] = Head(s[i].todo)
    BY <1>3
  <2>1. s[i] = cs[i]
    BY <1>4
  <2>2. CASE i < n
    <3>1. a[i + 1] = at[i + 1] /\ i \in 1 .. n - 1
      BY <1>5, <2>2
    <3> QED BY <1>3, <2>1, <3>1 DEF Walking
  <2>3. CASE i = n
    <3>1. a[i + 1] = q
      BY <1>5, <2>3
    <3>2. cs # <<>>
      BY <1>3, <2>3
    <3> QED BY <1>3, <2>1, <2>3, <3>1, <3>2 DEF Wanted
  <2> QED BY <2>2, <2>3
<1>8. a[1] = Root
  <2>1. CASE n = 0
    <3>1. cs = <<>>
      BY <1>3, <2>1, EmptySeq
    <3>2. q = Root
      BY <3>1 DEF Wanted
    <3> QED BY <1>5, <2>1, <3>2
  <2>2. CASE n # 0
    <3>1. a[1] = at[1] /\ cs # <<>>
      BY <1>3, <1>5, <2>2
    <3> QED BY <3>1 DEF Walking
  <2> QED BY <2>1, <2>2
<1>9. MaxIncludeDepth \in Nat
  BY ConfigFilesAssumption DEF ConfigFilesAssumption
<1>10. Len(a) = Len(s) /\ Len(s) <= MaxIncludeDepth + 1
  BY <1>3, <1>4, <1>5, <1>9
<1>11. Walking(d, s, a)
  BY <1>4, <1>5, <1>6, <1>7, <1>8, <1>10 DEF Walking
<1> QED BY <1>4, <1>5, <1>11 DEF f

LEMMA InnerReturns ==
    ASSUME NEW d \in Disks, NEW cs, NEW at, Walking(d, cs, at), Len(cs) > 1
    PROVE  Walking(d, SubSeq(cs, 1, Len(cs) - 1), SubSeq(at, 1, Len(cs) - 1))
<1>1. PICK n \in Nat : n = Len(cs) - 1 /\ n >= 1
  <2>1. Len(cs) \in Nat
    BY DEF Walking
  <2>2. Len(cs) - 1 \in Nat /\ Len(cs) - 1 >= 1
    BY <2>1
  <2> QED BY <2>2
<1>2. cs \in Seq(Calls) /\ at \in Seq(Paths) /\ Len(cs) = n + 1 /\ Len(at) = n + 1
  BY <1>1 DEF Walking
<1>3. PICK s \in Seq(Calls) : s = SubSeq(cs, 1, n) /\ Len(s) = n /\ \A i \in 1 .. n : s[i] = cs[i]
  <2>1. SubSeq(cs, 1, n) \in Seq(Calls) /\ Len(SubSeq(cs, 1, n)) = n
        /\ \A i \in 1 .. n : SubSeq(cs, 1, n)[i] = cs[i]
    BY <1>1, <1>2
  <2> QED BY <2>1, Zenon
<1>4. PICK a \in Seq(Paths) : a = SubSeq(at, 1, n) /\ Len(a) = n /\ \A i \in 1 .. n : a[i] = at[i]
  <2>1. SubSeq(at, 1, n) \in Seq(Paths) /\ Len(SubSeq(at, 1, n)) = n
        /\ \A i \in 1 .. n : SubSeq(at, 1, n)[i] = at[i]
    BY <1>1, <1>2
  <2> QED BY <2>1, Zenon
<1>5. \A i \in 1 .. n : FrameRight(d, a[i], MaxIncludeDepth + 2 - i, s[i])
  BY <1>2, <1>3, <1>4 DEF Walking
<1>6. \A i \in 1 .. n - 1 : s[i].todo # <<>> /\ a[i + 1] = Head(s[i].todo)
  <2> SUFFICES ASSUME NEW i \in 1 .. n - 1 PROVE s[i].todo # <<>> /\ a[i + 1] = Head(s[i].todo)
    OBVIOUS
  <2>1. s[i] = cs[i] /\ a[i + 1] = at[i + 1] /\ i \in 1 .. Len(cs) - 1
    BY <1>2, <1>3, <1>4
  <2> QED BY <2>1 DEF Walking
<1>7. cs # <<>> /\ a[1] = at[1]
  BY <1>1, <1>2, <1>4
<1>8. a[1] = Root /\ Len(s) <= MaxIncludeDepth + 1
  <2>1. MaxIncludeDepth \in Nat
    BY ConfigFilesAssumption DEF ConfigFilesAssumption
  <2> QED BY <1>2, <1>3, <1>7, <2>1 DEF Walking
<1>9. Walking(d, s, a)
  BY <1>3, <1>4, <1>5, <1>6, <1>8 DEF Walking
<1> QED BY <1>1, <1>3, <1>4, <1>9

-----------------------------------------------------------------------------
(* Every step of the reader keeps the stack right, and an end is right.    *)

LEMMA NoCalls == ASSUME NEW d PROVE Walking(d, <<>>, <<>>)
<1>1. PICK c \in Seq(Calls) : c = <<>> /\ Len(c) = 0
  BY EmptySeq
<1>2. PICK a \in Seq(Paths) : a = <<>> /\ Len(a) = 0
  BY EmptySeq
<1>3. 1 .. 0 = {} /\ 1 .. 0 - 1 = {} /\ MaxIncludeDepth \in Nat /\ 0 <= MaxIncludeDepth + 1
  BY ConfigFilesAssumption DEF ConfigFilesAssumption
<1>4. Walking(d, c, a)
  BY <1>1, <1>2, <1>3 DEF Walking
<1> QED BY <1>1, <1>2, <1>4

LEMMA FilesInitInv == FilesInit => FilesInv
<1> SUFFICES ASSUME FilesInit PROVE FilesInv
  OBVIOUS
<1>1. disk \in Disks /\ calls = <<>> /\ loading = "reading"
  BY DEF FilesInit, Disks
<1>2. loaded \in [shared : Paths, own : SUBSET Paths]
  BY ConfigFilesAssumption DEF FilesInit, Holding, ConfigFilesAssumption
<1>3. Walking(disk, calls, <<>>)
  BY <1>1, NoCalls
<1> QED BY <1>1, <1>2, <1>3 DEF FilesInv

(* What a step finds: the file of the next call, if one is due.            *)
LEMMA DueIsWanted ==
    ASSUME NEW at, Walking(disk, calls, at), Due
    PROVE  Wanted(calls, Callee) /\ Depth = Len(calls)
BY DEF Due, Callee, Inner, Last, Wanted, Depth

LEMMA ReadFileInv ==
    ASSUME FilesInv, ReadFile
    PROVE  FilesInv'
<1>1. PICK at : Walking(disk, calls, at)
  BY DEF FilesInv
<1>2. PICK q : q = Callee
  OBVIOUS
<1>3. disk \in Disks /\ Wanted(calls, q)
  BY <1>1, <1>2, DueIsWanted DEF FilesInv, ReadFile
<1>4. q \in Paths
  BY <1>1, <1>3, NextIsUnder
<1>5. q \in Readable(disk)
  BY <1>2, <1>4 DEF ReadFile, Readable
<1>6. Len(calls) <= MaxIncludeDepth
  <2>1. ~(Len(calls) > MaxIncludeDepth)
    BY DEF ReadFile, Fatal, Depth
  <2>2. Len(calls) \in Nat /\ MaxIncludeDepth \in Nat
    BY <1>1, ConfigFilesAssumption DEF Walking, ConfigFilesAssumption
  <2> QED BY <2>1, <2>2
<1>7. calls' = Append(calls, [conf |-> Holding(q), todo |-> disk[q].includes])
  BY <1>2 DEF ReadFile, Frame
<1>8. Walking(disk, calls', Append(at, q))
  BY <1>1, <1>3, <1>5, <1>6, <1>7, InnerOpens
<1>9. disk' = disk /\ loading' = loading /\ loaded' = loaded
  BY DEF ReadFile
<1>10. \E a : Walking(disk, calls', a)
  BY <1>8
<1> QED BY <1>9, <1>10 DEF FilesInv

(* No error of a file on the way to the one asked for is survived but that *)
(* of an include that does not exist, and that has nothing under it.       *)
LEMMA ReadFailsInv ==
    ASSUME FilesInv, ReadFails
    PROVE  FilesInv'
<1>1. PICK at : Walking(disk, calls, at)
  BY DEF FilesInv
<1>2. PICK q : q = Callee
  OBVIOUS
<1>3. disk \in Disks /\ Wanted(calls, q)
  BY <1>1, <1>2, DueIsWanted DEF FilesInv, ReadFails
<1>4. q \in Paths /\ q \in Under(disk, Root)
  BY <1>1, <1>3, NextIsUnder
<1>5. disk' = disk /\ loaded' = loaded
  BY DEF ReadFails
<1>6. CASE Fatal \/ calls = <<>>
  <2>1. calls' = <<>> /\ loading' = "error"
    BY <1>6 DEF ReadFails
  <2>2. Hopeless(disk)
    <3>1. CASE Len(calls) > MaxIncludeDepth
      <4>1. TooDeep(disk)
        BY <1>1, <1>3, <3>1, TooDeepACall
      <4> QED BY <4>1 DEF Hopeless
    <3>2. CASE disk[q].state \in FatalWords
      BY <1>4, <3>2 DEF Hopeless
    <3>3. CASE calls = <<>> /\ disk[q].state # "read"
      <4>1. q = Root
        BY <1>3, <3>3 DEF Wanted
      <4> QED BY <3>3, <4>1 DEF Hopeless, Readable
    <3>4. Fatal => Len(calls) > MaxIncludeDepth \/ disk[q].state \in FatalWords
      BY <1>2 DEF Fatal, Depth
    <3>5. Fatal \/ disk[q].state # "read"
      BY <1>2 DEF ReadFails
    <3> QED BY <1>6, <3>1, <3>2, <3>3, <3>4, <3>5
  <2>3. Walking(disk, calls', <<>>)
    BY <2>1, NoCalls
  <2>4. \E a : Walking(disk, calls', a)
    BY <2>3
  <2> QED BY <1>5, <2>1, <2>2, <2>4 DEF FilesInv
<1>7. CASE ~Fatal /\ calls # <<>>
  <2>1. PICK f : f = calls[Len(calls)]
    OBVIOUS
  <2>2. calls' = Skipped /\ loading' = loading
    BY <1>7 DEF ReadFails
  <2>3. f.todo # <<>> /\ q = Head(f.todo)
    BY <1>3, <1>7, <2>1 DEF Wanted
  <2>4. FrameRight(disk, at[Len(calls)], MaxIncludeDepth + 2 - Len(calls), f)
    <3>1. Len(calls) \in 1 .. Len(calls)
      BY <1>1, <1>7, EmptySeq DEF Walking
    <3> QED BY <1>1, <2>1, <3>1 DEF Walking
  <2>5. q \notin Readable(disk) /\ disk[q].state \notin FatalWords
    BY <1>2, <1>7 DEF ReadFails, Fatal, Readable
  <2>6. FrameRight(disk, at[Len(calls)], MaxIncludeDepth + 2 - Len(calls),
                   [f EXCEPT !.todo = Tail(f.todo)])
    <3>1. MaxIncludeDepth + 2 - Len(calls) > 1
      <4>1. ~(Len(calls) > MaxIncludeDepth)
        BY <1>7 DEF Fatal, Depth
      <4>2. Len(calls) \in Nat /\ MaxIncludeDepth \in Nat
        BY <1>1, ConfigFilesAssumption DEF Walking, ConfigFilesAssumption
      <4> QED BY <4>1, <4>2
    <3> QED BY <1>3, <2>3, <2>4, <2>5, <3>1, SkipsRight
  <2>7. calls' = [calls EXCEPT ![Len(calls)] = [f EXCEPT !.todo = Tail(f.todo)]]
    BY <2>1, <2>2 DEF Skipped, ReplaceAt, Inner, Last
  <2>8. Walking(disk, calls', at)
    BY <1>1, <1>3, <1>7, <2>6, <2>7, InnerGoesOn
  <2>9. \E a : Walking(disk, calls', a)
    BY <2>8
  <2> QED BY <1>5, <2>2, <2>9 DEF FilesInv
<1> QED BY <1>6, <1>7

LEMMA ReadReturnsInv ==
    ASSUME FilesInv, ReadReturns
    PROVE  FilesInv'
<1>1. PICK at : Walking(disk, calls, at)
  BY DEF FilesInv
<1>2. disk \in Disks /\ calls # <<>> /\ disk' = disk
  BY DEF FilesInv, ReadReturns
<1>3. PICK n \in Nat : n = Len(calls) /\ n >= 1
  BY <1>1, <1>2, EmptySeq DEF Walking
<1>4. PICK f : f = calls[n]
  OBVIOUS
<1>5. Inner = f /\ f.todo = <<>>
  BY <1>3, <1>4 DEF ReadReturns, Inner, Last
<1>6. FrameRight(disk, at[n], MaxIncludeDepth + 2 - n, f)
  BY <1>1, <1>3, <1>4 DEF Walking
<1>7. Result(disk, at[n], MaxIncludeDepth + 2 - n, f.conf)
  BY <1>2, <1>5, <1>6, ReturnsRight
<1>8. CASE n = 1
  <2>1. calls' = <<>> /\ loading' = "loaded" /\ loaded' = f.conf
    BY <1>3, <1>5, <1>8 DEF ReadReturns
  <2>2. at[n] = Root
    BY <1>1, <1>2, <1>8 DEF Walking
  <2>3. /\ Result(disk, Root, MaxIncludeDepth + 1, loaded')
        /\ loaded' \in [shared : Paths, own : SUBSET Paths]
    <3>1. MaxIncludeDepth + 2 - n = MaxIncludeDepth + 1
      BY <1>8, ConfigFilesAssumption DEF ConfigFilesAssumption
    <3> QED BY <1>7, <2>1, <2>2, <3>1 DEF Result
  <2>4. Walking(disk, calls', <<>>)
    BY <2>1, NoCalls
  <2>5. \E a : Walking(disk, calls', a)
    BY <2>4
  <2> QED BY <1>2, <2>1, <2>3, <2>5 DEF FilesInv
<1>9. CASE n > 1
  <2>1. PICK m \in Nat : m = n - 1 /\ m >= 1
    BY <1>9
  <2>2. PICK b : b = SubSeq(calls, 1, m)
    OBVIOUS
  <2>3. PICK a : a = SubSeq(at, 1, m)
    OBVIOUS
  <2>4. Walking(disk, b, a)
    <3>1. Len(calls) > 1 /\ Len(calls) - 1 = m
      BY <1>3, <1>9, <2>1
    <3>2. Walking(disk, SubSeq(calls, 1, Len(calls) - 1), SubSeq(at, 1, Len(calls) - 1))
      BY <1>1, <1>2, <3>1, InnerReturns
    <3> QED BY <2>2, <2>3, <3>1, <3>2
  <2>5. Len(b) = m /\ b[m] = calls[m] /\ a[m] = at[m] /\ b # <<>>
    <3>1. calls \in Seq(Calls) /\ at \in Seq(Paths) /\ Len(at) = Len(calls)
      BY <1>1 DEF Walking
    <3>2. Len(b) = m /\ b[m] = calls[m]
      BY <1>3, <2>1, <2>2, <3>1
    <3>3. a[m] = at[m]
      BY <1>3, <2>1, <2>3, <3>1
    <3>4. b # <<>>
      BY <2>1, <3>2, EmptySeq
    <3> QED BY <3>2, <3>3, <3>4
  <2>6. PICK g : g = calls[m]
    OBVIOUS
  <2>7. FrameRight(disk, at[m], MaxIncludeDepth + 2 - m, g) /\ g.todo # <<>> /\ at[n] = Head(g.todo)
    <3>1. m \in 1 .. Len(calls) /\ m \in 1 .. Len(calls) - 1 /\ m + 1 = n
      BY <1>3, <2>1
    <3>2. FrameRight(disk, at[m], MaxIncludeDepth + 2 - m, calls[m])
      BY <1>1, <3>1 DEF Walking
    <3>3. calls[m].todo # <<>> /\ at[m + 1] = Head(calls[m].todo)
      BY <1>1, <3>1 DEF Walking
    <3> QED BY <2>6, <3>1, <3>2, <3>3
  <2> DEFINE h == [conf |-> MergedOver(g.conf, f.conf), todo |-> Tail(g.todo)]
  <2>8. FrameRight(disk, a[Len(b)], MaxIncludeDepth + 2 - Len(b), h)
    <3>1. /\ MaxIncludeDepth + 2 - m \in Int /\ MaxIncludeDepth + 2 - n \in Int
          /\ MaxIncludeDepth + 2 - n = MaxIncludeDepth + 2 - m - 1
      BY <1>3, <2>1, ConfigFilesAssumption DEF ConfigFilesAssumption
    <3>4. PICK k \in Int : k = MaxIncludeDepth + 2 - m
      BY <3>1
    <3>6. PICK j \in Int : j = MaxIncludeDepth + 2 - n
      BY <3>1
    <3>2. k = MaxIncludeDepth + 2 - m /\ j = MaxIncludeDepth + 2 - n
      BY <3>4, <3>6
    <3>8. j = k - 1
      <4>1. n \in Nat /\ m = n - 1 /\ MaxIncludeDepth \in Nat
        BY <1>3, <2>1, ConfigFilesAssumption DEF ConfigFilesAssumption
      <4> QED BY <3>2, <4>1
    <3>5. Result(disk, Head(g.todo), j, f.conf)
      BY <1>7, <2>7, <3>2
    <3>3. Result(disk, Head(g.todo), k - 1, f.conf)
      BY <3>8, <3>5
    <3>7. FrameRight(disk, at[m], k, h)
      BY <1>2, <2>7, <3>2, <3>3, TakesRight
    <3> QED BY <2>5, <3>2, <3>7
  <2>9. calls' = [b EXCEPT ![Len(b)] = h] /\ loading' = loading /\ loaded' = loaded
    <3>1. Len(calls) # 1 /\ Front(calls) = b /\ Last(b) = g
      BY <1>3, <1>9, <2>1, <2>2, <2>5, <2>6 DEF Front, Last
    <3> QED BY <1>5, <3>1 DEF ReadReturns, ReplaceAt
  <2> HIDE DEF h
  <2>10. Walking(disk, calls', a)
    BY <1>2, <2>4, <2>5, <2>8, <2>9, InnerGoesOn
  <2>11. \E x : Walking(disk, calls', x)
    BY <2>10
  <2> QED BY <1>2, <2>9, <2>11 DEF FilesInv
<1>10. n = 1 \/ n > 1
  BY <1>3
<1> QED BY <1>8, <1>9, <1>10

LEMMA FilesStepInv == FilesInv /\ [FilesNext]_fileVars => FilesInv'
<1> SUFFICES ASSUME FilesInv, [FilesNext]_fileVars PROVE FilesInv'
  OBVIOUS
<1>1. CASE ReadFile
  BY <1>1, ReadFileInv
<1>2. CASE ReadFails
  BY <1>2, ReadFailsInv
<1>3. CASE ReadReturns
  BY <1>3, ReadReturnsInv
<1>4. CASE UNCHANGED fileVars
  BY <1>4 DEF FilesInv, fileVars
<1> QED BY <1>1, <1>2, <1>3, <1>4 DEF FilesNext

(* A file that was read in full is one that can be.                        *)
LEMMA ResultIsNotHopeless ==
    ASSUME NEW d \in Disks, NEW c, Result(d, Root, MaxIncludeDepth + 1, c)
    PROVE  /\ ~Hopeless(d)
           /\ c = [shared |-> Winner(d, Root), own |-> Under(d, Root) \cap Readable(d)]
<1>1. Root \in Readable(d) /\ Root \in Paths /\ Clean(d, Root)
  BY ConfigFilesAssumption DEF Result, ConfigFilesAssumption
<1>2. ~Hopeless(d)
  BY <1>1 DEF Hopeless, Clean, Circular, Result, TooDeep
<1>3. c.shared = Winner(d, Root)
  BY <1>1, WinnerIs DEF Result
<1>4. c \in [shared : Paths, own : SUBSET Paths] /\ c.own = Under(d, Root) \cap Readable(d)
  BY DEF Result
<1>5. c = [shared |-> c.shared, own |-> c.own]
  BY <1>4
<1> QED BY <1>2, <1>3, <1>4, <1>5

LEMMA FilesInvIsSound == FilesInv => IncludesSound
<1> SUFFICES ASSUME FilesInv PROVE IncludesSound
  OBVIOUS
<1>1. PICK at : Walking(disk, calls, at)
  BY DEF FilesInv
<1>2. FilesTypeOK
  BY <1>1 DEF FilesInv, FilesTypeOK, Walking, Disks
<1>3. disk \in Disks
  BY DEF FilesInv
<1>4. loading = "loaded" =>
        /\ ~Hopeless(disk)
        /\ loaded = [shared |-> Winner(disk, Root), own |-> Under(disk, Root) \cap Readable(disk)]
  BY <1>3, ResultIsNotHopeless DEF FilesInv
<1>5. loading = "error" => Hopeless(disk)
  BY DEF FilesInv
<1>6. loading \in {"reading", "error", "loaded"}
  BY DEF FilesInv
<1> QED BY <1>2, <1>4, <1>5, <1>6 DEF IncludesSound, Hopeless

(* Beside the stores, the files are read as on their own.                  *)
LEMMA StoresHostFiles == StoresSpec => FilesSpec
<1>1. StoresInit => FilesInit
  BY DEF StoresInit
<1>2. [StoresNext]_storesVars => [FilesNext]_fileVars
  BY DEF StoresNext, storesVars, OnlySessions, OnlyHttp
<1> QED BY <1>1, <1>2, PTL DEF StoresSpec, FilesSpec

(* A configuration file is read with everything it includes, or not at     *)
(* all, and then for a reason: it cannot be read itself, files include     *)
(* each other in a circle or in a chain longer than the limit, or a file   *)
(* is reached that is a link or whose error has one of the fatal words;    *)
(* and the include read last wins (read_config_with_includes in            *)
(* config/io.rs).                                                          *)
THEOREM FilesAreReadInFull == StoresSpec => []IncludesSound
<1>1. FilesSpec => []FilesInv
  BY FilesInitInv, FilesStepInv, PTL DEF FilesSpec
<1> QED BY <1>1, StoresHostFiles, FilesInvIsSound, PTL
=============================================================================
