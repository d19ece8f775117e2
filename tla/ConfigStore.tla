----------------------------- MODULE ConfigStore -----------------------------
(***************************************************************************)
(* The running configuration and the requests that change it:              *)
(* config.patch, .set, .apply, .reload and secrets.reload of               *)
(* src/gateway/websocket.rs, with the secrets workflow a reload goes       *)
(* through (src/infra/secrets).                                            *)
(*                                                                         *)
(* The configuration is reduced to the fields apply_config_patch knows.    *)
(* A value may be a reference to a secret ($ENV{..}, $EXEC{..}, $SOPS{..}) *)
(* which a reload replaces by the secret.  A connection handles one        *)
(* request at a time; a reload waits while its references are resolved     *)
(* and again for the write lock.                                           *)
(***************************************************************************)
EXTENDS Naturals, Functions

CONSTANTS
    Conns,       \* connections
    Fields,      \* fields apply_config_patch writes
    Serialized,  \* those the serialized configuration shows at the same path
    Guarded,     \* those written only into an entry that is there (google's key)
    NoEntry,     \* a guarded field whose entry is missing
    Plain,       \* ordinary values
    Refs,        \* values that are references to a secret
    Disk,        \* the configuration file
    MaxOps       \* bound: requests

ASSUME ConfigStoreAssumption ==
    /\ Serialized \subseteq Fields
    /\ Guarded \subseteq Fields
    /\ NoEntry \notin Plain \cup Refs
    /\ Plain \cap Refs = {}
    /\ \A v \in Plain \cup Refs \cup {NoEntry} : <<"secret", v>> \notin Refs \cup {NoEntry}
       \* no secret reads as a reference
    /\ DOMAIN Disk \subseteq Fields
    /\ \A f \in DOMAIN Disk : Disk[f] \in Plain \cup Refs
    /\ MaxOps \in Nat

VARIABLES
    config,   \* state.config
    hash,     \* config_hash: one per connection
    reader,   \* what a connection's reader loop is doing
    req,      \* the reload it is handling
    draft,    \* new_config_value, later final_config_value, of that reload
    ops,      \* requests so far
    intended, \* history: the value last given to a field
    stale,    \* history: fields of a reload's draft that are not their latest value
    undone    \* history: fields an outdated draft was written over

given == <<intended, stale, undone>>
vars == <<config, hash, reader, req, draft, ops, given>>

Resolved(v) == <<"secret", v>>
Given == Plain \cup Refs
Values == Given \cup {Resolved(v) : v \in Refs}

(* A reload: of the file or of the running configuration, with its         *)
(* resolveSecrets, failOnMissing (strict) and requiredPaths; or a          *)
(* secrets.reload.                                                         *)
NoReq == [kind |-> "none", fromDisk |-> FALSE, resolve |-> FALSE,
          strict |-> FALSE, required |-> {}]
Reloads == [kind : {"reload"}, fromDisk : BOOLEAN, resolve : BOOLEAN,
            strict : BOOLEAN, required : SUBSET Fields]
SecretReloads == [kind : {"secrets"}, fromDisk : {FALSE}, resolve : {TRUE},
                  strict : BOOLEAN, required : SUBSET Fields]

Init ==
    /\ config \in [Fields -> Given \cup {NoEntry}]
    /\ \A f \in Fields : config[f] = NoEntry => f \in Guarded
    /\ hash = [c \in Conns |-> 0]
    /\ reader = [c \in Conns |-> "ready"]
    /\ req = [c \in Conns |-> NoReq]
    /\ draft = [c \in Conns |-> <<>>]
    /\ ops = 0
    /\ intended = config
    /\ stale = [c \in Conns |-> {}]
    /\ undone = {}

(* secrets.reload keeps the read guard while the references are resolved.  *)
ReadLocked == \E c \in Conns : reader[c] = "resolve" /\ req[c].kind = "secrets"

(* The JSON of the configuration, as far as apply_config_patch looks at it. *)
Snapshot == Restrict(config, {f \in Serialized : config[f] # NoEntry})

(* apply_config_patch: the fields present in the patch, nothing else, and  *)
(* a guarded one only where there is an entry to modify.                   *)
Overlay(conf, patch) ==
    [f \in Fields |-> IF f \in DOMAIN patch /\ conf[f] # NoEntry THEN patch[f] ELSE conf[f]]

(* The fields F are given a value while other connections' copies of the   *)
(* running configuration wait to be activated.                             *)
Outdate(F) ==
    stale' = [c \in Conns |-> IF reader[c] # "ready" /\ ~req[c].fromDisk
                              THEN stale[c] \cup F ELSE stale[c]]

-----------------------------------------------------------------------------
(* config.patch (whose baseHash is read and not looked at), config.set and *)
(* config.apply.                                                           *)
ConfigPatch(c, patch) ==
    /\ reader[c] = "ready"
    /\ ops < MaxOps
    /\ ~ReadLocked
    /\ config' = Overlay(config, patch)
    /\ hash' = [hash EXCEPT ![c] = @ + 1]
    /\ ops' = ops + 1
    /\ intended' = Overlay(intended, patch)
    /\ Outdate(DOMAIN patch)
    /\ undone' = undone \ DOMAIN patch
    /\ UNCHANGED <<reader, req, draft>>

(* config.reload of a file that cannot be read: an error is the answer.    *)
ReloadUnread(c) ==
    /\ reader[c] = "ready"
    /\ ops < MaxOps
    /\ ops' = ops + 1
    /\ UNCHANGED <<config, hash, reader, req, draft, given>>

(* config.reload, phase 1: the file, or the running configuration.         *)
ReloadBegin(c, q) ==
    /\ reader[c] = "ready"
    /\ ops < MaxOps
    /\ ops' = ops + 1
    /\ req' = [req EXCEPT ![c] = q]
    /\ draft' = [draft EXCEPT ![c] = IF q.fromDisk THEN Disk ELSE Snapshot]
    /\ reader' = [reader EXCEPT ![c] = IF q.resolve THEN "resolve" ELSE "activate"]
    /\ stale' = [stale EXCEPT ![c] = undone]
    /\ UNCHANGED <<config, hash, intended, undone>>

SecretsBegin(c, q) ==
    /\ reader[c] = "ready"
    /\ ops < MaxOps
    /\ ops' = ops + 1
    /\ req' = [req EXCEPT ![c] = q]
    /\ draft' = [draft EXCEPT ![c] = Snapshot]
    /\ reader' = [reader EXCEPT ![c] = "resolve"]
    /\ stale' = [stale EXCEPT ![c] = undone]
    /\ UNCHANGED <<config, hash, intended, undone>>

(* Mutant of Substituted: a value that is already a secret is taken for a  *)
(* reference.                                                              *)
SubstitutedTwice(patch, ok) ==
    [f \in DOMAIN patch |-> IF patch[f] \in Plain THEN patch[f] ELSE Resolved(patch[f])]

(* SecretWorkflow.configure: the references in ok resolve, the others stay *)
(* as they are.                                                            *)
Substituted(patch, ok) ==
    [f \in DOMAIN patch |-> IF patch[f] \in ok THEN Resolved(patch[f]) ELSE patch[f]]

(* check_unresolved_required.                                              *)
Unresolved(patch, ok, required) ==
    {f \in DOMAIN patch \cap required : patch[f] \in Refs \ ok}

(* SecretWorkflow.apply refuses: the reload answers with an error.         *)
Refused(c, ok) ==
    req[c].strict /\ Unresolved(draft[c], ok, req[c].required) # {}

(* Mutant of ResolveFails: the draft is active before it is resolved.      *)
ResolveFailsLate(c, ok) ==
    /\ reader[c] = "resolve"
    /\ Refused(c, ok)
    /\ config' = Overlay(config, draft[c])
    /\ reader' = [reader EXCEPT ![c] = "ready"]
    /\ UNCHANGED <<hash, req, draft, ops, given>>

ResolveFails(c, ok) ==
    /\ reader[c] = "resolve"
    /\ Refused(c, ok)
    /\ reader' = [reader EXCEPT ![c] = "ready"]
    /\ UNCHANGED <<config, hash, req, draft, ops, given>>

(* secrets.reload reports the result and drops the resolved configuration. *)
SecretsDone(c, ok) ==
    /\ reader[c] = "resolve"
    /\ req[c].kind = "secrets"
    /\ ~Refused(c, ok)
    /\ draft' = [draft EXCEPT ![c] = Substituted(@, ok)]
    /\ reader' = [reader EXCEPT ![c] = "ready"]
    /\ UNCHANGED <<config, hash, req, ops, given>>

(* Mutant of ReloadResolved: the refusal is not looked at.                 *)
ReloadResolvedAnyway(c, ok) ==
    /\ reader[c] = "resolve"
    /\ req[c].kind = "reload"
    /\ draft' = [draft EXCEPT ![c] = Substituted(@, ok)]
    /\ reader' = [reader EXCEPT ![c] = "activate"]
    /\ UNCHANGED <<config, hash, req, ops, given>>

ReloadResolved(c, ok) ==
    /\ reader[c] = "resolve"
    /\ req[c].kind = "reload"
    /\ ~Refused(c, ok)
    /\ draft' = [draft EXCEPT ![c] = Substituted(@, ok)]
    /\ reader' = [reader EXCEPT ![c] = "activate"]
    /\ UNCHANGED <<config, hash, req, ops, given>>

(* Phases 2 and 3, under the write lock.                                   *)
Activate(c) ==
    /\ reader[c] = "activate"
    /\ ~ReadLocked
    /\ config' = Overlay(config, draft[c])
    /\ hash' = [hash EXCEPT ![c] = @ + 1]
    /\ reader' = [reader EXCEPT ![c] = "ready"]
    /\ IF req[c].fromDisk
       THEN /\ intended' = Overlay(intended, Disk)
            /\ undone' = undone \ DOMAIN Disk
            /\ Outdate(DOMAIN Disk)
       ELSE /\ undone' = (undone \ DOMAIN draft[c]) \cup (stale[c] \cap DOMAIN draft[c])
            /\ UNCHANGED <<intended, stale>>
    /\ UNCHANGED <<req, draft, ops>>

Patches == UNION {[F -> Given] : F \in SUBSET Fields \ {{}}}

Next ==
    \E c \in Conns :
        \/ \E patch \in Patches : ConfigPatch(c, patch)
        \/ ReloadUnread(c)
        \/ \E q \in Reloads : ReloadBegin(c, q)
        \/ \E q \in SecretReloads : SecretsBegin(c, q)
        \/ \E ok \in SUBSET Refs :
             ResolveFails(c, ok) \/ SecretsDone(c, ok) \/ ReloadResolved(c, ok)
        \/ Activate(c)

Spec == Init /\ [][Next]_vars

-----------------------------------------------------------------------------
TypeOK ==
    /\ config \in [Fields -> Values \cup {NoEntry}]
    /\ hash \in [Conns -> Nat]
    /\ reader \in [Conns -> {"ready", "resolve", "activate"}]
    /\ req \in [Conns -> Reloads \cup SecretReloads \cup {NoReq}]
    /\ \A c \in Conns : \A f \in DOMAIN draft[c] : draft[c][f] \in Values
    /\ ops \in 0..MaxOps
    /\ intended \in [Fields -> Given \cup {NoEntry}]
    /\ stale \in [Conns -> SUBSET Fields]
    /\ undone \subseteq Fields

(* Whatever connections patch and reload at the same time, what was        *)
(* configured last is only lost to one thing: a reload of the running      *)
(* configuration whose copy was taken before and written back after.       *)
(* Every other field holds what a patch or the file gave it last, or the   *)
(* secret that value refers to (config.patch and config.reload; a google   *)
(* key patched into a configuration without that provider's entry is not   *)
(* taken, and does not count as given).                                    *)
PatchesKept == \A f \in Fields \ undone : config[f] \in {intended[f], Resolved(intended[f])}

Activated(c) == reader[c] = "activate" /\ reader'[c] = "ready"
RawRequired(c) == {f \in DOMAIN draft[c] \cap req[c].required : config'[f] \in Refs}

(* failOnMissing: no field a reload was told to require becomes active as  *)
(* an unresolved reference.                                                *)
StrictReloadResolves ==
    [][\A c \in Conns : Activated(c) /\ req[c].resolve /\ req[c].strict
          => RawRequired(c) = {}]_vars

(* The comment of handle_config_reload asks for no failOnMissing: if       *)
(* required secrets fail to resolve, "the reload is rolled back and the    *)
(* old config remains active".                                             *)
RequiredOrRolledBack ==
    [][\A c \in Conns : Activated(c) /\ req[c].resolve => RawRequired(c) = {}]_vars
=============================================================================
