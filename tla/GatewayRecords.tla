--------------------------- MODULE GatewayRecords ---------------------------
(***************************************************************************)
(* The records the gateway keeps in memory for its clients                 *)
(* (src/gateway/websocket.rs, RpcState of src/gateway/server.rs): agents   *)
(* and their files, cron jobs and their runs, execution approvals.  Every  *)
(* map has a lock of its own and requests of different connections run in  *)
(* parallel, so a request that takes two locks is two steps.               *)
(***************************************************************************)
EXTENDS Naturals, Sequences, FiniteSets, SequencesExt

CONSTANTS
    RecClients,   \* connections that send these requests
    NoRecord,     \* no entry under an id
    MaxIds,       \* bound: ids the gateway hands out
    Fields,       \* fields of an agent that agents.update may change
    FieldValues,  \* values a client may give them
    MaxEdits      \* bound: updates, runs and decisions

ASSUME RecAssumption ==
    /\ MaxIds \in Nat /\ MaxEdits \in Nat
    /\ IsFiniteSet(RecClients)
    /\ NoRecord \notin {"added", "updated"}

VARIABLES
    agents,     \* id -> its fields, or NoRecord
    files,      \* agent id -> number of its files (agent_files)
    jobs,       \* id -> a cron job as it was added or last updated, or NoRecord
    runs,       \* cron_runs: the job of each run, in order
    triggering, \* connection -> job it has seen and not yet recorded, or 0
    approvals,  \* exec_requests: id -> status, or NoRecord
    minted,     \* number of ids handed out so far
    edits,      \* updates, runs and decisions so far
    strays      \* history: job -> requests between their two locks when it
                \* was removed, less the runs recorded since

recVars == <<agents, files, jobs, runs, triggering, approvals, minted, edits, strays>>

Ids == 1 .. MaxIds  \* UUIDs: an id is handed out once
Decisions == {"approved", "denied"}
Fresh == minted + 1
Scheduled == {i \in Ids : jobs[i] # NoRecord}
MayEdit == edits < MaxEdits /\ edits' = edits + 1

RecInit ==
    /\ agents = [i \in Ids |-> NoRecord]
    /\ files = [i \in Ids |-> 0]
    /\ jobs = [i \in Ids |-> NoRecord]
    /\ runs = <<>>
    /\ triggering = [c \in RecClients |-> 0]
    /\ approvals = [i \in Ids |-> NoRecord]
    /\ minted = 0
    /\ edits = 0
    /\ strays = [i \in Ids |-> 0]

-----------------------------------------------------------------------------
(* agents.*                                                                *)

AgentsCreate(given) ==
    /\ Fresh \in Ids
    /\ agents' = [agents EXCEPT ![Fresh] = given]
    /\ minted' = Fresh
    /\ UNCHANGED <<files, jobs, runs, triggering, approvals, edits, strays>>

Merged(record, given) ==
    [f \in Fields |-> IF f \in DOMAIN given THEN given[f] ELSE record[f]]

AgentsUpdate(id, given) ==
    /\ MayEdit
    /\ agents[id] # NoRecord
    /\ agents' = [agents EXCEPT ![id] = Merged(@, given)]
    /\ UNCHANGED <<files, jobs, runs, triggering, approvals, minted, strays>>

(* The files of the agent stay.                                            *)
AgentsDelete(id) ==
    /\ agents[id] # NoRecord
    /\ agents' = [agents EXCEPT ![id] = NoRecord]
    /\ UNCHANGED <<files, jobs, runs, triggering, approvals, minted, edits, strays>>

(* agents.files.set asks no one whether the agent exists; a client knows   *)
(* the ids that have been handed out, and no other.                        *)
FilesSet(id) ==
    /\ MayEdit
    /\ id <= minted
    /\ files' = [files EXCEPT ![id] = @ + 1]
    /\ UNCHANGED <<agents, jobs, runs, triggering, approvals, minted, strays>>

-----------------------------------------------------------------------------
(* cron.*                                                                  *)

CronAdd ==
    /\ Fresh \in Ids
    /\ jobs' = [jobs EXCEPT ![Fresh] = "added"]
    /\ minted' = Fresh
    /\ UNCHANGED <<agents, files, runs, triggering, approvals, edits, strays>>

(* cron.update: every parameter but the id becomes a field of the job.     *)
CronUpdate(id) ==
    /\ MayEdit
    /\ id \in Scheduled
    /\ jobs' = [jobs EXCEPT ![id] = "updated"]
    /\ UNCHANGED <<agents, files, runs, triggering, approvals, minted, strays>>

CronRemove(id) ==
    /\ id \in Scheduled
    /\ jobs' = [jobs EXCEPT ![id] = NoRecord]
    /\ strays' = [strays EXCEPT ![id] = Cardinality({c \in RecClients : triggering[c] = id})]
    /\ UNCHANGED <<agents, files, runs, triggering, approvals, minted, edits>>

(* Mutant of CronRun: the job is not looked up.                            *)
CronRunUnchecked(c, id) ==
    /\ MayEdit
    /\ triggering[c] = 0 /\ id <= minted
    /\ triggering' = [triggering EXCEPT ![c] = id]
    /\ UNCHANGED <<agents, files, jobs, runs, approvals, minted, strays>>

(* cron.run sees the job under the read lock and lets go of it ...         *)
CronRun(c, id) ==
    /\ MayEdit
    /\ triggering[c] = 0 /\ id \in Scheduled
    /\ triggering' = [triggering EXCEPT ![c] = id]
    /\ UNCHANGED <<agents, files, jobs, runs, approvals, minted, strays>>

(* ... and records the run under the lock of the runs.                     *)
CronRecord(c) ==
    /\ triggering[c] # 0
    /\ runs' = Append(runs, triggering[c])
    /\ strays' = IF triggering[c] \in Scheduled THEN strays
                 ELSE [strays EXCEPT ![triggering[c]] = @ - 1]
    /\ triggering' = [triggering EXCEPT ![c] = 0]
    /\ UNCHANGED <<agents, files, jobs, approvals, minted, edits>>

-----------------------------------------------------------------------------
(* exec.approval.*: a decision replaces whatever the status was.           *)

ApprovalRequest ==
    /\ Fresh \in Ids
    /\ approvals' = [approvals EXCEPT ![Fresh] = "pending"]
    /\ minted' = Fresh
    /\ UNCHANGED <<agents, files, jobs, runs, triggering, edits, strays>>

ApprovalResolve(id, decision) ==
    /\ MayEdit
    /\ approvals[id] # NoRecord
    /\ approvals' = [approvals EXCEPT ![id] = decision]
    /\ UNCHANGED <<agents, files, jobs, runs, triggering, minted, strays>>

-----------------------------------------------------------------------------
Full == [Fields -> FieldValues]
Partial == UNION {[S -> FieldValues] : S \in SUBSET Fields}

RecNext ==
    \/ \E g \in Full : AgentsCreate(g)
    \/ \E i \in Ids, g \in Partial : AgentsUpdate(i, g)
    \/ \E i \in Ids : AgentsDelete(i)
    \/ \E i \in Ids : FilesSet(i)
    \/ CronAdd
    \/ \E i \in Ids : CronUpdate(i) \/ CronRemove(i)
    \/ \E c \in RecClients, i \in Ids : CronRun(c, i)
    \/ \E c \in RecClients : CronRecord(c)
    \/ ApprovalRequest
    \/ \E i \in Ids, d \in Decisions : ApprovalResolve(i, d)

RecSpec == RecInit /\ [][RecNext]_recVars

-----------------------------------------------------------------------------
RecTypeOK ==
    /\ agents \in [Ids -> Full \cup {NoRecord}]
    /\ files \in [Ids -> 0 .. MaxEdits]
    /\ jobs \in [Ids -> {"added", "updated", NoRecord}]
    /\ runs \in Seq(Ids)
    /\ triggering \in [RecClients -> Ids \cup {0}]
    /\ approvals \in [Ids -> Decisions \cup {"pending", NoRecord}]
    /\ minted \in 0 .. MaxIds

(* A run recorded of a job that no longer exists was asked for while the   *)
(* job still did: after cron.remove there can be one stray run for each    *)
(* request that stood between its two locks at that moment, and no more.   *)
StrayRunsBounded == \A i \in Ids : strays[i] \in Nat
=============================================================================
