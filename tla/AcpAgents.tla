------------------------------ MODULE AcpAgents ------------------------------
(***************************************************************************)
(* The manager of ACP agents (src/agents/acp.rs), as the gateway's         *)
(* handlers use it: every request shares the manager, whose two maps have  *)
(* a lock each, so spawn, send, stop and stop_all are several steps and    *)
(* those of different requests interleave.                                 *)
(***************************************************************************)
EXTENDS Naturals, FiniteSets

CONSTANTS
    AcpCallers,   \* tasks that handle a request or a shutdown
    MaxAgents,    \* bound: agents ever spawned
    MaxAcpOps     \* bound: sends, stops and stop_alls

ASSUME AcpAssumption == MaxAgents \in Nat \ {0} /\ MaxAcpOps \in Nat

VARIABLES
    acpState,   \* agent -> "none", "Running" or "Stopped"
    acpToken,   \* agent -> "none", "live" or "cancelled"
    acpPc,      \* caller -> step of its operation, or "idle"
    acpArg,     \* caller -> the agent at hand
    acpTodo,    \* caller -> agents stop_all has still to stop
    acpSpawned, \* number of agents spawned so far
    acpOps,     \* sends, stops and stop_alls begun so far
    hasty       \* history: agents that a stop found without a token

acpVars == <<acpState, acpToken, acpPc, acpArg, acpTodo, acpSpawned, acpOps, hasty>>

Agents == 1 .. MaxAgents   \* UUIDs: a new one for every spawn

AcpInit ==
    /\ acpState = [a \in Agents |-> "none"]
    /\ acpToken = [a \in Agents |-> "none"]
    /\ acpPc = [c \in AcpCallers |-> "idle"]
    /\ acpArg = [c \in AcpCallers |-> 1]
    /\ acpTodo = [c \in AcpCallers |-> {}]
    /\ acpSpawned = 0 /\ acpOps = 0
    /\ hasty = {}

At(c, pc) == acpPc[c] = pc
GoTo(c, pc) == acpPc' = [acpPc EXCEPT ![c] = pc]
Begin(c) == At(c, "idle") /\ acpOps < MaxAcpOps /\ acpOps' = acpOps + 1

(* spawn: the agent is published as Running, then its token is.            *)
Spawn(c) ==
    /\ At(c, "idle") /\ acpSpawned < MaxAgents
    /\ acpSpawned' = acpSpawned + 1
    /\ acpArg' = [acpArg EXCEPT ![c] = acpSpawned + 1]
    /\ acpState' = [acpState EXCEPT ![acpSpawned + 1] = "Running"]
    /\ GoTo(c, "publish token")
    /\ UNCHANGED <<acpToken, acpTodo, acpOps, hasty>>

PublishToken(c) ==
    /\ At(c, "publish token")
    /\ acpToken' = [acpToken EXCEPT ![acpArg[c]] = "live"]
    /\ GoTo(c, "idle")
    /\ UNCHANGED <<acpState, acpArg, acpTodo, acpSpawned, acpOps, hasty>>

(* send looks at the state, lets go of the lock, stamps the agent if it is *)
(* there and answers ok; an agent that is not Running is refused at once.  *)
SendTo(c, a) ==
    /\ Begin(c)
    /\ acpArg' = [acpArg EXCEPT ![c] = a]
    /\ GoTo(c, IF acpState[a] = "Running" THEN "stamp" ELSE "idle")
    /\ UNCHANGED <<acpState, acpToken, acpTodo, acpSpawned, hasty>>

Stamp(c) ==
    /\ At(c, "stamp")
    /\ GoTo(c, "idle")
    /\ UNCHANGED <<acpState, acpToken, acpArg, acpTodo, acpSpawned, acpOps, hasty>>

(* stop, first the token, if there is one ...                              *)
StopBegins(c, a) ==
    /\ Begin(c)
    /\ acpArg' = [acpArg EXCEPT ![c] = a]
    /\ GoTo(c, "cancel token")
    /\ UNCHANGED <<acpState, acpToken, acpTodo, acpSpawned, hasty>>

CancelToken(c) ==
    /\ At(c, "cancel token")
    /\ LET a == acpArg[c]
       IN /\ acpToken' = [acpToken EXCEPT ![a] = IF @ = "live" THEN "cancelled" ELSE @]
          /\ hasty' = IF acpToken[a] = "none" THEN hasty \cup {a} ELSE hasty
    /\ GoTo(c, "set stopped")
    /\ UNCHANGED <<acpState, acpArg, acpTodo, acpSpawned, acpOps>>

(* Mutant of MarkStopped: stop_all returns after its first agent.          *)
MarkStoppedAndLeave(c) ==
    /\ At(c, "set stopped")
    /\ acpState' = [acpState EXCEPT ![acpArg[c]] = IF @ = "none" THEN @ ELSE "Stopped"]
    /\ GoTo(c, "idle")
    /\ UNCHANGED <<acpToken, acpArg, acpTodo, acpSpawned, acpOps, hasty>>

(* ... then the state; stop_all goes on with its list.                     *)
MarkStopped(c) ==
    /\ At(c, "set stopped")
    /\ acpState' = [acpState EXCEPT ![acpArg[c]] = IF @ = "none" THEN @ ELSE "Stopped"]
    /\ GoTo(c, IF acpTodo[c] = {} THEN "idle" ELSE "stop all")
    /\ UNCHANGED <<acpToken, acpArg, acpTodo, acpSpawned, acpOps, hasty>>

(* stop_all: the agents that run now, one after the other, in the map's    *)
(* order, which is any.                                                    *)
StopAllBegins(c) ==
    /\ Begin(c)
    /\ acpTodo' = [acpTodo EXCEPT ![c] = {a \in Agents : acpState[a] = "Running"}]
    /\ GoTo(c, IF acpTodo'[c] = {} THEN "idle" ELSE "stop all")
    /\ UNCHANGED <<acpState, acpToken, acpArg, acpSpawned, hasty>>

StopAllNext(c) ==
    /\ At(c, "stop all")
    /\ \E a \in acpTodo[c] :
           /\ acpTodo' = [acpTodo EXCEPT ![c] = @ \ {a}]
           /\ acpArg' = [acpArg EXCEPT ![c] = a]
    /\ GoTo(c, "cancel token")
    /\ UNCHANGED <<acpState, acpToken, acpSpawned, acpOps, hasty>>

AcpNext ==
    \E c \in AcpCallers :
        \/ Spawn(c)
        \/ PublishToken(c)
        \/ \E a \in Agents : SendTo(c, a)
        \/ Stamp(c)
        \/ \E a \in Agents : StopBegins(c, a)
        \/ CancelToken(c)
        \/ MarkStopped(c)
        \/ StopAllBegins(c)
        \/ StopAllNext(c)

AcpSpec == AcpInit /\ [][AcpNext]_acpVars

-----------------------------------------------------------------------------
AcpTypeOK ==
    /\ acpState \in [Agents -> {"none", "Running", "Stopped"}]
    /\ acpToken \in [Agents -> {"none", "live", "cancelled"}]
    /\ acpPc \in [AcpCallers -> {"idle", "publish token", "stamp", "cancel token",
                                 "set stopped", "stop all"}]
    /\ acpArg \in [AcpCallers -> Agents]
    /\ acpTodo \in [AcpCallers -> SUBSET Agents]
    /\ acpSpawned \in 0 .. MaxAgents /\ acpOps \in 0 .. MaxAcpOps
    /\ hasty \subseteq Agents

Stopping(c) == acpPc[c] \in {"cancel token", "set stopped"}

(* An agent that is marked stopped has had its task cancelled, whatever    *)
(* spawns, stops and stop_alls overlap, except one whose stop came between *)
(* the two inserts of its spawn; and an agent whose task is cancelled is   *)
(* marked, or about to be.  A stop_all that is over has left none of the   *)
(* agents it saw running.                                                  *)
StopIsComplete ==
    /\ \A a \in Agents \ hasty :
           /\ acpState[a] = "Stopped" => acpToken[a] = "cancelled"
           /\ acpToken[a] = "cancelled" =>
                  acpState[a] = "Stopped" \/ \E c \in AcpCallers : Stopping(c) /\ acpArg[c] = a
    /\ \A c \in AcpCallers : At(c, "idle") => acpTodo[c] = {}
=============================================================================
