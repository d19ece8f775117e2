---------------------------- MODULE RuntimeProofs ----------------------------
(***************************************************************************)
(* What holds of the parts a run of the gateway is made of, for any number *)
(* of callers, threads, targets, models, handlers and waiters: a stop of   *)
(* ACP agents is complete, the C interface reports and runs as it should,  *)
(* the delivery queue keeps up, failed models rest, chains of hooks run in *)
(* order, an abort leaves nobody asleep, and a tool tells the truth about  *)
(* what was done.  One section per component.                              *)
(***************************************************************************)
EXTENDS AcpAgents, Ffi, Delivery, Fallback, Hooks, AbortSignal, Tools,
        TLAPS, FiniteSetTheorems, SequenceTheorems, SubsequenceProofs

-----------------------------------------------------------------------------
(* ACP agents.  The agent of a spawn between its two inserts has a state,  *)
(* no token yet and no second spawn; past its first step a stop has        *)
(* cancelled the token or found none; whoever has nothing to stop has an   *)
(* empty list; ids not handed out have neither state nor token.            *)

Publishing(c, a) == At(c, "publish token") /\ acpArg[c] = a

AcpLive ==
    /\ \A a \in Agents : acpToken[a] # "none" => acpState[a] # "none"
    /\ \A a \in Agents : a > acpSpawned => acpState[a] = "none"
    /\ \A c \in AcpCallers, a \in Agents :
           Publishing(c, a) => acpState[a] # "none" /\ acpToken[a] = "none"
    /\ \A c, d \in AcpCallers, a \in Agents :
           Publishing(c, a) /\ Publishing(d, a) => c = d

AcpStops ==
    /\ \A c \in AcpCallers : At(c, "set stopped") =>
           acpToken[acpArg[c]] = "cancelled" \/ acpArg[c] \in hasty
    /\ \A c \in AcpCallers :
           acpPc[c] \in {"idle", "publish token", "stamp"} => acpTodo[c] = {}

AcpInv == AcpTypeOK /\ AcpLive /\ AcpStops /\ StopIsComplete

LEMMA AcpInitInv == AcpInit => AcpInv
<1> SUFFICES ASSUME AcpInit PROVE AcpInv
  OBVIOUS
<1>1. AcpTypeOK
  BY AcpAssumption DEF AcpInit, AcpTypeOK, AcpAssumption, Agents
<1>2. AcpLive /\ AcpStops /\ StopIsComplete
  BY DEF AcpInit, AcpLive, AcpStops, StopIsComplete, Publishing, At, Stopping
<1> QED BY <1>1, <1>2 DEF AcpInv

(* Agents and callers a step does not touch keep what holds of them.       *)
LEMMA AcpSpawnInv ==
    ASSUME AcpInv, NEW c \in AcpCallers, Spawn(c)
    PROVE  AcpInv'
<1>1. AcpTypeOK /\ AcpLive /\ AcpStops /\ StopIsComplete
  BY DEF AcpInv
<1>8. acpSpawned \in 0 .. MaxAgents
  BY <1>1 DEF AcpTypeOK
<1>9. MaxAgents \in Nat
  BY AcpAssumption DEF AcpAssumption
<1> DEFINE n == acpSpawned + 1
<1>2. n \in Agents /\ acpSpawned' = n /\ acpState[n] = "none" /\ acpToken[n] = "none"
  <2>1. acpSpawned \in Nat /\ MaxAgents \in Nat
    BY <1>8, <1>9
  <2>2. acpSpawned < MaxAgents /\ acpSpawned' = n
    BY DEF Spawn
  <2>3. n \in Agents /\ n > acpSpawned
    BY <2>1, <2>2 DEF Agents
  <2> HIDE DEF n
  <2> QED BY <1>1, <2>2, <2>3 DEF AcpLive
<1> HIDE DEF n
<1>3. /\ acpPc' = [acpPc EXCEPT ![c] = "publish token"] /\ acpPc[c] = "idle"
      /\ acpArg' = [acpArg EXCEPT ![c] = n]
      /\ acpState' = [acpState EXCEPT ![n] = "Running"]
      /\ UNCHANGED <<acpToken, acpTodo, acpOps, hasty>>
  BY DEF Spawn, GoTo, At, n
<1>4. AcpTypeOK'
  <2>1. acpSpawned' \in 0 .. MaxAgents
    BY <1>2, AcpAssumption DEF Agents, AcpAssumption
  <2> QED BY <2>1, <1>1, <1>2, <1>3 DEF AcpTypeOK
<1>5. AcpLive'
  <2>1. \A d \in AcpCallers, a \in Agents :
            Publishing(d, a)' <=> IF d = c THEN a = n ELSE Publishing(d, a)
    BY <1>1, <1>2, <1>3 DEF Publishing, At, AcpTypeOK
  <2>2. \A d \in AcpCallers : ~Publishing(d, n)
    BY <1>1, <1>2 DEF AcpLive
  <2>3. \A a \in Agents : a > acpSpawned' => a # n /\ a > acpSpawned
    <3>1. acpSpawned \in Nat /\ Agents \subseteq Nat
      BY <1>8, <1>9 DEF Agents
    <3> QED BY <3>1, <1>2 DEF n
  <2>4. \A a \in Agents : acpState'[a] = IF a = n THEN "Running" ELSE acpState[a]
    BY <1>1, <1>3 DEF AcpTypeOK
  <2>5. \A a \in Agents : acpToken'[a] # "none" => acpState'[a] # "none"
    <3>1. \A a \in Agents : acpToken[a] # "none" => acpState[a] # "none"
      BY <1>1 DEF AcpLive
    <3>2. acpToken' = acpToken
      BY <1>3
    <3> QED BY <3>1, <3>2, <2>4
  <2>6. \A a \in Agents : a > acpSpawned' => acpState'[a] = "none"
    <3>1. \A a \in Agents : a > acpSpawned => acpState[a] = "none"
      BY <1>1 DEF AcpLive
    <3> QED BY <3>1, <2>3, <2>4, Zenon
  <2>7. \A d \in AcpCallers, a \in Agents :
            Publishing(d, a)' => acpState'[a] # "none" /\ acpToken'[a] = "none"
    <3>1. \A d \in AcpCallers, a \in Agents :
              Publishing(d, a) => acpState[a] # "none" /\ acpToken[a] = "none"
      BY <1>1 DEF AcpLive
    <3>2. acpToken' = acpToken /\ acpToken[n] = "none"
      BY <1>2, <1>3
    <3> QED BY <3>1, <3>2, <2>1, <2>4
  <2>8. \A d, e \in AcpCallers, a \in Agents :
            Publishing(d, a)' /\ Publishing(e, a)' => d = e
    <3>1. \A d, e \in AcpCallers, a \in Agents :
              Publishing(d, a) /\ Publishing(e, a) => d = e
      BY <1>1 DEF AcpLive
    <3> QED BY <3>1, <2>1, <2>2, Zenon
  <2> QED BY <2>5, <2>6, <2>7, <2>8 DEF AcpLive
<1>6. AcpStops'
  BY <1>1, <1>2, <1>3 DEF AcpStops, AcpTypeOK, At
<1>7. StopIsComplete'
  <2>1. \A d \in AcpCallers, a \in Agents :
            Stopping(d) /\ acpArg[d] = a => Stopping(d)' /\ acpArg'[d] = a
    BY <1>1, <1>3 DEF AcpTypeOK, Stopping
  <2>2. /\ \A a \in Agents : acpState'[a] = IF a = n THEN "Running" ELSE acpState[a]
        /\ acpToken' = acpToken /\ hasty' = hasty /\ acpToken[n] = "none"
    BY <1>1, <1>2, <1>3 DEF AcpTypeOK
  <2>3. ASSUME NEW a \in Agents \ hasty'
        PROVE  /\ acpState'[a] = "Stopped" => acpToken'[a] = "cancelled"
               /\ acpToken'[a] = "cancelled" =>
                     acpState'[a] = "Stopped"
                       \/ \E d \in AcpCallers : Stopping(d)' /\ acpArg'[d] = a
    <3>1. CASE a = n
      BY <3>1, <2>2
    <3>2. CASE a # n
      <4>1. acpState'[a] = acpState[a] /\ acpToken'[a] = acpToken[a] /\ a \in Agents \ hasty
        BY <3>2, <2>2
      <4>2. /\ acpState[a] = "Stopped" => acpToken[a] = "cancelled"
            /\ acpToken[a] = "cancelled" =>
                  acpState[a] = "Stopped" \/ \E d \in AcpCallers : Stopping(d) /\ acpArg[d] = a
        BY <4>1, <1>1 DEF StopIsComplete
      <4> QED BY <4>1, <4>2, <2>1
    <3> QED BY <3>1, <3>2
  <2>4. ASSUME NEW d \in AcpCallers, At(d, "idle")' PROVE acpTodo'[d] = {}
    <3>1. At(d, "idle")
      BY <2>4, <1>1, <1>3 DEF At, AcpTypeOK
    <3> QED BY <3>1, <1>1, <1>3 DEF StopIsComplete
  <2> QED BY <2>3, <2>4 DEF StopIsComplete
<1> QED BY <1>4, <1>5, <1>6, <1>7 DEF AcpInv

(* The token of a spawned agent is published.                              *)
LEMMA AcpPublishInv ==
    ASSUME AcpInv, NEW c \in AcpCallers, PublishToken(c)
    PROVE  AcpInv'
<1>1. AcpTypeOK /\ AcpLive /\ AcpStops /\ StopIsComplete
  BY DEF AcpInv
<1> DEFINE n == acpArg[c]
<1>2. /\ n \in Agents /\ Publishing(c, n)
      /\ acpState[n] # "none" /\ acpToken[n] = "none"
  BY <1>1 DEF AcpTypeOK, AcpLive, PublishToken, Publishing
<1>3. /\ acpPc' = [acpPc EXCEPT ![c] = "idle"] /\ acpPc[c] = "publish token"
      /\ acpToken' = [acpToken EXCEPT ![n] = "live"]
      /\ UNCHANGED <<acpState, acpArg, acpTodo, acpSpawned, acpOps, hasty>>
  BY DEF PublishToken, GoTo, At
<1> HIDE DEF n
<1>4. AcpTypeOK'
  BY <1>1, <1>2, <1>3 DEF AcpTypeOK
<1>5. AcpLive'
  <2>1. \A d \in AcpCallers, a \in Agents :
            Publishing(d, a)' <=> d # c /\ Publishing(d, a)
    BY <1>1, <1>3 DEF Publishing, At, AcpTypeOK
  <2>2. \A d \in AcpCallers : d # c => ~Publishing(d, n)
    BY <1>1, <1>2 DEF AcpLive
  <2>3. \A a \in Agents : acpToken'[a] = IF a = n THEN "live" ELSE acpToken[a]
    BY <1>1, <1>3 DEF AcpTypeOK
  <2>4. /\ acpState' = acpState /\ acpSpawned' = acpSpawned
        /\ \A a \in Agents : acpToken[a] # "none" => acpState[a] # "none"
        /\ \A a \in Agents : a > acpSpawned => acpState[a] = "none"
    BY <1>1, <1>3 DEF AcpLive
  <2>5. \A a \in Agents : acpToken'[a] # "none" => acpState'[a] # "none"
    BY <1>2, <2>3, <2>4
  <2>6. \A d \in AcpCallers, a \in Agents :
            Publishing(d, a)' => acpState'[a] # "none" /\ acpToken'[a] = "none"
    <3>1. \A d \in AcpCallers, a \in Agents :
              Publishing(d, a) => acpState[a] # "none" /\ acpToken[a] = "none"
      BY <1>1 DEF AcpLive
    <3>2. \A d \in AcpCallers, a \in Agents : Publishing(d, a)' => a # n /\ Publishing(d, a)
      BY <2>1, <2>2
    <3> QED BY <3>1, <3>2, <2>3, <2>4
  <2>7. \A d, e \in AcpCallers, a \in Agents :
            Publishing(d, a)' /\ Publishing(e, a)' => d = e
    <3>1. \A d, e \in AcpCallers, a \in Agents :
              Publishing(d, a) /\ Publishing(e, a) => d = e
      BY <1>1 DEF AcpLive
    <3> QED BY <3>1, <2>1, Zenon
  <2> QED BY <2>4, <2>5, <2>6, <2>7 DEF AcpLive
<1>6. AcpStops'
  BY <1>1, <1>2, <1>3 DEF AcpStops, AcpTypeOK, At
<1>7. StopIsComplete'
  <2>1. \A a \in Agents : a # n => acpToken'[a] = acpToken[a]
    BY <1>1, <1>3 DEF AcpTypeOK
  <2>2. (acpToken'[n] = "live" /\ acpState[n] # "Stopped") \/ n \in hasty
    BY <1>1, <1>2, <1>3 DEF AcpTypeOK, StopIsComplete
  <2>3. \A d \in AcpCallers : Stopping(d) => Stopping(d)' /\ acpArg'[d] = acpArg[d]
    BY <1>1, <1>3 DEF AcpTypeOK, Stopping
  <2>4. \A d \in AcpCallers : At(d, "idle")' => acpTodo'[d] = {}
    BY <1>1, <1>3 DEF AcpStops, AcpTypeOK, At
  <2>5. ASSUME NEW a \in Agents \ hasty'
        PROVE  /\ acpState'[a] = "Stopped" => acpToken'[a] = "cancelled"
               /\ acpToken'[a] = "cancelled" =>
                     acpState'[a] = "Stopped"
                       \/ \E d \in AcpCallers : Stopping(d)' /\ acpArg'[d] = a
    <3>1. acpState' = acpState /\ hasty' = hasty
      BY <1>3
    <3>2. CASE a = n
      BY <3>1, <3>2, <2>2
    <3>3. CASE a # n
      <4>1. acpToken'[a] = acpToken[a]
        BY <3>3, <2>1
      <4>2. /\ acpState[a] = "Stopped" => acpToken[a] = "cancelled"
            /\ acpToken[a] = "cancelled" =>
                  acpState[a] = "Stopped" \/ \E d \in AcpCallers : Stopping(d) /\ acpArg[d] = a
        BY <3>1, <1>1 DEF StopIsComplete
      <4> QED BY <3>1, <4>1, <4>2, <2>3
    <3> QED BY <3>2, <3>3
  <2> QED BY <2>4, <2>5 DEF StopIsComplete
<1> QED BY <1>4, <1>5, <1>6, <1>7 DEF AcpInv

(* A request that begins, goes on or ends without touching an agent.       *)
AcpMoves(c) ==
    /\ acpPc[c] \in {"idle", "stamp", "stop all"}
    /\ \E pc \in {"idle", "stamp", "cancel token", "stop all"} :
           /\ acpPc' = [acpPc EXCEPT ![c] = pc]
           /\ pc \in {"idle", "stamp"} => acpTodo'[c] = {}
    /\ \E a \in Agents : acpArg' = [acpArg EXCEPT ![c] = a]
    /\ \E todo \in SUBSET Agents : acpTodo' = [acpTodo EXCEPT ![c] = todo]
    /\ acpOps' \in 0 .. MaxAcpOps
    /\ UNCHANGED <<acpState, acpToken, acpSpawned, hasty>>

LEMMA AcpRequestMoves ==
    ASSUME AcpInv, NEW c \in AcpCallers,
           \/ \E a \in Agents : SendTo(c, a) \/ StopBegins(c, a)
           \/ Stamp(c)
           \/ StopAllBegins(c)
           \/ StopAllNext(c)
    PROVE  AcpMoves(c)
<1>1. AcpTypeOK /\ AcpStops
  BY DEF AcpInv
<1>2. /\ acpOps \in 0 .. MaxAcpOps /\ acpTodo[c] \in SUBSET Agents /\ acpArg[c] \in Agents
      /\ acpArg = [acpArg EXCEPT ![c] = acpArg[c]]
      /\ acpTodo = [acpTodo EXCEPT ![c] = acpTodo[c]]
  BY <1>1 DEF AcpTypeOK
<1>3. acpPc[c] \in {"idle", "stamp"} => acpTodo[c] = {}
  BY <1>1 DEF AcpStops
<1>4. Begin(c) => acpPc[c] = "idle" /\ acpOps' \in 0 .. MaxAcpOps
  BY <1>2, AcpAssumption DEF Begin, At, AcpAssumption
<1>5. ASSUME NEW a \in Agents, SendTo(c, a) \/ StopBegins(c, a)
      PROVE  AcpMoves(c)
  BY <1>2, <1>3, <1>4, <1>5 DEF AcpMoves, SendTo, StopBegins, GoTo
<1>6. ASSUME Stamp(c)
      PROVE  AcpMoves(c)
  BY <1>2, <1>3, <1>6 DEF AcpMoves, Stamp, GoTo, At
<1>7. ASSUME StopAllBegins(c)
      PROVE  AcpMoves(c)
  <2>1. PICK todo \in SUBSET Agents : acpTodo' = [acpTodo EXCEPT ![c] = todo]
    BY <1>7 DEF StopAllBegins
  <2>2. acpTodo'[c] = todo
    BY <2>1, <1>1 DEF AcpTypeOK
  <2> QED BY <2>1, <2>2, <1>2, <1>4, <1>7 DEF AcpMoves, StopAllBegins, GoTo
<1>8. ASSUME StopAllNext(c)
      PROVE  AcpMoves(c)
  <2>1. PICK a \in acpTodo[c] : /\ acpTodo' = [acpTodo EXCEPT ![c] = @ \ {a}]
                                /\ acpArg' = [acpArg EXCEPT ![c] = a]
    BY <1>8 DEF StopAllNext
  <2>2. a \in Agents /\ acpTodo[c] \ {a} \in SUBSET Agents
    BY <1>2
  <2>3. /\ acpPc[c] = "stop all" /\ acpPc' = [acpPc EXCEPT ![c] = "cancel token"]
        /\ UNCHANGED <<acpState, acpToken, acpSpawned, acpOps, hasty>>
    BY <1>8 DEF StopAllNext, GoTo, At
  <2> QED BY <2>1, <2>2, <2>3, <1>2 DEF AcpMoves
<1> QED BY <1>5, <1>6, <1>7, <1>8

LEMMA AcpRequestInv ==
    ASSUME AcpInv, NEW c \in AcpCallers, AcpMoves(c)
    PROVE  AcpInv'
<1>1. AcpTypeOK /\ AcpLive /\ AcpStops /\ StopIsComplete
  BY DEF AcpInv
<1>2. PICK pc \in {"idle", "stamp", "cancel token", "stop all"} :
          /\ acpPc' = [acpPc EXCEPT ![c] = pc]
          /\ pc \in {"idle", "stamp"} => acpTodo'[c] = {}
  BY DEF AcpMoves
<1>3. PICK b \in Agents : acpArg' = [acpArg EXCEPT ![c] = b]
  BY DEF AcpMoves
<1>4. PICK todo \in SUBSET Agents : acpTodo' = [acpTodo EXCEPT ![c] = todo]
  BY DEF AcpMoves
<1>5. /\ acpPc[c] \in {"idle", "stamp", "stop all"}
      /\ acpOps' \in 0 .. MaxAcpOps
      /\ UNCHANGED <<acpState, acpToken, acpSpawned, hasty>>
  BY DEF AcpMoves
<1>6. AcpTypeOK'
  BY <1>1, <1>2, <1>3, <1>4, <1>5 DEF AcpTypeOK
<1>7. AcpLive'
  <2>1. \A d \in AcpCallers, a \in Agents : Publishing(d, a)' => Publishing(d, a)
    BY <1>1, <1>2, <1>3 DEF Publishing, At, AcpTypeOK
  <2> QED BY <1>1, <1>5, <2>1 DEF AcpLive
<1>8. AcpStops'
  BY <1>1, <1>2, <1>3, <1>4, <1>5 DEF AcpStops, AcpTypeOK, At
<1>9. StopIsComplete'
  <2>1. \A d \in AcpCallers : d # c => acpPc'[d] = acpPc[d] /\ acpArg'[d] = acpArg[d]
                                      /\ acpTodo'[d] = acpTodo[d]
    BY <1>1, <1>2, <1>3, <1>4 DEF AcpTypeOK
  <2>2. ~Stopping(c) /\ acpPc'[c] = pc
    BY <1>1, <1>2, <1>5 DEF Stopping, AcpTypeOK
  <2>3. \A d \in AcpCallers, a \in Agents :
            Stopping(d) /\ acpArg[d] = a => Stopping(d)' /\ acpArg'[d] = a
    BY <2>1, <2>2 DEF Stopping
  <2>4. \A a \in Agents \ hasty' :
            /\ acpState'[a] = "Stopped" => acpToken'[a] = "cancelled"
            /\ acpToken'[a] = "cancelled" =>
                  acpState'[a] = "Stopped"
                    \/ \E d \in AcpCallers : Stopping(d)' /\ acpArg'[d] = a
    BY <1>1, <1>5, <2>3 DEF StopIsComplete
  <2>5. \A d \in AcpCallers : At(d, "idle")' => acpTodo'[d] = {}
    BY <1>1, <1>2, <2>1, <2>2 DEF StopIsComplete, At
  <2> QED BY <2>4, <2>5 DEF StopIsComplete
<1> QED BY <1>6, <1>7, <1>8, <1>9 DEF AcpInv

(* The two steps of a stop.                                                *)
LEMMA AcpCancelInv ==
    ASSUME AcpInv, NEW c \in AcpCallers, CancelToken(c)
    PROVE  AcpInv'
<1> DEFINE n == acpArg[c]
<1>1. AcpTypeOK /\ AcpLive /\ AcpStops /\ StopIsComplete
  BY DEF AcpInv
<1>2. n \in Agents
  BY <1>1 DEF AcpTypeOK
<1>3. /\ acpPc' = [acpPc EXCEPT ![c] = "set stopped"] /\ acpPc[c] = "cancel token"
      /\ acpToken' = [acpToken EXCEPT ![n] = IF @ = "live" THEN "cancelled" ELSE @]
      /\ hasty' = IF acpToken[n] = "none" THEN hasty \cup {n} ELSE hasty
      /\ UNCHANGED <<acpState, acpArg, acpTodo, acpSpawned, acpOps>>
  BY DEF CancelToken, GoTo, At
<1> HIDE DEF n
<1>4. /\ \A a \in Agents : a # n => acpToken'[a] = acpToken[a]
      /\ acpToken'[n] = IF acpToken[n] = "live" THEN "cancelled" ELSE acpToken[n]
      /\ acpToken[n] \in {"none", "live", "cancelled"}
      /\ \A d \in AcpCallers : d # c => acpPc'[d] = acpPc[d]
      /\ acpPc'[c] = "set stopped"
  BY <1>1, <1>2, <1>3 DEF AcpTypeOK
<1>5. AcpTypeOK'
  BY <1>1, <1>2, <1>3 DEF AcpTypeOK
<1>6. AcpLive'
  <2>1. \A d \in AcpCallers, a \in Agents : Publishing(d, a)' => Publishing(d, a)
    BY <1>3, <1>4 DEF Publishing, At
  <2> QED BY <1>1, <1>2, <1>3, <1>4, <2>1 DEF AcpLive
<1>7. AcpStops'
  <2>1. acpToken'[n] = "cancelled" \/ n \in hasty'
    BY <1>3, <1>4
  <2>2. \A a \in Agents : acpToken[a] = "cancelled" \/ a \in hasty
                          => acpToken'[a] = "cancelled" \/ a \in hasty'
    BY <1>3, <1>4
  <2>3. \A d \in AcpCallers : At(d, "set stopped")' =>
            acpToken'[acpArg'[d]] = "cancelled" \/ acpArg'[d] \in hasty'
    <3> TAKE d \in AcpCallers
    <3>1. acpArg[d] \in Agents
      BY <1>1 DEF AcpTypeOK
    <3> QED BY <1>1, <1>3, <1>4, <2>1, <2>2, <3>1 DEF AcpStops, At, n
  <2>4. \A d \in AcpCallers :
            acpPc'[d] \in {"idle", "publish token", "stamp"} => acpTodo'[d] = {}
    BY <1>1, <1>3, <1>4 DEF AcpStops
  <2> QED BY <2>3, <2>4 DEF AcpStops
<1>8. StopIsComplete'
  <2>1. \A d \in AcpCallers, a \in Agents :
            Stopping(d) /\ acpArg[d] = a => Stopping(d)' /\ acpArg'[d] = a
    BY <1>3, <1>4 DEF Stopping
  <2>2. Stopping(c)' /\ acpArg'[c] = n
    BY <1>3, <1>4 DEF Stopping, n
  <2>3. \A a \in Agents \ hasty' :
            /\ acpState'[a] = "Stopped" => acpToken'[a] = "cancelled"
            /\ acpToken'[a] = "cancelled" =>
                  acpState'[a] = "Stopped"
                    \/ \E d \in AcpCallers : Stopping(d)' /\ acpArg'[d] = a
    <3> SUFFICES ASSUME NEW a \in Agents \ hasty'
                 PROVE  /\ acpState'[a] = "Stopped" => acpToken'[a] = "cancelled"
                        /\ acpToken'[a] = "cancelled" =>
                              acpState'[a] = "Stopped"
                                \/ \E d \in AcpCallers : Stopping(d)' /\ acpArg'[d] = a
      OBVIOUS
    <3>1. a \in Agents \ hasty /\ acpState'[a] = acpState[a]
      BY <1>3
    <3>2. CASE a = n
      BY <3>1, <3>2, <2>2, <1>1, <1>4 DEF StopIsComplete
    <3>3. CASE a # n
      BY ZenonT(40), <3>1, <3>3, <2>1, <1>1, <1>4 DEF StopIsComplete
    <3> QED BY <3>2, <3>3
  <2>4. \A d \in AcpCallers : At(d, "idle")' => acpTodo'[d] = {}
    BY <1>1, <1>3, <1>4 DEF StopIsComplete, At
  <2> QED BY <2>3, <2>4 DEF StopIsComplete
<1> QED BY <1>5, <1>6, <1>7, <1>8 DEF AcpInv

LEMMA AcpMarkInv ==
    ASSUME AcpInv, NEW c \in AcpCallers, MarkStopped(c)
    PROVE  AcpInv'
<1> DEFINE n == acpArg[c]
<1>1. AcpTypeOK /\ AcpLive /\ AcpStops /\ StopIsComplete
  BY DEF AcpInv
<1>2. n \in Agents /\ (acpToken[n] = "cancelled" \/ n \in hasty)
  BY <1>1 DEF AcpTypeOK, AcpStops, MarkStopped
<1>3. /\ acpState' = [acpState EXCEPT ![n] = IF @ = "none" THEN @ ELSE "Stopped"]
      /\ acpPc' = [acpPc EXCEPT ![c] = IF acpTodo[c] = {} THEN "idle" ELSE "stop all"]
      /\ UNCHANGED <<acpToken, acpArg, acpTodo, acpSpawned, acpOps, hasty>>
  BY DEF MarkStopped, GoTo
<1> HIDE DEF n
<1>4. /\ \A a \in Agents : a # n => acpState'[a] = acpState[a]
      /\ acpState'[n] = IF acpState[n] = "none" THEN "none" ELSE "Stopped"
      /\ \A d \in AcpCallers : d # c => acpPc'[d] = acpPc[d]
      /\ acpPc'[c] = IF acpTodo[c] = {} THEN "idle" ELSE "stop all"
  BY <1>1, <1>2, <1>3 DEF AcpTypeOK
<1>5. AcpTypeOK'
  BY <1>1, <1>2, <1>3 DEF AcpTypeOK
<1>6. AcpLive'
  <2>1. \A d \in AcpCallers, a \in Agents : Publishing(d, a)' => Publishing(d, a)
    <3>1. \A d \in AcpCallers : At(d, "publish token")' => At(d, "publish token")
      BY <1>4 DEF At
    <3> QED BY <3>1, <1>3 DEF Publishing
  <2>2. \A a \in Agents : acpState'[a] = "none" <=> acpState[a] = "none"
    BY <1>4
  <2> QED BY <1>1, <1>3, <2>1, <2>2 DEF AcpLive
<1>7. AcpStops'
  <2>1. \A d \in AcpCallers : At(d, "set stopped")' => At(d, "set stopped")
    BY <1>4 DEF At
  <2>2. \A d \in AcpCallers :
            acpPc'[d] \in {"idle", "publish token", "stamp"} => acpTodo[d] = {}
    BY <1>1, <1>4 DEF AcpStops
  <2> QED BY <1>1, <1>3, <2>1, <2>2 DEF AcpStops
<1>8. StopIsComplete'
  <2>1. \A a \in Agents \ hasty' :
            /\ acpState'[a] = "Stopped" => acpToken'[a] = "cancelled"
            /\ acpToken'[a] = "cancelled" =>
                  acpState'[a] = "Stopped"
                    \/ \E d \in AcpCallers : Stopping(d)' /\ acpArg'[d] = a
    <3> SUFFICES ASSUME NEW a \in Agents \ hasty'
                 PROVE  /\ acpState'[a] = "Stopped" => acpToken'[a] = "cancelled"
                        /\ acpToken'[a] = "cancelled" =>
                              acpState'[a] = "Stopped"
                                \/ \E d \in AcpCallers : Stopping(d)' /\ acpArg'[d] = a
      OBVIOUS
    <3>1. CASE a = n
      <4>1. acpToken[n] = "cancelled" /\ acpState[n] # "none"
        BY <3>1, <1>1, <1>2, <1>3 DEF AcpLive
      <4> QED BY <4>1, <3>1, <1>3, <1>4
    <3>2. CASE a # n
      <4>1. \A d \in AcpCallers : acpArg[d] = a => d # c
        BY <3>2 DEF n
      <4>2. \A d \in AcpCallers : Stopping(d) /\ acpArg[d] = a => Stopping(d)' /\ acpArg'[d] = a
        BY <4>1, <1>3, <1>4 DEF Stopping
      <4> QED BY <3>2, <4>2, <1>1, <1>3, <1>4 DEF StopIsComplete
    <3> QED BY <3>1, <3>2
  <2>2. \A d \in AcpCallers : At(d, "idle")' => acpTodo'[d] = {}
    <3> TAKE d \in AcpCallers
    <3>1. CASE d = c
      <4> HAVE At(d, "idle")'
      <4>1. acpPc'[c] = "idle"
        BY <3>1 DEF At
      <4>2. acpTodo[c] = {}
        BY <4>1, <1>4
      <4> QED BY <3>1, <4>2, <1>3
    <3>2. CASE d # c
      BY <3>2, <1>1, <1>3, <1>4 DEF StopIsComplete, At
    <3> QED BY <3>1, <3>2
  <2> QED BY <2>1, <2>2 DEF StopIsComplete
<1> QED BY <1>5, <1>6, <1>7, <1>8 DEF AcpInv

LEMMA AcpStepInv == AcpInv /\ [AcpNext]_acpVars => AcpInv'
<1> SUFFICES ASSUME AcpInv, [AcpNext]_acpVars PROVE AcpInv'
  OBVIOUS
<1>1. ASSUME NEW c \in AcpCallers, Spawn(c) PROVE AcpInv'
  BY <1>1, AcpSpawnInv
<1>2. ASSUME NEW c \in AcpCallers, PublishToken(c) PROVE AcpInv'
  BY <1>2, AcpPublishInv
<1>3. ASSUME NEW c \in AcpCallers,
             (\E a \in Agents : SendTo(c, a) \/ StopBegins(c, a))
               \/ Stamp(c) \/ StopAllBegins(c) \/ StopAllNext(c)
      PROVE  AcpInv'
  BY <1>3, AcpRequestMoves, AcpRequestInv
<1>4. ASSUME NEW c \in AcpCallers, CancelToken(c) PROVE AcpInv'
  BY <1>4, AcpCancelInv
<1>5. ASSUME NEW c \in AcpCallers, MarkStopped(c) PROVE AcpInv'
  BY <1>5, AcpMarkInv
<1>6. CASE UNCHANGED acpVars
  <2> USE <1>6 DEF acpVars
  <2>1. AcpTypeOK' /\ AcpLive'
    BY DEF AcpInv, AcpTypeOK, AcpLive, Publishing, At
  <2>2. AcpStops' /\ StopIsComplete'
    BY ZenonT(40) DEF AcpInv, AcpStops, StopIsComplete, At, Stopping
  <2> QED BY <2>1, <2>2 DEF AcpInv
<1> QED BY <1>1, <1>2, <1>3, <1>4, <1>5, <1>6 DEF AcpNext

(* A stop of an ACP agent cancels its task and marks it, and a stop_all    *)
(* that is over has dealt with every agent it saw running, whatever        *)
(* spawns, stops and sends of any number of callers come between           *)
(* (src/agents/acp.rs), but for an agent stopped inside its own spawn.     *)
THEOREM AgentStopsComplete == AcpSpec => []StopIsComplete
<1>1. AcpInv => StopIsComplete
  BY DEF AcpInv
<1> QED BY <1>1, AcpInitInv, AcpStepInv, PTL DEF AcpSpec

-----------------------------------------------------------------------------
(* The C interface.  The server is where the gateway's handle says; whoever *)
(* takes it has a live handle; as long as no two take it at once, it has   *)
(* been run if it is not held, whoever takes it still finds it held, and   *)
(* whoever takes or runs it is alone.                                      *)

FfiAlone ==
    /\ ranBy = IF gateServer \in {"run", "ended"} THEN 1 ELSE 0
    /\ \A t \in Threads : inCall[t] = "take" => gateServer = "held"
    /\ \A t, u \in Threads : inCall[t] \in {"take", "run"} /\ inCall[u] = inCall[t] => t = u

FfiRuns ==
    /\ gateServer = "none" <=> "gateway" \notin handles
    /\ \A t \in Threads : inCall[t] = "take" => "gateway" \in handles
    /\ \A t \in Threads : inCall[t] = "run" => gateServer = "run"
    /\ ~overlapped => FfiAlone

FfiInv == FfiTypeOK /\ FfiRuns

(* A step that leaves the server and the calls that run it alone.          *)
Reports(t) == Succeeds(t) \/ Errs(t) \/ lastError' = lastError \ {t}

Apart(t) ==
    /\ gateServer' = gateServer /\ ranBy' = ranBy /\ overlapped' = overlapped
    /\ "gateway" \in handles' <=> "gateway" \in handles
    /\ handles' \subseteq {"runtime", "config", "gateway"}
    /\ strings' \in 0 .. MaxStrings
    /\ \/ inCall' = inCall
       \/ \E call \in {"none", "agent", "send", "completion"} :
             inCall' = [inCall EXCEPT ![t] = call] /\ inCall[t] \notin {"take", "run"}
    /\ Reports(t)

LEMMA FfiReports ==
    ASSUME FfiTypeOK, NEW t \in Threads, Reports(t)
    PROVE  lastError' \subseteq Threads
BY DEF FfiTypeOK, Reports, Succeeds, Errs

LEMMA FfiApartInv ==
    ASSUME FfiInv, NEW t \in Threads, Apart(t)
    PROVE  FfiInv'
<1>1. FfiTypeOK /\ FfiRuns
  BY DEF FfiInv
<1>2. lastError' \subseteq Threads
  BY <1>1, FfiReports DEF Apart
<1>3. inCall' \in [Threads -> Blocking \cup {"none"}]
  BY <1>1 DEF Apart, FfiTypeOK, Blocking
<1>4. \A u \in Threads : inCall'[u] \in {"take", "run"} => inCall'[u] = inCall[u]
  BY <1>1 DEF Apart, FfiTypeOK
<1>5. FfiTypeOK'
  BY <1>1, <1>2, <1>3 DEF Apart, FfiTypeOK
<1>6. FfiAlone => FfiAlone'
  BY <1>4 DEF Apart, FfiAlone
<1>7. FfiRuns'
  BY <1>1, <1>4, <1>6 DEF Apart, FfiRuns
<1> QED BY <1>5, <1>7 DEF FfiInv

LEMMA FfiApart ==
    ASSUME FfiInv, NEW t \in Threads,
           \/ \E ok \in BOOLEAN : RuntimeCreate(t, ok) \/ ConfigLoad(t, ok)
           \/ RuntimeDestroy(t) \/ ConfigDefault(t) \/ ConfigDestroy(t)
           \/ \E ok \in BOOLEAN : ConfigToJson(t, ok) \/ GatewayShutdown(t, ok)
                                      \/ GatewayAddr(t, ok)
           \/ \E ok \in BOOLEAN : AgentMessage(t, ok) \/ ChannelSend(t, ok)
                                      \/ ChatCompletion(t, ok)
           \/ \E ok \in BOOLEAN : AgentReturns(t, ok) \/ SendReturns(t, ok)
                                  \/ CompletionReturns(t, ok)
           \/ ClearError(t) \/ StringFree(t)
    PROVE  Apart(t)
<1>1. FfiTypeOK
  BY DEF FfiInv
<1>2. /\ handles \subseteq {"runtime", "config", "gateway"}
      /\ strings \in 0 .. MaxStrings /\ MaxStrings \in Nat
  BY <1>1, FfiAssumption DEF FfiTypeOK, FfiAssumption
<1>3. ASSUME NEW ok \in BOOLEAN, RuntimeCreate(t, ok) \/ ConfigLoad(t, ok) PROVE Apart(t)
  BY <1>2, <1>3 DEF Apart, Reports, RuntimeCreate, ConfigLoad
<1>4. CASE RuntimeDestroy(t) \/ ConfigDefault(t) \/ ConfigDestroy(t)
  BY <1>2, <1>4 DEF Apart, Reports, RuntimeDestroy, ConfigDefault, ConfigDestroy
<1>5. ASSUME NEW ok \in BOOLEAN, ConfigToJson(t, ok) \/ GatewayShutdown(t, ok) \/ GatewayAddr(t, ok)
      PROVE  Apart(t)
  <2>1. strings' \in 0 .. MaxStrings
    BY <1>2, <1>5 DEF ConfigToJson, GatewayShutdown, GatewayAddr, NoChange
  <2>2. UNCHANGED <<handles, gateServer, inCall, ranBy, overlapped>> /\ (Succeeds(t) \/ Errs(t))
    BY <1>5 DEF ConfigToJson, GatewayShutdown, GatewayAddr, NoChange
  <2> QED BY <2>1, <2>2, <1>2 DEF Apart, Reports
<1>6. ASSUME NEW ok \in BOOLEAN, AgentMessage(t, ok) \/ ChannelSend(t, ok) \/ ChatCompletion(t, ok)
      PROVE  Apart(t)
  BY <1>2, <1>6 DEF Apart, Reports, AgentMessage, ChannelSend, ChatCompletion, Enter, NoChange, Free, Succeeds
<1>7. ASSUME NEW ok \in BOOLEAN,
             AgentReturns(t, ok) \/ SendReturns(t, ok) \/ CompletionReturns(t, ok)
      PROVE  Apart(t)
  <2>1. strings' \in 0 .. MaxStrings
    BY <1>2, <1>7 DEF AgentReturns, SendReturns, CompletionReturns
  <2> QED BY <2>1, <1>2, <1>7 DEF Apart, Reports, AgentReturns, SendReturns, CompletionReturns, Return
<1>8. CASE ClearError(t)
  BY <1>2, <1>8 DEF Apart, Reports, ClearError, NoChange, Free
<1>9. CASE StringFree(t)
  BY <1>2, <1>9 DEF Apart, Reports, Succeeds, StringFree
<1> QED BY <1>3, <1>4, <1>5, <1>6, <1>7, <1>8, <1>9

(* The calls about the gateway itself.                                     *)
LEMMA FfiGatewayInv ==
    ASSUME FfiInv, NEW t \in Threads,
           \/ \E outcome \in {"ok", "gateway", "argument"} : GatewayStart(t, outcome)
           \/ GatewayDestroy(t) \/ RunTakes(t)
           \/ \E ok \in BOOLEAN : GatewayRun(t, ok) \/ RunReturns(t, ok)
    PROVE  FfiInv'
<1>1. FfiTypeOK /\ FfiRuns
  BY DEF FfiInv
<1>2. /\ handles \subseteq {"runtime", "config", "gateway"}
      /\ gateServer \in {"none", "held", "run", "ended"}
      /\ inCall \in [Threads -> Blocking \cup {"none"}]
      /\ strings \in 0 .. MaxStrings /\ ranBy \in Nat /\ overlapped \in BOOLEAN
      /\ lastError \subseteq Threads
  BY <1>1 DEF FfiTypeOK
<1>3. ASSUME NEW outcome \in {"ok", "gateway", "argument"}, GatewayStart(t, outcome)
      PROVE  FfiInv'
  <2>1. lastError' \subseteq Threads
    BY <1>1, <1>3, FfiReports DEF GatewayStart, Reports
  <2>2. /\ "gateway" \notin handles /\ gateServer = "none" /\ inCall' = inCall /\ strings' = strings
        /\ \A u \in Threads : inCall[u] \notin {"take", "run"}
    BY <1>1, <1>3 DEF GatewayStart, FfiRuns
  <2>3. \/ /\ handles' = handles \cup {"gateway"} /\ gateServer' = "held"
           /\ ranBy' = 0 /\ overlapped' = FALSE
        \/ UNCHANGED <<handles, gateServer, ranBy, overlapped>>
    BY <1>3 DEF GatewayStart
  <2>a. /\ handles' \subseteq {"runtime", "config", "gateway"} /\ ranBy' \in Nat
        /\ gateServer' \in {"none", "held", "run", "ended"}
    <3>1. CASE UNCHANGED <<handles, gateServer, ranBy, overlapped>>
      BY <1>2, <3>1
    <3>2. CASE handles' = handles \cup {"gateway"} /\ gateServer' = "held" /\ ranBy' = 0
      BY <1>2, <3>2
    <3> QED BY <2>3, <3>1, <3>2
  <2>b. overlapped' \in BOOLEAN
    BY <1>2, <2>3, Zenon
  <2>4. FfiTypeOK'
    BY <1>2, <2>1, <2>2, <2>a, <2>b DEF FfiTypeOK
  <2>5. FfiRuns'
    BY <1>1, <2>2, <2>3 DEF FfiRuns, FfiAlone
  <2> QED BY <2>4, <2>5 DEF FfiInv
<1>4. ASSUME GatewayDestroy(t)
      PROVE  FfiInv'
  <2>1. lastError' \subseteq Threads
    BY <1>1, <1>4, FfiReports DEF GatewayDestroy, Reports
  <2>2. /\ \A u \in Threads : inCall[u] \notin {"take", "run"}
        /\ handles' = handles \ {"gateway"} /\ gateServer' = "none"
        /\ ranBy' = 0 /\ overlapped' = FALSE
        /\ UNCHANGED <<inCall, strings>>
    BY <1>4 DEF GatewayDestroy, Using
  <2>3. FfiTypeOK'
    BY <1>2, <2>1, <2>2 DEF FfiTypeOK
  <2>4. FfiRuns'
    BY <2>2 DEF FfiRuns, FfiAlone
  <2> QED BY <2>3, <2>4 DEF FfiInv
<1>5. ASSUME NEW ok \in BOOLEAN, GatewayRun(t, ok)
      PROVE  FfiInv'
  <2>1. lastError' \subseteq Threads
    BY <1>1, <1>5, FfiReports DEF GatewayRun, Reports, Succeeds
  <2>2. UNCHANGED <<handles, gateServer, strings, ranBy>>
    BY <1>5 DEF GatewayRun
  <2>3. CASE UNCHANGED <<inCall, overlapped>>
    BY <1>1, <1>2, <2>1, <2>2, <2>3 DEF FfiInv, FfiTypeOK, FfiRuns, FfiAlone
  <2>4. CASE ~UNCHANGED <<inCall, overlapped>>
    <3>1. /\ gateServer = "held" /\ "gateway" \in handles
          /\ inCall' = [inCall EXCEPT ![t] = "take"]
          /\ overlapped' = (overlapped \/ Using({"take"}))
      BY <2>4, <1>5 DEF GatewayRun
    <3>2. overlapped' \in BOOLEAN
      BY <3>1 DEF Using
    <3>3. FfiTypeOK'
      BY <1>2, <2>1, <2>2, <3>1, <3>2 DEF FfiTypeOK, Blocking
    <3>4. \A u \in Threads : inCall[u] # "run" /\ inCall'[u] # "run"
      BY <1>1, <1>2, <3>1 DEF FfiRuns
    <3>5. ~overlapped' => \A u \in Threads : inCall'[u] = "take" => u = t
      BY <1>2, <3>1 DEF Using
    <3>6. ~overlapped' => FfiAlone'
      BY <1>1, <2>2, <3>1, <3>4, <3>5 DEF FfiRuns, FfiAlone
    <3>7. FfiRuns'
      BY <1>1, <2>2, <3>1, <3>4, <3>6 DEF FfiRuns
    <3> QED BY <3>3, <3>7 DEF FfiInv
  <2> QED BY <2>3, <2>4
<1>6. ASSUME RunTakes(t)
      PROVE  FfiInv'
  <2>1. /\ inCall[t] = "take" /\ inCall' = [inCall EXCEPT ![t] = "run"]
        /\ gateServer' = "run" /\ ranBy' = ranBy + 1
        /\ UNCHANGED <<handles, lastError, strings, overlapped>>
    BY <1>6 DEF RunTakes
  <2>2. "gateway" \in handles
    BY <1>1, <2>1 DEF FfiRuns
  <2>3. FfiTypeOK'
    BY <1>2, <2>1 DEF FfiTypeOK, Blocking
  <2>4. ASSUME ~overlapped PROVE FfiAlone'
    <3>1. gateServer = "held" /\ ranBy = 0 /\ \A u \in Threads : inCall[u] = "take" => u = t
      BY <1>1, <2>1, <2>4 DEF FfiRuns, FfiAlone
    <3>2. \A u \in Threads : inCall[u] # "run"
      BY <1>1, <3>1 DEF FfiRuns
    <3>3. \A u \in Threads : inCall'[u] # "take" /\ (inCall'[u] = "run" => u = t)
      BY <1>2, <2>1, <3>1, <3>2
    <3> QED BY <2>1, <3>1, <3>3 DEF FfiAlone
  <2>5. FfiRuns'
    BY <1>1, <1>2, <2>1, <2>2, <2>4 DEF FfiRuns
  <2> QED BY <2>3, <2>5 DEF FfiInv
<1>7. ASSUME NEW ok \in BOOLEAN, RunReturns(t, ok)
      PROVE  FfiInv'
  <2>1. lastError' \subseteq Threads
    BY <1>1, <1>7, FfiReports DEF RunReturns, Reports
  <2>2. /\ inCall[t] = "run" /\ inCall' = [inCall EXCEPT ![t] = "none"]
        /\ gateServer' = IF \E u \in Threads \ {t} : inCall[u] = "run" THEN "run" ELSE "ended"
        /\ UNCHANGED <<handles, strings, ranBy, overlapped>>
    BY <1>7 DEF RunReturns
  <2>3. /\ gateServer = "run" /\ "gateway" \in handles /\ gateServer' \in {"run", "ended"}
    BY <1>1, <1>2, <2>2 DEF FfiRuns
  <2>4. FfiTypeOK'
    BY <1>2, <2>1, <2>2, <2>3 DEF FfiTypeOK
  <2>5. \A u \in Threads : inCall'[u] # "none" => u # t /\ inCall'[u] = inCall[u]
    BY <1>2, <2>2
  <2>6. ASSUME ~overlapped PROVE FfiAlone'
    <3>1. FfiAlone
      BY <1>1, <2>6 DEF FfiRuns
    <3>2. \A u \in Threads : inCall[u] # "take"
      BY <2>3, <3>1 DEF FfiAlone
    <3> QED BY <2>2, <2>3, <2>5, <3>1, <3>2 DEF FfiAlone
  <2>7. \A u \in Threads : inCall'[u] = "run" => gateServer' = "run"
    BY <2>2, <2>5
  <2>8. FfiRuns'
    BY <1>1, <2>2, <2>3, <2>5, <2>6, <2>7 DEF FfiRuns
  <2> QED BY <2>4, <2>8 DEF FfiInv
<1> QED BY <1>3, <1>4, <1>5, <1>6, <1>7

LEMMA FfiInitInv == FfiInit => FfiInv
<1> SUFFICES ASSUME FfiInit PROVE FfiInv
  OBVIOUS
<1>a. overlapped \in BOOLEAN
  BY Zenon DEF FfiInit
<1>1. FfiTypeOK
  BY <1>a, FfiAssumption DEF FfiInit, FfiTypeOK, FfiAssumption
<1>2. FfiRuns
  BY DEF FfiInit, FfiRuns, FfiAlone
<1> QED BY <1>1, <1>2 DEF FfiInv

LEMMA FfiStepInv == FfiInv /\ [FfiNext]_ffiVars => FfiInv'
<1> SUFFICES ASSUME FfiInv, [FfiNext]_ffiVars PROVE FfiInv'
  OBVIOUS
<1>1. ASSUME NEW t \in Threads, FfiCall(t) \/ FfiReturn(t) PROVE FfiInv'
  <2>1. CASE Apart(t)
    BY <2>1, FfiApartInv
  <2>2. CASE ~Apart(t)
    <3>1. \/ \E outcome \in {"ok", "gateway", "argument"} : GatewayStart(t, outcome)
          \/ GatewayDestroy(t) \/ RunTakes(t)
          \/ \E ok \in BOOLEAN : GatewayRun(t, ok) \/ RunReturns(t, ok)
      BY <1>1, <2>2, FfiApart, Zenon DEF FfiCall, FfiReturn
    <3> QED BY <3>1, FfiGatewayInv
  <2> QED BY <2>1, <2>2
<1>2. CASE ProcessSignal \/ UNCHANGED ffiVars
  <2>1. UNCHANGED <<handles, gateServer, inCall, lastError, strings, ranBy, overlapped>>
    BY <1>2 DEF ProcessSignal, ffiVars
  <2> QED BY <2>1 DEF FfiInv, FfiTypeOK, FfiRuns, FfiAlone
<1> QED BY <1>1, <1>2 DEF FfiNext

LEMMA EmbeddingIsSound == FfiInv => EmbeddingSound
BY DEF FfiInv, FfiTypeOK, FfiRuns, FfiAlone, EmbeddingSound, Using

(* A gateway of which no two threads take the server at once is run once   *)
(* and by one thread (src/ffi.rs:305), whatever calls any number of        *)
(* threads of the host make; a server that is run is not in its handle.    *)
THEOREM FfiEmbeddingSound == FfiSpec => []EmbeddingSound
BY EmbeddingIsSound, FfiInitInv, FfiStepInv, PTL DEF FfiSpec

-----------------------------------------------------------------------------
(* Outbound delivery.  Before the first cycle nothing was tried; after it  *)
(* a target is as fresh as the last cycle or was stale at it; the circuit  *)
(* opens at the threshold, so the count never passes it.                   *)

QueueFresh ==
    /\ lastCycle = Never => ~lateCycle /\ \A i \in Targets : lastAttempt[i] = Never
    /\ lastCycle # Never => lastCycle <= minute
    /\ lastCycle # Never /\ ~lateCycle =>
           \A i \in Targets \ suspended : lastAttempt[i] = lastCycle
    /\ lateCycle =>
           \A i \in Targets \ suspended :
               lastAttempt[i] # Never /\ lastCycle - lastAttempt[i] > StaleAfter

CircuitOpens == ~circuitOpen => n401 < Threshold401

DelInv == DelTypeOK /\ QueueFresh /\ CircuitOpens

LEMMA DelTyped ==
    ASSUME DelInv
    PROVE  /\ minute \in 0 .. MaxTime /\ MaxTime \in Nat /\ Never = MaxTime + 1
           /\ lastAttempt \in [Targets -> 0 .. Never]
           /\ failures \in [Targets -> 0 .. 2]
           /\ lastCycle \in 0 .. Never /\ StaleAfter \in Nat /\ lateCycle \in BOOLEAN
BY DeliveryAssumption DEF DelInv, DelTypeOK, DeliveryAssumption, Never

LEMMA DelInitInv == DelInit => DelInv
<1> SUFFICES ASSUME DelInit PROVE DelInv
  OBVIOUS
<1>1. /\ MaxTime \in Nat /\ MaxDrains \in Nat /\ Threshold401 \in Nat /\ Threshold401 > 0
      /\ Never = MaxTime + 1
  BY DeliveryAssumption DEF DeliveryAssumption, Never
<1>2. DelTypeOK
  <2>1. 0 \in 0 .. MaxTime /\ 0 \in 0 .. MaxDrains /\ 0 \in 0 .. Threshold401 /\ Never \in 0 .. Never
    BY <1>1
  <2>2. /\ valid \in [Targets -> BOOLEAN] /\ suspended \subseteq Targets
        /\ lastAttempt \in [Targets -> 0 .. Never] /\ failures \in [Targets -> 0 .. 2]
    BY <2>1 DEF DelInit
  <2>3. lateCycle \in BOOLEAN /\ draining \in BOOLEAN /\ waiting401 \in BOOLEAN
        /\ circuitOpen \in BOOLEAN
    BY DEF DelInit
  <2>4. /\ minute \in 0 .. MaxTime /\ lastCycle \in 0 .. Never
        /\ drains \in 0 .. MaxDrains /\ n401 \in 0 .. Threshold401
    BY <2>1 DEF DelInit
  <2> QED BY <2>2, <2>3, <2>4 DEF DelTypeOK
<1>3. QueueFresh /\ CircuitOpens
  BY <1>1 DEF DelInit, QueueFresh, CircuitOpens
<1> QED BY <1>2, <1>3 DEF DelInv

(* Time goes on, drains and requests come and go.                          *)
LEMMA DelAroundInv ==
    ASSUME DelInv,
           \/ TimePasses \/ DrainStart \/ DrainDrop
           \/ Request401 \/ RequestSucceeds \/ BackoffExpires
    PROVE  DelInv'
<1>1. DelTypeOK /\ QueueFresh /\ CircuitOpens
  BY DEF DelInv
<1>2. /\ UNCHANGED <<valid, suspended, lastAttempt, failures, lastCycle, lateCycle>>
      /\ minute' \in {minute, minute + 1} /\ minute' <= MaxTime
  BY DelTyped DEF TimePasses, DrainStart, DrainDrop, Request401, RequestSucceeds,
                  BackoffExpires, queueVars
<1>3. minute' \in 0 .. MaxTime /\ minute <= minute'
  BY <1>2, DelTyped
<1>4. /\ MaxDrains \in Nat /\ drains \in 0 .. MaxDrains
      /\ Threshold401 \in Nat /\ Threshold401 > 0
      /\ n401 \in 0 .. Threshold401
  BY <1>1, DeliveryAssumption DEF DelTypeOK, DeliveryAssumption
<1>9. /\ draining \in BOOLEAN /\ circuitOpen \in BOOLEAN /\ waiting401 \in BOOLEAN
      /\ ~circuitOpen => n401 < Threshold401
  BY <1>1 DEF DelTypeOK, CircuitOpens
<1>5. drains' \in 0 .. MaxDrains /\ draining' \in BOOLEAN
  <2>1. CASE DrainStart
    <3>1. drains' \in 0 .. MaxDrains
      BY <2>1, <1>4 DEF DrainStart
    <3> QED BY <3>1, <2>1 DEF DrainStart
  <2>2. CASE DrainDrop
    <3>1. drains' \in 0 .. MaxDrains
      BY <2>2, <1>4 DEF DrainDrop
    <3> QED BY <3>1, <2>2 DEF DrainDrop
  <2>3. CASE UNCHANGED drainVars
    BY <2>3, <1>4, <1>9 DEF drainVars
  <2> QED BY <2>1, <2>2, <2>3
          DEF TimePasses, Request401, RequestSucceeds, BackoffExpires
<1>6. /\ n401' \in 0 .. Threshold401 /\ circuitOpen' \in BOOLEAN /\ waiting401' \in BOOLEAN
      /\ ~circuitOpen' => n401' < Threshold401
  <2>1. CASE Request401
    <3>1. ~circuitOpen /\ n401' = n401 + 1 /\ waiting401' = TRUE
      BY <2>1 DEF Request401
    <3>2. n401 < Threshold401
      BY <3>1, <1>9
    <3>3. n401' \in 0 .. Threshold401
      BY <3>1, <3>2, <1>4
    <3>4. circuitOpen' = (n401' >= Threshold401)
      BY <2>1 DEF Request401
    <3>5. circuitOpen' \in BOOLEAN /\ (~circuitOpen' => ~(n401' >= Threshold401))
      <4>1. (n401' >= Threshold401) \in BOOLEAN
        OBVIOUS
      <4> QED BY <4>1, <3>4, Zenon
    <3>6. ~(n401' >= Threshold401) => n401' < Threshold401
      BY <3>3, <1>4
    <3> QED BY <3>1, <3>3, <3>5, <3>6
  <2>2. CASE RequestSucceeds
    <3>1. n401' = 0
      BY <2>2 DEF RequestSucceeds
    <3>2. n401' \in 0 .. Threshold401 /\ n401' < Threshold401
      BY <3>1, <1>4
    <3> QED BY <3>2, <2>2 DEF RequestSucceeds
  <2>3. CASE BackoffExpires
    BY <2>3, <1>4, <1>9 DEF BackoffExpires
  <2>4. CASE UNCHANGED telegramVars
    BY <2>4, <1>4, <1>9 DEF telegramVars
  <2> QED BY <2>1, <2>2, <2>3, <2>4 DEF TimePasses, DrainStart, DrainDrop
<1>7. DelTypeOK'
  BY <1>1, <1>2, <1>3, <1>5, <1>6 DEF DelTypeOK, Never, Targets
<1>8. QueueFresh'
  <2>1. lastCycle' # Never => lastCycle' <= minute'
    BY <1>1, <1>2, <1>3, DelTyped DEF QueueFresh, Never
  <2> QED BY <2>1, <1>1, <1>2 DEF QueueFresh, Never, Targets
<1> QED BY <1>6, <1>7, <1>8 DEF DelInv, CircuitOpens

LEMMA QueueTargetsInv ==
    ASSUME DelInv, NEW ok \in [Targets -> BOOLEAN], NEW away \in SUBSET Targets,
           QueueTargets(ok, away)
    PROVE  DelInv'
<1>1. DelTypeOK /\ QueueFresh /\ CircuitOpens
  BY DEF DelInv
<1>2. /\ lastCycle = Never /\ valid' = ok /\ suspended' = away
      /\ UNCHANGED <<minute, lastAttempt, failures, lastCycle, lateCycle,
                     drains, draining, n401, waiting401, circuitOpen>>
  BY DEF QueueTargets, drainVars, telegramVars
<1>3. DelTypeOK' /\ CircuitOpens'
  BY <1>1, <1>2 DEF DelTypeOK, CircuitOpens, Targets, Never
<1>4. QueueFresh'
  BY <1>1, <1>2 DEF QueueFresh, Targets, Never
<1> QED BY <1>3, <1>4 DEF DelInv

(* A cycle: in time, it tries every target that is not suspended; late, it *)
(* finds them all stale, and so does every cycle after it.                 *)
LEMMA RecoveryCycleInv ==
    ASSUME DelInv, RecoveryCycle
    PROVE  DelInv'
<1>1. DelTypeOK /\ QueueFresh /\ CircuitOpens
  BY DEF DelInv
<1>2. /\ lastAttempt' = [i \in Targets |-> IF Tried(i) THEN minute ELSE lastAttempt[i]]
      /\ failures' = [i \in Targets |-> IF ~Tried(i) THEN failures[i]
                                        ELSE IF valid[i] THEN 0
                                        ELSE IF failures[i] < 2 THEN failures[i] + 1 ELSE 2]
      /\ lastCycle' = minute
      /\ lateCycle' = (lateCycle \/ (lastCycle # Never /\ minute - lastCycle > StaleAfter))
      /\ UNCHANGED <<minute, valid, suspended, drains, draining, n401, waiting401, circuitOpen>>
  BY DEF RecoveryCycle, drainVars, telegramVars
<1>3. lastCycle' # Never /\ lastCycle' <= minute'
  BY <1>2, DelTyped
<1>4. \A i \in Targets : lastAttempt'[i] = IF Tried(i) THEN minute ELSE lastAttempt[i]
  BY <1>2
<1>5. DelTypeOK'
  <2>1. failures' \in [Targets -> 0 .. 2]
    <3> SUFFICES ASSUME NEW i \in Targets
                 PROVE  (IF ~Tried(i) THEN failures[i]
                         ELSE IF valid[i] THEN 0
                         ELSE IF failures[i] < 2 THEN failures[i] + 1 ELSE 2) \in 0 .. 2
      BY <1>2
    <3>1. failures[i] \in 0 .. 2
      BY DelTyped
    <3> QED BY <3>1
  <2>2. lastAttempt' \in [Targets -> 0 .. Never] /\ lastCycle' \in 0 .. Never
    <3>1. minute \in 0 .. Never
      BY DelTyped
    <3>2. \A i \in Targets : lastAttempt[i] \in 0 .. Never
      BY DelTyped
    <3> QED BY <3>1, <3>2, <1>2
  <2>3. lateCycle' \in BOOLEAN
    BY <1>2
  <2> QED BY <2>1, <2>2, <2>3, <1>1, <1>2 DEF DelTypeOK, Targets, Never
<1>6. QueueFresh'
  <2> SUFFICES ASSUME NEW i \in Targets \ suspended
               PROVE  /\ ~lateCycle' => lastAttempt'[i] = minute
                      /\ lateCycle' => lastAttempt'[i] # Never
                                       /\ minute - lastAttempt'[i] > StaleAfter
    BY <1>2, <1>3 DEF QueueFresh, Targets, Never
  <2>1. /\ minute \in Nat /\ lastAttempt[i] \in Nat /\ lastCycle \in Nat /\ StaleAfter \in Nat
        /\ minute # Never
    BY DelTyped
  <2>2. Tried(i) <=> lastAttempt[i] = Never \/ ~(minute - lastAttempt[i] > StaleAfter)
    BY DEF Tried, Stale
  <2>3. CASE lastCycle = Never
    <3>1. lastAttempt[i] = Never /\ ~lateCycle
      BY <2>3, <1>1 DEF QueueFresh
    <3> QED BY <3>1, <2>2, <2>3, <1>2, <1>4
  <2>4. CASE lastCycle # Never /\ ~lateCycle
    <3>1. lastAttempt[i] = lastCycle
      BY <2>4, <1>1 DEF QueueFresh
    <3>2. lateCycle' <=> minute - lastCycle > StaleAfter
      BY <2>4, <1>2
    <3> QED BY <3>1, <3>2, <2>1, <2>2, <2>4, <1>4
  <2>5. CASE lastCycle # Never /\ lateCycle
    <3>1. /\ lastAttempt[i] # Never /\ lastCycle - lastAttempt[i] > StaleAfter
          /\ lastCycle <= minute
      BY <2>5, <1>1 DEF QueueFresh
    <3>2. minute - lastAttempt[i] > StaleAfter
      BY <3>1, <2>1
    <3>3. lateCycle' /\ lastAttempt'[i] = lastAttempt[i]
      BY <3>1, <3>2, <2>2, <2>5, <1>2, <1>4
    <3> QED BY <3>1, <3>2, <3>3
  <2> QED BY <2>3, <2>4, <2>5
<1> QED BY <1>1, <1>2, <1>5, <1>6 DEF DelInv, CircuitOpens

LEMMA DelStepInv == DelInv /\ [DelNext]_delVars => DelInv'
<1> SUFFICES ASSUME DelInv, [DelNext]_delVars PROVE DelInv'
  OBVIOUS
<1>1. CASE TimePasses \/ DrainStart \/ DrainDrop \/ Request401 \/ RequestSucceeds \/ BackoffExpires
  BY <1>1, DelAroundInv
<1>2. ASSUME NEW ok \in [Targets -> BOOLEAN], NEW away \in SUBSET Targets, QueueTargets(ok, away)
      PROVE  DelInv'
  BY <1>2, QueueTargetsInv
<1>3. CASE RecoveryCycle
  BY <1>3, RecoveryCycleInv
<1>4. CASE UNCHANGED delVars
  BY <1>4 DEF delVars, DelInv, DelTypeOK, QueueFresh, CircuitOpens, Targets, Never
<1> QED BY <1>1, <1>2, <1>3, <1>4 DEF DelNext

(* As long as no recovery cycle comes late, every target that is not       *)
(* suspended is tried in each, and the first late one loses them all       *)
(* (src/infra/delivery.rs), for any queue, threshold and time.             *)
THEOREM DeliveryKeepsUp == DelSpec => []TargetsKeepUp
<1>1. DelInv => TargetsKeepUp
  <2> SUFFICES ASSUME DelInv, lastCycle # Never, NEW i \in Targets \ suspended
               PROVE  /\ ~lateCycle => lastAttempt[i] = lastCycle
                      /\ lateCycle => lastAttempt[i] < lastCycle
    BY DEF TargetsKeepUp
  <2>1. lastAttempt[i] \in Nat /\ lastCycle \in Nat /\ StaleAfter \in Nat
    BY DelTyped
  <2>2. lateCycle => lastCycle - lastAttempt[i] > StaleAfter
    BY DEF DelInv, QueueFresh
  <2>3. ~lateCycle => lastAttempt[i] = lastCycle
    BY DEF DelInv, QueueFresh
  <2> QED BY <2>1, <2>2, <2>3
<1> QED BY <1>1, DelInitInv, DelStepInv, PTL DEF DelSpec

-----------------------------------------------------------------------------
(* Model failover.  The map of cooldowns and the failures agree: an entry  *)
(* is the end of the cooldown of its model's last failure, and a model     *)
(* without one has rested.                                                 *)

CooldownsAgree ==
    \A m \in Models :
        /\ m \in DOMAIN cooldowns => cooldowns[m] = restUntil[m]
        /\ m \notin DOMAIN cooldowns => restUntil[m] <= clock

FbInv == FbTypeOK /\ restUntil \in [Models -> Nat] /\ CooldownsAgree

LEMMA FbTyped ==
    ASSUME FbInv
    PROVE  /\ clock \in Nat /\ clock \in 0 .. MaxClock /\ MaxClock \in Nat
           /\ Cooldowns \subseteq Nat
           /\ DOMAIN cooldowns \subseteq Models
           /\ \A m \in DOMAIN cooldowns : cooldowns[m] \in Nat
           /\ restUntil \in [Models -> Nat]
BY FallbackAssumption DEF FbInv, FbTypeOK, FallbackAssumption

LEMMA FbInitInv == FbInit => FbInv
BY FallbackAssumption DEF FbInit, FbInv, FbTypeOK, CooldownsAgree, FallbackAssumption

LEMMA RecordFailureInv ==
    ASSUME FbInv, NEW m \in Models, NEW d \in Cooldowns, NEW s, RecordFailure(m, d, s)
    PROVE  FbInv'
<1>1. /\ cooldowns' = [x \in DOMAIN cooldowns \cup {m} |->
                          IF x = m THEN clock + d ELSE cooldowns[x]]
      /\ restUntil' = [restUntil EXCEPT ![m] = clock + d]
      /\ clock' = clock
  BY DEF RecordFailure
<1>2. clock + d \in Nat
  BY FbTyped
<1>3. restUntil' \in [Models -> Nat]
  BY <1>1, <1>2, FbTyped
<1>4. FbTypeOK'
  <2>1. DOMAIN cooldowns' \subseteq Models
    BY <1>1, FbTyped
  <2>2. \A x \in DOMAIN cooldowns' : cooldowns'[x] \in Nat
    BY <1>1, <1>2, FbTyped
  <2> QED BY <2>1, <2>2, <1>1, FbTyped DEF FbTypeOK
<1>5. CooldownsAgree'
  <2> SUFFICES ASSUME NEW x \in Models
               PROVE  /\ x \in DOMAIN cooldowns' => cooldowns'[x] = restUntil'[x]
                      /\ x \notin DOMAIN cooldowns' => restUntil'[x] <= clock
    BY <1>1 DEF CooldownsAgree
  <2>1. CASE x = m
    BY <2>1, <1>1, FbTyped
  <2>2. CASE x # m
    <3>1. restUntil'[x] = restUntil[x]
      BY <2>2, <1>1, FbTyped
    <3>2. x \in DOMAIN cooldowns' <=> x \in DOMAIN cooldowns
      BY <2>2, <1>1
    <3>3. x \in DOMAIN cooldowns => cooldowns'[x] = cooldowns[x]
      BY <2>2, <1>1
    <3> QED BY <3>1, <3>2, <3>3 DEF FbInv, CooldownsAgree
  <2> QED BY <2>1, <2>2
<1> QED BY <1>3, <1>4, <1>5 DEF FbInv

LEMMA FbStepInv == FbInv /\ [FbNext]_fbVars => FbInv'
<1> SUFFICES ASSUME FbInv, [FbNext]_fbVars PROVE FbInv'
  OBVIOUS
<1>1. ASSUME NEW m \in Models, NEW d \in Cooldowns, NEW s, RecordFailure(m, d, s)
      PROVE  FbInv'
  BY <1>1, RecordFailureInv
<1>2. CASE ClearExpired
  <2>1. /\ cooldowns' = [m \in Kept |-> cooldowns[m]]
        /\ UNCHANGED <<clock, restUntil>>
    BY <1>2 DEF ClearExpired
  <2>2. /\ Kept \subseteq DOMAIN cooldowns
        /\ \A m \in DOMAIN cooldowns \ Kept : cooldowns[m] <= clock
    BY FbTyped DEF Kept
  <2>3. FbTypeOK'
    BY <2>1, <2>2, FbTyped DEF FbTypeOK
  <2>4. CooldownsAgree'
    BY <2>1, <2>2 DEF CooldownsAgree, FbInv
  <2> QED BY <2>1, <2>3, <2>4, FbTyped DEF FbInv
<1>3. CASE ClearAll
  BY <1>3, FbTyped DEF ClearAll, FbInv, FbTypeOK, CooldownsAgree
<1>4. CASE ClockTicks
  <2>1. clock' = clock + 1 /\ clock < MaxClock /\ UNCHANGED <<cooldowns, restUntil>>
    BY <1>4 DEF ClockTicks
  <2>2. FbTypeOK'
    BY <2>1, FbTyped DEF FbTypeOK
  <2>3. \A m \in Models : restUntil[m] <= clock => restUntil[m] <= clock'
    BY <2>1, FbTyped
  <2>4. CooldownsAgree'
    BY <2>1, <2>3 DEF CooldownsAgree, FbInv
  <2> QED BY <2>1, <2>2, <2>4, FbTyped DEF FbInv
<1>5. CASE UNCHANGED fbVars
  BY <1>5 DEF fbVars, FbInv, FbTypeOK, CooldownsAgree
<1> QED BY <1>1, <1>2, <1>3, <1>4, <1>5 DEF FbNext

(* SelectInSeq(s, Test) is the first position whose item passes the test.  *)
LEMMA FirstFallback ==
    ASSUME NEW m
    PROVE  LET k == NextFallback(m)
               passes(i) == Chain[i] # m /\ ~OnCooldown(Chain[i])
           IN  \/ k = 0 /\ \A i \in 1 .. Len(Chain) : ~passes(i)
               \/ /\ k \in 1 .. Len(Chain) /\ passes(k)
                  /\ \A i \in 1 .. k - 1 : ~passes(i)
<1> DEFINE passes(i) == Chain[i] # m /\ ~OnCooldown(Chain[i])
           I == {i \in 1 .. Len(Chain) : passes(i)}
           k == NextFallback(m)
<1>1. k = IF I # {} THEN Min(I) ELSE 0
  BY DEF NextFallback, SelectInSeq
<1>2. Len(Chain) \in Nat
  BY FallbackAssumption DEF FallbackAssumption
<1> HIDE DEF k
<1>3. CASE I = {}
  <2>1. \A i \in 1 .. Len(Chain) : ~passes(i)
    BY <1>3
  <2> QED BY <2>1, <1>1, <1>3 DEF k
<1>4. CASE I # {}
  <2>1. I \in SUBSET Nat
    BY <1>2
  <2> HIDE DEF I
  <2>2. \E n \in I : \A j \in I : n <= j
    BY <2>1, <1>4, LeastElement
  <2>3. k \in I /\ \A j \in I : k <= j
    BY <1>1, <1>4, <2>2 DEF Min
  <2>4. k \in 1 .. Len(Chain) /\ passes(k)
    BY <2>3 DEF I
  <2>5. \A i \in 1 .. k - 1 : i \notin I /\ i \in 1 .. Len(Chain)
    BY <2>1, <2>3, <2>4, <1>2
  <2>6. \A i \in 1 .. k - 1 : ~passes(i)
    BY <2>5 DEF I
  <2> QED BY <2>4, <2>6 DEF k
<1> QED BY <1>3, <1>4 DEF k

(* The next fallback is the first other model of the chain that has rested *)
(* since its last failure, whatever failures, collections and clears came  *)
(* in whatever order (src/agents/model_fallback.rs), for any chain.        *)
THEOREM FallbackRests == FbSpec => []FailedModelsRest
<1>1. FbInv => FailedModelsRest
  <2> SUFFICES ASSUME FbInv, NEW f \in Models
               PROVE  LET k == NextFallback(f)
                          rested(m) == m # f /\ restUntil[m] <= clock
                      IN  IF k = 0 THEN \A m \in Models : ~rested(m)
                          ELSE rested(Chain[k]) /\ \A j \in 1 .. k - 1 : ~rested(Chain[j])
    BY DEF FailedModelsRest
  <2> DEFINE k == NextFallback(f)
             rested(m) == m # f /\ restUntil[m] <= clock
             passes(i) == Chain[i] # f /\ ~OnCooldown(Chain[i])
  <2>1. \A m \in Models : OnCooldown(m) <=> ~(restUntil[m] <= clock)
    BY FbTyped DEF OnCooldown, FbInv, CooldownsAgree
  <2>2. Models = {Chain[i] : i \in 1 .. Len(Chain)} /\ Len(Chain) \in Nat
    BY FallbackAssumption DEF FallbackAssumption, Models, ToSet
  <2>3. \A i \in 1 .. Len(Chain) : passes(i) <=> rested(Chain[i])
    BY <2>1, <2>2
  <2>4. \/ k = 0 /\ \A i \in 1 .. Len(Chain) : ~passes(i)
        \/ /\ k \in 1 .. Len(Chain) /\ passes(k)
           /\ \A i \in 1 .. k - 1 : ~passes(i)
    BY FirstFallback
  <2> HIDE DEF k, rested, passes
  <2>5. CASE k = 0
    <3>1. \A i \in 1 .. Len(Chain) : ~rested(Chain[i])
      BY <2>2, <2>3, <2>4, <2>5
    <3> QED BY <3>1, <2>2, <2>5 DEF k, rested
  <2>6. CASE k # 0
    <3>1. k \in 1 .. Len(Chain) /\ rested(Chain[k])
      BY <2>3, <2>4, <2>6
    <3>2. \A j \in 1 .. k - 1 : j \in 1 .. Len(Chain) /\ ~rested(Chain[j])
      BY <2>2, <2>3, <2>4, <2>6
    <3> QED BY <3>1, <3>2, <2>6 DEF k, rested
  <2> QED BY <2>5, <2>6
<1> QED BY <1>1, FbInitInv, FbStepInv, PTL DEF FbSpec

-----------------------------------------------------------------------------
(* Hooks.  The registry is in order and its handlers numbered as they      *)
(* came.  A chain that runs has asked the handlers before its position,    *)
(* all of which said Continue; one that has not begun has asked none; and  *)
(* what a chain has asked is in order for good, since registrations wait.  *)

Handler == [id : 1 .. MaxHandlers, prio : Priorities, says : Verdicts]

Ordered(s) == \A i, j \in 1 .. Len(s) : i < j => Before(s[i], s[j])

RegistrySorted ==
    /\ Ordered(handlers)
    /\ \A i \in 1 .. Len(handlers) : handlers[i].id <= Len(handlers)
    /\ Len(handlers) <= MaxHandlers

(* A chain that has asked the handlers a of the registry hs, is at         *)
(* position at, has been answered says and has fired f plain handlers.     *)
SoundChain(hs, a, at, says, f) ==
    /\ Ordered(a)
    /\ \A i \in 1 .. Len(a) - 1 : a[i].says = "Continue"
    /\ at = 0 /\ says = "none" => a = <<>> /\ f = 0
    /\ at > 0 => /\ says = "none" /\ f = 0
                /\ Len(a) = at - 1 /\ at <= Len(hs) + 1
                /\ \A i \in 1 .. Len(a) : a[i] = hs[i] /\ a[i].says = "Continue"
    /\ says # "none" /\ a # <<>> => says = a[Len(a)].says
    /\ says \notin {"none", "Continue"} => a # <<>>
    /\ f > 0 => \A i \in 1 .. Len(a) : a[i].says = "Continue"

ChainSound(c) == SoundChain(handlers, asked[c], chainAt[c], chainSays[c], fired[c])

HookInv ==
    /\ HookTypeOK
    /\ asked \in [HookChains -> Seq(Handler)]
    /\ RegistrySorted
    /\ \A c \in HookChains : ChainSound(c)

LEMMA HandlerFields ==
    ASSUME NEW h \in Handler
    PROVE  /\ h.says \in Verdicts /\ h.says # "none" /\ h.prio \in Nat
           /\ h.id \in Nat /\ h.id \in 1 .. MaxHandlers
<1>1. h.says \in Verdicts /\ h.prio \in Priorities /\ h.id \in 1 .. MaxHandlers
  BY DEF Handler
<1>2. "none" \notin Verdicts
  BY DEF Verdicts
<1>3. Priorities \subseteq Nat /\ MaxHandlers \in Nat
  BY HooksAssumption DEF HooksAssumption
<1>4. h.id \in Nat
  BY <1>1, <1>3
<1> QED BY <1>1, <1>2, <1>3, <1>4, Zenon

LEMMA HookTyped ==
    ASSUME HookInv
    PROVE  /\ handlers \in Seq(Handler) /\ Len(handlers) \in Nat
           /\ MaxHandlers \in Nat /\ Priorities \subseteq Nat
           /\ chainAt \in [HookChains -> 0 .. MaxHandlers + 1]
           /\ chainSays \in [HookChains -> Verdicts \cup {"none"}]
           /\ fired \in [HookChains -> 0 .. 1] /\ plain \in 0 .. 1
           /\ asked \in [HookChains -> Seq(Handler)]
<1>1. handlers \in Seq(Handler) /\ asked \in [HookChains -> Seq(Handler)]
  BY Zenon DEF HookInv, HookTypeOK, Handler
<1>2. Len(handlers) \in Nat
  BY <1>1
<1>3. MaxHandlers \in Nat /\ Priorities \subseteq Nat
  BY HooksAssumption DEF HooksAssumption
<1> QED BY <1>1, <1>2, <1>3, Zenon DEF HookInv, HookTypeOK

(* The empty registry.                                                     *)
LEMMA HookInitInv ==
    ASSUME HookInit
    PROVE  HookInv
<1>1. HookTypeOK
  <2>1. MaxHandlers \in Nat /\ <<>> \in Seq(Handler)
    BY HooksAssumption DEF HooksAssumption
  <2> QED BY <2>1 DEF HookInit, HookTypeOK, Handler
<1>2. RegistrySorted
  BY HooksAssumption DEF HookInit, RegistrySorted, Ordered, HooksAssumption
<1>3. \A c \in HookChains : ChainSound(c)
  BY DEF HookInit, ChainSound, SoundChain, Ordered
<1>4. asked \in [HookChains -> Seq(Handler)]
  <2>1. <<>> \in Seq(Handler)
    OBVIOUS
  <2> QED BY <2>1 DEF HookInit
<1> QED BY <1>1, <1>2, <1>3, <1>4 DEF HookInv

-----------------------------------------------------------------------------
(* The handlers that go before a new one are the first k.                  *)
LEMMA FirstOnes ==
    ASSUME NEW n \in Nat, NEW D \in SUBSET (1 .. n),
           \A i, j \in 1 .. n : i < j /\ j \in D => i \in D
    PROVE  Cardinality(D) \in 0 .. n /\ D = 1 .. Cardinality(D)
<1> DEFINE T == (1 .. n + 1) \ D
<1>1. T \in SUBSET Nat /\ T # {}
  BY DEF T
<1>2. PICK m \in T : \A j \in T : m <= j
  BY <1>1, LeastElement
<1>3. m \in 1 .. n + 1 /\ m \notin D
  BY <1>2
<1>4. \A i \in 1 .. n : i \in D <=> i < m
  <2> TAKE i \in 1 .. n
  <2>1. ASSUME i < m PROVE i \in D
    BY <2>1, <1>2, <1>3
  <2>2. ASSUME i \in D PROVE i < m
    <3>1. i # m
      BY <2>2, <1>3
    <3>2. ~(m < i)
      BY <2>2, <1>3
    <3> QED BY <3>1, <3>2, <1>3
  <2> QED BY <2>1, <2>2
<1>5. D = 1 .. m - 1
  <2> HIDE DEF T
  <2>1. \A i \in D : i \in 1 .. n
    OBVIOUS
  <2>2. \A i \in D : i \in 1 .. m - 1
    BY <2>1, <1>3, <1>4
  <2>3. \A i \in 1 .. m - 1 : i \in 1 .. n /\ i < m
    BY <1>3
  <2>4. \A i \in 1 .. m - 1 : i \in D
    BY <2>3, <1>4
  <2> QED BY <2>2, <2>4
<1>6. Cardinality(D) = m - 1
  <2>1. Cardinality(1 .. m - 1) = IF 1 > m - 1 THEN 0 ELSE m - 1 - 1 + 1
    BY <1>3, FS_Interval
  <2> QED BY <2>1, <1>3, <1>5
<1> QED BY <1>3, <1>5, <1>6

LEMMA HandlerInserted ==
    ASSUME NEW S, NEW s \in Seq(S), NEW h \in S, NEW k \in Nat, k <= Len(s)
    PROVE  /\ InsertAt(s, k + 1, h) \in Seq(S) /\ Len(InsertAt(s, k + 1, h)) = Len(s) + 1
           /\ \A i \in 1 .. Len(s) + 1 :
                  InsertAt(s, k + 1, h)[i] =
                      IF i <= k THEN s[i] ELSE IF i = k + 1 THEN h ELSE s[i - 1]
<1> DEFINE p == SubSeq(s, 1, k)
           q == p \o <<h>>
           r == SubSeq(s, k + 1, Len(s))
           t == InsertAt(s, k + 1, h)
<1>1. p \in Seq(S) /\ Len(p) = k /\ \A i \in 1 .. k : p[i] = s[i]
  BY SubSeqProperties
<1>2. r \in Seq(S) /\ Len(r) = Len(s) - k /\ \A i \in 1 .. Len(s) - k : r[i] = s[k + i]
  BY SubSeqProperties
<1>3. t = q \o r
  <2>1. (k + 1) - 1 = k
    OBVIOUS
  <2> QED BY <2>1 DEF InsertAt
<1> HIDE DEF p, r, t
<1>4. <<h>> \in Seq(S) /\ Len(<<h>>) = 1 /\ <<h>>[1] = h
  OBVIOUS
<1>5. /\ q \in Seq(S) /\ Len(q) = k + 1
      /\ \A i \in 1 .. k + 1 : q[i] = IF i <= k THEN s[i] ELSE h
  <2>1. /\ q \in Seq(S) /\ Len(q) = Len(p) + 1
        /\ \A i \in 1 .. Len(p) + 1 : q[i] = IF i <= Len(p) THEN p[i] ELSE <<h>>[i - Len(p)]
    BY <1>1, <1>4, ConcatProperties
  <2>2. \A i \in 1 .. k + 1 : i <= k => i \in 1 .. k
    OBVIOUS
  <2>3. \A i \in 1 .. k + 1 : ~(i <= k) => i - k = 1
    OBVIOUS
  <2> QED BY <2>1, <2>2, <2>3, <1>1, <1>4
<1> HIDE DEF q
<1>6. /\ t \in Seq(S) /\ Len(t) = Len(q) + Len(r)
      /\ \A i \in 1 .. Len(q) + Len(r) : t[i] = IF i <= Len(q) THEN q[i] ELSE r[i - Len(q)]
  BY <1>2, <1>3, <1>5, ConcatProperties
<1>7. ASSUME NEW i \in 1 .. Len(s) + 1
      PROVE  t[i] = IF i <= k THEN s[i] ELSE IF i = k + 1 THEN h ELSE s[i - 1]
  <2>1. CASE i <= k + 1
    <3>1. i \in 1 .. k + 1 /\ i \in 1 .. Len(q) + Len(r) /\ i <= Len(q)
      BY <2>1, <1>2, <1>5
    <3>2. t[i] = q[i]
      BY <3>1, <1>6
    <3>3. q[i] = IF i <= k THEN s[i] ELSE h
      BY <3>1, <1>5
    <3>4. ~(i <= k) => i = k + 1
      BY <2>1
    <3> QED BY <3>2, <3>3, <3>4, Zenon
  <2>2. CASE ~(i <= k + 1)
    <3>1. i - (k + 1) \in 1 .. Len(s) - k /\ k + (i - (k + 1)) = i - 1
      BY <2>2
    <3>2. t[i] = r[i - (k + 1)]
      BY <2>2, <1>2, <1>5, <1>6
    <3>3. r[i - (k + 1)] = s[k + (i - (k + 1))]
      BY <3>1, <1>2
    <3> QED BY <2>2, <3>1, <3>2, <3>3
  <2> QED BY <2>1, <2>2
<1> QED BY <1>2, <1>5, <1>6, <1>7 DEF t

(* A registration puts the handler behind those of its own priority.       *)
LEMMA OnModifyingInv ==
    ASSUME HookInv, NEW p \in Priorities, NEW v \in Verdicts, OnModifying(p, v)
    PROVE  HookInv'
<1> DEFINE n == Len(handlers)
           h == [id |-> n + 1, prio |-> p, says |-> v]
           D == {i \in 1 .. n : handlers[i].prio <= p}
           k == Cardinality(D)
<1>1. /\ handlers \in Seq(Handler) /\ n \in Nat /\ n < MaxHandlers /\ MaxHandlers \in Nat
      /\ Priorities \subseteq Nat
      /\ \A c \in HookChains : chainAt[c] = 0
      /\ UNCHANGED <<plain, chainAt, chainSays, asked, fired, context>>
  BY HookTyped DEF OnModifying, Unlocked
<1>2. handlers' = InsertAt(handlers, k + 1, h) /\ h.prio = p /\ h.id = n + 1
  BY DEF OnModifying, Sorted
<1>3. h \in Handler
  BY <1>1 DEF Handler
<1>4. \A i \in 1 .. n : /\ handlers[i] \in Handler /\ handlers[i].prio \in Nat
                        /\ handlers[i].id \in Nat /\ handlers[i].id <= n
  <2>1. \A i \in 1 .. n : handlers[i] \in Handler
    BY <1>1
  <2>2. \A i \in 1 .. n : handlers[i].id <= n
    BY DEF HookInv, RegistrySorted
  <2> QED BY <2>1, <2>2, HandlerFields
<1>5. \A i, j \in 1 .. n : i < j => Before(handlers[i], handlers[j])
  BY DEF HookInv, RegistrySorted, Ordered
<1> HIDE DEF n, h
<1>6. k \in 0 .. n /\ D = 1 .. k
  <2>1. \A i, j \in 1 .. n : i < j /\ j \in D => i \in D
    <3> SUFFICES ASSUME NEW i \in 1 .. n, NEW j \in 1 .. n, i < j, j \in D
                 PROVE  i \in D
      OBVIOUS
    <3>1. handlers[i].prio <= handlers[j].prio /\ handlers[j].prio <= p
      BY <1>4, <1>5 DEF Before
    <3>2. handlers[i].prio \in Nat /\ handlers[j].prio \in Nat /\ p \in Nat
      BY <1>1, <1>4
    <3> QED BY <3>1, <3>2
  <2> HIDE DEF D
  <2>2. D \in SUBSET (1 .. n)
    BY DEF D
  <2> QED BY <2>1, <2>2, <1>1, FirstOnes
<1>7. \A i \in 1 .. n : handlers[i].prio <= p <=> i <= k
  BY <1>6 DEF D
<1> HIDE DEF D, k
<1>8. /\ handlers' \in Seq(Handler) /\ Len(handlers') = n + 1
      /\ \A i \in 1 .. n + 1 : handlers'[i] = IF i <= k THEN handlers[i]
                                              ELSE IF i = k + 1 THEN h ELSE handlers[i - 1]
  <2>1. k \in Nat /\ k <= Len(handlers)
    BY <1>1, <1>6 DEF n
  <2>2. handlers \in Seq(Handler) /\ h \in Handler
    BY <1>1, <1>3
  <2>3. /\ InsertAt(handlers, k + 1, h) \in Seq(Handler)
        /\ Len(InsertAt(handlers, k + 1, h)) = Len(handlers) + 1
        /\ \A i \in 1 .. Len(handlers) + 1 :
               InsertAt(handlers, k + 1, h)[i] =
                   IF i <= k THEN handlers[i] ELSE IF i = k + 1 THEN h ELSE handlers[i - 1]
    <3> HIDE DEF Handler
    <3> QED BY <2>1, <2>2, HandlerInserted
  <2> QED BY <2>3, <1>2 DEF n
<1>9. RegistrySorted'
  <2>1. Len(handlers') <= MaxHandlers
    BY <1>1, <1>8
  <2>2. \A i \in 1 .. Len(handlers') : handlers'[i].id <= Len(handlers')
    <3> SUFFICES ASSUME NEW i \in 1 .. n + 1 PROVE handlers'[i].id <= n + 1
      BY <1>8
    <3>1. CASE i <= k
      <4>1. i \in 1 .. n /\ handlers'[i] = handlers[i]
        BY <3>1, <1>1, <1>6, <1>8
      <4>2. handlers[i].id \in Nat /\ handlers[i].id <= n
        BY <4>1, <1>4
      <4> QED BY <4>1, <4>2, <1>1
    <3>2. CASE i = k + 1
      BY <3>2, <1>1, <1>2, <1>6, <1>8
    <3>3. CASE i > k + 1
      <4>1. i - 1 \in 1 .. n /\ handlers'[i] = handlers[i - 1]
        BY <3>3, <1>1, <1>6, <1>8
      <4> QED BY <4>1, <1>1, <1>4
    <3> QED BY <3>1, <3>2, <3>3, <1>1, <1>6
  <2>3. ASSUME NEW i \in 1 .. n + 1, NEW j \in 1 .. n + 1, i < j
        PROVE  Before(handlers'[i], handlers'[j])
    <3>1. CASE j <= k
      BY <3>1, <2>3, <1>1, <1>5, <1>6, <1>8
    <3>2. CASE j = k + 1
      <4>1. handlers'[i] = handlers[i] /\ handlers'[j] = h /\ i \in 1 .. n /\ i <= k
        BY <3>2, <2>3, <1>1, <1>6, <1>8
      <4>2. handlers[i].prio <= p /\ handlers[i].id < h.id
        BY <4>1, <1>1, <1>2, <1>4, <1>7
      <4> QED BY <4>1, <4>2, <1>1, <1>2, <1>4 DEF Before
    <3>3. CASE j > k + 1 /\ i = k + 1
      <4>1. handlers'[i] = h /\ handlers'[j] = handlers[j - 1] /\ j - 1 \in 1 .. n /\ ~(j - 1 <= k)
        BY <3>3, <2>3, <1>1, <1>6, <1>8
      <4>2. p < handlers[j - 1].prio
        BY <4>1, <1>1, <1>4, <1>7
      <4> QED BY <4>1, <4>2, <1>2 DEF Before
    <3>4. CASE j > k + 1 /\ i # k + 1
      <4> DEFINE m == IF i <= k THEN i ELSE i - 1
      <4>1. m \in 1 .. n /\ j - 1 \in 1 .. n /\ m < j - 1
        BY <3>4, <2>3, <1>1, <1>6
      <4>2. handlers'[i] = handlers[m] /\ handlers'[j] = handlers[j - 1]
        BY <3>4, <2>3, <1>1, <1>6, <1>8
      <4> QED BY <4>1, <4>2, <1>5
    <3> QED BY <3>1, <3>2, <3>3, <3>4, <1>1, <1>6
  <2> QED BY <2>1, <2>2, <2>3, <1>8 DEF RegistrySorted, Ordered
<1>10. HookTypeOK'
  BY <1>1, <1>8 DEF HookInv, HookTypeOK, Handler
<1>11. \A c \in HookChains : ChainSound(c)'
  <2> SUFFICES ASSUME NEW c \in HookChains PROVE ChainSound(c)'
    OBVIOUS
  <2>1. chainAt'[c] = 0 /\ ChainSound(c)
    BY <1>1 DEF HookInv
  <2> QED BY <2>1, <1>1 DEF ChainSound, SoundChain
<1>12. asked' \in [HookChains -> Seq(Handler)]
  BY <1>1 DEF HookInv
<1> QED BY <1>9, <1>10, <1>11, <1>12 DEF HookInv

(* Steps that leave every chain but c alone.                               *)
LEMMA ChainAlone ==
    ASSUME HookInv, NEW c \in HookChains, UNCHANGED <<handlers, plain>>,
           context' \in HookChains \cup {"none"},
           chainAt' \in [HookChains -> 0 .. MaxHandlers + 1],
           chainSays' \in [HookChains -> Verdicts \cup {"none"}],
           fired' \in [HookChains -> 0 .. 1],
           asked' \in [HookChains -> Seq(Handler)],
           \A d \in HookChains \ {c} :
               /\ chainAt'[d] = chainAt[d] /\ chainSays'[d] = chainSays[d]
               /\ asked'[d] = asked[d] /\ fired'[d] = fired[d],
           ChainSound(c)'
    PROVE  HookInv'
<1>1. HookTypeOK'
  BY DEF HookInv, HookTypeOK
<1>2. RegistrySorted'
  BY DEF HookInv, RegistrySorted, Ordered
<1>3. ASSUME NEW d \in HookChains \ {c} PROVE ChainSound(d)'
  <2>1. ChainSound(d)
    BY DEF HookInv
  <2> QED BY <2>1 DEF ChainSound
<1> QED BY <1>1, <1>2, <1>3 DEF HookInv

LEMMA EmitInv ==
    ASSUME HookInv, NEW c \in HookChains, Emit(c)
    PROVE  HookInv'
<1>1. /\ chainSays[c] = "none" /\ chainAt[c] = 0
      /\ chainAt' = [chainAt EXCEPT ![c] = 1]
      /\ UNCHANGED <<handlers, plain, chainSays, asked, fired, context>>
  BY DEF Emit
<1>2. chainAt' \in [HookChains -> 0 .. MaxHandlers + 1] /\ chainAt'[c] = 1
  BY <1>1, HookTyped
<1>3. asked[c] = <<>> /\ fired[c] = 0 /\ ChainSound(c)
  <2>1. ChainSound(c)
    BY DEF HookInv
  <2> QED BY <2>1, <1>1 DEF ChainSound, SoundChain
<1>4. ChainSound(c)'
  BY <1>1, <1>2, <1>3, HookTyped DEF ChainSound, SoundChain, Ordered
<1>5. context' \in HookChains \cup {"none"}
  BY <1>1 DEF HookInv, HookTypeOK
<1> QED BY <1>1, <1>2, <1>4, <1>5, HookTyped, ChainAlone

LEMMA AskNextInv ==
    ASSUME HookInv, NEW c \in HookChains, AskNext(c)
    PROVE  HookInv'
<1> DEFINE k == chainAt[c]
           h == handlers[k]
           a == asked[c]
           b == Append(a, h)
<1>1. /\ k \in 1 .. Len(handlers)
      /\ asked' = [asked EXCEPT ![c] = Append(@, h)]
      /\ chainAt' = [chainAt EXCEPT ![c] = IF h.says = "Continue" THEN @ + 1 ELSE 0]
      /\ chainSays' = [chainSays EXCEPT ![c] = IF h.says = "Continue" THEN @ ELSE h.says]
      /\ UNCHANGED <<handlers, plain, fired, context>>
  BY DEF AskNext
<1>2. /\ handlers \in Seq(Handler) /\ Len(handlers) \in Nat /\ Len(handlers) <= MaxHandlers
      /\ MaxHandlers \in Nat /\ Ordered(handlers)
  BY HookTyped DEF HookInv, RegistrySorted
<1>3. h \in Handler /\ h.says \in Verdicts
  BY <1>1, <1>2, HandlerFields
<1>4. /\ a \in Seq(Handler) /\ chainSays[c] = "none" /\ fired[c] = 0
      /\ Len(a) = k - 1
      /\ \A i \in 1 .. Len(a) : a[i] = handlers[i] /\ a[i].says = "Continue"
  <2>1. ChainSound(c) /\ a \in Seq(Handler) /\ k > 0
    BY <1>1, <1>2, HookTyped DEF HookInv
  <2> QED BY <2>1 DEF ChainSound, SoundChain
<1>5. /\ chainAt' \in [HookChains -> 0 .. MaxHandlers + 1]
      /\ chainAt'[c] = IF h.says = "Continue" THEN k + 1 ELSE 0
      /\ \A d \in HookChains \ {c} : chainAt'[d] = chainAt[d]
  BY <1>1, <1>2, HookTyped
<1>6. /\ chainSays' \in [HookChains -> Verdicts \cup {"none"}]
      /\ chainSays'[c] = IF h.says = "Continue" THEN "none" ELSE h.says
      /\ \A d \in HookChains \ {c} : chainSays'[d] = chainSays[d]
  BY <1>1, <1>3, <1>4, HookTyped
<1>7. asked'[c] = b /\ \A d \in HookChains \ {c} : asked'[d] = asked[d]
  BY <1>1, HookTyped
<1> HIDE DEF k, h, a
<1>9. /\ b \in Seq(Handler) /\ Len(b) = k
      /\ \A i \in 1 .. k : b[i] = handlers[i]
      /\ \A i \in 1 .. k - 1 : b[i].says = "Continue"
      /\ b[k] = h
  <2>1. /\ b \in Seq(Handler) /\ Len(b) = Len(a) + 1
        /\ \A i \in 1 .. Len(a) : b[i] = a[i]
        /\ b[Len(a) + 1] = h
    BY <1>3, <1>4, AppendProperties
  <2>2. Len(a) + 1 = k /\ k \in Nat
    BY <1>1, <1>2, <1>4
  <2> QED BY <2>1, <2>2, <1>4 DEF h
<1>8. asked' \in [HookChains -> Seq(Handler)]
  BY <1>1, <1>9, HookTyped DEF a
<1> HIDE DEF b
<1>10. Ordered(b)
  BY <1>1, <1>2, <1>9 DEF Ordered
<1>11. ChainSound(c)'
  <2>1. CASE h.says = "Continue"
    <3>1. \A i \in 1 .. k : b[i].says = "Continue"
      BY <2>1, <1>1, <1>2, <1>9
    <3>2. chainAt'[c] = k + 1 /\ chainSays'[c] = "none" /\ fired'[c] = 0 /\ k > 0
      BY <2>1, <1>1, <1>4, <1>5, <1>6
    <3>3. Len(b) = k /\ k \in Nat /\ k + 1 <= Len(handlers') + 1 /\ k = (k + 1) - 1 /\ k + 1 > 0
      BY <1>1, <1>2, <1>9
    <3>4. \A i \in 1 .. Len(b) : b[i] = handlers'[i] /\ b[i].says = "Continue"
      BY <3>1, <3>3, <1>1, <1>9
    <3>5. \A i \in 1 .. Len(b) - 1 : b[i].says = "Continue"
      BY <3>3, <1>9
    <3>6. SoundChain(handlers', b, k + 1, "none", 0)
      BY <3>3, <3>4, <3>5, <1>10 DEF SoundChain
    <3> QED BY <3>2, <3>6, <1>7 DEF ChainSound
  <2>2. CASE h.says # "Continue"
    <3>1. chainAt'[c] = 0 /\ chainSays'[c] = h.says /\ fired'[c] = 0
      BY <2>2, <1>1, <1>4, <1>5, <1>6
    <3>2. h.says # "none"
      BY <1>3, HandlerFields
    <3>3. Len(b) = k /\ b[Len(b)].says = h.says /\ \A i \in 1 .. Len(b) - 1 : b[i].says = "Continue"
      BY <1>9
    <3>4. b # <<>>
      BY <1>1, <1>9
    <3>5. SoundChain(handlers', b, 0, h.says, 0)
      BY <3>2, <3>3, <3>4, <1>10 DEF SoundChain
    <3> QED BY <3>1, <3>5, <1>7 DEF ChainSound
  <2> QED BY <2>1, <2>2
<1>12. context' \in HookChains \cup {"none"} /\ fired' \in [HookChains -> 0 .. 1]
  BY <1>1, HookTyped DEF HookInv, HookTypeOK
<1> QED BY <1>1, <1>5, <1>6, <1>7, <1>8, <1>11, <1>12, ChainAlone

LEMMA FirePlainInv ==
    ASSUME HookInv, NEW c \in HookChains, FirePlain(c)
    PROVE  HookInv'
<1>1. /\ chainAt[c] > Len(handlers)
      /\ fired' = [fired EXCEPT ![c] = plain]
      /\ chainAt' = [chainAt EXCEPT ![c] = 0]
      /\ chainSays' = [chainSays EXCEPT ![c] = "Continue"]
      /\ UNCHANGED <<handlers, plain, asked, context>>
  BY DEF FirePlain
<1>2. chainAt[c] > 0
  BY <1>1, HookTyped
<1>3. /\ asked[c] \in Seq(Handler) /\ Ordered(asked[c])
      /\ \A i \in 1 .. Len(asked[c]) : asked[c][i].says = "Continue"
  <2>1. ChainSound(c) /\ asked[c] \in Seq(Handler)
    BY HookTyped DEF HookInv
  <2> QED BY <2>1, <1>2 DEF ChainSound, SoundChain
<1>4. /\ chainAt' \in [HookChains -> 0 .. MaxHandlers + 1] /\ chainAt'[c] = 0
      /\ chainSays' \in [HookChains -> Verdicts \cup {"none"}] /\ chainSays'[c] = "Continue"
      /\ fired' \in [HookChains -> 0 .. 1]
      /\ \A d \in HookChains \ {c} : /\ chainAt'[d] = chainAt[d] /\ chainSays'[d] = chainSays[d]
                                     /\ fired'[d] = fired[d]
  BY <1>1, HookTyped DEF Verdicts
<1>5. asked[c] # <<>> => Len(asked[c]) \in 1 .. Len(asked[c])
  BY <1>3
<1>6. ChainSound(c)'
  BY <1>1, <1>3, <1>4, <1>5 DEF ChainSound, SoundChain
<1>7. context' \in HookChains \cup {"none"}
  BY <1>1 DEF HookInv, HookTypeOK
<1> QED BY <1>1, <1>4, <1>6, <1>7, HookTyped, ChainAlone

LEMMA HookStepInv == HookInv /\ [HookNext]_hookVars => HookInv'
<1> SUFFICES ASSUME HookInv, [HookNext]_hookVars PROVE HookInv'
  OBVIOUS
<1>1. ASSUME NEW p \in Priorities, NEW v \in Verdicts, OnModifying(p, v) PROVE HookInv'
  BY <1>1, OnModifyingInv
<1>2. ASSUME NEW c \in HookChains, Emit(c) PROVE HookInv'
  BY <1>2, EmitInv
<1>3. ASSUME NEW c \in HookChains, AskNext(c) PROVE HookInv'
  BY <1>3, AskNextInv
<1>4. ASSUME NEW c \in HookChains, FirePlain(c) PROVE HookInv'
  BY <1>4, FirePlainInv
<1>5. CASE On \/ ClearContext \/ (\E c \in HookChains : SetContext(c)) \/ UNCHANGED hookVars
  <2>1. /\ UNCHANGED <<handlers, chainAt, chainSays, asked, fired>>
        /\ plain' \in 0 .. 1 /\ context' \in HookChains \cup {"none"}
    BY <1>5 DEF On, ClearContext, SetContext, hookVars, HookInv, HookTypeOK
  <2>2. HookTypeOK' /\ RegistrySorted'
    BY <2>1 DEF HookInv, HookTypeOK, RegistrySorted, Ordered
  <2>3. \A c \in HookChains : ChainSound(c)'
    BY <2>1 DEF HookInv, ChainSound
  <2> QED BY <2>1, <2>2, <2>3 DEF HookInv
<1> QED BY <1>1, <1>2, <1>3, <1>4, <1>5 DEF HookNext

(* A chain of hooks asks its handlers by priority, and within one in the   *)
(* order of their registration; one that says Cancel is the last and       *)
(* cancels it (src/hooks/mod.rs), whatever registrations and other chains  *)
(* there are.                                                              *)
THEOREM HookChainsRunInOrder == HookSpec => []ChainsRunInOrder
<1>1. HookInv => ChainsRunInOrder
  <2> SUFFICES ASSUME HookInv, NEW c \in HookChains
               PROVE  LET a == asked[c]
                      IN /\ \A i, j \in 1 .. Len(a) :
                                i < j => Before(a[i], a[j]) /\ a[i].says # "Cancel"
                         /\ chainSays[c] = "Cancel" => a # <<>> /\ Last(a).says = "Cancel"
                         /\ a # <<>> /\ Last(a).says = "Cancel" => chainSays[c] = "Cancel"
                         /\ chainSays[c] \notin {"none", "Continue"}
                               => \E i \in 1 .. Len(a) : a[i].says # "Continue"
                         /\ fired[c] > 0 => \A i \in 1 .. Len(a) : a[i].says # "Cancel"
    BY DEF ChainsRunInOrder
  <2> DEFINE a == asked[c]
             says == chainSays[c]
  <2>1. a \in Seq(Handler) /\ Ordered(a) /\ Len(a) \in Nat
    <3>1. ChainSound(c) /\ a \in Seq(Handler)
      BY HookTyped DEF HookInv
    <3> QED BY <3>1 DEF ChainSound, SoundChain
  <2>2. /\ \A i \in 1 .. Len(a) - 1 : a[i].says = "Continue"
        /\ says # "none" /\ a # <<>> => says = a[Len(a)].says
        /\ says \notin {"none", "Continue"} => a # <<>>
        /\ fired[c] > 0 => \A i \in 1 .. Len(a) : a[i].says = "Continue"
        /\ says = "none" /\ a # <<>> => \A i \in 1 .. Len(a) : a[i].says = "Continue"
    <3>1. ChainSound(c) /\ chainAt[c] \in 0 .. MaxHandlers + 1
      BY HookTyped DEF HookInv
    <3>2. chainAt[c] = 0 \/ chainAt[c] > 0
      BY <3>1, HookTyped
    <3> QED BY <3>1, <3>2 DEF ChainSound, SoundChain
  <2> HIDE DEF a, says
  <2>3. \A i, j \in 1 .. Len(a) : i < j => Before(a[i], a[j]) /\ a[i].says # "Cancel"
    BY <2>1, <2>2 DEF Ordered
  <2>4. a # <<>> => Len(a) \in 1 .. Len(a)
    BY <2>1
  <2>5. says = "Cancel" => a # <<>> /\ a[Len(a)].says = "Cancel"
    BY <2>2
  <2>6. a # <<>> /\ a[Len(a)].says = "Cancel" => says = "Cancel"
    BY <2>2, <2>4
  <2>7. says \notin {"none", "Continue"} => \E i \in 1 .. Len(a) : a[i].says # "Continue"
    BY <2>2, <2>4
  <2>8. fired[c] > 0 => \A i \in 1 .. Len(a) : a[i].says # "Cancel"
    BY <2>2
  <2> QED BY <2>3, <2>5, <2>6, <2>7, <2>8 DEF Last, a, says
<1> QED BY <1>1, HookInitInv, HookStepInv, PTL DEF HookSpec

-----------------------------------------------------------------------------
(* The abort signal.  What has been stored is still to be notified or has  *)
(* been, and a wait that sleeps through an abort has its notice pending.   *)

NoWakeUpLost ==
    \A w \in Waiters :
        aborted /\ waitPc[w] = "await" => seenNotice[w] < notices \/ aborting > 0

AbortInv ==
    /\ AbortTypeOK
    /\ notices + aborting = aborts
    /\ aborted <=> aborts > 0
    /\ \A w \in Waiters : seenNotice[w] <= notices
    /\ NoWakeUpLost

LEMMA AbortTyped ==
    ASSUME AbortInv
    PROVE  /\ aborted \in BOOLEAN /\ MaxAborts \in Nat
           /\ aborting \in Nat /\ notices \in Nat /\ aborts \in Nat
           /\ notices + aborting = aborts /\ aborts <= MaxAborts
           /\ aborted <=> aborts > 0
           /\ seenNotice \in [Waiters -> 0 .. MaxAborts]
           /\ waitPc \in [Waiters -> {"loop", "check", "await", "aborted", "done"}]
           /\ \A w \in Waiters : seenNotice[w] \in Nat /\ seenNotice[w] <= notices
<1>1. MaxAborts \in Nat
  BY AbortAssumption DEF AbortAssumption
<1>2. /\ aborted \in BOOLEAN /\ aborting \in Nat /\ notices \in Nat /\ aborts \in Nat
      /\ aborts <= MaxAborts
  BY <1>1 DEF AbortInv, AbortTypeOK
<1>3. \A w \in Waiters : seenNotice[w] \in Nat
  BY <1>1 DEF AbortInv, AbortTypeOK
<1> QED BY <1>1, <1>2, <1>3, Zenon DEF AbortInv, AbortTypeOK

LEMMA AbortInitInv ==
    ASSUME AbortInit
    PROVE  AbortInv
<1>1. AbortTypeOK
  <2>1. MaxAborts \in Nat /\ 0 \in 0 .. MaxAborts
    BY AbortAssumption DEF AbortAssumption
  <2> QED BY <2>1 DEF AbortInit, AbortTypeOK
<1>2. NoWakeUpLost /\ \A w \in Waiters : seenNotice[w] <= notices
  BY DEF AbortInit, NoWakeUpLost
<1> QED BY <1>1, <1>2 DEF AbortInit, AbortInv

(* Steps of one waiter w that leave the signal itself alone.               *)
LEMMA WaiterInv ==
    ASSUME AbortInv, NEW w \in Waiters,
           UNCHANGED <<aborted, aborting, notices, aborts>>,
           NEW pc \in {"loop", "check", "await", "aborted", "done"},
           waitPc' = [waitPc EXCEPT ![w] = pc],
           pc = "await" => ~aborted,
           seenNotice' = seenNotice \/ seenNotice' = [seenNotice EXCEPT ![w] = notices]
    PROVE  AbortInv'
<1>1. waitPc' \in [Waiters -> {"loop", "check", "await", "aborted", "done"}]
  BY AbortTyped
<1>2. /\ waitPc'[w] = pc
      /\ \A v \in Waiters \ {w} : waitPc'[v] = waitPc[v] /\ seenNotice'[v] = seenNotice[v]
      /\ seenNotice'[w] = seenNotice[w] \/ seenNotice'[w] = notices
  BY AbortTyped
<1>3. seenNotice' \in [Waiters -> 0 .. MaxAborts]
  BY AbortTyped
<1>4. \A v \in Waiters : seenNotice'[v] <= notices
  BY <1>2, AbortTyped
<1>5. NoWakeUpLost'
  <2>1. NoWakeUpLost
    BY DEF AbortInv
  <2> QED BY <2>1, <1>2 DEF NoWakeUpLost
<1>6. AbortTypeOK'
  BY <1>1, <1>3 DEF AbortInv, AbortTypeOK
<1> QED BY <1>4, <1>5, <1>6 DEF AbortInv

LEMMA AbortStepInv == AbortInv /\ [AbortNext]_abortVars => AbortInv'
<1> SUFFICES ASSUME AbortInv, [AbortNext]_abortVars PROVE AbortInv'
  OBVIOUS
<1>1. CASE Abort
  <2>1. /\ aborts < MaxAborts /\ aborts' = aborts + 1 /\ aborted' = TRUE
        /\ aborting' = aborting + 1 /\ UNCHANGED <<notices, seenNotice, waitPc>>
    BY <1>1 DEF Abort
  <2>2. /\ aborts' \in 0 .. MaxAborts /\ aborting' \in 0 .. MaxAborts /\ aborting' > 0
        /\ notices' + aborting' = aborts' /\ aborts' > 0
    BY <2>1, AbortTyped
  <2>3. AbortTypeOK'
    BY <2>1, <2>2 DEF AbortInv, AbortTypeOK
  <2> QED BY <2>1, <2>2, <2>3 DEF AbortInv, NoWakeUpLost
<1>2. CASE NotifyWaiters
  <2>1. /\ aborting > 0 /\ aborting' = aborting - 1 /\ notices' = notices + 1
        /\ UNCHANGED <<aborted, seenNotice, waitPc, aborts>>
    BY <1>2 DEF NotifyWaiters
  <2>2. /\ notices' \in 0 .. MaxAborts /\ aborting' \in 0 .. MaxAborts
        /\ notices' + aborting' = aborts'
        /\ \A w \in Waiters : seenNotice'[w] < notices' /\ seenNotice'[w] <= notices'
    BY <2>1, AbortTyped
  <2>3. AbortTypeOK'
    BY <2>1, <2>2 DEF AbortInv, AbortTypeOK
  <2> QED BY <2>1, <2>2, <2>3 DEF AbortInv, NoWakeUpLost
<1>3. ASSUME NEW w \in Waiters, MakeNotified(w) \/ CheckFlag(w) \/ Woken(w) \/ TaskEnds(w)
      PROVE  AbortInv'
  <2>1. CASE MakeNotified(w)
    BY <2>1, WaiterInv DEF MakeNotified
  <2>2. CASE CheckFlag(w)
    <3>1. CASE aborted
      BY <2>2, <3>1, WaiterInv DEF CheckFlag
    <3>2. CASE ~aborted
      BY <2>2, <3>2, WaiterInv DEF CheckFlag
    <3> QED BY <3>1, <3>2
  <2>3. CASE Woken(w)
    BY <2>3, WaiterInv DEF Woken
  <2>4. CASE TaskEnds(w)
    BY <2>4, WaiterInv DEF TaskEnds
  <2> QED BY <1>3, <2>1, <2>2, <2>3, <2>4
<1>4. CASE UNCHANGED abortVars
  BY <1>4 DEF abortVars, AbortInv, AbortTypeOK, NoWakeUpLost
<1> QED BY <1>1, <1>2, <1>3, <1>4 DEF AbortNext

(* A monitored wait that sleeps after abort() has been called has the      *)
(* notice that wakes it before it (src/infra/abort_signal.rs): the future  *)
(* it awaits is older than the flag it looked at, so an abort between the  *)
(* two is not missed, for any number of aborts and waiters.                *)
THEOREM NoAbortIsMissed == AbortSpec => []NoWakeUpLost
<1>1. AbortInv => NoWakeUpLost
  BY DEF AbortInv
<1> QED BY <1>1, AbortInitInv, AbortStepInv, PTL DEF AbortSpec

-----------------------------------------------------------------------------
(* The agent's tools (Tools).                                              *)

Kinds == {"json", "fetch", "blind", "status", "chat", "channel", "unsent", "bash", "shell",
          "ffmpeg", "whisper", "file", "soft"}

(* An act makes no call, one, or two.                                      *)
CallLists == {<<>>} \cup {<<k>> : k \in Kinds} \cup (Kinds \X Kinds)

KnownCalls(acts) == \A a \in DOMAIN acts : acts[a].calls \in CallLists

LEMMA CallListsTyped ==
    \A c \in CallLists : c \in Seq(Kinds) /\ Len(c) <= 2
<1>1. <<>> \in Seq(Kinds) /\ Len(<<>>) <= 2
  OBVIOUS
<1>2. \A k \in Kinds : <<k>> \in Seq(Kinds) /\ Len(<<k>>) <= 2
  OBVIOUS
<1>3. \A k, l \in Kinds : <<k, l>> \in Seq(Kinds) /\ Len(<<k, l>>) <= 2
  OBVIOUS
<1>4. \A c \in {<<>>} : c \in Seq(Kinds) /\ Len(c) <= 2
  BY <1>1
<1>5. \A c \in {<<k>> : k \in Kinds} : c \in Seq(Kinds) /\ Len(c) <= 2
  BY <1>2
<1>6. \A c \in (Kinds \X Kinds) : c \in Seq(Kinds) /\ Len(c) <= 2
  <2> TAKE c \in Kinds \X Kinds
  <2>1. PICK k, l \in Kinds : c = <<k, l>>
    OBVIOUS
  <2> QED BY <2>1, <1>3
<1> QED BY <1>4, <1>5, <1>6 DEF CallLists

LEMMA CallListsHold ==
    /\ <<>> \in CallLists /\ <<"json">> \in CallLists /\ <<"blind">> \in CallLists
    /\ <<"status">> \in CallLists /\ <<"chat">> \in CallLists /\ <<"channel">> \in CallLists
    /\ <<"fetch">> \in CallLists /\ <<"unsent">> \in CallLists
    /\ <<"bash">> \in CallLists /\ <<"shell">> \in CallLists /\ <<"ffmpeg">> \in CallLists
    /\ <<"whisper">> \in CallLists /\ <<"file">> \in CallLists /\ <<"soft">> \in CallLists
    /\ <<"json", "blind">> \in CallLists /\ <<"chat", "file">> \in CallLists
    /\ <<"file", "soft">> \in CallLists /\ <<"file", "status">> \in CallLists
<1>1. \A k, l \in Kinds : <<k>> \in CallLists /\ <<k, l>> \in CallLists /\ <<>> \in CallLists
  BY DEF CallLists
<1>2. /\ "json" \in Kinds /\ "blind" \in Kinds /\ "status" \in Kinds /\ "chat" \in Kinds
      /\ "channel" \in Kinds /\ "bash" \in Kinds /\ "shell" \in Kinds /\ "ffmpeg" \in Kinds
      /\ "fetch" \in Kinds /\ "unsent" \in Kinds
      /\ "whisper" \in Kinds /\ "file" \in Kinds /\ "soft" \in Kinds
  BY DEF Kinds
<1> QED BY <1>1, <1>2, Zenon

LEMMA TogetherCalls ==
    ASSUME NEW f, NEW g, KnownCalls(f), KnownCalls(g)
    PROVE  KnownCalls(Together(f, g))
BY DEF KnownCalls, Together

LEMMA SingleCalls ==
    ASSUME NEW always, NEW keyed, NEW guarded, NEW c \in CallLists
    PROVE  KnownCalls(Single(always, keyed, guarded, c).acts)
<1>1. Single(always, keyed, guarded, c).acts = [run |-> Act({}, c)] /\ Act({}, c).calls = c
  BY DEF Single, Tool, Act
<1>2. DOMAIN [run |-> Act({}, c)] = {"run"} /\ [run |-> Act({}, c)]["run"] = Act({}, c)
  OBVIOUS
<1> QED BY <1>1, <1>2 DEF KnownCalls

LEMMA DiscordCalls == KnownCalls(DiscordActions.acts)
<1>1. KnownCalls(DiscordMessages)
  BY CallListsHold DEF KnownCalls, DiscordMessages, Act, JsonPost, Blind, Stub
<1>2. KnownCalls(DiscordMembers)
  BY CallListsHold DEF KnownCalls, DiscordMembers, Act, JsonPost, Blind, Stub
<1>3. KnownCalls(DiscordGuild)
  BY CallListsHold DEF KnownCalls, DiscordGuild, Act, JsonPost, Blind, Stub
<1>4. DiscordActions.acts = Together(DiscordMessages, Together(DiscordMembers, DiscordGuild))
  BY DEF DiscordActions, Tool
<1> QED BY <1>1, <1>2, <1>3, <1>4, TogetherCalls

LEMMA TelegramCalls == KnownCalls(TelegramActions.acts)
<1>1. KnownCalls(TelegramMessages)
  BY CallListsHold DEF KnownCalls, TelegramMessages, Act, JsonPost
<1>2. KnownCalls(TelegramMedia)
  BY CallListsHold DEF KnownCalls, TelegramMedia, Act, JsonPost
<1>3. TelegramActions.acts = Together(TelegramMessages, TelegramMedia)
  BY DEF TelegramActions, Tool
<1> QED BY <1>1, <1>2, <1>3, TogetherCalls

LEMMA SlackCalls == KnownCalls(SlackActions.acts)
<1>1. KnownCalls(SlackMessages)
  BY CallListsHold DEF KnownCalls, SlackMessages, Act, JsonPost
<1>2. KnownCalls(SlackPinsAndFiles)
  BY CallListsHold DEF KnownCalls, SlackPinsAndFiles, Act, JsonPost
<1>3. SlackActions.acts = Together(SlackMessages, SlackPinsAndFiles)
  BY DEF SlackActions, Tool
<1> QED BY <1>1, <1>2, <1>3, TogetherCalls

(* Every act of every tool makes calls of a kind that is judged, two at    *)
(* most.                                                                   *)
LEMMA EveryCallIsKnown ==
    \A n \in DOMAIN Dispatch : KnownCalls(Dispatch[n].acts)
<1>1. /\ KnownCalls(WebFetch.acts) /\ KnownCalls(SystemRun.acts)
      /\ KnownCalls(MemoryStore.acts) /\ KnownCalls(MemorySearch.acts)
      /\ KnownCalls(CronSchedule.acts)
      /\ KnownCalls(CronList.acts) /\ KnownCalls(ImageGenerate.acts)
      /\ KnownCalls(TtsSpeak.acts) /\ KnownCalls(PdfExtract.acts)
      /\ KnownCalls(AgentStep.acts)
  BY SingleCalls, CallListsHold
  DEF WebFetch, SystemRun, MemoryStore, MemorySearch, CronSchedule, CronList,
      ImageGenerate, TtsSpeak, PdfExtract, AgentStep
<1>2. KnownCalls(WebSearch.acts)
  BY CallListsHold DEF KnownCalls, WebSearch, Tool, Brave, Perplexity, Grok, Act
<1>3. KnownCalls(MediaProcess.acts)
  BY CallListsHold
  DEF KnownCalls, MediaProcess, Tool, TranscribeWhisper, TranscribeCli, ExtractFrames, Act
<1>4. KnownCalls(WhatsAppActions.acts)
  BY CallListsHold DEF KnownCalls, WhatsAppActions, Tool, JsonPost, Act
<1>5. KnownCalls(NodeInvoke.acts)
  BY CallListsHold DEF KnownCalls, NodeInvoke, Tool, Stub, Act
<1>6. KnownCalls(CanvasRender.acts)
  BY CallListsHold DEF KnownCalls, CanvasRender, Tool, Stub, Act
<1>7. KnownCalls(Subagents.acts)
  BY CallListsHold DEF KnownCalls, Subagents, Tool, Stub, Act
<1>8. KnownCalls(SessionsA2a.acts)
  BY CallListsHold DEF KnownCalls, SessionsA2a, Tool, Stub, Act
<1>9. KnownCalls(MessageSend.acts)
  BY CallListsHold DEF KnownCalls, MessageSend, Tool, Stub, Act
<1> QED BY <1>1, <1>2, <1>3, <1>4, <1>5, <1>6, <1>7, <1>8, <1>9, DiscordCalls, TelegramCalls, SlackCalls
    DEF Dispatch

(* What a kind of call makes of an outcome.                                *)
LEMMA VerdictsOfKinds ==
    \A k \in Kinds, o \in {"done", "refused", "garbled", "lost"} :
        /\ Verdict(k, o) \in {"ok", "flagged", "failed"}
        /\ k \in Confirmed /\ Verdict(k, o) = "ok" => o = "done" /\ k # "unsent"
        /\ Verdict(k, o) = "ok" /\ o = "lost" => k = "soft"
BY DEF Kinds, Verdict, Judgement, Judge, Confirmed

Refusals == {"missing", "unconfigured", "denied", "unknown", "unavailable"}

(* A call is under way: the tool let it through.                           *)
LetThrough ==
    /\ toolCall.tool \in DOMAIN Dispatch
    /\ toolCall.act \in DOMAIN Dispatch[toolCall.tool].acts
    /\ toolCall.complete
    /\ Dispatch[toolCall.tool].keyed => toolCall.has
    /\ toolCall.act \in Dispatch[toolCall.tool].guarded => toolCall.may

StandTo(n) == \A i \in 1 .. n : CallStands(i)

ToolsShape ==
    /\ offered \subseteq Catalogue \cup BrowserTools
    /\ toolCall.tool \in DOMAIN Dispatch \cup Catalogue \cup BrowserTools \cup {"none"}
    /\ outcomes \in Seq({"done", "refused", "garbled", "lost"})
    /\ callAt = 0 \/ callAt = Len(outcomes) + 1
    /\ effects \subseteq 1 .. Len(outcomes) + 1
    /\ toolSays \in Refusals \cup {"none", "ok", "flagged", "failed"}

(* Once a call is made the tool has let it through, there is no call after *)
(* the last of the act, and each earlier one stands.                       *)
ToolsCalls ==
    /\ toolCall = NoCall => callAt = 0
    /\ callAt = 0 => effects \subseteq 1 .. Len(outcomes)
    /\ callAt > 0 \/ outcomes # <<>> => LetThrough /\ toolCall # NoCall
    /\ callAt > 0 => toolSays = "none" /\ callAt <= Len(CallsOf(toolCall))
                     /\ StandTo(Len(outcomes))
    /\ outcomes # <<>> => Len(outcomes) <= Len(CallsOf(toolCall)) /\ toolSays \notin Refusals
    /\ toolSays = "ok" => AllCallsMade /\ StandTo(Len(outcomes))
    /\ toolSays \in {"flagged", "failed"} => StandTo(Len(outcomes) - 1)

ToolsInv == ToolsShape /\ ToolsCalls

LEMMA CallsAreKnown ==
    ASSUME LetThrough
    PROVE  /\ CallsOf(toolCall) \in Seq(Kinds)
           /\ Len(CallsOf(toolCall)) \in Nat /\ Len(CallsOf(toolCall)) <= 2
<1>1. CallsOf(toolCall) \in CallLists
  BY EveryCallIsKnown DEF LetThrough, KnownCalls, CallsOf
<1>2. CallsOf(toolCall) \in Seq(Kinds) /\ Len(CallsOf(toolCall)) <= 2
  BY <1>1, CallListsTyped
<1>3. \A c \in Seq(Kinds) : Len(c) \in Nat
  OBVIOUS
<1>4. Len(CallsOf(toolCall)) \in Nat
  BY <1>2, <1>3, Zenon
<1> QED BY <1>2, <1>4, Zenon

LEMMA ToolsHonest == ToolsInv => ToolsTypeOK /\ ToolAnswersHonest
<1> SUFFICES ASSUME ToolsInv PROVE ToolsTypeOK /\ ToolAnswersHonest
  OBVIOUS
<1>1. ToolsShape /\ ToolsCalls
  BY DEF ToolsInv
<1>2. Len(outcomes) \in Nat /\ (outcomes # <<>> <=> Len(outcomes) > 0)
  BY <1>1 DEF ToolsShape
<1>3. effects # {} => LetThrough
  <2>1. CASE callAt = 0 /\ outcomes = <<>>
    <3>1. effects \subseteq 1 .. Len(outcomes)
      BY <2>1, <1>1 DEF ToolsCalls
    <3>2. 1 .. Len(outcomes) = {}
      BY <2>1
    <3> QED BY <3>1, <3>2
  <2>2. CASE outcomes # <<>>
    BY <2>2, <1>1 DEF ToolsCalls
  <2>3. CASE callAt # 0
    <3>1. callAt > 0
      BY <2>3, <1>1, <1>2 DEF ToolsShape
    <3> QED BY <3>1, <1>1 DEF ToolsCalls
  <2> QED BY <2>1, <2>2, <2>3
<1>4. Len(outcomes) <= 2 /\ callAt \in 0 .. 2 /\ effects \subseteq 1 .. 2
  <2>1. CASE callAt > 0
    BY <2>1, <1>1, <1>2, CallsAreKnown DEF ToolsShape, ToolsCalls
  <2>2. CASE callAt = 0
    <3>1. Len(outcomes) <= 2
      <4>1. CASE outcomes # <<>>
        <5>1. LetThrough /\ Len(outcomes) <= Len(CallsOf(toolCall))
          BY <4>1, <1>1 DEF ToolsCalls
        <5>2. Len(CallsOf(toolCall)) \in Nat /\ Len(CallsOf(toolCall)) <= 2
          BY <5>1, CallsAreKnown
        <5> HIDE DEF CallsOf
        <5> QED BY <5>1, <5>2, <1>2
      <4> QED BY <4>1, <1>2
    <3> QED BY <3>1, <2>2, <1>1, <1>2 DEF ToolsCalls
  <2>3. callAt > 0 \/ callAt = 0
    BY <1>1, <1>2 DEF ToolsShape
  <2> QED BY <2>1, <2>2, <2>3
<1>5. ToolsTypeOK
  BY <1>1, <1>4 DEF ToolsShape, ToolsTypeOK, Refusals
<1>6. toolSays \in Refusals => effects = {} /\ outcomes = <<>>
  BY <1>1, <1>2 DEF ToolsShape, ToolsCalls, Refusals
<1> QED BY <1>1, <1>2, <1>3, <1>5, <1>6
    DEF ToolsShape, ToolsCalls, ToolAnswersHonest, Refusals, StandTo, LetThrough

LEMMA ToolsInitInv == ToolsInit => ToolsInv
BY DEF ToolsInit, ToolsInv, ToolsShape, ToolsCalls, NoCall, Refusals, StandTo

(* An unknown tool or action, and a call the tool refuses or lets through. *)
LEMMA AskInv ==
    ASSUME ToolsInv, NEW n, NEW a,
           \/ n \in offered /\ AskUnknown(n)
           \/ n \in DOMAIN Dispatch /\ AskUnknownAct(n)
           \/ n \in DOMAIN Dispatch /\ a \in DOMAIN Dispatch[n].acts /\ AskTool(n, a)
    PROVE  ToolsInv'
<1>1. ToolsShape /\ ToolsCalls
  BY DEF ToolsInv
<1>2. /\ toolCall = NoCall /\ callAt = 0 /\ outcomes = <<>> /\ effects = {} /\ Len(outcomes) = 0
      /\ UNCHANGED <<offered, effects, outcomes>>
  <2>1. toolCall = NoCall /\ UNCHANGED <<offered, effects, outcomes>>
    BY DEF AskUnknown, AskUnknownAct, AskTool
  <2>2. callAt = 0 /\ outcomes = <<>>
    BY <2>1, <1>1 DEF ToolsCalls
  <2>3. effects = {}
    BY <2>2, <1>1 DEF ToolsCalls
  <2> QED BY <2>1, <2>2, <2>3
<1>3. CASE n \in offered /\ AskUnknown(n)
  <2>1. toolCall'.tool = n /\ toolSays' = "unavailable" /\ callAt' = 0
    BY <1>2, <1>3 DEF AskUnknown
  <2> QED BY <2>1, <1>1, <1>2, <1>3 DEF ToolsInv, ToolsShape, ToolsCalls, Refusals
<1>4. CASE n \in DOMAIN Dispatch /\ AskUnknownAct(n)
  <2>1. toolCall'.tool = n /\ toolSays' = "unknown" /\ callAt' = 0
    BY <1>2, <1>4 DEF AskUnknownAct
  <2> QED BY <2>1, <1>1, <1>2, <1>4 DEF ToolsInv, ToolsShape, ToolsCalls, Refusals
<1>5. CASE n \in DOMAIN Dispatch /\ a \in DOMAIN Dispatch[n].acts /\ AskTool(n, a)
  <2> DEFINE t == Dispatch[n]
             all == t.always \cup t.acts[a].needs
             calls == t.acts[a].calls
  <2>1. PICK passed \in {all} \cup {all \ {p} : p \in all}, has \in BOOLEAN, may \in BOOLEAN :
          LET r == Refusal(t, a, passed, has, may)
          IN /\ toolSays' = IF r # "none" THEN r ELSE IF calls = <<>> THEN "ok" ELSE "none"
             /\ callAt' = IF r = "none" /\ calls # <<>> THEN 1 ELSE 0
             /\ toolCall' = [tool |-> n, act |-> a, complete |-> passed = all,
                             has |-> has, may |-> may]
    BY <1>5 DEF AskTool
  <2>2. /\ toolCall'.tool = n /\ toolCall'.act = a /\ toolCall'.complete = (passed = all)
        /\ toolCall'.has = has /\ toolCall'.may = may
        /\ toolCall' # NoCall
    <3>1. toolCall' = [tool |-> n, act |-> a, complete |-> passed = all, has |-> has, may |-> may]
      BY <2>1
    <3>2. "complete" \in DOMAIN toolCall' /\ "complete" \notin DOMAIN NoCall
      BY <3>1 DEF NoCall
    <3> HIDE DEF all
    <3> QED BY <3>1, <3>2
  <2>3. passed \subseteq all
    BY <2>1
  <2>4. CASE Refusal(t, a, passed, has, may) # "none"
    <3>1. toolSays' \in Refusals /\ callAt' = 0
      BY <2>1, <2>4 DEF Refusal, Refusals
    <3> QED BY <3>1, <2>2, <1>1, <1>2, <1>5 DEF ToolsInv, ToolsShape, ToolsCalls, Refusals
  <2>5. CASE Refusal(t, a, passed, has, may) = "none"
    <3>1. /\ t.always \subseteq passed /\ t.acts[a].needs \subseteq passed
          /\ t.keyed => has
          /\ a \in t.guarded => may
      BY <2>5 DEF Refusal
    <3>2. passed = all
      BY <3>1, <2>3
    <3>3. LetThrough'
      BY <3>1, <3>2, <2>2, <1>5 DEF LetThrough
    <3>4. CallsOf(toolCall)' = calls
      BY <2>2 DEF CallsOf
    <3>5. CallsOf(toolCall)' \in Seq(Kinds)
      BY <1>5, EveryCallIsKnown, CallListsTyped, <3>4 DEF KnownCalls
    <3>6. CASE calls = <<>>
      <4>1. toolSays' = "ok" /\ callAt' = 0
        BY <3>6, <2>1, <2>5
      <4>2. AllCallsMade'
        <5>1. Len(outcomes') = 0 /\ CallsOf(toolCall)' = <<>>
          BY <3>4, <3>6, <1>2
        <5> QED BY <5>1 DEF AllCallsMade
      <4> QED BY <4>1, <4>2, <2>2, <1>1, <1>2, <1>5
          DEF ToolsInv, ToolsShape, ToolsCalls, Refusals, StandTo
    <3>7. CASE calls # <<>>
      <4>1. toolSays' = "none" /\ callAt' = 1
        BY <3>7, <2>1, <2>5
      <4>2. Len(CallsOf(toolCall)') >= 1
        BY <3>4, <3>5, <3>7
      <4> QED BY <4>1, <4>2, <3>3, <2>2, <1>1, <1>2, <1>5
          DEF ToolsInv, ToolsShape, ToolsCalls, Refusals, StandTo
    <3> QED BY <3>6, <3>7
  <2> QED BY <2>4, <2>5
<1> QED BY <1>3, <1>4, <1>5

LEMMA CarriedOutInv ==
    ASSUME ToolsInv, CarriedOut \/ CarriedOutLate
    PROVE  ToolsInv'
<1>1. ToolsShape /\ ToolsCalls
  BY DEF ToolsInv
<1>2. UNCHANGED <<offered, toolCall, callAt, outcomes, toolSays>> /\ Len(outcomes) \in Nat
  BY <1>1 DEF CarriedOut, CarriedOutLate, ToolsShape
<1>3. PICK e \in 1 .. Len(outcomes) + 1 :
        effects' = effects \cup {e} /\ (callAt = 0 => e \in 1 .. Len(outcomes))
  <2>1. CASE CarriedOut
    BY <2>1, <1>1, <1>2 DEF CarriedOut, ToolsShape
  <2>2. CASE CarriedOutLate
    <3>1. outcomes # <<>> /\ effects' = effects \cup {Len(outcomes)}
      BY <2>2 DEF CarriedOutLate
    <3>2. Len(outcomes) > 0
      BY <3>1, <1>1 DEF ToolsShape
    <3> QED BY <3>1, <3>2, <1>2
  <2> QED BY <2>1, <2>2
<1>4. ToolsShape'
  BY <1>1, <1>2, <1>3 DEF ToolsShape
<1>5. \A m : StandTo(m) => StandTo(m)'
  BY <1>2, <1>3 DEF StandTo, CallStands, CallsOf
<1>6. ToolsCalls'
  BY <1>1, <1>2, <1>3, <1>5 DEF ToolsCalls, LetThrough, AllCallsMade, CallsOf
<1> QED BY <1>4, <1>6 DEF ToolsInv

(* A call is answered: the next one is made, or the tool says what it      *)
(* came to.                                                                *)
LEMMA AnsweredInv ==
    ASSUME ToolsInv, NEW o \in {"done", "refused", "garbled", "lost"}, CallAnswered(o)
    PROVE  ToolsInv'
<1> DEFINE calls == CallsOf(toolCall)
           kind == calls[callAt]
           verdict == Verdict(kind, o)
           n == Len(outcomes)
<1>1. ToolsShape /\ ToolsCalls
  BY DEF ToolsInv
<1>2. /\ callAt > 0 /\ Possible(kind, o)
      /\ \/ /\ verdict = "ok" /\ callAt < Len(calls)
            /\ callAt' = callAt + 1 /\ UNCHANGED toolSays
         \/ /\ verdict # "ok" \/ callAt = Len(calls) \/ toolCall.act = "threadCreate"
            /\ callAt' = 0 /\ toolSays' = verdict
      /\ outcomes' = Append(outcomes, o)
      /\ UNCHANGED <<offered, toolCall, effects>>
  BY DEF CallAnswered, Skips
<1>3. n \in Nat /\ callAt = n + 1
  BY <1>1, <1>2 DEF ToolsShape
<1>4. LetThrough /\ toolCall # NoCall /\ callAt <= Len(calls) /\ StandTo(n)
      /\ toolSays = "none"
  BY <1>1, <1>2 DEF ToolsCalls
<1>5. calls \in Seq(Kinds) /\ Len(calls) \in Nat
  BY <1>4, CallsAreKnown
<1>6. kind \in Kinds
  BY <1>3, <1>4, <1>5
<1>7. /\ verdict \in {"ok", "flagged", "failed"}
      /\ kind \in Confirmed /\ verdict = "ok" => o = "done" /\ kind # "unsent"
      /\ verdict = "ok" /\ o = "lost" => kind = "soft"
  <2> HIDE DEF kind
  <2> QED BY <1>6, VerdictsOfKinds
<1>8. kind \in Confirmed /\ verdict = "ok" => callAt \in effects
  BY <1>2, <1>7 DEF Possible
<1>9. Len(outcomes') = n + 1 /\ outcomes' \in Seq({"done", "refused", "garbled", "lost"})
      /\ outcomes' # <<>>
  BY <1>1, <1>2 DEF ToolsShape
<1>10. outcomes'[n + 1] = o /\ \A i \in 1 .. n : outcomes'[i] = outcomes[i]
  BY <1>1, <1>2 DEF ToolsShape
<1>11. effects \subseteq 1 .. n + 1
  BY <1>1 DEF ToolsShape
<1>12. LetThrough' /\ toolCall' = toolCall /\ CallsOf(toolCall)' = calls
  BY <1>2, <1>4 DEF LetThrough, CallsOf
<1>15. \A i \in 1 .. n : CallStands(i)'
  <2> SUFFICES ASSUME NEW i \in 1 .. n PROVE CallStands(i)'
    OBVIOUS
  <2>1. CallStands(i) /\ outcomes'[i] = outcomes[i]
    BY <1>4, <1>10 DEF StandTo
  <2> QED BY <2>1, <1>2, <1>12 DEF CallStands
<1>16. verdict = "ok" => \A i \in 1 .. n + 1 : CallStands(i)'
  <2> SUFFICES ASSUME verdict = "ok", NEW i \in 1 .. n + 1 PROVE CallStands(i)'
    OBVIOUS
  <2>1. CASE i = n + 1
    <3>1. CallsOf(toolCall)'[i] = kind
      BY <2>1, <1>3, <1>12
    <3> HIDE DEF kind, verdict, calls
    <3> QED BY <2>1, <3>1, <1>2, <1>3, <1>7, <1>8, <1>10 DEF CallStands
  <2>2. CASE i # n + 1
    <3>1. i \in 1 .. n
      BY <2>2, <1>3
    <3> QED BY <3>1, <1>15
  <2> QED BY <2>1, <2>2
<1> HIDE DEF calls, verdict
<1>13. CASE verdict = "ok" /\ callAt < Len(calls) /\ callAt' = callAt + 1 /\ UNCHANGED toolSays
  <2>1. ToolsShape'
    BY <1>13, <1>1, <1>2, <1>3, <1>9, <1>11 DEF ToolsShape
  <2>2. StandTo(Len(outcomes))'
    BY <1>9, <1>13, <1>16 DEF StandTo
  <2>3. callAt' <= Len(CallsOf(toolCall)') /\ Len(outcomes') <= Len(CallsOf(toolCall)')
        /\ callAt' > 0 /\ toolSays' = "none"
    BY <1>3, <1>4, <1>5, <1>9, <1>12, <1>13
  <2> QED BY <2>1, <2>2, <2>3, <1>4, <1>12 DEF ToolsInv, ToolsCalls, Refusals
<1>14. CASE /\ verdict # "ok" \/ callAt = Len(calls) \/ toolCall.act = "threadCreate"
            /\ callAt' = 0 /\ toolSays' = verdict
  <2>1. ToolsShape'
    BY <1>14, <1>1, <1>2, <1>3, <1>7, <1>9, <1>11 DEF ToolsShape
  <2>2. verdict = "ok" => StandTo(Len(outcomes))' /\ AllCallsMade'
    BY <1>3, <1>9, <1>12, <1>14, <1>16 DEF StandTo, AllCallsMade
  <2>3. StandTo(Len(outcomes) - 1)'
    <3>1. Len(outcomes') - 1 = n
      BY <1>3, <1>9
    <3> QED BY <3>1, <1>15 DEF StandTo
  <2>4. Len(outcomes') <= Len(CallsOf(toolCall)')
    BY <1>3, <1>4, <1>9, <1>12 DEF calls
  <2>5. toolSays' \notin Refusals /\ effects' \subseteq 1 .. Len(outcomes')
    BY <1>2, <1>7, <1>9, <1>11, <1>14 DEF Refusals
  <2> QED BY <2>1, <2>2, <2>3, <2>4, <2>5, <1>4, <1>12, <1>14 DEF ToolsInv, ToolsCalls
<1> QED BY <1>2, <1>13, <1>14 DEF verdict, calls

LEMMA ToolsStepInv == ToolsInv /\ [ToolsNext]_toolVars => ToolsInv'
<1> SUFFICES ASSUME ToolsInv, [ToolsNext]_toolVars PROVE ToolsInv'
  OBVIOUS
<1>1. CASE BuildToolDefinitions
  <2>1. offered' \subseteq Catalogue \cup BrowserTools
    <3>1. PICK b \in BOOLEAN, p \in Policies :
            offered' = AfterPolicy(Catalogue \cup (IF b THEN BrowserTools ELSE {}), p.allow, p.deny)
      BY <1>1 DEF BuildToolDefinitions
    <3>2. offered' \subseteq Catalogue \cup (IF b THEN BrowserTools ELSE {})
      BY <3>1 DEF AfterPolicy
    <3> QED BY <3>2
  <2>2. UNCHANGED <<toolCall, callAt, effects, outcomes, toolSays>>
    BY <1>1 DEF BuildToolDefinitions
  <2> QED BY <2>1, <2>2
      DEF ToolsInv, ToolsShape, ToolsCalls, LetThrough, StandTo, CallStands, AllCallsMade, CallsOf
<1>2. CASE \E n \in offered : AskUnknown(n)
  BY <1>2, AskInv
<1>3. CASE \E n \in DOMAIN Dispatch : \E a \in DOMAIN Dispatch[n].acts : AskTool(n, a)
  BY <1>3, AskInv
<1>4. CASE \E n \in DOMAIN Dispatch : AskUnknownAct(n)
  BY <1>4, AskInv
<1>5. CASE CarriedOut \/ CarriedOutLate
  BY <1>5, CarriedOutInv
<1>6. CASE \E o \in {"done", "refused", "garbled", "lost"} : CallAnswered(o)
  BY <1>6, AnsweredInv
<1>7. CASE NextToolCall
  <2>1. /\ offered' = offered /\ callAt' = callAt /\ toolCall' = NoCall /\ effects' = {}
        /\ outcomes' = <<>> /\ toolSays' = "none" /\ toolSays # "none"
    BY <1>7 DEF NextToolCall
  <2>2. callAt' = 0
    BY <2>1 DEF ToolsInv, ToolsShape, ToolsCalls
  <2> QED BY <2>1, <2>2 DEF ToolsInv, ToolsShape, ToolsCalls, NoCall, Refusals, StandTo
<1>8. CASE UNCHANGED toolVars
  BY <1>8
  DEF toolVars, ToolsInv, ToolsShape, ToolsCalls, LetThrough, StandTo, CallStands, AllCallsMade,
      CallsOf
<1> QED BY <1>1, <1>2, <1>3, <1>4, <1>5, <1>6, <1>7, <1>8 DEF ToolsNext

(* What a tool's answer tells of the world is true (src/agents/tools), for *)
(* every tool and action: a refusal changed nothing, an ok means that all  *)
(* calls were made, were answered but for those another text stands in for, *)
(* and were carried out where the tool waits for it, an error means that   *)
(* only the last can have gone wrong.                                      *)
THEOREM ToolsTellTheTruth == ToolsSpec => []ToolAnswersHonest
BY ToolsInitInv, ToolsStepInv, ToolsHonest, PTL DEF ToolsSpec
=============================================================================
