------------------------------ MODULE MCServices ------------------------------
(***************************************************************************)
(* The services around the chat path, side by side.  They share no state,  *)
(* so an interleaving of two of them says nothing that one alone does not: *)
(* a behaviour picks one service at the start and runs it, the others      *)
(* stand still.  Every service has its own constants and its own fairness. *)
(***************************************************************************)
EXTENDS NodeStore, GatewayRecords, GatewaySettings, GatewayClient, Channels,
        WebChat, AcpAgents, AbortSignal, TypingLoop, Delivery, Fallback, Hooks,
        ProviderStream, Tools, Chunking, Memory, Access, Ffi

VARIABLE service

servicesVars == <<service, nodeVars, recVars, setVars, cliVars, chanVars, chatVars,
                  acpVars, abortVars, typingVars, delVars, fbVars, hookVars, provVars,
                  toolVars, chunkVars, memVars, accVars, ffiVars>>

Services == {"nodes", "records", "settings", "client", "channels", "webchat", "acp",
             "abort", "typing", "delivery", "fallback", "hooks", "provider",
             "tools", "chunking", "memory", "access", "ffi"}

TheChain == <<"fast", "smart", "local">>

(* Every service but s stands still.                                       *)
Keep(s) ==
    /\ UNCHANGED service
    /\ IF s = "nodes" THEN TRUE ELSE UNCHANGED nodeVars
    /\ IF s = "records" THEN TRUE ELSE UNCHANGED recVars
    /\ IF s = "settings" THEN TRUE ELSE UNCHANGED setVars
    /\ IF s = "client" THEN TRUE ELSE UNCHANGED cliVars
    /\ IF s = "channels" THEN TRUE ELSE UNCHANGED chanVars
    /\ IF s = "webchat" THEN TRUE ELSE UNCHANGED chatVars
    /\ IF s = "acp" THEN TRUE ELSE UNCHANGED acpVars
    /\ IF s = "abort" THEN TRUE ELSE UNCHANGED abortVars
    /\ IF s = "typing" THEN TRUE ELSE UNCHANGED typingVars
    /\ IF s = "delivery" THEN TRUE ELSE UNCHANGED delVars
    /\ IF s = "fallback" THEN TRUE ELSE UNCHANGED fbVars
    /\ IF s = "hooks" THEN TRUE ELSE UNCHANGED hookVars
    /\ IF s = "provider" THEN TRUE ELSE UNCHANGED provVars
    /\ IF s = "tools" THEN TRUE ELSE UNCHANGED toolVars
    /\ IF s = "chunking" THEN TRUE ELSE UNCHANGED chunkVars
    /\ IF s = "memory" THEN TRUE ELSE UNCHANGED memVars
    /\ IF s = "access" THEN TRUE ELSE UNCHANGED accVars
    /\ IF s = "ffi" THEN TRUE ELSE UNCHANGED ffiVars

ServicesInit ==
    /\ service \in Services
    /\ NodeInit /\ RecInit /\ SetInit /\ CliInit /\ ChanInit /\ WebInit /\ AcpInit
    /\ AbortInit /\ TypingInit /\ DelInit /\ FbInit /\ HookInit /\ ProvInit
    /\ ToolsInit /\ ChunkInit /\ MemInit /\ AccInit /\ FfiInit

ServicesNext ==
    \/ service = "nodes" /\ NodeNext /\ Keep("nodes")
    \/ service = "records" /\ RecNext /\ Keep("records")
    \/ service = "settings" /\ SetNext /\ Keep("settings")
    \/ service = "client" /\ CliNext /\ Keep("client")
    \/ service = "channels" /\ ChanNext /\ Keep("channels")
    \/ service = "webchat" /\ WebNext /\ Keep("webchat")
    \/ service = "acp" /\ AcpNext /\ Keep("acp")
    \/ service = "abort" /\ AbortNext /\ Keep("abort")
    \/ service = "typing" /\ TypingNext /\ Keep("typing")
    \/ service = "delivery" /\ DelNext /\ Keep("delivery")
    \/ service = "fallback" /\ FbNext /\ Keep("fallback")
    \/ service = "hooks" /\ HookNext /\ Keep("hooks")
    \/ service = "provider" /\ ProvNext /\ Keep("provider")
    \/ service = "tools" /\ ToolsNext /\ Keep("tools")
    \/ service = "chunking" /\ ChunkNext /\ Keep("chunking")
    \/ service = "memory" /\ MemNext /\ Keep("memory")
    \/ service = "access" /\ AccNext /\ Keep("access")
    \/ service = "ffi" /\ FfiNext /\ Keep("ffi")

ServicesFairness ==
    /\ \A d \in Dials : WF_servicesVars(service = "client" /\ CliReader(d) /\ Keep("client"))
    /\ WF_servicesVars(service = "client" /\ AppPolls /\ Keep("client"))
    /\ WF_servicesVars(service = "abort" /\ NotifyWaiters /\ Keep("abort"))
    /\ \A w \in Waiters : WF_servicesVars(service = "abort" /\ WaitStep(w) /\ Keep("abort"))
    /\ \A l \in Loops : WF_servicesVars(service = "typing" /\ Tick(l) /\ Keep("typing"))

ServicesSpec == ServicesInit /\ [][ServicesNext]_servicesVars /\ ServicesFairness

(* The type invariants of the services.                                    *)
ServicesTypeOK ==
    /\ service \in Services
    /\ NodeTypeOK /\ RecTypeOK /\ SetTypeOK /\ CliTypeOK /\ ChanTypeOK /\ WebTypeOK
    /\ AcpTypeOK /\ AbortTypeOK /\ TypingTypeOK /\ DelTypeOK /\ FbTypeOK /\ HookTypeOK
    /\ ProvTypeOK /\ ToolsTypeOK /\ ChunkTypeOK /\ MemTypeOK /\ AccTypeOK
    /\ FfiTypeOK

(* A send of a channel that sends anything at all is answered ok only if   *)
(* no reply it looks at refused it (channels/*.rs), and a message of the   *)
(* web chat reaches every client that has listened since it was sent, once *)
(* (channels/webchat.rs).                                                  *)
ChannelsDeliver == OkMeansAccepted /\ NoClientStarved

(* The gateway's records and its wizard, under clients that race: a cron   *)
(* run is recorded without its job at most once per removal in between     *)
(* (handle_cron_run), and an active wizard stands within its steps unless  *)
(* a start ran between the two writes of a cancel.                         *)
RecordsSound == StrayRunsBounded /\ WizardWithinSteps

(* The memory index: the chunks of a text cover it in order and fit the    *)
(* size asked for (memory/chunking.rs), batches pair every text with its   *)
(* own vector as long as the service answers in the order it was asked     *)
(* (memory/batch_embedding.rs), and searches keep the order of their lists *)
(* (memory/hybrid.rs).                                                     *)
MemorySound == ChunksCoverText /\ MemoryMatches
=============================================================================
