---------------------------- MODULE SessionStore ----------------------------
(***************************************************************************)
(* The in-memory session store (src/sessions/mod.rs) as chat runs and the  *)
(* sessions.* requests use it.  A session is a handle shared by reference: *)
(* a run keeps the handle it took when it began, whatever happens to the   *)
(* store's entry for the key in the meantime.  Runs execute on a           *)
(* multi-threaded runtime, so get_or_create_session (look up, then insert) *)
(* and get_history are separate steps.                                     *)
(***************************************************************************)
EXTENDS Naturals, Sequences, SequencesExt, Subsequences

CONSTANTS
    Runs,            \* chat runs
    Keys,            \* session keys
    NoKey,
    NoHandle,        \* no entry in the store
    MaxAdmin,        \* bound: sessions.reset, .delete and .patch requests
    CreatorsOverlap  \* environment: first messages of a session may race

ASSUME SessionStoreAssumption ==
    /\ NoHandle \notin Runs
    /\ NoKey \notin Keys
    /\ MaxAdmin \in Nat
    /\ CreatorsOverlap \in BOOLEAN

VARIABLES
    sessions,  \* the DashMap: key -> handle; a handle is named by its creator
    history,   \* handle -> its messages, in order: whose turn, which role
    titled,    \* handle -> number of patches applied to its SessionInfo
    step,      \* where a run stands
    key,       \* the session key of a run
    handle,    \* the handle it works on
    known,     \* the history it has read
    admin,     \* administrative requests handled so far
    void,      \* history: runs whose session was reset or deleted under them
    due        \* history: key -> answers given since its last reset or delete

sessionVars == <<sessions, history, titled, step, key, handle, known, admin, void, due>>

SessionInit ==
    /\ sessions = [k \in Keys |-> NoHandle]
    /\ history = [h \in Runs |-> <<>>]
    /\ titled = [h \in Runs |-> 0]
    /\ step = [r \in Runs |-> "idle"]
    /\ key = [r \in Runs |-> NoKey]
    /\ handle = [r \in Runs |-> NoHandle]
    /\ known = [r \in Runs |-> <<>>]
    /\ admin = 0
    /\ void = {}
    /\ due = [k \in Keys |-> <<>>]

AnswerOf(r) == [run |-> r, role |-> "assistant"]
Message == {AnswerOf(r) : r \in Runs}

Begun(k) == {r \in Runs : key[r] = k /\ step[r] \in {"insert", "held", "thinking"}}

(* get_or_create_session: the entry is found ...                           *)
Found(r, k) ==
    /\ step[r] = "idle"
    /\ sessions[k] # NoHandle
    /\ handle' = [handle EXCEPT ![r] = sessions[k]]
    /\ step' = [step EXCEPT ![r] = "held"]
    /\ key' = [key EXCEPT ![r] = k]
    /\ UNCHANGED <<sessions, history, titled, known, admin, void, due>>

(* ... or it is missing: a new handle is built, *)
Missing(r, k) ==
    /\ step[r] = "idle"
    /\ sessions[k] = NoHandle
    /\ CreatorsOverlap \/ \A q \in Begun(k) : step[q] # "insert"
    /\ step' = [step EXCEPT ![r] = "insert"]
    /\ key' = [key EXCEPT ![r] = k]
    /\ UNCHANGED <<sessions, history, titled, handle, known, admin, void, due>>

(* and inserted, replacing whatever is there by now.                       *)
Insert(r) ==
    /\ step[r] = "insert"
    /\ sessions' = [sessions EXCEPT ![key[r]] = r]
    /\ handle' = [handle EXCEPT ![r] = r]
    /\ step' = [step EXCEPT ![r] = "held"]
    /\ UNCHANGED <<history, titled, key, known, admin, void, due>>

(* get_history: the messages the provider will be sent.                    *)
ReadHistory(r) ==
    /\ step[r] = "held"
    /\ known' = [known EXCEPT ![r] = history[handle[r]]]
    /\ step' = [step EXCEPT ![r] = "thinking"]
    /\ UNCHANGED <<sessions, history, titled, key, handle, admin, void, due>>

(* Mutants of AddMessage: the answer is put in front; it is stored without *)
(* its role.                                                               *)
AddMessageInFront(r) ==
    /\ step[r] = "thinking"
    /\ history' = [history EXCEPT ![handle[r]] = <<AnswerOf(r)>> \o @]
    /\ due' = IF r \in void THEN due
              ELSE [due EXCEPT ![key[r]] = Append(@, AnswerOf(r))]
    /\ step' = [step EXCEPT ![r] = "done"]
    /\ UNCHANGED <<sessions, titled, key, handle, known, admin, void>>

AddMessageBare(r) ==
    /\ step[r] = "thinking"
    /\ history' = [history EXCEPT ![handle[r]] = Append(@, r)]
    /\ due' = due
    /\ step' = [step EXCEPT ![r] = "done"]
    /\ UNCHANGED <<sessions, titled, key, handle, known, admin, void>>

(* add_message: the run's answer, and nothing else of the turn; the user's *)
(* message only went into the list sent to the provider.                   *)
AddMessage(r) ==
    /\ step[r] = "thinking"
    /\ history' = [history EXCEPT ![handle[r]] = Append(@, AnswerOf(r))]
    /\ due' = IF r \in void THEN due
              ELSE [due EXCEPT ![key[r]] = Append(@, AnswerOf(r))]
    /\ step' = [step EXCEPT ![r] = "done"]
    /\ UNCHANGED <<sessions, titled, key, handle, known, admin, void>>

(* The run is cancelled or fails: it leaves nothing.                       *)
RunGivesUp(r) ==
    /\ step[r] = "thinking"
    /\ step' = [step EXCEPT ![r] = "done"]
    /\ UNCHANGED <<sessions, history, titled, key, handle, known, admin, void, due>>

-----------------------------------------------------------------------------
(* The operations of the store the sessions.* requests call.               *)

(* Mutant of ResetSession: the history stays.                              *)
ResetSessionKeeps(k) ==
    /\ sessions[k] # NoHandle
    /\ UNCHANGED <<sessions, history, titled>>

ResetSession(k) ==
    /\ sessions[k] # NoHandle
    /\ history' = [history EXCEPT ![sessions[k]] = <<>>]
    /\ UNCHANGED <<sessions, titled>>

(* The entry is forgotten; handles in use live on.                         *)
DeleteSession(k) ==
    /\ sessions' = [sessions EXCEPT ![k] = NoHandle]
    /\ UNCHANGED <<history, titled>>

PatchSession(k) ==
    /\ sessions[k] # NoHandle
    /\ titled' = [titled EXCEPT ![sessions[k]] = @ + 1]
    /\ UNCHANGED <<sessions, history>>

-----------------------------------------------------------------------------
(* The requests.  A reset of a session that does not exist is answered     *)
(* with an error and a patch of it with ok: neither does anything, and so  *)
(* do the requests that only read (list, get, preview, usage, resolve and  *)
(* compact, which compacts nothing).                                       *)
MayAdmin == admin < MaxAdmin /\ admin' = admin + 1

SessionsReset(k) ==
    /\ MayAdmin
    /\ ResetSession(k)
    /\ void' = void \cup Begun(k)
    /\ due' = [due EXCEPT ![k] = <<>>]
    /\ UNCHANGED <<step, key, handle, known>>

SessionsDelete(k) ==
    /\ MayAdmin
    /\ DeleteSession(k)
    /\ void' = void \cup Begun(k)
    /\ due' = [due EXCEPT ![k] = <<>>]
    /\ UNCHANGED <<step, key, handle, known>>

SessionsPatch(k) ==
    /\ MayAdmin
    /\ PatchSession(k)
    /\ UNCHANGED <<step, key, handle, known, void, due>>

RunStep(r) ==
    \/ \E k \in Keys : Found(r, k) \/ Missing(r, k)
    \/ Insert(r)
    \/ ReadHistory(r)
    \/ AddMessage(r)
    \/ RunGivesUp(r)

SessionNext ==
    \/ \E r \in Runs : RunStep(r)
    \/ \E k \in Keys : SessionsReset(k) \/ SessionsDelete(k) \/ SessionsPatch(k)

SessionSpec == SessionInit /\ [][SessionNext]_sessionVars

-----------------------------------------------------------------------------
SessionTypeOK ==
    /\ sessions \in [Keys -> Runs \cup {NoHandle}]
    /\ \A h \in Runs : \A i \in 1..Len(history[h]) : history[h][i] \in Message
    /\ titled \in [Runs -> 0..MaxAdmin]
    /\ step \in [Runs -> {"idle", "insert", "held", "thinking", "done"}]
    /\ key \in [Runs -> Keys \cup {NoKey}]
    /\ handle \in [Runs -> Runs \cup {NoHandle}]
    /\ admin \in 0..MaxAdmin
    /\ void \subseteq Runs
    /\ \A k \in Keys : \A i \in 1..Len(due[k]) : due[k][i] \in Message

Standing(s) == Only(s, {msg \in Message : msg.run \notin void})
Current(k) == IF sessions[k] = NoHandle THEN <<>> ELSE history[sessions[k]]

(* A session remembers: the answers in the session a key leads to are, in  *)
(* the order they were given, those of every run on that key that finished *)
(* since the session was last reset or deleted, plus at most answers of    *)
(* runs that were under way when that happened.                            *)
AnswersKept == \A k \in Keys : Standing(Current(k)) = due[k]

(* The history a run was given is still the beginning of its session, so   *)
(* concurrent answers are only ever added behind it, unless the session    *)
(* was reset under the run.                                                *)
ContextIsPrefix ==
    \A r \in Runs : step[r] = "thinking" /\ r \notin void =>
        IsPrefix(known[r], history[handle[r]])
=============================================================================
