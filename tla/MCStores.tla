------------------------------ MODULE MCStores ------------------------------
(***************************************************************************)
(* What the requests of all clients share, side by side: the running       *)
(* configuration as the connections change it (ConfigStore), as the HTTP   *)
(* routes read and replace it (HttpApi), the files it is read from         *)
(* (ConfigFiles), and the session store (SessionStore).  A behaviour picks *)
(* one of them at the start; the others stand still.                       *)
(***************************************************************************)
EXTENDS ConfigStore, SessionStore, HttpApi, ConfigFiles

CONSTANTS token, model, plain, ref

VARIABLE store

storesVars == <<store, vars, sessionVars, httpVars, fileVars>>

Stores == {"config", "sessions", "http", "files"}

(* The configuration file sets both fields, one of them to a reference.    *)
FileOfBoth == [f \in {token, model} |-> IF f = token THEN ref ELSE plain]

StoresInit ==
    /\ store \in Stores
    /\ Init /\ SessionInit /\ HttpInit /\ FilesInit
    /\ store # "config" => config = [f \in Fields |-> plain]
    /\ store # "files" => disk = [p \in Paths |-> [state |-> "read", includes |-> <<>>]]

OnlySessions == UNCHANGED <<store, vars, httpVars, fileVars>>
OnlyHttp == UNCHANGED <<store, vars, sessionVars, fileVars>>

StoresNext ==
    \/ store = "config" /\ Next /\ UNCHANGED <<store, sessionVars, httpVars, fileVars>>
    \/ store = "sessions" /\ SessionNext /\ OnlySessions
    \/ store = "http" /\ HttpNext /\ OnlyHttp
    \/ store = "files" /\ FilesNext /\ UNCHANGED <<store, vars, sessionVars, httpVars>>

StoresFairness ==
    /\ WF_storesVars(store = "http" /\ ServerEnds /\ OnlyHttp)
    /\ \A n \in Requests : WF_storesVars(store = "http" /\ HttpStep(n) /\ OnlyHttp)

StoresSpec == StoresInit /\ [][StoresNext]_storesVars /\ StoresFairness

(* The session store under runs that share a session and requests that     *)
(* reset, delete or patch it (sessions/mod.rs): no answer is lost, doubled *)
(* or reordered, and the history a run was given stays the beginning of    *)
(* its session's.                                                          *)
SessionsSound == SessionTypeOK /\ AnswersKept /\ ContextIsPrefix
=============================================================================
