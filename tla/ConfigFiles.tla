------------------------------ MODULE ConfigFiles ------------------------------
(***************************************************************************)
(* Reading a configuration file with its includes                          *)
(* (src/config/io.rs, read_config_with_includes): a file is read, then its *)
(* includes one after the other and each in full, and every result is      *)
(* merged over what is there.  The calls in progress are a stack.          *)
(***************************************************************************)
EXTENDS Naturals, Sequences, FiniteSets, SequencesExt, Subsequences

CONSTANTS
    Paths,           \* files
    Root,            \* the file that is asked for
    MaxIncludes,     \* a file has that many includes at most
    MaxIncludeDepth  \* MAX_INCLUDE_DEPTH (16)

ASSUME ConfigFilesAssumption ==
    /\ IsFiniteSet(Paths) /\ Root \in Paths
    /\ MaxIncludes \in Nat
    /\ MaxIncludeDepth \in Nat

VARIABLES
    disk,     \* path -> the file there
    calls,    \* the calls in progress, the outermost first
    loading,  \* "reading", then "error" or "loaded"
    loaded    \* the configuration, once it is loaded

fileVars == <<disk, calls, loading, loaded>>

(* read_config_file_snapshot refuses a link, and fails on a file that is   *)
(* missing, too large or cannot be parsed.  The text of the error decides  *)
(* whether it is fatal: that of a link says so, and that of any failure    *)
(* has the file's path, and a parser's the line it stopped at, which may   *)
(* hold one of the words "symlink", "hardlink" and "depth exceeded" too    *)
(* (a file that is "worded").  A file that is read is an object: every one *)
(* sets a key all files set, and one of its own.                           *)
FatalWords == {"symlink", "hardlink", "worded"}
Unread == {"missing", "tooLarge", "broken"}
Includes == SeqOf(Paths, MaxIncludes)
Files == [state : {"read"}, includes : Includes] \cup
         [state : {"symlink", "missing", "worded"}, includes : {<<>>}]

Holding(p) == [shared |-> p, own |-> {p}]
Frame(p) == [conf |-> Holding(p), todo |-> disk[p].includes]

FilesInit ==
    /\ disk \in [Paths -> Files]
    /\ calls = <<>> /\ loading = "reading" /\ loaded = Holding(Root)

MergedUnder(target, source) ==   \* mutant of MergedOver: the target wins
    [shared |-> target.shared, own |-> target.own \cup source.own]

(* merge_config_values: the source wins, what it does not set stays.       *)
MergedOver(target, source) ==
    [shared |-> source.shared, own |-> target.own \cup source.own]

Depth == Len(calls)      \* of the next call; the outermost is at depth 0
Inner == Last(calls)
Callee == IF calls = <<>> THEN Root ELSE Head(Inner.todo)
Due == loading = "reading" /\ (calls # <<>> => Inner.todo # <<>>)

Skipped == ReplaceAt(calls, Len(calls), [Inner EXCEPT !.todo = Tail(@)])

FatalTooDeep == Depth > MaxIncludeDepth   \* mutant of Fatal: a link is only skipped

(* A call that returns an error no include survives: too deep, or a        *)
(* failure whose text says so.                                             *)
Fatal == Depth > MaxIncludeDepth \/ disk[Callee].state \in FatalWords

ReadFile ==
    /\ Due /\ ~Fatal /\ disk[Callee].state = "read"
    /\ calls' = Append(calls, Frame(Callee))
    /\ UNCHANGED <<disk, loading, loaded>>

(* Any other error of an include is logged and the include is skipped; of  *)
(* the file that is asked for, every error is the caller's.                *)
ReadFails ==
    /\ Due /\ (Fatal \/ disk[Callee].state # "read")
    /\ IF Fatal \/ calls = <<>> THEN calls' = <<>> /\ loading' = "error"
       ELSE calls' = Skipped /\ UNCHANGED loading
    /\ UNCHANGED <<disk, loaded>>

(* A file with no include left is the result of its call.                  *)
ReadReturns ==
    /\ loading = "reading" /\ calls # <<>> /\ Inner.todo = <<>>
    /\ IF Len(calls) = 1 THEN calls' = <<>> /\ loading' = "loaded" /\ loaded' = Inner.conf
       ELSE LET below == Front(calls)
            IN /\ calls' = ReplaceAt(below, Len(below),
                              [conf |-> MergedOver(Last(below).conf, Inner.conf),
                               todo |-> Tail(Last(below).todo)])
               /\ UNCHANGED <<loading, loaded>>
    /\ UNCHANGED disk

FilesNext == ReadFile \/ ReadFails \/ ReadReturns
FilesSpec == FilesInit /\ [][FilesNext]_fileVars

-----------------------------------------------------------------------------
FilesTypeOK ==
    /\ disk \in [Paths -> Files]
    /\ Len(calls) <= MaxIncludeDepth + 1
    /\ loading \in {"reading", "error", "loaded"}
    /\ loaded \in [shared : Paths, own : SUBSET Paths]

(* What a file leads to on a disk d: the smallest set that has its includes *)
(* and, with a file, also the includes of that.  A file that is not read    *)
(* leads nowhere.                                                           *)
Readable(d) == {p \in Paths : d[p].state = "read"}
Leads(d, p) == {q \in Paths : p \in Readable(d) /\ q \in ToSet(d[p].includes)}
ClosedOn(d, C) == \A p \in C : Leads(d, p) \subseteq C
Below(d, p) ==
    {q \in Paths : \A C \in SUBSET Paths : Leads(d, p) \subseteq C /\ ClosedOn(d, C) => q \in C}
Under(d, p) == {p} \cup Below(d, p)

(* The include read last, of the include read last, and so on.             *)
LastRead(d, p) ==
    LET read == Only(d[p].includes, Readable(d))
    IN IF read = <<>> THEN p ELSE read[Len(read)]
Winner(d, p) ==
    LET after[n \in 0 .. Cardinality(Paths)] == IF n = 0 THEN p ELSE LastRead(d, after[n - 1])
    IN after[Cardinality(Paths)]

Circular(d, p) == \E q \in Under(d, p) : q \in Below(d, q)

(* Files each of which includes the next, n of them after p.               *)
Deep(d, p, n) ==
    \E way \in [0 .. n -> Paths] :
        way[0] = p /\ \A i \in 0 .. n - 1 : way[i + 1] \in Leads(d, way[i])
TooDeep(d) == Deep(d, Root, MaxIncludeDepth + 1)

(* Whatever files include each other: reading fails exactly if the file    *)
(* asked for cannot be read, files include each other in a circle or in a  *)
(* chain longer than the limit, or a file is reached whose error says one  *)
(* of the fatal words; otherwise the configuration holds every file        *)
(* reached that can be read, and where several set a key the include read  *)
(* last has it.                                                            *)
IncludesSound ==
    /\ FilesTypeOK
    /\ loading # "reading" =>
         (loading = "error" <=>
            \/ Root \notin Readable(disk) \/ Circular(disk, Root) \/ TooDeep(disk)
            \/ \E p \in Under(disk, Root) : disk[p].state \in FatalWords)
    /\ loading = "loaded" =>
         loaded = [shared |-> Winner(disk, Root), own |-> Under(disk, Root) \cap Readable(disk)]
=============================================================================
