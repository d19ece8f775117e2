------------------------------ MODULE Chunking ------------------------------
(***************************************************************************)
(* chunk_text (src/memory/chunking.rs) cuts a file into chunks of at most  *)
(* max_tokens words, each starting with the last words of the one before.  *)
(* A file is the sequence of the word counts of its lines; its words are   *)
(* numbered in order, so the words of a chunk are an interval.             *)
(***************************************************************************)
EXTENDS Integers, Sequences

CONSTANTS
    MaxLines,   \* bound: lines of a file
    MaxWords,   \* bound: words of a line
    MaxTokens   \* bound: the two parameters of chunk_text

ASSUME ChunkingAssumption ==
    MaxLines \in Nat \ {0} /\ MaxWords \in Nat /\ MaxTokens \in Nat

VARIABLES
    textLines,     \* the file
    maxTokens, overlap,
    lineAt,        \* the line being read, 0 before the call
    wordsDone,     \* words of the file read so far
    inLine,        \* words of the line read so far
    current,       \* current_words: [first, last], empty if first > last
    startLine, endLine,
    chunks

chunkVars == <<textLines, maxTokens, overlap, lineAt, wordsDone, inLine, current,
               startLine, endLine, chunks>>

Lower(a, b) == IF a < b THEN a ELSE b

Files == UNION {[1 .. n -> 0 .. MaxWords] : n \in 1 .. MaxLines}

ChunkInit ==
    /\ textLines = <<>> /\ maxTokens = 0 /\ overlap = 0
    /\ lineAt = 0 /\ wordsDone = 0 /\ inLine = 0
    /\ current = [first |-> 1, last |-> 0]
    /\ startLine = 1 /\ endLine = 1
    /\ chunks = <<>>

(* max_tokens is at least one, the overlap less than that.                 *)
ChunkText(file, tokens, shared) ==
    /\ lineAt = 0
    /\ textLines' = file
    /\ LET m == IF tokens < 1 THEN 1 ELSE tokens
       IN maxTokens' = m /\ overlap' = Lower(shared, m - 1)
    /\ lineAt' = 1
    /\ UNCHANGED <<wordsDone, inLine, current, startLine, endLine, chunks>>

Reading == lineAt \in 1 .. Len(textLines)
Size(c) == c.last - c.first + 1

(* A blank line moves the end line only.                                   *)
BlankLine ==
    /\ Reading /\ textLines[lineAt] = 0
    /\ endLine' = lineAt /\ lineAt' = lineAt + 1
    /\ UNCHANGED <<textLines, maxTokens, overlap, wordsDone, inLine, current, startLine,
                   chunks>>

KeepFromStart(c, k) == [c EXCEPT !.first = @ + k]   \* mutant of Retained

(* The words carried over into the next chunk: the last k.                 *)
Retained(c, k) ==
    [c EXCEPT !.first = IF Size(c) < k THEN c.first ELSE c.last - k + 1]

NextWord ==
    /\ Reading /\ inLine < textLines[lineAt]
    /\ wordsDone' = wordsDone + 1
    /\ inLine' = IF inLine + 1 = textLines[lineAt] THEN 0 ELSE inLine + 1
    /\ lineAt' = IF inLine + 1 = textLines[lineAt] THEN lineAt + 1 ELSE lineAt
    /\ endLine' = lineAt
    /\ LET c == [current EXCEPT !.last = wordsDone + 1]
       IN IF Size(c) >= maxTokens
          THEN /\ chunks' = Append(chunks, [words |-> c, start |-> startLine, end |-> lineAt])
               /\ current' = Retained(c, overlap)
               /\ startLine' = lineAt
          ELSE current' = c /\ UNCHANGED <<chunks, startLine>>
    /\ UNCHANGED <<textLines, maxTokens, overlap>>

(* What is left over becomes the last chunk, even if it is only overlap.   *)
Remainder ==
    /\ lineAt = Len(textLines) + 1
    /\ lineAt' = lineAt + 1
    /\ chunks' = IF Size(current) = 0 THEN chunks
                 ELSE Append(chunks, [words |-> current, start |-> startLine,
                                      end |-> endLine])
    /\ UNCHANGED <<textLines, maxTokens, overlap, wordsDone, inLine, current, startLine,
                   endLine>>

ChunkNext ==
    \/ \E file \in Files, tokens, shared \in 0 .. MaxTokens : ChunkText(file, tokens, shared)
    \/ BlankLine \/ NextWord \/ Remainder

ChunkSpec == ChunkInit /\ [][ChunkNext]_chunkVars

-----------------------------------------------------------------------------
ChunkTypeOK ==
    /\ lineAt \in 0 .. MaxLines + 2 /\ wordsDone \in 0 .. MaxLines * MaxWords
    /\ maxTokens \in 0 .. MaxTokens + 1 /\ overlap \in 0 .. MaxTokens
    /\ startLine \in 1 .. MaxLines /\ endLine \in 1 .. MaxLines

(* The line a word is on: the words of the lines before it are fewer.      *)
WordsBefore(lines, l) ==
    LET upTo[k \in 0 .. Len(lines)] == IF k = 0 THEN 0 ELSE upTo[k - 1] + lines[k]
    IN upTo[l - 1]
LineOf(w) == CHOOSE l \in 1 .. Len(textLines) :
                WordsBefore(textLines, l) < w
                /\ w <= WordsBefore(textLines, l) + textLines[l]

(* The words of chunk i that no chunk before it has.                       *)
NewWords(i) ==
    IF i = 1 THEN chunks[1].words.first .. chunks[1].words.last
    ELSE chunks[i - 1].words.last + 1 .. chunks[i].words.last

(* The chunks of a file hold every word read so far, in order, but for     *)
(* those still being gathered; two neighbours share exactly the overlap;   *)
(* no chunk is longer than max_tokens; and the lines a chunk names hold    *)
(* the words that are new in it (chunk_text).                              *)
ChunksCoverText ==
    \A i \in 1 .. Len(chunks) :
        LET c == chunks[i].words
        IN /\ Size(c) \in 1 .. maxTokens
           /\ i = 1 => c.first = 1
           /\ i > 1 => chunks[i - 1].words.last - c.first + 1 = overlap
           /\ lineAt = Len(textLines) + 2 /\ i = Len(chunks) => c.last = wordsDone
           /\ \A w \in NewWords(i) : LineOf(w) \in chunks[i].start .. chunks[i].end
=============================================================================
