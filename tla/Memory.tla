------------------------------- MODULE Memory -------------------------------
(***************************************************************************)
(* The memory index (src/memory): the queue of texts to be embedded, the   *)
(* embedding providers, and the hybrid search.  A text is named by its id  *)
(* and a vector by the text it belongs to.  The rows of the database come  *)
(* from outside: sync is a stub that writes none.                          *)
(***************************************************************************)
EXTENDS Integers, Sequences, FiniteSets, FiniteSetsExt, SequencesExt, Subsequences

CONSTANTS
    Texts,       \* the texts (and, in a search, the chunks)
    BatchSize,   \* max_batch_size
    MaxTexts,    \* bound: texts in the queue or in one embed call
    MaxResults   \* bound: max_results of a search

ASSUME MemoryAssumption ==
    /\ BatchSize \in Nat \ {0} /\ MaxTexts \in Nat /\ MaxResults \in Nat
    /\ IsFiniteSet(Texts) /\ {"none", "alien", "zero"} \cap Texts = {}

VARIABLES
    memQueue,    \* BatchEmbeddingManager.queue
    taken,       \* the items a flush has taken, as enqueued; <<>> outside one
    embedded,    \* how many of them have been embedded
    vectors,     \* all_results of the flush
    outOfOrder,  \* the service has mixed up the texts of a batch of it
    flushed,     \* its outcome
    embedCall,   \* an embed call: kind, texts, vectors so far, outcome
    found,       \* the last search: its inputs and its answer
    memStatus    \* MemoryProviderStatus

memVars == <<memQueue, taken, embedded, vectors, outOfOrder, flushed, embedCall, found, memStatus>>

NoEmbed == [kind |-> "none", texts |-> <<>>, vectors |-> <<>>, outcome |-> "none"]
NoSearch == [mode |-> "none"]

MemInit ==
    /\ memQueue = <<>> /\ taken = <<>> /\ embedded = 0
    /\ vectors = <<>> /\ outOfOrder = FALSE /\ flushed = "none"
    /\ embedCall = NoEmbed /\ found = NoSearch /\ memStatus = "Ready"

-----------------------------------------------------------------------------
(* The batch queue.                                                        *)

EnqueueText(t) ==
    /\ taken = <<>> /\ Len(memQueue) < MaxTexts
    /\ memQueue' = Append(memQueue, t)
    /\ UNCHANGED <<taken, embedded, vectors, outOfOrder, flushed, embedCall, found, memStatus>>

(* flush takes the whole queue at once; an empty one is answered Ok([]).   *)
Flush ==
    /\ taken = <<>>
    /\ taken' = memQueue /\ memQueue' = <<>>
    /\ embedded' = 0 /\ vectors' = <<>> /\ outOfOrder' = FALSE
    /\ flushed' = IF memQueue = <<>> THEN "ok" ELSE "none"
    /\ UNCHANGED <<embedCall, found, memStatus>>

Batch == SubSeq(taken, embedded + 1, Min({embedded + BatchSize, Len(taken)}))

(* What the service may answer for a batch: any number of entries, in any  *)
(* order, each with the vector of a text, of something else, or none.  The *)
(* code reads no index an entry may bear.                                  *)
BatchAnswers(texts) == SeqOf(Range(texts) \cup {"none", "alien"}, Len(texts) + 1)

(* The entries that have a vector stand where their texts do.              *)
InOrder(texts, data) == \A i \in DOMAIN data : i <= Len(texts) => data[i] \in {"none", texts[i]}

Compacted(items, data) ==   \* mutant of Paired: numbered after the gaps are dropped
    LET has == SelectSeq(data, LAMBDA v : v # "none")
    IN [i \in 1 .. Min({Len(items), Len(has)}) |-> [id |-> items[i], embedding |-> has[i]]]

(* The entry at position i is the vector of the i-th text of the batch.    *)
Paired(items, data) ==
    LET at == Only([i \in 1 .. Len(data) |-> i],
                   {i \in 1 .. Len(data) : data[i] # "none" /\ i <= Len(items)})
    IN [k \in 1 .. Len(at) |-> [id |-> items[at[k]], embedding |-> data[at[k]]]]

BatchAnswered(data) ==
    /\ taken # <<>>
    /\ data \in BatchAnswers(Batch)
    /\ vectors' = vectors \o Paired(Batch, data)
    /\ outOfOrder' = (outOfOrder \/ ~InOrder(Batch, data))
    /\ embedded' = embedded + Len(Batch)
    /\ IF embedded + Len(Batch) = Len(taken)
       THEN taken' = <<>> /\ flushed' = "ok" ELSE UNCHANGED <<taken, flushed>>
    /\ UNCHANGED <<memQueue, embedCall, found, memStatus>>

(* A failing batch fails the flush: the items taken and the vectors so far *)
(* are dropped.                                                            *)
BatchFails ==
    /\ taken # <<>>
    /\ taken' = <<>> /\ vectors' = <<>> /\ flushed' = "failed"
    /\ UNCHANGED <<memQueue, embedded, outOfOrder, embedCall, found, memStatus>>

-----------------------------------------------------------------------------
(* EmbeddingProvider::embed.                                               *)

OneRequest == {"openai", "mistral", "voyage", "ollama"}
OnePerText == {"gemini"}

(* The local provider is a stub: a vector of zeros for every text.         *)
Embed(kind, texts) ==
    /\ embedCall = NoEmbed
    /\ embedCall' = [kind |-> kind, texts |-> texts,
                     vectors |-> IF kind = "local" THEN [i \in 1 .. Len(texts) |-> "zero"] ELSE <<>>,
                     outcome |-> IF kind = "local" \/ texts = <<>> THEN "ok" ELSE "none"]
    /\ UNCHANGED <<memQueue, taken, embedded, vectors, outOfOrder, flushed, found, memStatus>>

Embedding == embedCall.kind # "none" /\ embedCall.outcome = "none"

(* One request for all the texts: whatever vectors the answer holds.       *)
AllEmbedded(data) ==
    /\ Embedding /\ embedCall.kind \in OneRequest
    /\ data \in BatchAnswers(embedCall.texts) /\ "none" \notin Range(data)
    /\ embedCall' = [embedCall EXCEPT !.vectors = data, !.outcome = "ok"]
    /\ UNCHANGED <<memQueue, taken, embedded, vectors, outOfOrder, flushed, found, memStatus>>

OneEmbedded ==
    /\ Embedding /\ embedCall.kind \in OnePerText
    /\ LET v == Append(embedCall.vectors, embedCall.texts[Len(embedCall.vectors) + 1])
       IN embedCall' = [embedCall EXCEPT
                          !.vectors = v,
                          !.outcome = IF Len(v) = Len(embedCall.texts) THEN "ok" ELSE "none"]
    /\ UNCHANGED <<memQueue, taken, embedded, vectors, outOfOrder, flushed, found, memStatus>>

EmbedFails ==
    /\ Embedding
    /\ embedCall' = [embedCall EXCEPT !.vectors = <<>>, !.outcome = "failed"]
    /\ UNCHANGED <<memQueue, taken, embedded, vectors, outOfOrder, flushed, found, memStatus>>

-----------------------------------------------------------------------------
(* Hybrid search.  A ranking is a sequence of chunks without repetition,   *)
(* best first.  RRF scores 1/(60 + rank) are kept exact by a common        *)
(* denominator.                                                            *)

RrfK == 60
MaxRank == Cardinality(Texts)
Scale ==
    LET upTo[r \in 0 .. MaxRank] == IF r = 0 THEN 1 ELSE upTo[r - 1] * (RrfK + r)
    IN upTo[MaxRank]

Rankings == {s \in SeqOf(Texts, MaxRank) : IsInjective(s)}

RankIn(list, c) == CHOOSE r \in DOMAIN list : list[r] = c
RrfIn(list, c) == IF c \in Range(list) THEN Scale \div (RrfK + RankIn(list, c)) ELSE 0

LastRrf(fts, vec, c) ==   \* mutant of Rrf: the second list overwrites the first
    IF c \in Range(vec) THEN RrfIn(vec, c) ELSE RrfIn(fts, c)

Rrf(fts, vec, c) == RrfIn(fts, c) + RrfIn(vec, c)

Truncated(list, n) == SubSeq(list, 1, Min({n, Len(list)}))

(* merge_results: by descending sum; equal sums come in any order, that of *)
(* the hash map.                                                           *)
MergedRanking(fts, vec, limit) ==
    LET all == Range(fts) \cup Range(vec)
        orders == {s \in Rankings : Range(s) = all /\ \A i, j \in DOMAIN s :
                      i < j => Rrf(fts, vec, s[i]) >= Rrf(fts, vec, s[j])}
    IN {[i \in 1 .. Min({limit, Len(s)}) |-> [id |-> s[i], score |-> Rrf(fts, vec, s[i])]] :
            s \in orders}

(* The other two modes keep the scores of their one list, here descending. *)
Scored(list) == [i \in 1 .. Len(list) |-> [id |-> list[i], score |-> Scale - i]]

(* search: an embedding that fails leaves the full-text list; chunks whose *)
(* file is gone are dropped, then those below min_score.                   *)
SearchFor(mode, fts, vec, hasVector, gone, limit, minScore) ==
    /\ LET lists ==
             CASE mode = "Hybrid" -> MergedRanking(Truncated(fts, 2 * limit), Truncated(vec, 2 * limit), limit)
               [] mode = "Vector" /\ hasVector -> {Scored(Truncated(vec, limit))}
               [] OTHER -> {Scored(Truncated(fts, limit))}
       IN \E list \in lists :
            found' = [mode |-> mode, fts |-> fts, vec |-> vec, hasVector |-> hasVector,
                      gone |-> gone, limit |-> limit, minScore |-> minScore,
                      answer |-> Only(list, {r \in Range(list) : r.id \notin gone /\ r.score >= minScore})]
    /\ UNCHANGED <<memQueue, taken, embedded, vectors, outOfOrder, flushed, embedCall, memStatus>>

(* sync sets the status and does nothing; close only sets it: a sync after *)
(* it makes the manager Ready again.                                       *)
SyncBegins ==
    /\ memStatus' = "Syncing"
    /\ UNCHANGED <<memQueue, taken, embedded, vectors, outOfOrder, flushed, embedCall, found>>
SyncEnds ==
    /\ memStatus = "Syncing" /\ memStatus' = "Ready"
    /\ UNCHANGED <<memQueue, taken, embedded, vectors, outOfOrder, flushed, embedCall, found>>
CloseMemory ==
    /\ memStatus' = "Closed"
    /\ UNCHANGED <<memQueue, taken, embedded, vectors, outOfOrder, flushed, embedCall, found>>

(* The queue, the embed calls, the searches and the status have nothing in *)
(* common: each is explored from the manager's first state.                *)
QueueIdle == memQueue = <<>> /\ taken = <<>> /\ flushed = "none"

BatchNext ==
    \/ \E t \in Texts : EnqueueText(t)
    \/ Flush
    \/ \E data \in BatchAnswers(Batch) : BatchAnswered(data)
    \/ BatchFails

EmbedNext ==
    \/ \E kind \in OneRequest \cup OnePerText \cup {"local"},
          texts \in SeqOf(Texts, MaxTexts) : Embed(kind, texts)
    \/ \E data \in BatchAnswers(embedCall.texts) : AllEmbedded(data)
    \/ OneEmbedded
    \/ EmbedFails

SearchNext ==
    \E mode \in {"Fts", "Vector", "Hybrid"}, fts, vec \in Rankings, hasVector \in BOOLEAN,
       gone \in {{}, {CHOOSE t \in Texts : TRUE}}, limit \in 0 .. MaxResults,
       minScore \in {0, Scale \div (RrfK + 1)} :
          /\ hasVector \/ vec = <<>>
          /\ SearchFor(mode, fts, vec, hasVector, gone, limit, minScore)

MemNext ==
    \/ memStatus = "Ready" /\ embedCall = NoEmbed /\ found = NoSearch /\ BatchNext
    \/ memStatus = "Ready" /\ QueueIdle /\ found = NoSearch /\ EmbedNext
    \/ memStatus = "Ready" /\ QueueIdle /\ embedCall = NoEmbed /\ found = NoSearch /\ SearchNext
    \/ QueueIdle /\ embedCall = NoEmbed /\ found = NoSearch
       /\ (SyncBegins \/ SyncEnds \/ CloseMemory)

MemSpec == MemInit /\ [][MemNext]_memVars

-----------------------------------------------------------------------------
MemTypeOK ==
    /\ memQueue \in SeqOf(Texts, MaxTexts) /\ taken \in SeqOf(Texts, MaxTexts)
    /\ embedded \in 0 .. MaxTexts /\ outOfOrder \in BOOLEAN /\ flushed \in {"none", "ok", "failed"}
    /\ embedCall.outcome \in {"none", "ok", "failed"}
    /\ memStatus \in {"Ready", "Syncing", "Closed"}

(* Every vector a flush gives out is that of the text with its id, however *)
(* many entries the service leaves out or adds, in whatever batches, as    *)
(* long as it answers in the order of the texts (process_openai_batch).    *)
VectorsMatch == ~outOfOrder => \A i \in DOMAIN vectors : vectors[i].embedding = vectors[i].id

(* Chunk a is ahead of chunk b in every list of search f that b is in.     *)
Ahead(f, a, b) ==
    /\ a # b
    /\ \A list \in {Truncated(f.fts, 2 * f.limit), Truncated(f.vec, 2 * f.limit)} :
         b \in Range(list) => a \in Range(list) /\ RankIn(list, a) < RankIn(list, b)

RanksRight(f) ==
    LET ids == [i \in DOMAIN f.answer |-> f.answer[i].id]
    IN /\ Len(ids) <= f.limit /\ IsInjective(ids)
       /\ \A i, j \in DOMAIN ids : i < j => f.answer[i].score >= f.answer[j].score
       /\ \A b \in Range(ids) : \A a \in Range(f.fts) \ f.gone :
            Ahead(f, a, b) => a \in Range(ids) /\ RankIn(ids, a) < RankIn(ids, b)

(* A hybrid search answers at most max_results chunks, each once, best     *)
(* first, and never one while a chunk ahead of it in every list it is in   *)
(* is left out or comes after it (merge_results).                          *)
HybridRanksRight == found.mode = "Hybrid" => RanksRight(found)

(* An embed call that sends one request per text answers one vector per    *)
(* text, in order, or fails as a whole.                                    *)
OneVectorPerText ==
    embedCall.outcome = "ok" /\ embedCall.kind \in OnePerText =>
        embedCall.vectors = embedCall.texts

(* What the memory index answers belongs to what it was asked.             *)
MemoryMatches == VectorsMatch /\ OneVectorPerText /\ HybridRanksRight
=============================================================================
