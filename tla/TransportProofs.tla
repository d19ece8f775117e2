--------------------------- MODULE TransportProofs ---------------------------
(***************************************************************************)
(* What reaches the other side.  First the work queued for nodes           *)
(* (NodeStore), for any number of nodes, clients and items: an item is in  *)
(* one place, the queue of one node, or with one client; Enqueue puts a    *)
(* new item into one place, Drain moves the first items of a queue behind  *)
(* what a client has.  Then the streams of the model providers             *)
(* (ProviderStream), for any body of frames: the events a parser has sent  *)
(* are those of the frames it has looked at.                               *)
(***************************************************************************)
EXTENDS NodeStore, ProviderStream, SequenceTheorems, TLAPS

-----------------------------------------------------------------------------
(* The queues: the inductive invariant.                                    *)

(* No item was issued that a later enqueue would issue again.              *)
OnlyIssued ==
    /\ \A n \in Nodes : Items(pending[n]) \subseteq 1 .. issued
    /\ \A c \in NodeClients : Items(Has(c)) \subseteq 1 .. issued

(* An item waits once, in one queue.                                       *)
WaitsOnce ==
    \A n, m \in Nodes :
        /\ IsInjective(pending[n])
        /\ n # m => Items(pending[n]) \cap Items(pending[m]) = {}

(* An item that waits has not been handed out.                             *)
NotYetOut == \A n \in Nodes, c \in NodeClients : Items(pending[n]) \cap Items(Has(c)) = {}

NodeInv == NodeTypeOK /\ QueueConserved /\ OnlyIssued /\ WaitsOnce /\ NotYetOut /\ WorkOnce

-----------------------------------------------------------------------------
(* Facts about sequences without repetitions.                              *)

(* Joining two such sequences that have nothing in common.                 *)
LEMMA Joined ==
    ASSUME NEW S, NEW s \in Seq(S), NEW t \in Seq(S)
    PROVE  /\ s \o t \in Seq(S)
           /\ Items(s \o t) = Items(s) \cup Items(t)
           /\ IsInjective(s) /\ IsInjective(t) /\ Items(s) \cap Items(t) = {}
                => IsInjective(s \o t)
<1>1. /\ s \o t \in Seq(S)
      /\ Len(s \o t) = Len(s) + Len(t)
      /\ \A i \in 1 .. Len(s) + Len(t) :
             (s \o t)[i] = IF i <= Len(s) THEN s[i] ELSE t[i - Len(s)]
  BY ConcatProperties
<1>2. Items(s \o t) \subseteq Items(s) \cup Items(t)
  BY <1>1 DEF Items
<1>3. \A i \in 1 .. Len(s) : i \in 1 .. Len(s) + Len(t) /\ (s \o t)[i] = s[i]
  BY <1>1
<1>4. \A i \in 1 .. Len(t) :
          Len(s) + i \in 1 .. Len(s) + Len(t) /\ (s \o t)[Len(s) + i] = t[i]
  BY <1>1
<1>5. Items(s) \cup Items(t) \subseteq Items(s \o t)
  BY <1>1, <1>3, <1>4 DEF Items
<1>6. ASSUME IsInjective(s), IsInjective(t), Items(s) \cap Items(t) = {}
      PROVE  IsInjective(s \o t)
  <2> SUFFICES ASSUME NEW i \in 1 .. Len(s) + Len(t), NEW j \in 1 .. Len(s) + Len(t),
                      (s \o t)[i] = (s \o t)[j]
               PROVE  i = j
    BY <1>1 DEF IsInjective
  <2>1. CASE i <= Len(s) /\ j <= Len(s)
    BY <1>1, <1>6, <2>1 DEF IsInjective
  <2>2. CASE i > Len(s) /\ j > Len(s)
    <3>1. i - Len(s) \in DOMAIN t /\ j - Len(s) \in DOMAIN t /\ t[i - Len(s)] = t[j - Len(s)]
      BY <1>1, <2>2
    <3> QED BY <3>1, <1>6 DEF IsInjective
  <2>3. CASE i <= Len(s) /\ j > Len(s)
    <3>1. s[i] \in Items(s) /\ t[j - Len(s)] \in Items(t) /\ s[i] = t[j - Len(s)]
      BY <1>1, <2>3 DEF Items
    <3> QED BY <3>1, <1>6
  <2>4. CASE i > Len(s) /\ j <= Len(s)
    <3>1. t[i - Len(s)] \in Items(t) /\ s[j] \in Items(s) /\ s[j] = t[i - Len(s)]
      BY <1>1, <2>4 DEF Items
    <3> QED BY <3>1, <1>6
  <2> QED BY <2>1, <2>2, <2>3, <2>4
<1> QED BY <1>1, <1>2, <1>5, <1>6

(* Cutting one in two.                                                     *)
LEMMA CutInTwo ==
    ASSUME NEW S, NEW s \in Seq(S), NEW k \in 0 .. Len(s)
    PROVE  LET p == SubSeq(s, 1, k)
               r == SubSeq(s, k + 1, Len(s))
           IN /\ p \in Seq(S) /\ r \in Seq(S)
              /\ p \o r = s
              /\ Items(p) \subseteq Items(s) /\ Items(r) \subseteq Items(s)
              /\ IsInjective(s) => /\ IsInjective(p) /\ IsInjective(r)
                                   /\ Items(p) \cap Items(r) = {}
<1> DEFINE p == SubSeq(s, 1, k)
           r == SubSeq(s, k + 1, Len(s))
<1>1. p \in Seq(S) /\ Len(p) = k /\ \A i \in 1 .. k : p[i] = s[i]
  BY SubSeqProperties
<1>2. r \in Seq(S) /\ Len(r) = Len(s) - k /\ \A i \in 1 .. Len(s) - k : r[i] = s[k + i]
  BY SubSeqProperties
<1>3. p \o r = s
  <2>1. /\ 1 \in 1 .. Len(s) + 1 /\ k \in 1 - 1 .. Len(s) /\ Len(s) \in k .. Len(s)
    OBVIOUS
  <2>2. p \o r = SubSeq(s, 1, Len(s))
    BY <2>1, ConcatAdjacentSubSeq, Zenon
  <2> QED BY <2>2, SubSeqFull, Zenon
<1>4. Items(p) \subseteq Items(s) /\ Items(r) \subseteq Items(s)
  <2> HIDE DEF p, r
  <2>1. Items(p \o r) = Items(p) \cup Items(r)
    BY <1>1, <1>2, Joined, Zenon
  <2> QED BY <2>1, <1>3
<1>5. ASSUME IsInjective(s)
      PROVE  /\ IsInjective(p) /\ IsInjective(r)
             /\ Items(p) \cap Items(r) = {}
  <2>1. IsInjective(p)
    BY <1>1, <1>5 DEF IsInjective
  <2>2. IsInjective(r)
    <3> HIDE DEF r
    <3>1. DOMAIN r = 1 .. Len(s) - k
      BY <1>2
    <3> SUFFICES ASSUME NEW i \in 1 .. Len(s) - k, NEW j \in 1 .. Len(s) - k, r[i] = r[j]
                 PROVE  i = j
      BY <3>1 DEF IsInjective
    <3>2. k + i \in DOMAIN s /\ k + j \in DOMAIN s /\ s[k + i] = s[k + j]
      BY <1>2
    <3>3. k + i = k + j
      BY <3>2, <1>5, Zenon DEF IsInjective
    <3> QED BY <3>3
  <2>3. Items(p) \cap Items(r) = {}
    <3> HIDE DEF p, r
    <3> SUFFICES ASSUME NEW w \in Items(p), w \in Items(r)
                 PROVE  FALSE
      OBVIOUS
    <3>1. PICK i \in 1 .. k : w = p[i]
      BY <1>1 DEF Items
    <3>2. PICK j \in 1 .. Len(s) - k : w = r[j]
      BY <1>2 DEF Items
    <3>3. i \in DOMAIN s /\ k + j \in DOMAIN s /\ i # k + j
      OBVIOUS
    <3>4. s[i] = w
      BY <1>1, <3>1, Zenon
    <3>5. s[k + j] = w
      BY <1>2, <3>2, Zenon
    <3> QED BY <3>3, <3>4, <3>5, <1>5, Zenon DEF IsInjective
  <2> QED BY <2>1, <2>2, <2>3
<1> QED BY <1>1, <1>2, <1>3, <1>4, <1>5

(* Adding an item that is not there.                                       *)
LEMMA Appended ==
    ASSUME NEW S, NEW s \in Seq(S), NEW w \in S
    PROVE  /\ Append(s, w) \in Seq(S)
           /\ Items(Append(s, w)) = Items(s) \cup {w}
           /\ IsInjective(s) /\ w \notin Items(s) => IsInjective(Append(s, w))
<1>1. <<w>> \in Seq(S) /\ Items(<<w>>) = {w} /\ IsInjective(<<w>>)
  BY DEF Items, IsInjective
<1>2. Append(s, w) = s \o <<w>>
  BY AppendIsConcat
<1>3. w \notin Items(s) => Items(s) \cap Items(<<w>>) = {}
  BY <1>1
<1>4. /\ s \o <<w>> \in Seq(S)
      /\ Items(s \o <<w>>) = Items(s) \cup Items(<<w>>)
      /\ IsInjective(s) /\ IsInjective(<<w>>) /\ Items(s) \cap Items(<<w>>) = {}
           => IsInjective(s \o <<w>>)
  BY <1>1, Joined, Zenon
<1> QED BY <1>1, <1>2, <1>3, <1>4, Zenon

(* The same for sequences of work.                                         *)
LEMMA WorkJoined ==
    \A s, t \in Seq(Work) :
        /\ Items(s \o t) = Items(s) \cup Items(t)
        /\ IsInjective(s) /\ IsInjective(t) /\ Items(s) \cap Items(t) = {}
             => IsInjective(s \o t)
<1> TAKE s, t \in Seq(Work)
<1> QED BY Joined, Zenon

LEMMA FirstPart ==
    \A s, t \in Seq(Work) : IsInjective(s \o t) => IsInjective(s)
<1> TAKE s, t \in Seq(Work)
<1>1. /\ s \o t \in Seq(Work) /\ Len(s \o t) = Len(s) + Len(t)
      /\ \A i \in 1 .. Len(s) + Len(t) :
             (s \o t)[i] = IF i <= Len(s) THEN s[i] ELSE t[i - Len(s)]
  BY ConcatProperties
<1>2. /\ DOMAIN s = 1 .. Len(s) /\ DOMAIN (s \o t) = 1 .. Len(s) + Len(t)
      /\ 1 .. Len(s) \subseteq 1 .. Len(s) + Len(t)
  BY <1>1
<1>3. \A i \in 1 .. Len(s) : (s \o t)[i] = s[i]
  BY <1>1, <1>2
<1> QED BY <1>2, <1>3, Zenon DEF IsInjective

LEMMA WorkAssociative ==
    \A s, t, u \in Seq(Work) : (s \o t) \o u = s \o (t \o u)
<1> TAKE s, t, u \in Seq(Work)
<1> QED BY ConcatAssociative, SMTT(30)

-----------------------------------------------------------------------------
(* The invariant holds at the start and is preserved, action by action.    *)

LEMMA HasTyped ==
    ASSUME NodeTypeOK, NEW c \in NodeClients
    PROVE  Has(c) \in Seq(Work)
BY ConcatProperties DEF NodeTypeOK, Has

LEMMA InitInv == NodeInit => NodeInv
<1> SUFFICES ASSUME NodeInit PROVE NodeInv
  OBVIOUS
<1> USE DEF NodeInit
<1>1. NodeTypeOK
  BY NodeAssumption DEF NodeTypeOK, NodeAssumption
<1>2. \A c \in NodeClients : Has(c) = <<>>
  BY DEF Has
<1>3. Items(<<>>) = {} /\ IsInjective(<<>>)
  BY DEF Items, IsInjective
<1>4. QueueConserved
  BY DEF QueueConserved
<1>5. OnlyIssued /\ WaitsOnce /\ NotYetOut /\ WorkOnce
  BY <1>2, <1>3 DEF OnlyIssued, WaitsOnce, NotYetOut, WorkOnce
<1> QED BY <1>1, <1>4, <1>5 DEF NodeInv

(* A new item is put behind one queue.                                     *)
LEMMA EnqueueInv ==
    ASSUME NodeInv, NEW n \in Nodes, Enqueue(n)
    PROVE  NodeInv'
<1> DEFINE w == issued + 1
<1>1. NodeTypeOK /\ QueueConserved /\ OnlyIssued /\ WaitsOnce /\ NotYetOut /\ WorkOnce
  BY DEF NodeInv
<1>2. /\ issued \in Nat /\ w \in Work /\ issued' = w
      /\ w \notin 1 .. issued /\ 1 .. issued \subseteq 1 .. issued'
      /\ w \in 1 .. issued'
  BY <1>1, NodeAssumption DEF NodeTypeOK, Enqueue, Work, NodeAssumption
<1> HIDE DEF w
<1>3. /\ pending' = [pending EXCEPT ![n] = Append(@, w)]
      /\ accepted' = [accepted EXCEPT ![n] = Append(@, w)]
      /\ UNCHANGED <<nodePairs, invokes, answers, held, gone, drained>>
  BY DEF Enqueue, w
<1>4. pending \in [Nodes -> Seq(Work)] /\ accepted \in [Nodes -> Seq(Work)]
      /\ drained \in [Nodes -> Seq(Work)]
  BY <1>1 DEF NodeTypeOK
<1>5. \A c \in NodeClients : Has(c)' = Has(c)
  BY <1>3 DEF Has
<1>6. \A m \in Nodes : m # n => pending'[m] = pending[m] /\ accepted'[m] = accepted[m]
  BY <1>3, <1>4
<1>7. pending'[n] = Append(pending[n], w) /\ accepted'[n] = Append(accepted[n], w)
  BY <1>3, <1>4
<1>8. pending[n] \in Seq(Work) /\ w \notin Items(pending[n]) /\ IsInjective(pending[n])
  BY <1>1, <1>2, <1>4 DEF OnlyIssued, WaitsOnce
<1>9. Items(pending'[n]) = Items(pending[n]) \cup {w} /\ IsInjective(pending'[n])
  <2>1. w \in Work
    BY <1>2
  <2>2. /\ Items(Append(pending[n], w)) = Items(pending[n]) \cup {w}
        /\ IsInjective(pending[n]) /\ w \notin Items(pending[n])
             => IsInjective(Append(pending[n], w))
    BY ZenonT(30), <2>1, <1>8, Appended
  <2> QED BY <2>2, <1>7, <1>8, Zenon
<1>10. NodeTypeOK'
  <2>1. pending' \in [Nodes -> Seq(Work)] /\ accepted' \in [Nodes -> Seq(Work)]
    BY <1>2, <1>3, <1>4
  <2>2. issued' \in 0 .. MaxWork
    BY <1>2, NodeAssumption DEF Work, NodeAssumption
  <2> QED BY <2>1, <2>2, <1>1, <1>3 DEF NodeTypeOK
<1>11. QueueConserved'
  <2> SUFFICES ASSUME NEW m \in Nodes PROVE drained'[m] \o pending'[m] = accepted'[m]
    BY DEF QueueConserved
  <2>1. drained[m] \o pending[m] = accepted[m] /\ drained'[m] = drained[m]
    BY <1>1, <1>3 DEF QueueConserved
  <2>2. CASE m # n
    BY <2>1, <2>2, <1>6
  <2>3. CASE m = n
    <3>1. drained[n] \in Seq(Work) /\ <<w>> \in Seq(Work) /\ accepted[n] \in Seq(Work)
      BY <1>2, <1>4
    <3>2. (drained[n] \o pending[n]) \o <<w>> = drained[n] \o (pending[n] \o <<w>>)
      BY <3>1, <1>8, WorkAssociative
    <3>3. pending'[n] = pending[n] \o <<w>> /\ accepted'[n] = accepted[n] \o <<w>>
      BY <3>1, <1>2, <1>7, <1>8, AppendIsConcat
    <3> QED BY <3>2, <3>3, <2>1, <2>3
  <2> QED BY <2>2, <2>3
<1>12. OnlyIssued'
  BY <1>1, <1>2, <1>5, <1>6, <1>9 DEF OnlyIssued
<1>13. WaitsOnce'
  <2>1. \A m \in Nodes : w \notin Items(pending[m])
    BY <1>1, <1>2 DEF OnlyIssued
  <2>2. \A m \in Nodes : IsInjective(pending'[m])
    BY <1>1, <1>6, <1>9 DEF WaitsOnce
  <2>3. \A m, o \in Nodes : m # o => Items(pending'[m]) \cap Items(pending'[o]) = {}
    BY <2>1, <1>1, <1>6, <1>9 DEF WaitsOnce
  <2> QED BY <2>2, <2>3 DEF WaitsOnce
<1>14. NotYetOut'
  <2>1. \A c \in NodeClients : w \notin Items(Has(c))
    BY <1>1, <1>2 DEF OnlyIssued
  <2> QED BY <2>1, <1>1, <1>5, <1>6, <1>9 DEF NotYetOut
<1>15. WorkOnce'
  BY <1>1, <1>5 DEF WorkOnce
<1> QED BY <1>10, <1>11, <1>12, <1>13, <1>14, <1>15 DEF NodeInv

(* The first items of a queue are put behind what a client has.            *)
LEMMA DrainInv ==
    ASSUME NodeInv, NEW c \in NodeClients, NEW n \in Nodes, NEW limit \in DrainLimits,
           Drain(c, n, limit)
    PROVE  NodeInv'
<1> DEFINE q == pending[n]
           k == IF limit < Len(q) THEN limit ELSE Len(q)
           p == SubSeq(q, 1, k)
           r == SubSeq(q, k + 1, Len(q))
<1>1. NodeTypeOK /\ QueueConserved /\ OnlyIssued /\ WaitsOnce /\ NotYetOut /\ WorkOnce
  BY DEF NodeInv
<1>2. /\ pending' = [pending EXCEPT ![n] = r]
      /\ answers' = [answers EXCEPT ![c] = @ \o p]
      /\ drained' = [drained EXCEPT ![n] = @ \o p]
      /\ UNCHANGED <<nodePairs, invokes, held, gone, issued, accepted>>
  BY DEF Drain
<1>3. /\ pending \in [Nodes -> Seq(Work)] /\ drained \in [Nodes -> Seq(Work)]
      /\ answers \in [NodeClients -> Seq(Work)] /\ held \in [NodeClients -> Seq(Work)]
      /\ q \in Seq(Work)
  BY <1>1 DEF NodeTypeOK
<1>4. k \in 0 .. Len(q)
  BY <1>3, NodeAssumption DEF NodeAssumption
<1> HIDE DEF q, k
<1>5. /\ p \in Seq(Work) /\ r \in Seq(Work)
      /\ p \o r = q
      /\ Items(p) \subseteq Items(q) /\ Items(r) \subseteq Items(q)
      /\ IsInjective(q) => /\ IsInjective(p) /\ IsInjective(r)
                           /\ Items(p) \cap Items(r) = {}
  BY <1>3, <1>4, CutInTwo, Zenon
<1> HIDE DEF p, r
<1>6. /\ pending'[n] = r /\ drained'[n] = drained[n] \o p
      /\ \A m \in Nodes : m # n => pending'[m] = pending[m] /\ drained'[m] = drained[m]
  BY <1>2, <1>3
<1>7. \A d \in NodeClients : d # c => Has(d)' = Has(d)
  BY <1>2, <1>3 DEF Has
<1>8. Has(c)' = Has(c) \o p
  <2>1. held[c] \in Seq(Work) /\ answers[c] \in Seq(Work)
    BY <1>3
  <2>2. (held[c] \o answers[c]) \o p = held[c] \o (answers[c] \o p)
    BY <2>1, <1>5, WorkAssociative
  <2> QED BY <2>2, <1>2, <1>3 DEF Has
<1>9. /\ IsInjective(q) /\ Items(q) \subseteq 1 .. issued
      /\ \A m \in Nodes : m # n => Items(q) \cap Items(pending[m]) = {}
      /\ \A d \in NodeClients : Items(q) \cap Items(Has(d)) = {}
  BY <1>1 DEF WaitsOnce, OnlyIssued, NotYetOut, q
<1>10. /\ Items(Has(c)') = Items(Has(c)) \cup Items(p)
       /\ IsInjective(Has(c)')
  <2>1. Has(c) \in Seq(Work) /\ IsInjective(Has(c))
    BY <1>1, HasTyped DEF WorkOnce
  <2>2. Items(Has(c)) \cap Items(p) = {}
    BY <1>5, <1>9
  <2>3. /\ Items(Has(c) \o p) = Items(Has(c)) \cup Items(p)
        /\ IsInjective(Has(c)) /\ IsInjective(p) /\ Items(Has(c)) \cap Items(p) = {}
             => IsInjective(Has(c) \o p)
    BY <2>1, <1>5, WorkJoined
  <2> QED BY <2>1, <2>2, <2>3, <1>5, <1>8, <1>9, Zenon
<1>11. NodeTypeOK'
  <2>1. answers[c] \o p \in Seq(Work) /\ drained[n] \o p \in Seq(Work)
    BY <1>3, <1>5, ConcatProperties
  <2>2. /\ pending' \in [Nodes -> Seq(Work)] /\ drained' \in [Nodes -> Seq(Work)]
        /\ answers' \in [NodeClients -> Seq(Work)]
    BY <2>1, <1>2, <1>3, <1>5
  <2> QED BY <2>2, <1>1, <1>2 DEF NodeTypeOK
<1>12. QueueConserved'
  <2> SUFFICES ASSUME NEW m \in Nodes PROVE drained'[m] \o pending'[m] = accepted'[m]
    BY DEF QueueConserved
  <2>1. drained[m] \o pending[m] = accepted[m] /\ accepted'[m] = accepted[m]
    BY <1>1, <1>2 DEF QueueConserved
  <2>2. CASE m # n
    BY <2>1, <2>2, <1>6
  <2>3. CASE m = n
    <3>1. drained[n] \in Seq(Work)
      BY <1>3
    <3>2. (drained[n] \o p) \o r = drained[n] \o (p \o r)
      BY <3>1, <1>5, WorkAssociative
    <3> QED BY <3>2, <2>1, <2>3, <1>5, <1>6 DEF q
  <2> QED BY <2>2, <2>3
<1>13. OnlyIssued'
  <2>1. \A m \in Nodes : Items(pending'[m]) \subseteq 1 .. issued
    BY <1>1, <1>5, <1>6, <1>9 DEF OnlyIssued
  <2>2. \A d \in NodeClients : Items(Has(d)') \subseteq 1 .. issued
    BY <1>1, <1>5, <1>7, <1>9, <1>10 DEF OnlyIssued
  <2> QED BY <2>1, <2>2, <1>2 DEF OnlyIssued
<1>14. WaitsOnce'
  <2>1. \A m \in Nodes : IsInjective(pending'[m])
    BY <1>1, <1>5, <1>6, <1>9 DEF WaitsOnce
  <2>2. \A m, o \in Nodes : m # o => Items(pending'[m]) \cap Items(pending'[o]) = {}
    BY <1>1, <1>5, <1>6, <1>9 DEF WaitsOnce
  <2> QED BY <2>1, <2>2 DEF WaitsOnce
<1>15. NotYetOut'
  <2> SUFFICES ASSUME NEW m \in Nodes, NEW d \in NodeClients
               PROVE  Items(pending'[m]) \cap Items(Has(d)') = {}
    BY DEF NotYetOut
  <2>1. Items(pending[m]) \cap Items(Has(d)) = {}
    BY <1>1 DEF NotYetOut
  <2>2. Items(pending'[m]) \subseteq Items(pending[m])
    BY <1>5, <1>6 DEF q
  <2>3. Items(pending'[m]) \cap Items(p) = {}
    BY <1>5, <1>6, <1>9
  <2> QED BY <2>1, <2>2, <2>3, <1>7, <1>10
<1>16. WorkOnce'
  <2>1. \A d \in NodeClients : IsInjective(Has(d)')
    BY <1>1, <1>7, <1>10 DEF WorkOnce
  <2>2. \A d \in NodeClients : Items(p) \cap Items(Has(d)) = {}
    BY <1>5, <1>9
  <2>3. \A d, e \in NodeClients : d # e => Items(Has(d)) \cap Items(Has(e)) = {}
    BY <1>1 DEF WorkOnce
  <2>4. \A d, e \in NodeClients : d # e => Items(Has(d)') \cap Items(Has(e)') = {}
    BY <2>2, <2>3, <1>7, <1>10
  <2> QED BY <2>1, <2>4 DEF WorkOnce
<1> QED BY <1>11, <1>12, <1>13, <1>14, <1>15, <1>16 DEF NodeInv

(* What was on its way to a client arrives, or is lost with its            *)
(* connection; the queues stay.                                            *)
LEMMA DeliveryInv ==
    ASSUME NodeInv, NEW c \in NodeClients, AnswerArrives(c) \/ NodeLeaves(c)
    PROVE  NodeInv'
<1>1. NodeTypeOK /\ QueueConserved /\ OnlyIssued /\ WaitsOnce /\ NotYetOut /\ WorkOnce
  BY DEF NodeInv
<1>2. /\ answers \in [NodeClients -> Seq(Work)] /\ held \in [NodeClients -> Seq(Work)]
      /\ UNCHANGED <<pending, nodePairs, invokes, issued, accepted, drained>>
  BY <1>1 DEF NodeTypeOK, AnswerArrives, NodeLeaves
<1>3. \A d \in NodeClients : d # c => Has(d)' = Has(d)
  BY <1>2 DEF Has, AnswerArrives, NodeLeaves
<1>4. /\ held[c] \in Seq(Work) /\ answers[c] \in Seq(Work) /\ <<>> \in Seq(Work)
      /\ Has(c) \in Seq(Work)
  BY <1>1, <1>2, HasTyped
<1>5. held[c] \o <<>> = held[c] /\ Has(c) \o <<>> = Has(c)
  BY <1>4, ConcatEmptySeq
<1>6. Items(Has(c)') \subseteq Items(Has(c)) /\ IsInjective(Has(c)')
  <2>1. CASE AnswerArrives(c)
    <3>1. Has(c)' = Has(c) \o <<>>
      BY <2>1, <1>2 DEF Has, AnswerArrives
    <3> QED BY <3>1, <1>1, <1>5 DEF WorkOnce
  <2>2. CASE NodeLeaves(c)
    <3>1. Has(c)' = held[c]
      BY <2>2, <1>2, <1>5 DEF Has, NodeLeaves
    <3>2. Items(Has(c)) = Items(held[c]) \cup Items(answers[c])
      BY <1>4, WorkJoined DEF Has
    <3>3. IsInjective(Has(c))
      BY <1>1 DEF WorkOnce
    <3>4. IsInjective(held[c])
      BY <3>3, <1>4, FirstPart DEF Has
    <3> QED BY <3>1, <3>2, <3>4
  <2> QED BY <2>1, <2>2
<1>7. NodeTypeOK'
  <2>1. held[c] \o answers[c] \in Seq(Work)
    BY <1>4 DEF Has
  <2>2. answers' \in [NodeClients -> Seq(Work)] /\ held' \in [NodeClients -> Seq(Work)]
    BY <2>1, <1>2, <1>4 DEF AnswerArrives, NodeLeaves
  <2>3. gone' \subseteq NodeClients
    BY <1>1 DEF NodeTypeOK, AnswerArrives, NodeLeaves
  <2> QED BY <2>2, <2>3, <1>1, <1>2 DEF NodeTypeOK
<1>8. QueueConserved' /\ WaitsOnce'
  BY <1>1, <1>2 DEF QueueConserved, WaitsOnce
<1>9. OnlyIssued'
  BY <1>1, <1>2, <1>3, <1>6 DEF OnlyIssued
<1>10. NotYetOut'
  <2>1. \A d \in NodeClients : Items(Has(d)') \subseteq Items(Has(d))
    BY <1>3, <1>6
  <2> QED BY <2>1, <1>1, <1>2 DEF NotYetOut
<1>11. WorkOnce'
  <2>1. \A d \in NodeClients : Items(Has(d)') \subseteq Items(Has(d)) /\ IsInjective(Has(d)')
    BY <1>1, <1>3, <1>6 DEF WorkOnce
  <2> QED BY <2>1, <1>1 DEF WorkOnce
<1> QED BY <1>7, <1>8, <1>9, <1>10, <1>11 DEF NodeInv

(* Pairing and invocations do not touch the queues.                        *)
LEMMA OthersInv ==
    ASSUME NodeInv,
           \/ \E n \in Nodes : PairRequest(n)
           \/ \E i \in 1 .. Len(nodePairs), st \in {"approved", "rejected"} : PairDecision(i, st)
           \/ Invoke
           \/ UNCHANGED nodeVars
    PROVE  NodeInv'
<1> DEFINE Pair == [node : Nodes, status : {"pending", "approved", "rejected"}]
<1>1. NodeTypeOK /\ QueueConserved /\ OnlyIssued /\ WaitsOnce /\ NotYetOut /\ WorkOnce
  BY DEF NodeInv
<1>2. UNCHANGED <<pending, answers, held, gone, issued, accepted, drained>>
  BY DEF PairRequest, PairDecision, Invoke, nodeVars
<1>3. \A c \in NodeClients : Has(c)' = Has(c)
  BY <1>2 DEF Has
<1>4. nodePairs' \in Seq(Pair) /\ invokes' \in Nat
  <2>1. nodePairs \in Seq(Pair) /\ invokes \in Nat
    BY <1>1 DEF NodeTypeOK
  <2>2. CASE \E n \in Nodes : PairRequest(n)
    <3>1. PICK n \in Nodes : PairRequest(n)
      BY <2>2
    <3>2. [node |-> n, status |-> "pending"] \in Pair
      OBVIOUS
    <3> QED BY <2>1, <3>1, <3>2, AppendProperties DEF PairRequest
  <2>3. CASE \E i \in 1 .. Len(nodePairs), st \in {"approved", "rejected"} : PairDecision(i, st)
    <3>1. PICK i \in 1 .. Len(nodePairs), st \in {"approved", "rejected"} : PairDecision(i, st)
      BY <2>3
    <3>2. [nodePairs[i] EXCEPT !.status = st] \in Pair
      <4>1. nodePairs[i] \in Pair
        BY <2>1, ElementOfSeq
      <4> QED BY <4>1
    <3>3. nodePairs' = [nodePairs EXCEPT ![i] = [nodePairs[i] EXCEPT !.status = st]]
      BY <3>1 DEF PairDecision
    <3>4. [nodePairs EXCEPT ![i] = [nodePairs[i] EXCEPT !.status = st]] \in Seq(Pair)
      BY <2>1, <3>2, ExceptSeq
    <3> QED BY <2>1, <3>1, <3>3, <3>4 DEF PairDecision
  <2>4. CASE Invoke \/ UNCHANGED nodeVars
    BY <2>1, <2>4 DEF Invoke, nodeVars
  <2> QED BY <2>2, <2>3, <2>4
<1>5. NodeTypeOK'
  BY <1>1, <1>2, <1>4 DEF NodeTypeOK
<1>6. QueueConserved' /\ OnlyIssued' /\ WaitsOnce' /\ NotYetOut' /\ WorkOnce'
  BY <1>1, <1>2, <1>3 DEF QueueConserved, OnlyIssued, WaitsOnce, NotYetOut, WorkOnce
<1> QED BY <1>5, <1>6 DEF NodeInv

LEMMA StepInv == NodeInv /\ [NodeNext]_nodeVars => NodeInv'
<1> SUFFICES ASSUME NodeInv, [NodeNext]_nodeVars PROVE NodeInv'
  OBVIOUS
<1>1. CASE \E n \in Nodes : Enqueue(n)
  BY <1>1, EnqueueInv
<1>2. CASE \E c \in NodeClients, n \in Nodes, limit \in DrainLimits : Drain(c, n, limit)
  BY <1>2, DrainInv
<1>3. CASE \E c \in NodeClients : AnswerArrives(c) \/ NodeLeaves(c)
  BY <1>3, DeliveryInv
<1>4. CASE \/ \E n \in Nodes : PairRequest(n)
           \/ \E i \in 1 .. Len(nodePairs), st \in {"approved", "rejected"} : PairDecision(i, st)
           \/ Invoke
           \/ UNCHANGED nodeVars
  BY <1>4, OthersInv
<1> QED BY <1>1, <1>2, <1>3, <1>4 DEF NodeNext

(* The queues and what left them, in every reachable state                 *)
(* (node.pending.enqueue and node.pending.drain, gateway/websocket.rs).    *)
THEOREM NodeInvariant == NodeSpec => []NodeInv
BY InitInv, StepInv, PTL DEF NodeSpec

(* However many connections poll a queue, no item is handed out twice      *)
(* (node.pending.drain, gateway/websocket.rs).                             *)
THEOREM WorkIsHandedOutOnce == NodeSpec => []WorkOnce
<1>1. NodeInv => WorkOnce
  BY DEF NodeInv
<1> QED BY <1>1, NodeInvariant, PTL

-----------------------------------------------------------------------------
(* The refinement.                                                         *)

LEMMA TakeMore ==
    \A d, q \in Seq(Work) : \A k \in 0 .. Len(q) :
        SubSeq(d \o q, 1, Len(d) + k) = d \o SubSeq(q, 1, k)
<1> TAKE d, q \in Seq(Work)
<1> TAKE k \in 0 .. Len(q)
<1>1. /\ SubSeq(q, 1, k) \in Seq(Work) /\ Len(SubSeq(q, 1, k)) = k
      /\ \A i \in 1 .. k : SubSeq(q, 1, k)[i] = q[i]
  BY SubSeqProperties
<1>2. /\ d \o q \in Seq(Work)
      /\ Len(d \o q) = Len(d) + Len(q)
      /\ \A i \in 1 .. Len(d) + Len(q) : (d \o q)[i] = IF i <= Len(d) THEN d[i] ELSE q[i - Len(d)]
  BY ConcatProperties
<1>3. /\ SubSeq(d \o q, 1, Len(d) + k) \in Seq(Work)
      /\ Len(SubSeq(d \o q, 1, Len(d) + k)) = Len(d) + k
      /\ \A i \in 1 .. Len(d) + k : SubSeq(d \o q, 1, Len(d) + k)[i] = (d \o q)[i]
  BY <1>2, SubSeqProperties
<1>4. /\ d \o SubSeq(q, 1, k) \in Seq(Work)
      /\ Len(d \o SubSeq(q, 1, k)) = Len(d) + k
      /\ \A i \in 1 .. Len(d) + k :
             (d \o SubSeq(q, 1, k))[i] = IF i <= Len(d) THEN d[i] ELSE q[i - Len(d)]
  BY <1>1, ConcatProperties
<1> QED BY <1>2, <1>3, <1>4, SeqEqual

(* Enqueue is Accept, a drain that finds something is Take, and every      *)
(* other step is a stutter.                                                *)
LEMMA StepQueue == NodeInv /\ [NodeNext]_nodeVars => [Queue!Next]_<<accepted, drained>>
<1> SUFFICES ASSUME NodeInv, [NodeNext]_nodeVars
             PROVE  [Queue!Next]_<<accepted, drained>>
  OBVIOUS
<1>1. NodeTypeOK /\ QueueConserved
  BY DEF NodeInv
<1>2. ASSUME NEW n \in Nodes, Enqueue(n) PROVE Queue!Accept(n)
  <2>1. issued + 1 \in Work
    BY <1>1, <1>2, NodeAssumption DEF NodeTypeOK, Enqueue, Work, NodeAssumption
  <2> QED BY <2>1, <1>2 DEF Enqueue, Queue!Accept
<1>3. ASSUME NEW c \in NodeClients, NEW n \in Nodes, NEW limit \in DrainLimits,
             Drain(c, n, limit)
      PROVE  Queue!Take(n) \/ UNCHANGED <<accepted, drained>>
  <2> DEFINE q == pending[n]
             d == drained[n]
             k == IF limit < Len(q) THEN limit ELSE Len(q)
  <2>1. /\ drained' = [drained EXCEPT ![n] = d \o SubSeq(q, 1, k)]
        /\ UNCHANGED accepted
    BY <1>3 DEF Drain
  <2>2. /\ q \in Seq(Work) /\ d \in Seq(Work) /\ d \o q = accepted[n]
        /\ drained \in [Nodes -> Seq(Work)]
    BY <1>1 DEF NodeTypeOK, QueueConserved
  <2>3. k \in 0 .. Len(q)
    BY <2>2, NodeAssumption DEF NodeAssumption
  <2> HIDE DEF q, d, k
  <2>4. CASE k = 0
    <3>1. SubSeq(q, 1, 0) = <<>> /\ d \o <<>> = d
      BY <2>2, SubSeqEmpty, ConcatEmptySeq
    <3> QED BY <3>1, <2>1, <2>2, <2>4 DEF d
  <2>5. CASE k > 0
    <3>1. drained' = [drained EXCEPT ![n] = SubSeq(accepted[n], 1, Len(d) + k)]
      BY <2>1, <2>2, <2>3, TakeMore
    <3>2. Len(d) + k \in Len(d) + 1 .. Len(accepted[n])
      BY <2>2, <2>3, <2>5, ConcatProperties
    <3> QED BY <3>1, <3>2, <2>1 DEF Queue!Take, d
  <2> QED BY <2>3, <2>4, <2>5
<1>4. ASSUME \/ \E c \in NodeClients : AnswerArrives(c) \/ NodeLeaves(c)
             \/ \E n \in Nodes : PairRequest(n)
             \/ \E i \in 1 .. Len(nodePairs), st \in {"approved", "rejected"} : PairDecision(i, st)
             \/ Invoke
             \/ UNCHANGED nodeVars
      PROVE  UNCHANGED <<accepted, drained>>
  BY <1>4 DEF AnswerArrives, NodeLeaves, PairRequest, PairDecision, Invoke, nodeVars
<1> QED BY <1>2, <1>3, <1>4 DEF NodeNext, Queue!Next

(* The work queued for nodes implements the abstract queue: items are      *)
(* taken in the order in which they were accepted, each once               *)
(* (node.pending.*, gateway/websocket.rs).                                 *)
THEOREM QueuesImplementWorkQueue == NodeSpec => ImplementsWorkQueue
<1>1. NodeInit => Queue!Init
  BY DEF NodeInit, Queue!Init
<1>2. NodeInv /\ [NodeNext]_nodeVars => [Queue!Next]_<<accepted, drained>>
  BY StepQueue
<1> QED BY <1>1, <1>2, NodeInvariant, PTL DEF NodeSpec, ImplementsWorkQueue, Queue!Spec

-----------------------------------------------------------------------------
(* Provider streams (ProviderStream).  While a stream runs, its events are *)
(* right for the frames looked at (d is a dialect, s a body, p what the    *)
(* parser has): no event is the last, texts and calls are those of the     *)
(* frames, and an open block holds the fragments since its start.          *)
Told == [kind : {"delta", "tool", "error", "done"}, at : Nat, holds : Seq(Nat),
         text : {"intact", "garbled"}]
BlockRecords == [state : {"closed", "open"}, frags : Seq(Nat), text : {"intact", "garbled"}]
Parsers == [at : Nat, open : [Blocks -> BlockRecords], joined : Seq(Nat), out : Seq(Told),
            state : {"go", "end", "error", "done"}]

OutRuns(p) ==
    /\ \A k \in 1 .. Len(p.out) :
        /\ p.out[k].kind \in {"delta", "tool"} /\ p.out[k].at \in 1 .. p.at
        /\ \A m \in 1 .. Len(p.out[k].holds) : p.out[k].holds[m] \in 1 .. p.at
    /\ \A k, l \in 1 .. Len(p.out) : k < l => p.out[k].at < p.out[l].at

TextsRun(d, s, p) ==
    /\ d.texts = "each" =>
        /\ p.joined = <<>>
        /\ \A i \in 1 .. p.at : IsA(s, i, "text") => Sends(p, i, "delta")
        /\ \A k \in 1 .. Len(p.out) : p.out[k].kind = "delta" => DeltaRight(d, s, p.out[k])
    /\ d.texts = "joined" =>
        /\ p.out = <<>> /\ Ascending(p.joined)
        /\ \A m \in 1 .. Len(p.joined) : p.joined[m] \in 1 .. p.at /\ IsA(s, p.joined[m], "text")
        /\ \A i \in 1 .. p.at : IsA(s, i, "text") => \E m \in 1 .. Len(p.joined) : p.joined[m] = i

HasFrags(d, s, b, block, j, i) ==
    /\ FragsOf(s, b, j, i, block.frags)
    /\ block.text = "garbled" <=> TornIn(d, s, block.frags)

BlockRuns(d, s, b, block, i) ==
    /\ block.state = "open" => \E j \in 1 .. i - 1 : HasFrags(d, s, b, block, j, i)
    /\ block.state = "closed" => \A j \in 1 .. i - 1 : ~OpenSince(s, b, j, i)

BlocksRun(d, s, p) ==
    d.tools = "assembled" => \A b \in Blocks : BlockRuns(d, s, b, p.open[b], p.at + 1)

Runs(d, s, p) ==
    /\ p \in Parsers /\ p.at <= Len(s)
    /\ OutRuns(p) /\ TextsRun(d, s, p) /\ CallsAsRead(d, s, p) /\ GarbledWhereTorn(d, s, p)
    /\ BlocksRun(d, s, p)

(* What a look at frame f does, the mark of an end or an error left out.   *)
Looked(d, p, f, q) ==
    LET n == p.at + 1
        b == f.block
        assembled == d.tools = "assembled"
    IN /\ q \in Parsers /\ q.at = n
       /\ \/ /\ f.kind = "text" /\ d.texts = "each"
             /\ q.out = Append(p.out, Event("delta", n, <<n>>, Decoded(d, f)))
             /\ q.open = p.open /\ q.joined = p.joined
          \/ /\ f.kind = "text" /\ d.texts = "joined"
             /\ q.joined = Append(p.joined, n)
             /\ q.out = p.out /\ q.open = p.open
          \/ /\ f.kind = "start" /\ assembled
             /\ q.open = [p.open EXCEPT ![b] = Inserted]
             /\ q.out = p.out /\ q.joined = p.joined
          \/ /\ f.kind = "frag" /\ assembled /\ p.open[b].state = "open"
             /\ q.open = [p.open EXCEPT ![b] = Pushed(p.open[b], n, Decoded(d, f))]
             /\ q.out = p.out /\ q.joined = p.joined
          \/ /\ f.kind = "stop" /\ assembled /\ p.open[b].state = "open"
             /\ q.open = [p.open EXCEPT ![b] = Removed(p.open[b])]
             /\ q.out = Append(p.out, Event("tool", n, p.open[b].frags, p.open[b].text))
             /\ q.joined = p.joined
          \/ /\ f.kind = "frag" /\ d.tools = "apart"
             /\ q.out = Append(p.out, Event("tool", n, <<n>>, "intact"))
             /\ q.open = p.open /\ q.joined = p.joined
          \/ /\ f.kind = "call" /\ d.tools = "whole"
             /\ q.out = Append(p.out, Sent("tool", n))
             /\ q.open = p.open /\ q.joined = p.joined
          \/ /\ f.kind # "text" /\ (f.kind = "start" => ~assembled)
             /\ f.kind \in {"frag", "stop"} /\ assembled => p.open[b].state = "closed"
             /\ f.kind = "frag" => d.tools # "apart"
             /\ f.kind = "call" => d.tools # "whole"
             /\ q.out = p.out /\ q.open = p.open /\ q.joined = p.joined

LEMMA FrameIs ==
    ASSUME NEW f \in Frames
    PROVE  /\ f.kind \in {"start", "frag", "stop", "text", "error", "end", "junk", "call"}
           /\ f.kind \in {"start", "frag", "stop"} => f.block \in Blocks
BY DEF Frames

LEMMA DialectIs ==
    ASSUME NEW d \in Dialects
    PROVE  /\ d.reads \in {"chunks", "messages", "whole"} /\ d.texts \in {"each", "joined"}
           /\ d.tools \in {"assembled", "apart", "whole", "dropped"}
           /\ d.broken \in {"error", "done"}
           /\ d.reads = "chunks" => d.tools = "assembled" /\ d.texts = "each"
           /\ d.texts = "joined" => d.reads = "whole" /\ d.tools = "dropped" /\ ~d.endMark /\ d.broken = "error"
           /\ d.reads = "whole" => d.broken = "error"
           /\ d.reads = "chunks" => d.broken = "error"
<1> USE DEF Dialect
<1>1. CASE d = AnthropicStream
  BY <1>1 DEF AnthropicStream
<1>2. CASE d = CompatStream
  BY <1>2 DEF CompatStream
<1>3. CASE d = OpenAiStream
  BY <1>3 DEF OpenAiStream
<1>4. CASE d = BedrockStream
  BY <1>4 DEF BedrockStream
<1>5. CASE d = OllamaStream
  BY <1>5 DEF OllamaStream
<1>6. CASE d = CodexSocket
  BY <1>6 DEF CodexSocket
<1>7. CASE d = GeminiStream
  BY <1>7 DEF GeminiStream
<1> QED BY <1>1, <1>2, <1>3, <1>4, <1>5, <1>6, <1>7 DEF Dialects

(* The events after one more.                                              *)
LEMMA OneMoreEvent ==
    ASSUME NEW o \in Seq(Told), NEW e \in Told, NEW r, r = Append(o, e)
    PROVE  /\ r \in Seq(Told) /\ Len(o) \in Nat /\ Len(r) = Len(o) + 1
           /\ \A k \in 1 .. Len(o) : r[k] = o[k]
           /\ r[Len(o) + 1] = e
           /\ \A k \in 1 .. Len(r) : k \in 1 .. Len(o) \/ k = Len(o) + 1
BY AppendProperties

LEMMA OneMorePlace ==
    ASSUME NEW o \in Seq(Nat), NEW e \in Nat, NEW r, r = Append(o, e)
    PROVE  /\ r \in Seq(Nat) /\ Len(o) \in Nat /\ Len(r) = Len(o) + 1
           /\ \A k \in 1 .. Len(o) : r[k] = o[k]
           /\ r[Len(o) + 1] = e
           /\ \A k \in 1 .. Len(r) : k \in 1 .. Len(o) \/ k = Len(o) + 1
BY AppendProperties

(* Events that grow by one: what was sent stays sent.                      *)
Grows(p, q, e) ==
    /\ e \in Told /\ Len(p.out) \in Nat /\ Len(q.out) = Len(p.out) + 1
    /\ \A k \in 1 .. Len(p.out) : k \in 1 .. Len(q.out) /\ q.out[k] = p.out[k]
    /\ q.out[Len(p.out) + 1] = e
    /\ \A k \in 1 .. Len(q.out) : k \in 1 .. Len(p.out) \/ k = Len(p.out) + 1

LEMMA GrowsByOne ==
    ASSUME NEW p \in Parsers, NEW q, NEW e \in Told, q.out = Append(p.out, e)
    PROVE  Grows(p, q, e)
<1>1. p.out \in Seq(Told)
  BY DEF Parsers
<1>2. PICK o \in Seq(Told), r \in Seq(Told) : o = p.out /\ r = q.out /\ r = Append(o, e)
  BY <1>1
<1>3. /\ Len(o) \in Nat /\ Len(r) = Len(o) + 1
      /\ \A k \in 1 .. Len(o) : r[k] = o[k]
      /\ r[Len(o) + 1] = e
      /\ \A k \in 1 .. Len(r) : k \in 1 .. Len(o) \/ k = Len(o) + 1
  BY <1>2, OneMoreEvent
<1> QED BY <1>2, <1>3 DEF Grows

LEMMA StillSent ==
    ASSUME NEW p, NEW q, NEW e, Grows(p, q, e)
    PROVE  /\ \A i, kind : Sends(p, i, kind) => Sends(q, i, kind)
           /\ Sends(q, e.at, e.kind)
<1>1. ASSUME NEW i, NEW kind, Sends(p, i, kind) PROVE Sends(q, i, kind)
  <2>1. PICK k \in 1 .. Len(p.out) : p.out[k].kind = kind /\ p.out[k].at = i
    BY <1>1 DEF Sends
  <2>2. k \in 1 .. Len(q.out) /\ q.out[k] = p.out[k]
    BY <2>1 DEF Grows
  <2> QED BY <2>1, <2>2 DEF Sends
<1>2. Sends(q, e.at, e.kind)
  <2>1. Len(p.out) + 1 \in 1 .. Len(q.out) /\ q.out[Len(p.out) + 1] = e
    BY DEF Grows
  <2> QED BY <2>1 DEF Sends
<1> QED BY <1>1, <1>2

LEMMA OutGrows ==
    ASSUME NEW p \in Parsers, NEW q \in Parsers, NEW e, OutRuns(p), Grows(p, q, e),
           q.at = p.at + 1, e.at = q.at, e.kind \in {"delta", "tool"},
           \A m \in 1 .. Len(e.holds) : e.holds[m] \in 1 .. q.at
    PROVE  OutRuns(q)
<1>1. p.at \in Nat
  BY DEF Parsers
<1>2. ASSUME NEW k \in 1 .. Len(q.out)
      PROVE  /\ q.out[k].kind \in {"delta", "tool"} /\ q.out[k].at \in 1 .. q.at
             /\ \A m \in 1 .. Len(q.out[k].holds) : q.out[k].holds[m] \in 1 .. q.at
  <2>1. CASE k \in 1 .. Len(p.out)
    <3>1. q.out[k] = p.out[k]
      BY <2>1 DEF Grows
    <3> QED BY <1>1, <2>1, <3>1 DEF OutRuns
  <2>2. CASE k = Len(p.out) + 1
    <3>1. q.out[k] = e
      BY <2>2 DEF Grows
    <3> QED BY <1>1, <3>1
  <2> QED BY <2>1, <2>2 DEF Grows
<1>3. ASSUME NEW k \in 1 .. Len(q.out), NEW l \in 1 .. Len(q.out), k < l
      PROVE  q.out[k].at < q.out[l].at
  <2>0. Len(p.out) \in Nat /\ Len(q.out) = Len(p.out) + 1
    BY DEF Grows
  <2>1. k \in 1 .. Len(p.out)
    BY <1>3, <2>0
  <2>2. q.out[k] = p.out[k] /\ p.out[k].at \in 1 .. p.at
    BY <2>1 DEF Grows, OutRuns
  <2>3. CASE l \in 1 .. Len(p.out)
    <3>1. q.out[l] = p.out[l]
      BY <2>3 DEF Grows
    <3> QED BY <1>3, <2>1, <2>2, <2>3, <3>1 DEF OutRuns
  <2>4. CASE l = Len(p.out) + 1
    <3>1. q.out[l].at = p.at + 1
      BY <2>4 DEF Grows
    <3> QED BY <1>1, <2>2, <3>1
  <2> QED BY <2>3, <2>4 DEF Grows
<1> QED BY <1>2, <1>3 DEF OutRuns

LEMMA OutStays ==
    ASSUME NEW p \in Parsers, NEW q, OutRuns(p), q.out = p.out, q.at = p.at + 1
    PROVE  OutRuns(q)
<1>1. p.at \in Nat /\ \A i \in 1 .. p.at : i \in 1 .. p.at + 1
  BY DEF Parsers
<1>2. ASSUME NEW k \in 1 .. Len(p.out)
      PROVE  /\ p.out[k].kind \in {"delta", "tool"} /\ p.out[k].at \in 1 .. p.at + 1
             /\ \A m \in 1 .. Len(p.out[k].holds) : p.out[k].holds[m] \in 1 .. p.at + 1
  BY <1>1 DEF OutRuns
<1> QED BY <1>2 DEF OutRuns

(* What one event more may be: right for frame n, and due to it.           *)
Due(d, s, n, e) ==
    /\ e \in Told /\ e.at = n
    /\ \A m \in 1 .. Len(e.holds) : e.holds[m] \in 1 .. n
    /\ e.text = "garbled" <=> TornIn(d, s, e.holds)
    /\ \/ e.kind = "delta" /\ d.texts = "each" /\ IsA(s, n, "text") /\ DeltaRight(d, s, e)
       \/ e.kind = "tool" /\ ~IsA(s, n, "text") /\ CallRight(d, s, e)

Silent(d, s, n) == ~CallDue(d, s, n) /\ (d.texts = "each" => ~IsA(s, n, "text"))

LEMMA LookTells ==
    ASSUME NEW d \in Dialects, NEW s \in Seq(Frames), NEW p, Runs(d, s, p), p.at < Len(s),
           NEW f \in Frames, f = s[p.at + 1], NEW q, Looked(d, p, f, q)
    PROVE  \/ q.out = p.out /\ Silent(d, s, p.at + 1)
           \/ \E e : Due(d, s, p.at + 1, e) /\ q.out = Append(p.out, e)
<1> DEFINE n == p.at + 1
           b == f.block
<1>1. /\ p \in Parsers /\ p.at \in Nat /\ n \in Nat \ {0} /\ n \in 1 .. n /\ n \in 1 .. Len(s)
      /\ s[n] = f
  BY DEF Runs, Parsers
<1>2. \A kind : IsA(s, n, kind) <=> f.kind = kind
  BY <1>1 DEF IsA
<1>3. /\ f.kind \in {"start", "frag", "stop", "text", "error", "end", "junk", "call"}
      /\ f.kind \in {"start", "frag", "stop"} => f.block \in Blocks
  BY FrameIs
<1>4. <<n>> \in Seq(Nat) /\ Len(<<n>>) = 1 /\ <<n>>[1] = n /\ Ascending(<<n>>)
  BY <1>1 DEF Ascending
<1>5. TornIn(d, s, <<n>>) <=> d.reads = "chunks" /\ f.torn
  <2>1. PICK h \in Seq(Nat), k \in Nat : h = <<n>> /\ k = n /\ Len(h) = 1 /\ h[1] = k
    BY <1>1, <1>4
  <2>2. \A m \in 1 .. Len(h) : s[h[m]] = f
    BY <1>1, <2>1
  <2>3. 1 \in 1 .. Len(h)
    BY <2>1
  <2>4. TornIn(d, s, h) <=> d.reads = "chunks" /\ f.torn
    BY <2>2, <2>3 DEF TornIn
  <2> QED BY <2>1, <2>4
<1>6. <<>> \in Seq(Nat) /\ Len(<<>>) = 0 /\ ~TornIn(d, s, <<>>)
  BY DEF TornIn
<1>d. /\ d.reads \in {"chunks", "messages", "whole"} /\ d.texts \in {"each", "joined"}
      /\ d.tools \in {"assembled", "apart", "whole", "dropped"}
      /\ d.reads = "chunks" => d.tools = "assembled" /\ d.texts = "each"
      /\ d.texts = "joined" => d.reads = "whole" /\ d.tools = "dropped"
  BY DialectIs
<1>7. CASE f.kind = "text" /\ d.texts = "each" /\ q.out = Append(p.out, Event("delta", n, <<n>>, Decoded(d, f)))
  <2> DEFINE e == Event("delta", n, <<n>>, Decoded(d, f))
  <2>1. e \in Told /\ e.at = n /\ e.holds = <<n>> /\ e.kind = "delta" /\ e.text = Decoded(d, f)
    BY <1>1, <1>4 DEF Event, Told, Decoded
  <2>2. e.text = "garbled" <=> TornIn(d, s, e.holds)
    BY <2>1, <1>5 DEF Decoded
  <2>3. DeltaRight(d, s, e)
    <3>1. \A m \in 1 .. Len(e.holds) : IsA(s, e.holds[m], "text")
      BY <1>2, <1>4, <1>7, <2>1
    <3> QED BY <1>4, <2>1, <3>1 DEF DeltaRight
  <2>4. Due(d, s, n, e)
    BY <1>1, <1>2, <1>4, <1>7, <2>1, <2>2, <2>3 DEF Due
  <2> QED BY <1>7, <2>4
<1>8. CASE f.kind = "text" /\ d.texts = "joined" /\ q.out = p.out
  <2>1. ~IsA(s, n, "stop") /\ ~IsA(s, n, "call") /\ ~IsA(s, n, "frag")
    BY <1>2, <1>8
  <2> QED BY <1>8, <2>1 DEF Silent, CallDue
<1>9. CASE f.kind = "start" /\ q.out = p.out
  <2>1. ~IsA(s, n, "stop") /\ ~IsA(s, n, "call") /\ ~IsA(s, n, "frag") /\ ~IsA(s, n, "text")
    BY <1>2, <1>9
  <2> QED BY <1>9, <2>1 DEF Silent, CallDue
<1>10. CASE f.kind = "frag" /\ d.tools = "assembled" /\ q.out = p.out
  <2>1. ~IsA(s, n, "stop") /\ ~IsA(s, n, "call") /\ ~IsA(s, n, "text")
    BY <1>2, <1>10
  <2> QED BY <1>10, <2>1 DEF Silent, CallDue
<1>11. CASE /\ f.kind = "stop" /\ d.tools = "assembled" /\ p.open[b].state = "open"
            /\ q.out = Append(p.out, Event("tool", n, p.open[b].frags, p.open[b].text))
  <2> DEFINE block == p.open[b]
             e == Event("tool", n, block.frags, block.text)
  <2>1. b \in Blocks /\ block \in BlockRecords
    BY <1>1, <1>3, <1>11 DEF Parsers
  <2>2. e \in Told /\ e.at = n /\ e.holds = block.frags /\ e.kind = "tool" /\ e.text = block.text
    BY <1>1, <2>1 DEF Event, Told, BlockRecords
  <2>3. PICK j \in 1 .. n - 1 : HasFrags(d, s, b, block, j, n)
    BY <1>1, <1>11, <2>1 DEF Runs, BlocksRun, BlockRuns
  <2>4. FragsOf(s, b, j, n, e.holds) /\ (e.text = "garbled" <=> TornIn(d, s, e.holds))
    BY <2>2, <2>3 DEF HasFrags
  <2>5. CallRight(d, s, e)
    <3>1. d.tools = "assembled" /\ IsA(s, e.at, "stop")
      BY <1>2, <1>11, <2>2
    <3>2. e.at = n /\ s[e.at].block = b
      <4>1. e.at = n
        BY <2>2, Zenon
      <4>2. s[n] = f
        BY <1>1, Zenon
      <4> QED BY <4>1, <4>2, Zenon DEF b
    <3>3. j \in 1 .. e.at - 1 /\ FragsOf(s, s[e.at].block, j, e.at, e.holds)
      <4> HIDE DEF e, n, b, block
      <4> QED BY <2>3, <2>4, <3>2, Zenon
    <3> QED BY <3>1, <3>3, Zenon DEF CallRight
  <2>6. \A m \in 1 .. Len(e.holds) : e.holds[m] \in 1 .. n
    <3>1. \A x \in FragsBetween(s, b, j, n) : x \in 1 .. n
      BY <1>1 DEF FragsBetween
    <3> QED BY <2>4, <3>1 DEF FragsOf
  <2>7. ~IsA(s, n, "text")
    BY <1>2, <1>11
  <2>8. Due(d, s, n, e)
    BY <2>2, <2>4, <2>5, <2>6, <2>7 DEF Due
  <2> QED BY <1>11, <2>8
<1>12. CASE f.kind = "frag" /\ d.tools = "apart" /\ q.out = Append(p.out, Event("tool", n, <<n>>, "intact"))
  <2> DEFINE e == Event("tool", n, <<n>>, "intact")
  <2>1. e \in Told /\ e.at = n /\ e.holds = <<n>> /\ e.kind = "tool" /\ e.text = "intact"
    BY <1>1, <1>4 DEF Event, Told
  <2>2. e.text = "garbled" <=> TornIn(d, s, e.holds)
    BY <2>1, <1>5, <1>12, <1>d
  <2>3. CallRight(d, s, e)
    BY <1>2, <1>12, <2>1 DEF CallRight
  <2>4. ~IsA(s, n, "text")
    <3>1. IsA(s, n, "text") <=> f.kind = "text"
      BY <1>2
    <3> QED BY <1>12, <3>1
  <2>5. \A m \in 1 .. Len(e.holds) : e.holds[m] \in 1 .. n
    BY <1>1, <1>4, <2>1
  <2>6. Due(d, s, n, e)
    BY <2>1, <2>2, <2>3, <2>4, <2>5 DEF Due
  <2> QED BY <1>12, <2>6
<1>13. CASE f.kind = "call" /\ d.tools = "whole" /\ q.out = Append(p.out, Sent("tool", n))
  <2> DEFINE e == Sent("tool", n)
  <2>1. e \in Told /\ e.at = n /\ e.holds = <<>> /\ e.kind = "tool" /\ e.text = "intact"
    BY <1>1, <1>6 DEF Event, Told, Sent
  <2>2. e.text = "garbled" <=> TornIn(d, s, e.holds)
    BY <2>1, <1>6
  <2>3. CallRight(d, s, e)
    BY <1>2, <1>13, <2>1 DEF CallRight
  <2>4. Due(d, s, n, e)
    BY <1>1, <1>2, <1>6, <1>13, <2>1, <2>2, <2>3 DEF Due
  <2> QED BY <1>13, <2>4
<1>14. CASE /\ f.kind # "text"
            /\ f.kind \in {"frag", "stop"} /\ d.tools = "assembled" => p.open[b].state = "closed"
            /\ f.kind = "frag" => d.tools # "apart"
            /\ f.kind = "call" => d.tools # "whole"
            /\ q.out = p.out
  <2>1. ASSUME f.kind = "stop", d.tools = "assembled"
        PROVE  \A j \in 1 .. n - 1 : ~OpenSince(s, b, j, n)
    BY <1>1, <1>3, <1>14, <2>1 DEF Runs, BlocksRun, BlockRuns
  <2>2. ~CallDue(d, s, n)
    BY <1>1, <1>2, <1>14, <2>1 DEF CallDue
  <2> QED BY <1>2, <1>14, <2>2 DEF Silent
<1>15. \/ f.kind = "text" /\ d.texts = "each" /\ q.out = Append(p.out, Event("delta", n, <<n>>, Decoded(d, f)))
       \/ f.kind = "text" /\ d.texts = "joined" /\ q.out = p.out
       \/ f.kind = "start" /\ q.out = p.out
       \/ f.kind = "frag" /\ d.tools = "assembled" /\ q.out = p.out
       \/ /\ f.kind = "stop" /\ d.tools = "assembled" /\ p.open[b].state = "open"
          /\ q.out = Append(p.out, Event("tool", n, p.open[b].frags, p.open[b].text))
       \/ f.kind = "frag" /\ d.tools = "apart" /\ q.out = Append(p.out, Event("tool", n, <<n>>, "intact"))
       \/ f.kind = "call" /\ d.tools = "whole" /\ q.out = Append(p.out, Sent("tool", n))
       \/ /\ f.kind # "text"
          /\ f.kind \in {"frag", "stop"} /\ d.tools = "assembled" => p.open[b].state = "closed"
          /\ f.kind = "frag" => d.tools # "apart"
          /\ f.kind = "call" => d.tools # "whole"
          /\ q.out = p.out
  BY Zenon DEF Looked, n, b
<1> HIDE DEF n, b
<1> QED BY <1>7, <1>8, <1>9, <1>10, <1>11, <1>12, <1>13, <1>14, <1>15, Zenon

(* The events, the calls, the texts and the characters after a look.       *)
LEMMA LookKeepsOut ==
    ASSUME NEW d \in Dialects, NEW s \in Seq(Frames), NEW p, Runs(d, s, p), p.at < Len(s),
           NEW q \in Parsers, q.at = p.at + 1,
           \/ q.out = p.out /\ Silent(d, s, p.at + 1)
           \/ \E e : Due(d, s, p.at + 1, e) /\ q.out = Append(p.out, e)
    PROVE  OutRuns(q) /\ CallsAsRead(d, s, q) /\ GarbledWhereTorn(d, s, q)
<1> DEFINE n == p.at + 1
<1>1. p \in Parsers /\ OutRuns(p) /\ CallsAsRead(d, s, p) /\ GarbledWhereTorn(d, s, p)
  BY DEF Runs
<1>2. p.at \in Nat /\ \A i \in 1 .. n : i \in 1 .. p.at \/ i = n
  BY <1>1 DEF Parsers
<1>3. CASE q.out = p.out /\ Silent(d, s, n)
  <2>1. OutRuns(q)
    BY <1>1, <1>3, OutStays
  <2>2. \A i, kind : Sends(p, i, kind) <=> Sends(q, i, kind)
    BY <1>3 DEF Sends
  <2>3. CallsAsRead(d, s, q)
    BY <1>1, <1>2, <1>3, <2>2 DEF CallsAsRead, Silent
  <2> QED BY <1>1, <1>3, <2>1, <2>3 DEF GarbledWhereTorn
<1>4. ASSUME NEW e, Due(d, s, n, e), q.out = Append(p.out, e)
      PROVE  OutRuns(q) /\ CallsAsRead(d, s, q) /\ GarbledWhereTorn(d, s, q)
  <2>0. e \in Told /\ e.at = n /\ e.kind \in {"delta", "tool"}
    BY <1>4 DEF Due
  <2>1. Grows(p, q, e)
    BY <1>1, <1>4, <2>0, GrowsByOne
  <2>2. OutRuns(q)
    BY <1>1, <1>4, <2>0, <2>1, OutGrows DEF Due
  <2>3. /\ \A i, kind : Sends(p, i, kind) => Sends(q, i, kind)
        /\ Sends(q, e.at, e.kind)
    BY <2>1, StillSent
  <2>4. ASSUME NEW i \in 1 .. q.at, CallDue(d, s, i) PROVE Sends(q, i, "tool")
    <3>1. CASE i \in 1 .. p.at
      BY <1>1, <2>3, <2>4, <3>1 DEF CallsAsRead
    <3>2. CASE i = n
      <4>1. ~IsA(s, n, "text")
        BY <2>4, <3>2 DEF CallDue, IsA
      <4>2. e.kind = "tool"
        BY <1>4, <4>1 DEF Due
      <4> QED BY <2>0, <2>3, <3>2, <4>2
    <3> QED BY <1>2, <3>1, <3>2
  <2>5. ASSUME NEW k \in 1 .. Len(q.out)
        PROVE  /\ q.out[k].kind = "tool" => CallRight(d, s, q.out[k])
               /\ q.out[k].text = "garbled" <=> TornIn(d, s, q.out[k].holds)
    <3>1. CASE k \in 1 .. Len(p.out)
      <4>1. q.out[k] = p.out[k]
        BY <2>1, <3>1 DEF Grows
      <4> QED BY <1>1, <3>1, <4>1 DEF CallsAsRead, GarbledWhereTorn
    <3>2. CASE k = Len(p.out) + 1
      <4>1. q.out[k] = e
        BY <2>1, <3>2 DEF Grows
      <4> QED BY <1>4, <4>1 DEF Due
    <3> QED BY <2>1, <3>1, <3>2 DEF Grows
  <2> QED BY <2>2, <2>4, <2>5 DEF CallsAsRead, GarbledWhereTorn
<1> HIDE DEF n
<1> QED BY <1>3, <1>4 DEF n

LEMMA LookKeepsTexts ==
    ASSUME NEW d \in Dialects, NEW s \in Seq(Frames), NEW p, Runs(d, s, p), p.at < Len(s),
           NEW f \in Frames, f = s[p.at + 1], NEW q, Looked(d, p, f, q),
           \/ q.out = p.out /\ Silent(d, s, p.at + 1)
           \/ \E e : Due(d, s, p.at + 1, e) /\ q.out = Append(p.out, e)
    PROVE  TextsRun(d, s, q)
<1> DEFINE n == p.at + 1
<1>1. p \in Parsers /\ TextsRun(d, s, p) /\ q \in Parsers /\ q.at = n
  BY DEF Runs, Looked
<1>2. /\ p.at \in Nat /\ n \in Nat /\ n \in 1 .. Len(s) /\ n \in 1 .. n
      /\ \A i \in 1 .. n : i \in 1 .. p.at \/ i = n
      /\ \A i \in 1 .. p.at : i \in 1 .. n
  BY <1>1 DEF Parsers
<1>d. d.texts \in {"each", "joined"} /\ (d.texts = "joined" => d.tools = "dropped")
  BY DialectIs
<1>3. \/ q.joined = p.joined /\ (d.texts = "joined" => f.kind # "text")
      \/ q.joined = Append(p.joined, n) /\ d.texts = "joined" /\ f.kind = "text"
  BY DEF Looked
<1>4. CASE d.texts = "each"
  <2>1. q.joined = <<>>
    BY <1>1, <1>3, <1>4 DEF TextsRun
  <2>2. CASE q.out = p.out /\ Silent(d, s, n)
    <3>1. \A i \in 1 .. n : IsA(s, i, "text") => Sends(p, i, "delta")
      BY <1>1, <1>2, <1>4, <2>2 DEF TextsRun, Silent
    <3>2. \A i : Sends(p, i, "delta") <=> Sends(q, i, "delta")
      BY <2>2 DEF Sends
    <3> QED BY <1>1, <1>4, <2>1, <2>2, <3>1, <3>2 DEF TextsRun
  <2>3. ASSUME NEW e, Due(d, s, n, e), q.out = Append(p.out, e)
        PROVE  TextsRun(d, s, q)
    <3>0. e \in Told /\ e.at = n
      BY <2>3 DEF Due
    <3>1. Grows(p, q, e)
      BY <1>1, <2>3, <3>0, GrowsByOne
    <3>2. /\ \A i, kind : Sends(p, i, kind) => Sends(q, i, kind)
          /\ Sends(q, e.at, e.kind)
      BY <3>1, StillSent
    <3>3. ASSUME NEW i \in 1 .. n, IsA(s, i, "text") PROVE Sends(q, i, "delta")
      <4>1. CASE i \in 1 .. p.at
        BY <1>1, <1>4, <3>2, <3>3, <4>1 DEF TextsRun
      <4>2. CASE i = n
        <5>1. e.kind = "delta"
          BY <2>3, <3>3, <4>2 DEF Due
        <5> QED BY <3>0, <3>2, <4>2, <5>1
      <4> QED BY <1>2, <4>1, <4>2
    <3>4. ASSUME NEW k \in 1 .. Len(q.out), q.out[k].kind = "delta" PROVE DeltaRight(d, s, q.out[k])
      <4>1. CASE k \in 1 .. Len(p.out)
        <5>1. q.out[k] = p.out[k]
          BY <3>1, <4>1 DEF Grows
        <5> QED BY <1>1, <1>4, <3>4, <4>1, <5>1 DEF TextsRun
      <4>2. CASE k = Len(p.out) + 1
        <5>1. q.out[k] = e
          BY <3>1, <4>2 DEF Grows
        <5> QED BY <2>3, <3>4, <5>1 DEF Due
      <4> QED BY <3>1, <4>1, <4>2 DEF Grows
    <3> QED BY <1>1, <1>4, <2>1, <3>3, <3>4 DEF TextsRun
  <2> HIDE DEF n
  <2> QED BY <2>2, <2>3 DEF n
<1>5. CASE d.texts = "joined"
  <2>1. q.out = p.out /\ p.out = <<>>
    <3>1. \A e : ~Due(d, s, n, e)
      BY <1>d, <1>5 DEF Due, CallRight
    <3> QED BY <1>1, <1>5, <3>1 DEF TextsRun
  <2>2. /\ Ascending(p.joined) /\ p.joined \in Seq(Nat)
        /\ \A m \in 1 .. Len(p.joined) : p.joined[m] \in 1 .. p.at /\ IsA(s, p.joined[m], "text")
        /\ \A i \in 1 .. p.at : IsA(s, i, "text") => \E m \in 1 .. Len(p.joined) : p.joined[m] = i
    BY <1>1, <1>5 DEF TextsRun, Parsers
  <2>3. CASE q.joined = p.joined /\ f.kind # "text"
    <3>1. ~IsA(s, n, "text")
      BY <2>3 DEF IsA
    <3>2. /\ q.at = n /\ q.out = <<>> /\ d.texts # "each" /\ q.joined = p.joined
          /\ \A i \in 1 .. n : i \in 1 .. p.at \/ i = n
          /\ \A i \in 1 .. p.at : i \in 1 .. n
      BY <1>1, <1>2, <1>5, <2>1, <2>3
    <3>3. \A m \in 1 .. Len(q.joined) : q.joined[m] \in 1 .. q.at /\ IsA(s, q.joined[m], "text")
      <4> HIDE DEF n
      <4> QED BY <2>2, <3>2
    <3>4. \A i \in 1 .. q.at : IsA(s, i, "text") => \E m \in 1 .. Len(q.joined) : q.joined[m] = i
      <4> HIDE DEF n
      <4> QED BY <2>2, <3>1, <3>2
    <3> QED BY <2>2, <3>2, <3>3, <3>4 DEF TextsRun
  <2>4. CASE q.joined = Append(p.joined, n) /\ f.kind = "text"
    <3>1. IsA(s, n, "text")
      BY <1>2, <2>4 DEF IsA
    <3>a. p.joined \in Seq(Nat) /\ n \in Nat /\ q.joined = Append(p.joined, n)
      BY <1>2, <2>2, <2>4
    <3>b. Append(p.joined, n) \in Seq(Nat)
      BY <3>a
    <3>2. PICK o \in Seq(Nat), r \in Seq(Nat) : o = p.joined /\ r = q.joined /\ r = Append(o, n)
      <4> HIDE DEF n
      <4> QED BY <3>a, <3>b, Zenon
    <3>3. /\ Len(o) \in Nat /\ Len(r) = Len(o) + 1 /\ r[Len(o) + 1] = n
          /\ \A k \in 1 .. Len(o) : r[k] = o[k]
          /\ \A k \in 1 .. Len(r) : k \in 1 .. Len(o) \/ k = Len(o) + 1
      BY <1>2, <3>2, OneMorePlace
    <3>4. /\ \A k \in 1 .. Len(o) : k \in 1 .. Len(r)
          /\ Len(o) + 1 \in 1 .. Len(r)
      BY <3>3
    <3>5. \A m \in 1 .. Len(r) : r[m] \in 1 .. n /\ IsA(s, r[m], "text")
      BY <1>2, <2>2, <3>1, <3>2, <3>3
    <3>6. Ascending(r)
      <4>1. ASSUME NEW k \in 1 .. Len(r), NEW l \in 1 .. Len(r), k < l PROVE r[k] < r[l]
        <5>1. k \in 1 .. Len(o)
          BY <3>3, <4>1
        <5>2. r[k] = o[k] /\ o[k] \in 1 .. p.at
          BY <2>2, <3>2, <3>3, <5>1
        <5>3. CASE l \in 1 .. Len(o)
          BY <2>2, <3>2, <3>3, <4>1, <5>1, <5>3 DEF Ascending
        <5>4. CASE l = Len(o) + 1
          BY <1>2, <3>3, <5>2, <5>4
        <5> QED BY <3>3, <5>3, <5>4
      <4> QED BY <4>1 DEF Ascending
    <3>7. \A i \in 1 .. n : IsA(s, i, "text") => \E m \in 1 .. Len(r) : r[m] = i
      BY <1>2, <2>2, <3>2, <3>3, <3>4
    <3>8. q.joined = r /\ q.out = <<>> /\ d.texts # "each" /\ q.at = n
      BY <1>1, <1>5, <2>1, <3>2
    <3> HIDE DEF n
    <3> QED BY <3>5, <3>6, <3>7, <3>8 DEF TextsRun
  <2> QED BY <1>3, <1>5, <2>3, <2>4
<1> QED BY <1>d, <1>4, <1>5

(* What is open, and holds, one frame later.                               *)
OpenLater(s, n, c) ==
    /\ \A j \in 1 .. n : j \in 1 .. n - 1 \/ j = n
    /\ \A j \in 1 .. n - 1 : OpenSince(s, c, j, n + 1) <=>
         OpenSince(s, c, j, n) /\ (s[n].block = c => s[n].kind \notin {"start", "stop"})
    /\ OpenSince(s, c, n, n + 1) <=> s[n].kind = "start" /\ s[n].block = c
    /\ FragsBetween(s, c, n, n + 1) = {}
    /\ \A j \in 1 .. n - 1 : \A x : x \in FragsBetween(s, c, j, n + 1) <=>
         \/ x \in FragsBetween(s, c, j, n)
         \/ x = n /\ s[n].kind = "frag" /\ s[n].block = c

LEMMA OneFrameLater ==
    ASSUME NEW s, NEW n \in Nat \ {0}, NEW c
    PROVE  OpenLater(s, n, c)
<1>1. ASSUME NEW j \in 1 .. n - 1
      PROVE  /\ \A k \in j + 1 .. n + 1 - 1 : k \in j + 1 .. n - 1 \/ k = n
             /\ \A k \in j + 1 .. n - 1 : k \in j + 1 .. n + 1 - 1
             /\ n \in j + 1 .. n + 1 - 1
  OBVIOUS
<1>2. \A k : k \notin n + 1 .. n + 1 - 1
  OBVIOUS
<1>3. \A j \in 1 .. n - 1 : OpenSince(s, c, j, n + 1) <=>
        OpenSince(s, c, j, n) /\ (s[n].block = c => s[n].kind \notin {"start", "stop"})
  <2> TAKE j \in 1 .. n - 1
  <2>1. /\ \A k \in j + 1 .. n + 1 - 1 : k \in j + 1 .. n - 1 \/ k = n
        /\ \A k \in j + 1 .. n - 1 : k \in j + 1 .. n + 1 - 1
        /\ n \in j + 1 .. n + 1 - 1
    BY <1>1
  <2> DEFINE between == j + 1 .. n - 1
             after == j + 1 .. n + 1 - 1
  <2> HIDE DEF between, after
  <2>2. /\ OpenSince(s, c, j, n) <=> /\ s[j].kind = "start" /\ s[j].block = c
                                    /\ \A k \in between : s[k].block = c => s[k].kind \notin {"start", "stop"}
        /\ OpenSince(s, c, j, n + 1) <=> /\ s[j].kind = "start" /\ s[j].block = c
                                    /\ \A k \in after : s[k].block = c => s[k].kind \notin {"start", "stop"}
    BY DEF OpenSince, between, after
  <2>3. (\A k \in after : k \in between \/ k = n) /\ (\A k \in between : k \in after) /\ n \in after
    BY <2>1 DEF between, after
  <2> QED BY <2>2, <2>3, Zenon
<1>4. OpenSince(s, c, n, n + 1) <=> s[n].kind = "start" /\ s[n].block = c
  BY <1>2 DEF OpenSince
<1>5. FragsBetween(s, c, n, n + 1) = {}
  BY <1>2 DEF FragsBetween
<1>6. \A j \in 1 .. n - 1 : \A x : x \in FragsBetween(s, c, j, n + 1) <=>
        \/ x \in FragsBetween(s, c, j, n)
        \/ x = n /\ s[n].kind = "frag" /\ s[n].block = c
  BY <1>1 DEF FragsBetween
<1>7. \A j \in 1 .. n : j \in 1 .. n - 1 \/ j = n
  OBVIOUS
<1> QED BY <1>3, <1>4, <1>5, <1>6, <1>7, Zenon DEF OpenLater

LEMMA BlockUntouched ==
    ASSUME NEW d, NEW s, NEW n \in Nat \ {0}, NEW c, NEW block, BlockRuns(d, s, c, block, n),
           block.state \in {"open", "closed"},
           s[n].block = c => s[n].kind \notin {"start", "stop", "frag"} \/
                             (block.state = "closed" /\ s[n].kind # "start")
    PROVE  BlockRuns(d, s, c, block, n + 1)
<1>1. /\ \A j \in 1 .. n : j \in 1 .. n - 1 \/ j = n
      /\ \A j \in 1 .. n - 1 : OpenSince(s, c, j, n + 1) <=>
           OpenSince(s, c, j, n) /\ (s[n].block = c => s[n].kind \notin {"start", "stop"})
      /\ OpenSince(s, c, n, n + 1) <=> s[n].kind = "start" /\ s[n].block = c
      /\ \A j \in 1 .. n - 1 : \A x : x \in FragsBetween(s, c, j, n + 1) <=>
           \/ x \in FragsBetween(s, c, j, n)
           \/ x = n /\ s[n].kind = "frag" /\ s[n].block = c
  <2>1. OpenLater(s, n, c)
    BY OneFrameLater
  <2> QED BY <2>1, Zenon DEF OpenLater
<1>2. n + 1 - 1 = n /\ \A j \in 1 .. n - 1 : j \in 1 .. n
  OBVIOUS
<1>3. CASE block.state = "closed"
  <2>1. \A j \in 1 .. n - 1 : ~OpenSince(s, c, j, n)
    BY <1>3 DEF BlockRuns
  <2>2. \A j \in 1 .. n : ~OpenSince(s, c, j, n + 1)
    BY <1>1, <1>3, <2>1
  <2> QED BY <1>2, <1>3, <2>2 DEF BlockRuns
<1>4. CASE block.state = "open"
  <2>1. PICK j \in 1 .. n - 1 : HasFrags(d, s, c, block, j, n)
    BY <1>4 DEF BlockRuns
  <2>2. s[n].block = c => s[n].kind \notin {"start", "stop", "frag"}
    BY <1>4
  <2>3. OpenSince(s, c, j, n + 1)
    BY <1>1, <2>1, <2>2 DEF HasFrags, FragsOf
  <2>4. \A x : x \in FragsBetween(s, c, j, n + 1) <=> x \in FragsBetween(s, c, j, n)
    BY <1>1, <2>2
  <2>5. HasFrags(d, s, c, block, j, n + 1)
    BY <2>1, <2>3, <2>4 DEF HasFrags, FragsOf
  <2> QED BY <1>2, <1>4, <2>5 DEF BlockRuns
<1> QED BY <1>3, <1>4

LEMMA BlockStarts ==
    ASSUME NEW d, NEW s, NEW n \in Nat \ {0}, NEW c, s[n].block = c, s[n].kind = "start"
    PROVE  BlockRuns(d, s, c, Inserted, n + 1)
<1>1. OpenSince(s, c, n, n + 1) /\ FragsBetween(s, c, n, n + 1) = {}
  <2>1. OpenLater(s, n, c)
    BY OneFrameLater
  <2> QED BY <2>1 DEF OpenLater
<1>2. Inserted.state = "open" /\ Inserted.frags = <<>> /\ Inserted.text = "intact"
  BY DEF Inserted, Absent
<1>3. Len(<<>>) = 0 /\ Ascending(<<>>) /\ ~TornIn(d, s, <<>>)
  BY DEF Ascending, TornIn
<1>4. HasFrags(d, s, c, Inserted, n, n + 1)
  BY <1>1, <1>2, <1>3 DEF HasFrags, FragsOf
<1>5. n \in 1 .. n + 1 - 1
  OBVIOUS
<1> QED BY <1>2, <1>4, <1>5 DEF BlockRuns

LEMMA BlockStops ==
    ASSUME NEW d, NEW s, NEW n \in Nat \ {0}, NEW c, NEW block, s[n].block = c, s[n].kind = "stop"
    PROVE  BlockRuns(d, s, c, [block EXCEPT !.state = "closed"], n + 1) \/ block \notin BlockRecords
<1>1. \A j \in 1 .. n : j = n \/ n \in j + 1 .. n + 1 - 1
  OBVIOUS
<1>2. \A j \in 1 .. n : ~OpenSince(s, c, j, n + 1)
  <2> SUFFICES ASSUME NEW j \in 1 .. n, OpenSince(s, c, j, n + 1) PROVE FALSE
    OBVIOUS
  <2>1. CASE j = n
    BY <2>1 DEF OpenSince
  <2>2. CASE n \in j + 1 .. n + 1 - 1
    BY <2>2 DEF OpenSince
  <2> QED BY <1>1, <2>1, <2>2
<1>3. n + 1 - 1 = n
  OBVIOUS
<1> QED BY <1>2, <1>3 DEF BlockRuns, BlockRecords

LEMMA BlockPushed ==
    ASSUME NEW d, NEW s, NEW n \in Nat \ {0}, NEW c, NEW block \in BlockRecords,
           BlockRuns(d, s, c, block, n), block.state = "open",
           s[n].block = c, s[n].kind = "frag", s[n].torn \in BOOLEAN
    PROVE  BlockRuns(d, s, c, Pushed(block, n, Decoded(d, s[n])), n + 1)
<1> DEFINE text == Decoded(d, s[n])
           next == Pushed(block, n, text)
<1>1. PICK j \in 1 .. n - 1 : HasFrags(d, s, c, block, j, n)
  BY DEF BlockRuns
<1>2. /\ OpenSince(s, c, j, n + 1)
      /\ \A x : x \in FragsBetween(s, c, j, n + 1) <=> x \in FragsBetween(s, c, j, n) \/ x = n
  <2>1. OpenSince(s, c, j, n)
    BY <1>1 DEF HasFrags, FragsOf
  <2>2. OpenSince(s, c, j, n + 1) <=>
          OpenSince(s, c, j, n) /\ (s[n].block = c => s[n].kind \notin {"start", "stop"})
    <3>1. OpenLater(s, n, c)
      BY OneFrameLater
    <3> QED BY <3>1 DEF OpenLater
  <2>3. ASSUME NEW x
        PROVE  x \in FragsBetween(s, c, j, n + 1) <=>
                 \/ x \in FragsBetween(s, c, j, n)
                 \/ x = n /\ s[n].kind = "frag" /\ s[n].block = c
    <3>1. \A k : k \in j + 1 .. n + 1 - 1 <=> k \in j + 1 .. n - 1 \/ k = n
      OBVIOUS
    <3> QED BY <3>1 DEF FragsBetween
  <2> QED BY <2>1, <2>2, <2>3
<1>3. PICK o \in Seq(Nat), r \in Seq(Nat) : o = block.frags /\ r = Append(o, n)
  BY AppendProperties DEF BlockRecords
<1>4. next.frags = r /\ next.state = "open" /\ next.text = IF text = "garbled" THEN text ELSE block.text
  BY <1>3 DEF Pushed, BlockRecords
<1>5. /\ Len(o) \in Nat /\ Len(r) = Len(o) + 1 /\ r[Len(o) + 1] = n
      /\ \A k \in 1 .. Len(o) : r[k] = o[k]
      /\ \A k \in 1 .. Len(r) : k \in 1 .. Len(o) \/ k = Len(o) + 1
  BY <1>3, OneMorePlace
<1>6. /\ \A k \in 1 .. Len(o) : k \in 1 .. Len(r)
      /\ Len(o) + 1 \in 1 .. Len(r)
  BY <1>5
<1>7. /\ Ascending(o)
      /\ \A m \in 1 .. Len(o) : o[m] \in FragsBetween(s, c, j, n)
      /\ \A x \in FragsBetween(s, c, j, n) : \E m \in 1 .. Len(o) : o[m] = x
      /\ block.text = "garbled" <=> TornIn(d, s, o)
  BY <1>1, <1>3 DEF HasFrags, FragsOf
<1>8. \A x \in FragsBetween(s, c, j, n) : x \in Int /\ x < n
  BY DEF FragsBetween
<1>9. Ascending(r)
  <2>1. ASSUME NEW k \in 1 .. Len(r), NEW l \in 1 .. Len(r), k < l PROVE r[k] < r[l]
    <3>1. k \in 1 .. Len(o)
      BY <1>5, <2>1
    <3>2. r[k] = o[k] /\ o[k] \in FragsBetween(s, c, j, n)
      BY <1>5, <1>7, <3>1
    <3>3. CASE l \in 1 .. Len(o)
      BY <1>5, <1>7, <2>1, <3>1, <3>3 DEF Ascending
    <3>4. CASE l = Len(o) + 1
      BY <1>5, <1>8, <3>2, <3>4
    <3> QED BY <1>5, <3>3, <3>4
  <2> QED BY <2>1 DEF Ascending
<1>10. \A m \in 1 .. Len(r) : r[m] \in FragsBetween(s, c, j, n + 1)
  BY <1>2, <1>5, <1>7
<1>11. \A x \in FragsBetween(s, c, j, n + 1) : \E m \in 1 .. Len(r) : r[m] = x
  <2> TAKE x \in FragsBetween(s, c, j, n + 1)
  <2>1. CASE x = n
    BY <1>5, <1>6, <2>1
  <2>2. CASE x \in FragsBetween(s, c, j, n)
    <3>1. PICK m \in 1 .. Len(o) : o[m] = x
      BY <1>7, <2>2
    <3> QED BY <1>5, <1>6, <3>1
  <2> QED BY <1>2, <2>1, <2>2
<1>12. next.text = "garbled" <=> TornIn(d, s, r)
  <2>1. text = "garbled" <=> d.reads = "chunks" /\ s[n].torn
    BY DEF Decoded
  <2>2. next.text = "garbled" <=> text = "garbled" \/ block.text = "garbled"
    BY <1>4
  <2>3. (\E m \in 1 .. Len(r) : s[r[m]].torn) <=> s[n].torn \/ \E m \in 1 .. Len(o) : s[o[m]].torn
    BY <1>5, <1>6
  <2>4. TornIn(d, s, r) <=> (d.reads = "chunks" /\ s[n].torn) \/ TornIn(d, s, o)
    BY <2>3 DEF TornIn
  <2> HIDE DEF text, next
  <2> QED BY <1>7, <2>1, <2>2, <2>4
<1> HIDE DEF next
<1>13. HasFrags(d, s, c, next, j, n + 1)
  BY <1>2, <1>4, <1>9, <1>10, <1>11, <1>12 DEF HasFrags, FragsOf
<1>14. j \in 1 .. n + 1 - 1
  OBVIOUS
<1>15. BlockRuns(d, s, c, next, n + 1)
  BY <1>4, <1>13, <1>14 DEF BlockRuns
<1> QED BY <1>15 DEF next

LEMMA LookKeepsBlocks ==
    ASSUME NEW d \in Dialects, NEW s \in Seq(Frames), NEW p, Runs(d, s, p), p.at < Len(s),
           NEW f \in Frames, f = s[p.at + 1], NEW q, Looked(d, p, f, q)
    PROVE  BlocksRun(d, s, q)
<1> SUFFICES ASSUME d.tools = "assembled", NEW c \in Blocks
             PROVE  BlockRuns(d, s, c, q.open[c], q.at + 1)
  BY DEF BlocksRun
<1>1. PICK n \in Nat \ {0} : n = p.at + 1 /\ q.at = n
  BY DEF Looked, Runs, Parsers
<1>2. s[n] = f /\ f.torn \in BOOLEAN
  BY <1>1 DEF Frames
<1>3. p.open \in [Blocks -> BlockRecords] /\ p.open[c] \in BlockRecords
  BY DEF Runs, Parsers
<1>4. BlockRuns(d, s, c, p.open[c], n)
  BY <1>1 DEF Runs, BlocksRun
<1>5. p.open[c].state \in {"open", "closed"}
  BY <1>3 DEF BlockRecords
<1>6. CASE f.kind = "start" /\ q.open = [p.open EXCEPT ![f.block] = Inserted]
  <2>1. CASE f.block = c
    <3>1. q.open[c] = Inserted
      BY <1>3, <1>6, <2>1
    <3> QED BY <1>1, <1>2, <1>6, <2>1, <3>1, BlockStarts
  <2>2. CASE f.block # c
    <3>1. q.open[c] = p.open[c]
      BY <1>3, <1>6, <2>2
    <3> QED BY <1>1, <1>2, <1>4, <1>5, <2>2, <3>1, BlockUntouched
  <2> QED BY <2>1, <2>2
<1>7. CASE /\ f.kind = "frag" /\ p.open[f.block].state = "open"
           /\ q.open = [p.open EXCEPT ![f.block] = Pushed(p.open[f.block], n, Decoded(d, f))]
  <2>1. CASE f.block = c
    <3>1. q.open[c] = Pushed(p.open[c], n, Decoded(d, f))
      BY <1>3, <1>7, <2>1
    <3>2. s[n].block = c /\ s[n].kind = "frag" /\ s[n].torn \in BOOLEAN /\ p.open[c].state = "open"
      BY <1>2, <1>7, <2>1
    <3>3. BlockRuns(d, s, c, Pushed(p.open[c], n, Decoded(d, s[n])), n + 1)
      BY <1>3, <1>4, <3>2, BlockPushed
    <3> QED BY <1>1, <1>2, <3>1, <3>3
  <2>2. CASE f.block # c
    <3>1. q.open[c] = p.open[c]
      BY <1>3, <1>7, <2>2
    <3> QED BY <1>1, <1>2, <1>4, <1>5, <2>2, <3>1, BlockUntouched
  <2> QED BY <2>1, <2>2
<1>8. CASE f.kind = "stop" /\ q.open = [p.open EXCEPT ![f.block] = Removed(p.open[f.block])]
  <2>1. CASE f.block = c
    <3>1. q.open[c] = [p.open[c] EXCEPT !.state = "closed"]
      BY <1>3, <1>8, <2>1 DEF Removed
    <3>2. s[n].block = c /\ s[n].kind = "stop"
      BY <1>2, <1>8, <2>1
    <3>3. BlockRuns(d, s, c, [p.open[c] EXCEPT !.state = "closed"], n + 1)
      BY <1>3, <3>2, BlockStops
    <3> QED BY <1>1, <3>1, <3>3
  <2>2. CASE f.block # c
    <3>1. q.open[c] = p.open[c]
      BY <1>3, <1>8, <2>2
    <3> QED BY <1>1, <1>2, <1>4, <1>5, <2>2, <3>1, BlockUntouched
  <2> QED BY <2>1, <2>2
<1>9. CASE /\ q.open = p.open /\ f.kind # "start"
           /\ f.kind \in {"frag", "stop"} => p.open[f.block].state = "closed"
  BY <1>1, <1>2, <1>4, <1>5, <1>9, BlockUntouched
<1> QED BY <1>1, <1>6, <1>7, <1>8, <1>9 DEF Looked

LEMMA LookRuns ==
    ASSUME NEW d \in Dialects, NEW s \in Seq(Frames), NEW p, Runs(d, s, p), p.at < Len(s),
           NEW q, Looked(d, p, s[p.at + 1], q)
    PROVE  Runs(d, s, q)
<1>1. p.at \in Nat /\ Len(s) \in Nat /\ q \in Parsers /\ q.at = p.at + 1 /\ q.at <= Len(s)
  <2>1. p \in Parsers /\ q \in Parsers /\ q.at = p.at + 1
    BY DEF Runs, Looked
  <2>2. Len(s) \in Nat
    BY LenProperties
  <2>3. p.at \in Nat
    BY <2>1 DEF Parsers
  <2> QED BY <2>1, <2>2, <2>3
<1>2. PICK f \in Frames : f = s[p.at + 1]
  BY <1>1
<1>3. \/ q.out = p.out /\ Silent(d, s, p.at + 1)
      \/ \E e : Due(d, s, p.at + 1, e) /\ q.out = Append(p.out, e)
  BY <1>2, LookTells
<1>4. OutRuns(q) /\ CallsAsRead(d, s, q) /\ GarbledWhereTorn(d, s, q)
  BY <1>1, <1>3, LookKeepsOut
<1>5. TextsRun(d, s, q)
  BY <1>2, <1>3, LookKeepsTexts
<1>6. BlocksRun(d, s, q)
  BY <1>2, LookKeepsBlocks
<1> QED BY <1>1, <1>4, <1>5, <1>6 DEF Runs

-----------------------------------------------------------------------------
(* A look either is one of these, perhaps at an end mark, or tells an      *)
(* error, after which there is nothing to look at.                         *)
LookFails(p, q) ==
    /\ q.at = p.at /\ q.out = Append(p.out, Sent("error", p.at)) /\ q.state = "error"
    /\ q.joined = p.joined

LEMMA ParseIs ==
    ASSUME NEW d \in Dialects, NEW p \in Parsers, NEW f \in Frames, NEW q, q = Parse(d, p, f),
           p.state = "go"
    PROVE  \/ /\ Looked(d, p, f, q)
              /\ q.state = "go" \/ (q.state = "end" /\ d.endMark /\ f.kind = "end")
           \/ \E r : Looked(d, p, f, r) /\ LookFails(r, q)
<1> DEFINE n == p.at + 1
           b == f.block
<1>1. /\ p.at \in Nat /\ n \in Nat /\ p.open \in [Blocks -> BlockRecords]
      /\ p.joined \in Seq(Nat) /\ p.out \in Seq(Told) /\ p.state = "go"
      /\ p = [at |-> p.at, open |-> p.open, joined |-> p.joined, out |-> p.out, state |-> "go"]
  BY DEF Parsers
<1>2. /\ f.kind \in {"start", "frag", "stop", "text", "error", "end", "junk", "call"}
      /\ f.kind \in {"start", "frag", "stop"} => b \in Blocks
  BY FrameIs
<1>3. /\ Decoded(d, f) \in {"intact", "garbled"} /\ <<n>> \in Seq(Nat) /\ <<>> \in Seq(Nat)
  BY <1>1 DEF Decoded
<1>d. /\ d.texts \in {"each", "joined"}
      /\ d.tools \in {"assembled", "apart", "whole", "dropped"}
  BY DialectIs
<1>4. \A o, e : o \in Seq(Told) /\ e \in Told => Append(o, e) \in Seq(Told)
  BY AppendProperties
<1>5. CASE f.kind = "text"
  <2>1. CASE d.texts = "each"
    <3>1. q = [p EXCEPT !.at = n, !.out = Append(p.out, Event("delta", n, <<n>>, Decoded(d, f)))]
      BY <1>1, <1>5, <2>1 DEF Parse, Tells
    <3>2. Event("delta", n, <<n>>, Decoded(d, f)) \in Told
      BY <1>1, <1>3 DEF Event, Told
    <3>3. Append(p.out, Event("delta", n, <<n>>, Decoded(d, f))) \in Seq(Told)
      BY <1>1, <1>4, <3>2
    <3>4. /\ q \in Parsers /\ q.at = n /\ q.state = "go" /\ q.open = p.open /\ q.joined = p.joined
          /\ q.out = Append(p.out, Event("delta", n, <<n>>, Decoded(d, f)))
      BY <1>1, <3>1, <3>3 DEF Parsers
    <3> QED BY <1>5, <2>1, <3>4 DEF Looked
  <2>2. CASE d.texts = "joined"
    <3>1. q = [p EXCEPT !.at = n, !.joined = Append(p.joined, n)]
      BY <1>1, <1>5, <2>2 DEF Parse, Looks
    <3>2. Append(p.joined, n) \in Seq(Nat)
      BY <1>1, AppendProperties
    <3>3. /\ q \in Parsers /\ q.at = n /\ q.state = "go" /\ q.open = p.open /\ q.out = p.out
          /\ q.joined = Append(p.joined, n)
      BY <1>1, <3>1, <3>2 DEF Parsers
    <3> QED BY <1>5, <2>2, <3>3 DEF Looked
  <2> QED BY <1>d, <2>1, <2>2
<1>6. CASE f.kind = "start" /\ d.tools = "assembled"
  <2>1. q = [p EXCEPT !.at = n, !.open = [p.open EXCEPT ![b] = Inserted]]
    BY <1>1, <1>6 DEF Parse, Looks
  <2>2. Inserted \in BlockRecords
    BY <1>3 DEF Inserted, Absent, BlockRecords
  <2>3. [p.open EXCEPT ![b] = Inserted] \in [Blocks -> BlockRecords]
    BY <1>1, <2>2
  <2>4. /\ q \in Parsers /\ q.at = n /\ q.state = "go" /\ q.out = p.out /\ q.joined = p.joined
        /\ q.open = [p.open EXCEPT ![b] = Inserted]
    BY <1>1, <2>1, <2>3 DEF Parsers
  <2> QED BY <1>6, <2>4 DEF Looked
<1>7. CASE f.kind = "frag" /\ d.tools = "assembled" /\ p.open[b].state = "open"
  <2>1. q = [p EXCEPT !.at = n, !.open = [p.open EXCEPT ![b] = Pushed(p.open[b], n, Decoded(d, f))]]
    BY <1>1, <1>7 DEF Parse, Looks
  <2>2. Pushed(p.open[b], n, Decoded(d, f)) \in BlockRecords
    <3>1. p.open[b] \in BlockRecords
      BY <1>1, <1>2, <1>7
    <3>2. Append(p.open[b].frags, n) \in Seq(Nat)
      BY <1>1, <3>1, AppendProperties DEF BlockRecords
    <3> QED BY <1>3, <3>1, <3>2 DEF Pushed, BlockRecords
  <2>3. [p.open EXCEPT ![b] = Pushed(p.open[b], n, Decoded(d, f))] \in [Blocks -> BlockRecords]
    BY <1>1, <2>2
  <2>4. /\ q \in Parsers /\ q.at = n /\ q.state = "go" /\ q.out = p.out /\ q.joined = p.joined
        /\ q.open = [p.open EXCEPT ![b] = Pushed(p.open[b], n, Decoded(d, f))]
    BY <1>1, <2>1, <2>3 DEF Parsers
  <2> QED BY <1>7, <2>4 DEF Looked
<1>8. CASE f.kind = "stop" /\ d.tools = "assembled" /\ p.open[b].state = "open"
  <2> DEFINE e == Event("tool", n, p.open[b].frags, p.open[b].text)
  <2>0. p.open[b] \in BlockRecords
    BY <1>1, <1>2, <1>8
  <2>1. q = [p EXCEPT !.at = n, !.out = Append(p.out, e), !.open = [p.open EXCEPT ![b] = Removed(p.open[b])]]
    BY <1>1, <1>8 DEF Parse, Tells
  <2>2. e \in Told /\ Removed(p.open[b]) \in BlockRecords
    BY <1>1, <2>0 DEF Event, Told, Removed, BlockRecords
  <2>3. [p.open EXCEPT ![b] = Removed(p.open[b])] \in [Blocks -> BlockRecords] /\ Append(p.out, e) \in Seq(Told)
    BY <1>1, <1>4, <2>2
  <2> HIDE DEF e
  <2>4. /\ q \in Parsers /\ q.at = n /\ q.state = "go" /\ q.out = Append(p.out, e) /\ q.joined = p.joined
        /\ q.open = [p.open EXCEPT ![b] = Removed(p.open[b])]
    BY <1>1, <2>1, <2>3 DEF Parsers
  <2> QED BY <1>8, <2>4 DEF Looked, e
<1>9. CASE f.kind = "frag" /\ d.tools = "apart"
  <2> DEFINE e == Event("tool", n, <<n>>, "intact")
  <2>1. q = [p EXCEPT !.at = n, !.out = Append(p.out, e)]
    BY <1>1, <1>9 DEF Parse, Tells
  <2>2. e \in Told
    BY <1>1, <1>3 DEF Event, Told
  <2> HIDE DEF e
  <2>3. Append(p.out, e) \in Seq(Told)
    BY <1>1, <1>4, <2>2
  <2>4. /\ q \in Parsers /\ q.at = n /\ q.state = "go" /\ q.open = p.open /\ q.joined = p.joined
        /\ q.out = Append(p.out, e)
    BY <1>1, <2>1, <2>3 DEF Parsers
  <2> QED BY <1>9, <2>4 DEF Looked, e
<1>10. CASE f.kind = "call" /\ d.tools = "whole"
  <2> DEFINE e == Sent("tool", n)
  <2>1. q = [p EXCEPT !.at = n, !.out = Append(p.out, e)]
    BY <1>1, <1>10 DEF Parse, Tells
  <2>2. e \in Told
    BY <1>1, <1>3 DEF Event, Told, Sent
  <2> HIDE DEF e
  <2>3. Append(p.out, e) \in Seq(Told)
    BY <1>1, <1>4, <2>2
  <2>4. /\ q \in Parsers /\ q.at = n /\ q.state = "go" /\ q.open = p.open /\ q.joined = p.joined
        /\ q.out = Append(p.out, e)
    BY <1>1, <2>1, <2>3 DEF Parsers
  <2> QED BY <1>10, <2>4 DEF Looked, e
<1>11. CASE f.kind = "error" /\ d.inBandError
  <2> DEFINE r == [p EXCEPT !.at = n]
  <2>1. q = [p EXCEPT !.at = n, !.out = Append(p.out, Sent("error", n)), !.state = "error"]
    BY <1>1, <1>11 DEF Parse, Tells
  <2>2. /\ r \in Parsers /\ r.at = n /\ r.out = p.out /\ r.open = p.open /\ r.joined = p.joined
    BY <1>1 DEF Parsers
  <2>3. /\ q.at = n /\ q.out = Append(p.out, Sent("error", n)) /\ q.state = "error" /\ q.joined = p.joined
    BY <1>1, <2>1
  <2>4. Looked(d, p, f, r)
    BY <1>11, <2>2 DEF Looked
  <2>5. LookFails(r, q)
    BY <2>2, <2>3 DEF LookFails
  <2> QED BY <2>4, <2>5
<1>12. CASE /\ f.kind # "text" /\ (f.kind = "start" => d.tools # "assembled")
            /\ f.kind \in {"frag", "stop"} /\ d.tools = "assembled" => p.open[b].state = "closed"
            /\ f.kind = "frag" => d.tools # "apart"
            /\ f.kind = "call" => d.tools # "whole"
            /\ f.kind = "error" => ~d.inBandError
  <2>1. f.kind \in {"frag", "stop"} /\ d.tools = "assembled" => p.open[b].state # "open"
    BY <1>12
  <2>2. q = IF f.kind = "end" /\ d.endMark THEN [p EXCEPT !.at = n, !.state = "end"] ELSE [p EXCEPT !.at = n]
    BY <1>1, <1>2, <1>12, <2>1 DEF Parse, Looks
  <2>3. /\ q \in Parsers /\ q.at = n /\ q.open = p.open /\ q.joined = p.joined /\ q.out = p.out
        /\ q.state = "go" \/ (q.state = "end" /\ d.endMark /\ f.kind = "end")
    BY <1>1, <2>2 DEF Parsers
  <2> QED BY <1>12, <2>3 DEF Looked
<1>13. b \in Blocks => p.open[b].state \in {"open", "closed"}
  BY <1>1 DEF BlockRecords
<1> HIDE DEF b, n
<1> QED BY <1>2, <1>d, <1>5, <1>6, <1>7, <1>8, <1>9, <1>10, <1>11, <1>12, <1>13

-----------------------------------------------------------------------------
(* A body that differs beyond what was looked at only.                     *)
Alike(s, t, n) == \A i \in 1 .. n : i \in 1 .. Len(s) /\ i \in 1 .. Len(t) /\ s[i] = t[i]

LEMMA SameWords ==
    ASSUME NEW s, NEW t, NEW n \in Nat, Alike(s, t, n)
    PROVE  /\ \A i \in 1 .. n : \A kind : IsA(s, i, kind) <=> IsA(t, i, kind)
           /\ \A i \in 1 .. n + 1 : \A j \in 1 .. i - 1 : \A b :
                /\ OpenSince(s, b, j, i) <=> OpenSince(t, b, j, i)
                /\ FragsBetween(s, b, j, i) = FragsBetween(t, b, j, i)
<1>1. \A i \in 1 .. n : \A kind : IsA(s, i, kind) <=> IsA(t, i, kind)
  BY DEF Alike, IsA
<1>2. ASSUME NEW i \in 1 .. n + 1, NEW j \in 1 .. i - 1, NEW b
      PROVE  /\ OpenSince(s, b, j, i) <=> OpenSince(t, b, j, i)
             /\ FragsBetween(s, b, j, i) = FragsBetween(t, b, j, i)
  <2>1. s[j] = t[j] /\ \A k \in j + 1 .. i - 1 : s[k] = t[k]
    <3>1. j \in 1 .. n /\ \A k \in j + 1 .. i - 1 : k \in 1 .. n
      OBVIOUS
    <3> QED BY <3>1 DEF Alike
  <2>2. OpenSince(s, b, j, i) <=> OpenSince(t, b, j, i)
    BY <2>1 DEF OpenSince
  <2>3. FragsBetween(s, b, j, i) = FragsBetween(t, b, j, i)
    BY <2>1 DEF FragsBetween
  <2> QED BY <2>2, <2>3
<1> QED BY <1>1, <1>2

LEMMA SameHolds ==
    ASSUME NEW d, NEW s, NEW t, NEW n \in Nat, Alike(s, t, n), NEW holds \in Seq(Nat),
           \A m \in 1 .. Len(holds) : holds[m] \in 1 .. n
    PROVE  TornIn(d, s, holds) <=> TornIn(d, t, holds)
<1>1. \A m \in 1 .. Len(holds) : s[holds[m]] = t[holds[m]]
  BY DEF Alike
<1> QED BY <1>1 DEF TornIn

LEMMA SameEvents ==
    ASSUME NEW d, NEW s, NEW t, NEW n \in Nat, Alike(s, t, n), NEW e,
           e.at \in 1 .. n, \A m \in 1 .. Len(e.holds) : e.holds[m] \in 1 .. n
    PROVE  /\ DeltaRight(d, s, e) => DeltaRight(d, t, e)
           /\ CallRight(d, s, e) => CallRight(d, t, e)
<1>1. \A i \in 1 .. n : \A kind : IsA(s, i, kind) <=> IsA(t, i, kind)
  BY SameWords
<1>2. DeltaRight(d, s, e) => DeltaRight(d, t, e)
  BY <1>1 DEF DeltaRight
<1>3. ASSUME NEW j \in 1 .. e.at - 1, NEW b
      PROVE  FragsOf(s, b, j, e.at, e.holds) => FragsOf(t, b, j, e.at, e.holds)
  <2>1. PICK i \in 1 .. n + 1 : i = e.at /\ j \in 1 .. i - 1
    OBVIOUS
  <2>2. /\ OpenSince(s, b, j, i) <=> OpenSince(t, b, j, i)
        /\ FragsBetween(s, b, j, i) = FragsBetween(t, b, j, i)
    BY <2>1, SameWords
  <2> QED BY <2>1, <2>2 DEF FragsOf
<1>4. s[e.at] = t[e.at]
  BY DEF Alike
<1>5. CallRight(d, s, e) => CallRight(d, t, e)
  BY <1>1, <1>3, <1>4 DEF CallRight
<1> QED BY <1>2, <1>5

LEMMA SameRuns ==
    ASSUME NEW d, NEW s, NEW t \in Seq(Frames), NEW p, Runs(d, s, p), Alike(s, t, p.at), p.at <= Len(t)
    PROVE  Runs(d, t, p)
<1>1. /\ p \in Parsers /\ OutRuns(p) /\ TextsRun(d, s, p) /\ CallsAsRead(d, s, p)
      /\ GarbledWhereTorn(d, s, p) /\ BlocksRun(d, s, p)
  BY DEF Runs
<1>2. PICK n \in Nat : n = p.at /\ Alike(s, t, n)
  BY <1>1 DEF Parsers
<1>3. \A i \in 1 .. n : \A kind : IsA(s, i, kind) <=> IsA(t, i, kind)
  BY <1>2, SameWords
<1>4. ASSUME NEW i \in 1 .. n + 1, NEW j \in 1 .. i - 1, NEW b
      PROVE  /\ OpenSince(s, b, j, i) <=> OpenSince(t, b, j, i)
             /\ FragsBetween(s, b, j, i) = FragsBetween(t, b, j, i)
  BY <1>2, SameWords
<1>5. ASSUME NEW k \in 1 .. Len(p.out)
      PROVE  /\ p.out[k].at \in 1 .. n /\ p.out[k].holds \in Seq(Nat)
             /\ \A m \in 1 .. Len(p.out[k].holds) : p.out[k].holds[m] \in 1 .. n
  <2>1. p.out \in Seq(Told) /\ p.out[k] \in Told
    BY <1>1 DEF Parsers
  <2> QED BY <1>1, <1>2, <2>1 DEF OutRuns, Told
<1>6. ASSUME NEW k \in 1 .. Len(p.out)
      PROVE  /\ DeltaRight(d, s, p.out[k]) => DeltaRight(d, t, p.out[k])
             /\ CallRight(d, s, p.out[k]) => CallRight(d, t, p.out[k])
             /\ TornIn(d, s, p.out[k].holds) <=> TornIn(d, t, p.out[k].holds)
  BY <1>2, <1>5, SameEvents, SameHolds
<1>7. TextsRun(d, t, p)
  BY <1>1, <1>2, <1>3, <1>6 DEF TextsRun
<1>8. CallsAsRead(d, t, p)
  <2>1. ASSUME NEW i \in 1 .. n, CallDue(d, t, i) PROVE CallDue(d, s, i)
    <3>1. i \in 1 .. n + 1 /\ s[i] = t[i]
      BY <1>2 DEF Alike
    <3> QED BY <1>3, <1>4, <2>1, <3>1 DEF CallDue
  <2> QED BY <1>1, <1>2, <1>6, <2>1 DEF CallsAsRead
<1>9. GarbledWhereTorn(d, t, p)
  BY <1>1, <1>6 DEF GarbledWhereTorn
<1>10. BlocksRun(d, t, p)
  <2> SUFFICES ASSUME d.tools = "assembled", NEW b \in Blocks
               PROVE  BlockRuns(d, t, b, p.open[b], n + 1)
    BY <1>2 DEF BlocksRun
  <2> DEFINE block == p.open[b]
  <2>1. BlockRuns(d, s, b, block, n + 1) /\ block.frags \in Seq(Nat)
    BY <1>1, <1>2 DEF BlocksRun, Parsers, BlockRecords
  <2>2. n + 1 \in 1 .. n + 1
    BY <1>2
  <2>3. ASSUME NEW j \in 1 .. n + 1 - 1, HasFrags(d, s, b, block, j, n + 1)
        PROVE  HasFrags(d, t, b, block, j, n + 1)
    <3>1. /\ OpenSince(t, b, j, n + 1) /\ Ascending(block.frags)
          /\ \A m \in 1 .. Len(block.frags) : block.frags[m] \in FragsBetween(t, b, j, n + 1)
          /\ \A x \in FragsBetween(t, b, j, n + 1) : \E m \in 1 .. Len(block.frags) : block.frags[m] = x
          /\ block.text = "garbled" <=> TornIn(d, s, block.frags)
      BY <1>4, <2>2, <2>3 DEF HasFrags, FragsOf
    <3>2. \A x \in FragsBetween(t, b, j, n + 1) : x \in 1 .. n
      BY <1>2 DEF FragsBetween
    <3>3. TornIn(d, s, block.frags) <=> TornIn(d, t, block.frags)
      BY <1>2, <2>1, <3>1, <3>2, SameHolds
    <3> QED BY <3>1, <3>3 DEF HasFrags, FragsOf
  <2>4. \A j \in 1 .. n + 1 - 1 : OpenSince(t, b, j, n + 1) <=> OpenSince(s, b, j, n + 1)
    BY <1>4, <2>2
  <2> HIDE DEF block
  <2>5. BlockRuns(d, t, b, block, n + 1)
    BY <2>1, <2>3, <2>4 DEF BlockRuns
  <2> QED BY <2>5 DEF block
<1> QED BY <1>1, <1>7, <1>8, <1>9, <1>10 DEF Runs

-----------------------------------------------------------------------------
(* What is right of a stream in every state of it.                         *)
Faithful(d, s, p) ==
    /\ EndsOnce(p) /\ EventsInOrder(p) /\ OnlySeen(p)
    /\ TextsArrive(d, s, p) /\ CallsAsRead(d, s, p) /\ GarbledWhereTorn(d, s, p)

LEMMA TextsHeld ==
    ASSUME NEW d, NEW s, NEW p, d.texts = "each", TextsRun(d, s, p), NEW i \in 1 .. p.at, IsA(s, i, "text")
    PROVE  \E k \in 1 .. Len(p.out) : p.out[k].kind = "delta" /\ Holds(p.out[k], i)
<1>1. PICK k \in 1 .. Len(p.out) : p.out[k].kind = "delta" /\ p.out[k].at = i
  BY DEF TextsRun, Sends
<1>2. p.out[k].holds = <<i>>
  BY <1>1 DEF TextsRun, DeltaRight
<1>3. Holds(p.out[k], i)
  BY <1>2 DEF Holds
<1> QED BY <1>1, <1>3

LEMMA RunsFaithful ==
    ASSUME NEW d \in Dialects, NEW s, NEW p, Runs(d, s, p), p.state # "done"
    PROVE  Faithful(d, s, p) /\ ~Closing(p)
<1>1. /\ p \in Parsers /\ OutRuns(p) /\ TextsRun(d, s, p) /\ CallsAsRead(d, s, p)
      /\ GarbledWhereTorn(d, s, p)
  BY DEF Runs
<1>2. p.at \in Nat /\ p.out \in Seq(Told) /\ Len(p.out) \in Nat
  BY <1>1, LenProperties DEF Parsers
<1>d. d.texts \in {"each", "joined"}
  BY DialectIs
<1>3. \A k \in 1 .. Len(p.out) : p.out[k].kind \notin Terminals
  BY <1>1 DEF OutRuns, Terminals
<1>4. ~Closing(p)
  <2>1. p.out # <<>> => Len(p.out) \in 1 .. Len(p.out)
    BY <1>2, EmptySeq
  <2> QED BY <1>3, <2>1 DEF Closing, Last
<1>5. EndsOnce(p) /\ EventsInOrder(p)
  BY <1>1, <1>3, <1>4 DEF EndsOnce, EventsInOrder, OutRuns
<1>6. OnlySeen(p)
  BY <1>1, <1>2 DEF OnlySeen, OutRuns
<1>7. TextsArrive(d, s, p)
  <2>1. CASE d.texts = "each"
    <3>1. \A k \in 1 .. Len(p.out) : p.out[k].kind = "delta" => DeltaRight(d, s, p.out[k])
      BY <1>1, <2>1 DEF TextsRun
    <3> QED BY <1>1, <2>1, <3>1, TextsHeld DEF TextsArrive
  <2>2. CASE d.texts = "joined"
    <3>1. p.out = <<>> /\ Len(p.out) = 0
      BY <1>1, <2>2 DEF TextsRun
    <3> QED BY <2>2, <3>1 DEF TextsArrive
  <2> QED BY <1>d, <2>1, <2>2
<1> QED BY <1>1, <1>4, <1>5, <1>6, <1>7 DEF Faithful

(* The last event closes the stream.                                       *)
LEMMA LastEvent ==
    ASSUME NEW d \in Dialects, NEW s, NEW p, Runs(d, s, p), NEW kind \in Terminals,
           NEW q, q.at = p.at, q.out = Append(p.out, Sent(kind, p.at)), q.state = kind,
           d.texts = "each" \/ kind = "error"
    PROVE  Faithful(d, s, q) /\ Closing(q)
<1> DEFINE e == Sent(kind, p.at)
<1>1. /\ p \in Parsers /\ OutRuns(p) /\ TextsRun(d, s, p) /\ CallsAsRead(d, s, p)
      /\ GarbledWhereTorn(d, s, p)
  BY DEF Runs
<1>2. /\ p.at \in Nat /\ e \in Told /\ e.at = p.at /\ e.holds = <<>> /\ e.kind = kind
      /\ e.text = "intact" /\ kind \notin {"delta", "tool"}
  BY <1>1 DEF Parsers, Sent, Event, Told, Terminals
<1>d. d.texts \in {"each", "joined"}
  BY DialectIs
<1> HIDE DEF e
<1>3. Grows(p, q, e)
  BY <1>1, <1>2, GrowsByOne DEF e
<1>4. /\ Len(p.out) \in Nat /\ Len(q.out) = Len(p.out) + 1 /\ q.out[Len(p.out) + 1] = e
      /\ \A k \in 1 .. Len(p.out) : k \in 1 .. Len(q.out) /\ q.out[k] = p.out[k]
      /\ \A k \in 1 .. Len(q.out) : k \in 1 .. Len(p.out) \/ k = Len(p.out) + 1
  BY <1>3 DEF Grows
<1>5. Closing(q)
  <2>1. q.out # <<>>
    <3>1. p.out \in Seq(Told)
      BY <1>1 DEF Parsers
    <3> QED BY <1>2, <3>1, AppendProperties DEF e
  <2> QED BY <1>2, <1>4, <2>1 DEF Closing, Last
<1>6. \A k \in 1 .. Len(p.out) : q.out[k].kind \notin Terminals
  BY <1>1, <1>4 DEF OutRuns, Terminals
<1>7. EndsOnce(q)
  <2> SUFFICES ASSUME NEW k \in 1 .. Len(q.out)
               PROVE  q.out[k].kind \in Terminals <=> k = Len(q.out) /\ Closing(q)
    BY DEF EndsOnce
  <2>1. CASE k \in 1 .. Len(p.out)
    BY <1>4, <1>6, <2>1
  <2>2. CASE k = Len(p.out) + 1
    BY <1>2, <1>4, <1>5, <2>2
  <2> QED BY <1>4, <2>1, <2>2
<1>8. EventsInOrder(q)
  <2> SUFFICES ASSUME NEW k \in 1 .. Len(q.out), NEW l \in 1 .. Len(q.out), k < l,
                      q.out[l].kind \notin Terminals
               PROVE  q.out[k].at < q.out[l].at
    BY DEF EventsInOrder
  <2>1. l \in 1 .. Len(p.out)
    BY <1>2, <1>4
  <2>2. k \in 1 .. Len(p.out)
    BY <1>4, <2>1
  <2> QED BY <1>1, <1>4, <2>1, <2>2 DEF OutRuns
<1>9. OnlySeen(q)
  <2> SUFFICES ASSUME NEW k \in 1 .. Len(q.out)
               PROVE  /\ q.out[k].at \in 0 .. p.at
                      /\ \A m \in 1 .. Len(q.out[k].holds) : q.out[k].holds[m] \in 1 .. p.at
    BY DEF OnlySeen
  <2>1. CASE k \in 1 .. Len(p.out)
    <3>1. q.out[k] = p.out[k] /\ p.out[k].at \in 1 .. p.at
      BY <1>1, <1>4, <2>1 DEF OutRuns
    <3>2. \A m \in 1 .. Len(p.out[k].holds) : p.out[k].holds[m] \in 1 .. p.at
      BY <1>1, <2>1 DEF OutRuns
    <3> QED BY <1>2, <3>1, <3>2
  <2>2. CASE k = Len(p.out) + 1
    <3>1. q.out[k].at = p.at /\ Len(q.out[k].holds) = 0
      BY <1>2, <1>4, <2>2
    <3> QED BY <1>2, <3>1
  <2> QED BY <1>4, <2>1, <2>2
<1>10. TextsArrive(d, s, q)
  <2>1. \A k \in 1 .. Len(q.out) : q.out[k].kind = "delta" => k \in 1 .. Len(p.out) /\ q.out[k] = p.out[k]
    BY <1>2, <1>4
  <2>2. CASE d.texts = "each"
    <3>1. ASSUME NEW i \in 1 .. q.at, IsA(s, i, "text")
          PROVE  \E k \in 1 .. Len(q.out) : q.out[k].kind = "delta" /\ Holds(q.out[k], i)
      <4>1. PICK k \in 1 .. Len(p.out) : p.out[k].kind = "delta" /\ Holds(p.out[k], i)
        BY <1>1, <2>2, <3>1, TextsHeld
      <4> QED BY <1>4, <4>1
    <3>2. \A k \in 1 .. Len(p.out) : p.out[k].kind = "delta" => DeltaRight(d, s, p.out[k])
      BY <1>1, <2>2 DEF TextsRun
    <3>3. \A k \in 1 .. Len(q.out) : q.out[k].kind = "delta" => DeltaRight(d, s, q.out[k])
      BY <2>1, <3>2
    <3> QED BY <2>2, <3>1, <3>3 DEF TextsArrive
  <2>3. CASE d.texts = "joined"
    <3>1. Len(p.out) = 0
      BY <1>1, <2>3 DEF TextsRun
    <3>2. \A k \in 1 .. Len(q.out) : q.out[k].kind # "delta"
      BY <2>1, <3>1
    <3>3. q.state # "done" /\ d.texts # "each"
      BY <2>3
    <3> QED BY <3>2, <3>3 DEF TextsArrive
  <2> QED BY <1>d, <2>2, <2>3
<1>11. CallsAsRead(d, s, q)
  <2>1. \A i, w : Sends(p, i, w) => Sends(q, i, w)
    BY <1>3, StillSent
  <2>2. \A k \in 1 .. Len(q.out) : q.out[k].kind = "tool" => k \in 1 .. Len(p.out) /\ q.out[k] = p.out[k]
    BY <1>2, <1>4
  <2> QED BY <1>1, <2>1, <2>2 DEF CallsAsRead
<1>12. GarbledWhereTorn(d, s, q)
  <2> SUFFICES ASSUME NEW k \in 1 .. Len(q.out)
               PROVE  q.out[k].text = "garbled" <=> TornIn(d, s, q.out[k].holds)
    BY DEF GarbledWhereTorn
  <2>1. CASE k \in 1 .. Len(p.out)
    BY <1>1, <1>4, <2>1 DEF GarbledWhereTorn
  <2>2. CASE k = Len(p.out) + 1
    <3>1. ~TornIn(d, s, <<>>)
      BY DEF TornIn
    <3> QED BY <1>2, <1>4, <2>2, <3>1
  <2> QED BY <1>4, <2>1, <2>2
<1> QED BY <1>5, <1>7, <1>8, <1>9, <1>10, <1>11, <1>12 DEF Faithful

(* Where the texts are joined, they come in one delta before it.           *)
LEMMA JoinedEnd ==
    ASSUME NEW d \in Dialects, NEW s, NEW p, Runs(d, s, p), d.texts = "joined"
    PROVE  Faithful(d, s, Finished(p, "done")) /\ Closing(Finished(p, "done"))
<1> DEFINE q == Finished(p, "done")
           n == p.at
           e == Event("delta", n, p.joined, "intact")
           last == Sent("done", n)
<1>1. /\ p \in Parsers /\ TextsRun(d, s, p) /\ CallsAsRead(d, s, p) /\ p.out = <<>>
      /\ d.reads = "whole" /\ d.tools = "dropped"
  BY DialectIs DEF Runs, TextsRun
<1>2. /\ n \in Nat /\ last.at = n /\ last.holds = <<>> /\ last.kind = "done" /\ last.text = "intact"
      /\ e.at = n /\ e.holds = p.joined /\ e.kind = "delta" /\ e.text = "intact"
  BY <1>1 DEF Parsers, Sent, Event
<1>3. /\ Ascending(p.joined)
      /\ \A m \in 1 .. Len(p.joined) : p.joined[m] \in 1 .. n /\ IsA(s, p.joined[m], "text")
      /\ \A i \in 1 .. n : IsA(s, i, "text") => \E m \in 1 .. Len(p.joined) : p.joined[m] = i
  BY <1>1 DEF TextsRun
<1>4. \A h : ~TornIn(d, s, h)
  BY <1>1 DEF TornIn
<1>5. \A i : ~CallDue(d, s, i)
  BY <1>1 DEF CallDue
<1>6. q.at = n /\ q.state = "done"
  BY <1>1 DEF Finished, Parsers
<1>7. CASE p.joined = <<>>
  <2>1. q.out = <<last>>
    BY <1>1, <1>7 DEF Finished, Parsers
  <2> HIDE DEF q, last, n, e
  <2>a. Len(<<last>>) = 1 /\ <<last>>[1] = last /\ <<last>> # <<>>
    OBVIOUS
  <2>2. PICK o : o = q.out /\ Len(o) = 1 /\ o[1] = last /\ o # <<>>
    BY <2>1, <2>a
  <2>3. \A k \in 1 .. Len(q.out) : k = 1 /\ q.out[k] = last
    BY <2>2
  <2>4. Closing(q)
    BY <1>2, <2>2 DEF Closing, Last, Terminals
  <2>5. EndsOnce(q) /\ EventsInOrder(q)
    BY <1>2, <2>2, <2>3, <2>4 DEF EndsOnce, EventsInOrder, Terminals
  <2>6. OnlySeen(q)
    <3>1. n \in 0 .. n /\ Len(<<>>) = 0
      BY <1>2
    <3> QED BY <1>2, <1>6, <2>3, <3>1 DEF OnlySeen
  <2>7. \A i \in 1 .. n : ~IsA(s, i, "text")
    BY <1>3, <1>7
  <2>8. TextsArrive(d, s, q)
    BY <1>2, <1>6, <2>3, <2>7 DEF TextsArrive
  <2>9. CallsAsRead(d, s, q) /\ GarbledWhereTorn(d, s, q)
    BY <1>2, <1>4, <1>5, <2>3 DEF CallsAsRead, GarbledWhereTorn
  <2> QED BY <2>4, <2>5, <2>6, <2>8, <2>9 DEF Faithful, q
<1>8. CASE p.joined # <<>>
  <2>a. q.out = Append(Append(p.out, e), last)
    BY <1>1, <1>8 DEF Finished, Parsers
  <2>b. e \in Told /\ last \in Told
    BY <1>1 DEF Parsers, Event, Sent, Told
  <2> HIDE DEF q, last, n, e
  <2>x. <<>> \in Seq(Told) /\ Len(<<>>) = 0
    OBVIOUS
  <2>z. PICK o0 \in Seq(Told) : o0 = p.out /\ Len(o0) = 0
    BY <1>1, <2>x
  <2>y. PICK o1 : o1 = Append(o0, e)
    OBVIOUS
  <2>c. o1 \in Seq(Told) /\ Len(o1) = 1 /\ o1[1] = e
    BY <2>b, <2>z, <2>y, OneMoreEvent
  <2>2. PICK o : o = q.out /\ Len(o) = 2 /\ o[1] = e /\ o[2] = last /\ o # <<>>
    <3>1. PICK o : o = q.out /\ o = Append(o1, last)
      BY <2>a, <2>z, <2>y
    <3>2. o \in Seq(Told) /\ Len(o) = 2 /\ o[1] = o1[1] /\ o[2] = last
      BY <2>b, <2>c, <3>1, OneMoreEvent
    <3>3. o # <<>>
      BY <2>b, <2>c, <3>1, AppendProperties
    <3> QED BY <2>c, <3>1, <3>2, <3>3
  <2>3. \A k \in 1 .. Len(q.out) : (k = 1 /\ q.out[k] = e) \/ (k = 2 /\ q.out[k] = last)
    BY <2>2
  <2>4. Closing(q)
    BY <1>2, <2>2 DEF Closing, Last, Terminals
  <2>5. EndsOnce(q) /\ EventsInOrder(q)
    <3>1. \A k \in 1 .. Len(q.out) : q.out[k].kind \in Terminals <=> k = 2
      BY <1>2, <2>3 DEF Terminals
    <3>2. EndsOnce(q)
      BY <2>2, <2>4, <3>1 DEF EndsOnce
    <3>3. \A k, l \in 1 .. Len(q.out) : k < l => l = 2
      BY <2>3
    <3>4. EventsInOrder(q)
      BY <3>1, <3>3 DEF EventsInOrder
    <3> QED BY <3>2, <3>4
  <2>6. OnlySeen(q)
    <3>1. n \in 0 .. n /\ Len(<<>>) = 0
      BY <1>2
    <3> QED BY <1>2, <1>3, <1>6, <2>3, <3>1 DEF OnlySeen
  <2>7. DeltaRight(d, s, e)
    BY <1>2, <1>3 DEF DeltaRight
  <2>8. ASSUME NEW i \in 1 .. q.at, IsA(s, i, "text")
        PROVE  \E k \in 1 .. Len(q.out) : q.out[k].kind = "delta" /\ Holds(q.out[k], i)
    <3>1. Holds(e, i)
      BY <1>2, <1>3, <1>6, <2>8 DEF Holds
    <3>2. 1 \in 1 .. Len(q.out) /\ q.out[1] = e
      BY <2>2
    <3> QED BY <1>2, <3>1, <3>2
  <2>9. \A k \in 1 .. Len(q.out) : q.out[k].kind = "delta" => k = 1 /\ DeltaRight(d, s, q.out[k])
    BY <1>2, <2>3, <2>7
  <2>10. TextsArrive(d, s, q)
    BY <2>8, <2>9 DEF TextsArrive
  <2>11. CallsAsRead(d, s, q) /\ GarbledWhereTorn(d, s, q)
    BY <1>2, <1>4, <1>5, <2>3 DEF CallsAsRead, GarbledWhereTorn
  <2> QED BY <2>4, <2>5, <2>6, <2>10, <2>11 DEF Faithful, q
<1> QED BY <1>7, <1>8

LEMMA FinishCloses ==
    ASSUME NEW d \in Dialects, NEW s, NEW p, Runs(d, s, p), NEW kind \in Terminals,
           NEW q, q = Finished(p, kind)
    PROVE  /\ Faithful(d, s, q) /\ Closing(q)
           /\ q.state = kind /\ q.at = p.at
<1>1. p \in Parsers /\ (d.texts = "each" => p.joined = <<>>)
  BY DEF Runs, TextsRun
<1>2. q.state = kind /\ q.at = p.at
  BY <1>1 DEF Finished, Parsers
<1>d. d.texts \in {"each", "joined"} /\ (kind = "done" \/ kind = "error")
  BY DialectIs DEF Terminals
<1>3. CASE d.texts = "each" \/ kind = "error"
  <2>1. q.out = Append(p.out, Sent(kind, p.at))
    BY <1>1, <1>3 DEF Finished, Parsers
  <2> QED BY <1>2, <1>3, <2>1, LastEvent
<1>4. CASE d.texts = "joined" /\ kind = "done"
  BY <1>2, <1>4, JoinedEnd
<1> QED BY <1>d, <1>2, <1>3, <1>4

-----------------------------------------------------------------------------
StreamInv ==
    /\ dialect \in Dialects /\ body \in Seq(Frames) /\ unfinished \in Lacks
    /\ wire \in {"idle", "asked", "open", "ended", "broken", "over"}
    /\ unfinished # "none" => body # <<>> /\ dialect.reads # "messages"
    /\ unfinished = "text" => wire # "ended"
    /\ wire \in {"idle", "asked"} => body = <<>> /\ parsed = Nothing
    /\ wire \in {"open", "ended", "broken"} =>
        /\ Runs(dialect, body, parsed) /\ parsed.at <= Lines
        /\ parsed.state = "go" \/
            (parsed.state = "end" /\ dialect.endMark /\ IsA(body, parsed.at, "end"))
    /\ wire = "over" =>
        /\ Faithful(dialect, body, parsed) /\ Closing(parsed) /\ LooksAtAll
        /\ parsed.at \in 0 .. Len(body) /\ parsed.state \in Terminals

LEMMA NothingRuns ==
    ASSUME NEW d \in Dialects
    PROVE  Runs(d, <<>>, Nothing)
<1>1. /\ Nothing.at = 0 /\ Nothing.out = <<>> /\ Nothing.joined = <<>> /\ Nothing.state = "go"
      /\ Nothing.open = [b \in Blocks |-> Absent]
  BY DEF Nothing
<1>2. /\ Absent \in BlockRecords /\ Absent.state = "closed"
  BY DEF Absent, BlockRecords
<1>3. Nothing \in Parsers
  BY <1>1, <1>2 DEF Parsers, Nothing
<1>4. Len(<<>>) = 0
  OBVIOUS
<1>5. OutRuns(Nothing) /\ CallsAsRead(d, <<>>, Nothing) /\ GarbledWhereTorn(d, <<>>, Nothing)
  BY <1>1, <1>4 DEF OutRuns, CallsAsRead, GarbledWhereTorn
<1>6. TextsRun(d, <<>>, Nothing)
  BY <1>1, <1>4 DEF TextsRun, Ascending
<1>7. BlocksRun(d, <<>>, Nothing)
  BY <1>1, <1>2 DEF BlocksRun, BlockRuns
<1> QED BY <1>1, <1>3, <1>4, <1>5, <1>6, <1>7 DEF Runs

LEMMA StreamInitInv == ProvInit => StreamInv
BY DEF ProvInit, StreamInv, Lacks, Dialects

LEMMA StreamInvFaithful == StreamInv => StreamIsFaithful
<1> SUFFICES ASSUME StreamInv PROVE StreamIsFaithful
  OBVIOUS
<1>1. CASE wire = "over"
  BY <1>1 DEF StreamInv, StreamIsFaithful, Faithful
<1>2. CASE wire \in {"open", "ended", "broken"}
  <2>1. Runs(dialect, body, parsed) /\ parsed.state # "done" /\ dialect \in Dialects
    BY <1>2 DEF StreamInv
  <2>2. Faithful(dialect, body, parsed) /\ ~Closing(parsed)
    BY <2>1, RunsFaithful
  <2> QED BY <1>2, <2>1, <2>2 DEF StreamIsFaithful, Faithful, LooksAtAll
<1>3. CASE wire \in {"idle", "asked"}
  <2>1. dialect \in Dialects /\ body = <<>> /\ parsed = Nothing
    BY <1>3 DEF StreamInv
  <2>2. Runs(dialect, body, parsed) /\ parsed.state # "done"
    BY <2>1, NothingRuns DEF Nothing
  <2>3. Faithful(dialect, body, parsed) /\ ~Closing(parsed)
    BY <2>1, <2>2, RunsFaithful
  <2> QED BY <1>3, <2>2, <2>3 DEF StreamIsFaithful, Faithful, LooksAtAll
<1> QED BY <1>1, <1>2, <1>3 DEF StreamInv

LEMMA FramesShape ==
    ASSUME NEW s \in Seq(Frames)
    PROVE  /\ Len(s) \in Nat /\ \A i \in 1 .. Len(s) : s[i] \in Frames
           /\ s # <<>> => Len(s) \in 1 .. Len(s) /\ Last(s) = s[Len(s)]
BY LenProperties, EmptySeq, ElementOfSeq DEF Last

LEMMA FrameArrivesInv ==
    ASSUME StreamInv, NEW f \in Frames, NEW lacks \in Lacks, FrameArrives(f, lacks)
    PROVE  StreamInv'
<1>1. /\ wire = "open" /\ unfinished = "none" /\ unfinished' = lacks /\ body' = Append(body, f)
      /\ dialect' = dialect /\ wire' = wire /\ parsed' = parsed
      /\ dialect.reads = "messages" => lacks = "none"
  BY DEF FrameArrives
<1>2. /\ dialect \in Dialects /\ body \in Seq(Frames)
      /\ Runs(dialect, body, parsed) /\ parsed.at <= Lines
      /\ parsed.state = "go" \/
            (parsed.state = "end" /\ dialect.endMark /\ IsA(body, parsed.at, "end"))
  BY <1>1 DEF StreamInv
<1>3. PICK s \in Seq(Frames), t \in Seq(Frames) : s = body /\ t = body' /\ t = Append(s, f)
  BY <1>1, <1>2
<1>4. /\ t \in Seq(Frames) /\ t # <<>> /\ Len(t) = Len(s) + 1 /\ Len(s) \in Nat
      /\ \A i \in 1 .. Len(s) : t[i] = s[i]
  BY <1>3, AppendProperties
<1>5. parsed.at \in Nat /\ parsed.at <= Len(s)
  BY <1>2, <1>3 DEF Runs, Parsers
<1>6. Alike(s, t, parsed.at)
  BY <1>4, <1>5 DEF Alike
<1>7. Runs(dialect, t, parsed)
  <2>1. Runs(dialect, s, parsed) /\ parsed.at <= Len(t)
    BY <1>2, <1>3, <1>4, <1>5
  <2> QED BY <1>4, <1>6, <2>1, SameRuns
<1>8. parsed.at <= Lines'
  <2>1. CASE dialect.reads = "whole"
    BY <1>1, <1>2, <2>1 DEF Lines
  <2>2. CASE dialect.reads # "whole"
    <3>1. Lines' = IF lacks = "none" THEN Len(t) ELSE Len(t) - 1
      BY <1>1, <1>3, <2>2 DEF Lines
    <3> QED BY <1>4, <1>5, <3>1
  <2> QED BY <2>1, <2>2
<1>9. IsA(body, parsed.at, "end") => IsA(t, parsed.at, "end")
  BY <1>3, <1>4 DEF IsA
<1> QED BY <1>1, <1>2, <1>3, <1>4, <1>7, <1>8, <1>9 DEF StreamInv

LEMMA RestArrivesInv ==
    ASSUME StreamInv, NEW torn \in BOOLEAN, RestArrives(torn)
    PROVE  StreamInv'
<1>1. /\ wire = "open" /\ unfinished # "none" /\ unfinished' = "none"
      /\ body' = ReplaceAt(body, Len(body), [Last(body) EXCEPT !.torn = torn])
      /\ dialect' = dialect /\ wire' = wire /\ parsed' = parsed
      /\ torn => Last(body).kind \in {"text", "frag"}
  BY DEF RestArrives
<1>2. /\ dialect \in Dialects /\ body \in Seq(Frames) /\ body # <<>> /\ dialect.reads # "messages"
      /\ Runs(dialect, body, parsed) /\ parsed.at <= Lines
      /\ parsed.state = "go" \/
            (parsed.state = "end" /\ dialect.endMark /\ IsA(body, parsed.at, "end"))
  BY <1>1 DEF StreamInv
<1>a. PICK s \in Seq(Frames), n \in Nat : s = body /\ n = Len(s)
  BY <1>2, LenProperties
<1>3. PICK f, t : /\ s = body /\ n = Len(s) /\ t = body' /\ t = [s EXCEPT ![n] = f]
                  /\ f = [Last(s) EXCEPT !.torn = torn]
  BY <1>1, <1>a DEF ReplaceAt
<1>4. n \in 1 .. n /\ s[n] \in Frames /\ Last(s) = s[n]
  BY <1>2, <1>3, FramesShape
<1>5. f \in Frames
  BY <1>3, <1>4 DEF Frames
<1>6. t \in Seq(Frames) /\ Len(t) = n /\ \A i \in 1 .. n - 1 : t[i] = s[i]
  BY <1>3, <1>4, <1>5, ExceptSeq
<1>7. parsed.at \in Nat /\ parsed.at <= n - 1
  <2>1. parsed.at \in Nat
    BY <1>2 DEF Runs, Parsers
  <2>2. Lines = IF dialect.reads = "whole" THEN 0 ELSE n - 1
    BY <1>1, <1>3 DEF Lines
  <2> QED BY <1>2, <1>4, <2>1, <2>2
<1>8. Alike(s, t, parsed.at)
  BY <1>3, <1>4, <1>6, <1>7 DEF Alike
<1>9. Runs(dialect, t, parsed)
  <2>1. Runs(dialect, s, parsed) /\ parsed.at <= Len(t)
    BY <1>2, <1>3, <1>6, <1>7
  <2> QED BY <1>6, <1>8, <2>1, SameRuns
<1>10. parsed.at <= Lines'
  <2>1. Lines' = IF dialect.reads = "whole" THEN 0 ELSE n
    BY <1>1, <1>3, <1>6 DEF Lines
  <2>2. dialect.reads = "whole" => parsed.at <= 0
    BY <1>1, <1>2 DEF Lines
  <2> QED BY <1>3, <1>7, <2>1, <2>2
<1>11. IsA(body, parsed.at, "end") => IsA(t, parsed.at, "end")
  BY <1>3, <1>6, <1>7 DEF IsA
<1> QED BY <1>1, <1>2, <1>3, <1>6, <1>9, <1>10, <1>11 DEF StreamInv, Lacks

LEMMA BodyEndsInv ==
    ASSUME StreamInv, BodyEnds
    PROVE  StreamInv'
<1>1. /\ wire = "open" /\ dialect' = dialect /\ parsed' = parsed
      /\ wire' = IF unfinished = "text" /\ dialect.texts = "joined" THEN "broken" ELSE "ended"
      /\ body' = IF unfinished = "text" THEN Front(body) ELSE body
      /\ unfinished' = IF unfinished = "text" THEN "none" ELSE unfinished
  BY DEF BodyEnds
<1>2. /\ dialect \in Dialects /\ body \in Seq(Frames) /\ unfinished \in Lacks
      /\ unfinished # "none" => body # <<>> /\ dialect.reads # "messages"
      /\ Runs(dialect, body, parsed) /\ parsed.at <= Lines
      /\ parsed.state = "go" \/
            (parsed.state = "end" /\ dialect.endMark /\ IsA(body, parsed.at, "end"))
  BY <1>1 DEF StreamInv
<1>3. parsed.at \in Nat /\ Len(body) \in Nat /\ parsed.at <= Len(body)
  BY <1>2, LenProperties DEF Runs, Parsers
<1>4. Lines = IF dialect.reads = "whole" THEN 0
              ELSE IF unfinished = "none" THEN Len(body) ELSE Len(body) - 1
  BY <1>1 DEF Lines
<1>5. CASE unfinished # "text"
  <2>1. Lines' = IF dialect.reads = "whole" THEN Len(body)
                 ELSE IF unfinished = "none" THEN Len(body) ELSE Len(body) - 1
    BY <1>1, <1>5 DEF Lines
  <2>2. parsed.at <= Lines'
    BY <1>2, <1>3, <1>4, <2>1
  <2> QED BY <1>1, <1>2, <1>5, <2>2 DEF StreamInv
<1>6. CASE unfinished = "text"
  <2>a. PICK s \in Seq(Frames), n \in Nat : s = body /\ n = Len(s)
    BY <1>2, LenProperties
  <2>1. PICK t : s = body /\ n = Len(s) /\ t = body' /\ t = SubSeq(s, 1, n - 1)
    BY <1>1, <1>6, <2>a DEF Front
  <2>2. n \in 1 .. n /\ \A i \in 1 .. n : s[i] \in Frames
    BY <1>2, <1>6, <2>1, FramesShape
  <2>3. t \in Seq(Frames) /\ Len(t) = n - 1 /\ \A i \in 1 .. n - 1 : t[i] = s[i]
    <3>1. n - 1 \in Nat /\ \A i \in 1 .. n - 1 : i \in 1 .. n
      BY <2>2
    <3> QED BY <2>1, <2>2, <3>1
  <2>4. parsed.at <= n - 1
    <3>1. Lines = IF dialect.reads = "whole" THEN 0 ELSE n - 1
      BY <1>4, <1>6, <2>1
    <3> QED BY <1>2, <1>3, <2>2, <3>1
  <2>5. Alike(s, t, parsed.at)
    BY <1>3, <2>1, <2>2, <2>3, <2>4 DEF Alike
  <2>6. Runs(dialect, t, parsed)
    BY <1>2, <1>3, <2>1, <2>3, <2>4, <2>5, SameRuns
  <2>7. parsed.at <= Lines'
    <3>1. Lines' = IF dialect.reads = "whole" THEN IF wire' = "ended" THEN n - 1 ELSE 0 ELSE n - 1
      BY <1>1, <1>6, <2>1, <2>3 DEF Lines
    <3>2. dialect.reads = "whole" => parsed.at <= 0
      BY <1>2, <1>4
    <3> QED BY <2>2, <2>4, <3>1, <3>2
  <2>8. IsA(body, parsed.at, "end") => IsA(t, parsed.at, "end")
    BY <2>1, <2>3, <2>4 DEF IsA
  <2> QED BY <1>1, <1>2, <1>6, <2>1, <2>3, <2>6, <2>7, <2>8 DEF StreamInv, Lacks
<1> QED BY <1>5, <1>6

LEMMA LineParsedInv ==
    ASSUME StreamInv, LineParsed
    PROVE  StreamInv'
<1>1. /\ wire \in {"open", "ended", "broken"} /\ parsed.state = "go" /\ parsed.at < Lines
      /\ parsed' = Parse(dialect, parsed, body[parsed.at + 1])
      /\ wire' = IF parsed'.state = "error" THEN "over" ELSE wire
      /\ dialect' = dialect /\ body' = body /\ unfinished' = unfinished
  BY DEF LineParsed
<1>2. /\ dialect \in Dialects /\ body \in Seq(Frames) /\ unfinished \in Lacks
      /\ Runs(dialect, body, parsed) /\ parsed \in Parsers
  BY <1>1 DEF StreamInv, Runs
<1>3. parsed.at \in Nat /\ Len(body) \in Nat /\ parsed.at < Len(body)
  <2>1. parsed.at \in Nat /\ Len(body) \in Nat
    BY <1>2, LenProperties DEF Parsers
  <2>2. Lines \in {0, Len(body), Len(body) - 1}
    BY DEF Lines
  <2> QED BY <1>1, <2>1, <2>2
<1>4. PICK f \in Frames : f = body[parsed.at + 1]
  BY <1>2, <1>3, FramesShape
<1>5. CASE /\ Looked(dialect, parsed, f, parsed')
           /\ parsed'.state = "go" \/ (parsed'.state = "end" /\ dialect.endMark /\ f.kind = "end")
  <2>1. Runs(dialect, body, parsed') /\ parsed'.at = parsed.at + 1
    <3>1. Looked(dialect, parsed, body[parsed.at + 1], parsed')
      BY <1>4, <1>5
    <3>2. Runs(dialect, body, parsed')
      BY <1>2, <1>3, <3>1, LookRuns, Zenon
    <3>3. parsed'.at = parsed.at + 1
      BY <1>5 DEF Looked
    <3> QED BY <3>2, <3>3
  <2>2. wire' = wire
    BY <1>1, <1>5
  <2>3. Lines' = Lines
    BY <1>1, <2>2 DEF Lines
  <2>4. parsed.at + 1 <= Lines
    <3>1. Lines \in Int
      BY <1>3 DEF Lines
    <3> QED BY <1>1, <1>3, <3>1
  <2>5. f.kind = "end" => IsA(body, parsed'.at, "end")
    BY <1>3, <1>4, <2>1 DEF IsA
  <2> QED BY <1>1, <1>5, <2>1, <2>2, <2>3, <2>4, <2>5 DEF StreamInv
<1>6. ASSUME NEW r, Looked(dialect, parsed, f, r), LookFails(r, parsed')
      PROVE  StreamInv'
  <2>1. Runs(dialect, body, r)
    BY <1>2, <1>3, <1>4, <1>6, LookRuns
  <2>2. "error" \in Terminals
    BY DEF Terminals
  <2>3. Faithful(dialect, body, parsed') /\ Closing(parsed')
    BY <1>2, <1>6, <2>1, <2>2, LastEvent DEF LookFails
  <2>4. wire' = "over" /\ parsed'.state = "error"
    BY <1>1, <1>6 DEF LookFails
  <2>5. LooksAtAll'
    BY <2>4 DEF LooksAtAll
  <2>6. Closing(parsed)' <=> Closing(parsed')
    BY DEF Closing
  <2>7. parsed'.at \in 0 .. Len(body)
    <3>1. r.at = parsed.at + 1 /\ parsed'.at = r.at
      BY <1>6 DEF Looked, LookFails, Parsers
    <3> QED BY <1>3, <3>1
  <2> QED BY <1>1, <2>2, <2>3, <2>4, <2>5, <2>6, <2>7 DEF StreamInv
<1>7. \/ /\ Looked(dialect, parsed, f, parsed')
         /\ parsed'.state = "go" \/ (parsed'.state = "end" /\ dialect.endMark /\ f.kind = "end")
      \/ \E r : Looked(dialect, parsed, f, r) /\ LookFails(r, parsed')
  BY <1>1, <1>2, <1>4, ParseIs
<1> QED BY <1>5, <1>6, <1>7

LEMMA LoopEndsInv ==
    ASSUME StreamInv, LoopEnds
    PROVE  StreamInv'
<1> DEFINE kind == IF parsed.state = "go" /\ wire = "broken" THEN dialect.broken ELSE "done"
<1>1. /\ wire \in {"open", "ended", "broken"} /\ wire' = "over"
      /\ parsed.state = "end" \/ (parsed.state = "go" /\ wire # "open" /\ parsed.at = Lines)
      /\ parsed' = Finished(parsed, kind)
      /\ dialect' = dialect /\ body' = body /\ unfinished' = unfinished
  BY DEF LoopEnds
<1>2. /\ dialect \in Dialects /\ Runs(dialect, body, parsed)
      /\ unfinished # "none" => dialect.reads # "messages"
      /\ parsed.state = "go" \/
            (parsed.state = "end" /\ dialect.endMark /\ IsA(body, parsed.at, "end"))
  BY <1>1 DEF StreamInv
<1>3. /\ kind \in Terminals
      /\ dialect.reads \in {"chunks", "messages", "whole"}
      /\ dialect.broken = "done" => dialect.reads = "messages"
  BY <1>2, DialectIs DEF Terminals
<1> HIDE DEF kind
<1>4. /\ Faithful(dialect, body, parsed') /\ Closing(parsed')
      /\ parsed'.state = kind /\ parsed'.at = parsed.at
  BY <1>1, <1>2, <1>3, FinishCloses
<1>5. LooksAtAll'
  <2>1. CASE parsed.state = "end"
    BY <1>1, <1>2, <1>4, <2>1 DEF LooksAtAll
  <2>2. CASE parsed.state = "go" /\ wire = "ended" /\ parsed.at = Lines
    BY <1>1, <1>2, <1>3, <1>4, <2>2 DEF LooksAtAll, Lines
  <2>3. CASE parsed.state = "go" /\ wire = "broken" /\ parsed.at = Lines
    <3>1. kind = "done" => dialect.reads = "messages" /\ unfinished = "none"
      BY <1>2, <1>3, <2>3 DEF kind
    <3> QED BY <1>1, <1>4, <2>3, <3>1 DEF LooksAtAll, Lines
  <2> QED BY <1>1, <2>1, <2>2, <2>3
<1>6. Closing(parsed)' <=> Closing(parsed')
  BY DEF Closing
<1>7. parsed'.at \in 0 .. Len(body)
  BY <1>2, <1>4 DEF Runs, Parsers
<1> QED BY <1>1, <1>3, <1>4, <1>5, <1>6, <1>7 DEF StreamInv

LEMMA StreamStepInv == StreamInv /\ [ProvNext]_provVars => StreamInv'
<1> SUFFICES ASSUME StreamInv, [ProvNext]_provVars PROVE StreamInv'
  OBVIOUS
<1>0. /\ AnthropicStream \in Dialects /\ OpenAiStream \in Dialects /\ CodexSocket \in Dialects
      /\ \A p : StreamOf(p) \in Dialects
  BY DEF Dialects, StreamOf
<1>1. ASSUME NEW p, NEW f, NEW g, NEW t, StreamChat(p, f, g, t) PROVE StreamInv'
  <2>1. wire = "idle" /\ wire' = "asked" /\ body' = body /\ parsed' = parsed /\ unfinished' = unfinished
    BY <1>1 DEF StreamChat
  <2>2. dialect' \in Dialects
    BY <1>0, <1>1 DEF StreamChat
  <2>3. body = <<>> /\ parsed = Nothing /\ unfinished = "none" /\ body \in Seq(Frames)
    BY <2>1 DEF StreamInv
  <2> QED BY <2>1, <2>2, <2>3 DEF StreamInv, Lacks
<1>2. CASE CodexStreamChat
  <2>1. wire = "idle" /\ wire' = "asked" /\ body' = body /\ parsed' = parsed /\ unfinished' = unfinished
    BY <1>2 DEF CodexStreamChat
  <2>2. dialect' \in Dialects
    BY <1>0, <1>2 DEF CodexStreamChat
  <2>3. body = <<>> /\ parsed = Nothing /\ unfinished = "none" /\ body \in Seq(Frames)
    BY <2>1 DEF StreamInv
  <2> QED BY <2>1, <2>2, <2>3 DEF StreamInv, Lacks
<1>3. CASE /\ dialect' = dialect /\ wire' = wire /\ body' = body /\ unfinished' = unfinished
           /\ parsed' = parsed
  BY <1>3 DEF StreamInv, Lines, LooksAtAll, Closing
<1>4. CASE RequestFails
  <2>1. /\ wire = "asked" /\ wire' = "over" /\ parsed' = Finished(parsed, "error")
        /\ dialect' = dialect /\ body' = body /\ unfinished' = unfinished
    BY <1>4 DEF RequestFails
  <2>2. dialect \in Dialects /\ body = <<>> /\ parsed = Nothing
    BY <2>1 DEF StreamInv
  <2>3. Runs(dialect, body, parsed) /\ "error" \in Terminals
    BY <2>2, NothingRuns DEF Terminals
  <2>4. /\ Faithful(dialect, body, parsed') /\ Closing(parsed')
        /\ parsed'.state = "error" /\ parsed'.at = parsed.at
    BY <2>1, <2>2, <2>3, FinishCloses
  <2>7. parsed'.at \in 0 .. Len(body)
    BY <2>2, <2>4 DEF Nothing
  <2>5. LooksAtAll'
    BY <2>4 DEF LooksAtAll
  <2>6. Closing(parsed)' <=> Closing(parsed')
    BY DEF Closing
  <2> QED BY <2>1, <2>3, <2>4, <2>5, <2>6, <2>7 DEF StreamInv
<1>5. CASE Accepted
  <2>1. /\ wire = "asked" /\ wire' = "open" /\ parsed' = parsed
        /\ dialect' = dialect /\ body' = body /\ unfinished' = unfinished
    BY <1>5 DEF Accepted
  <2>2. dialect \in Dialects /\ body = <<>> /\ parsed = Nothing /\ unfinished = "none"
    BY <2>1 DEF StreamInv
  <2>3. Runs(dialect, body, parsed) /\ parsed.at = 0 /\ parsed.state = "go"
    BY <2>2, NothingRuns DEF Nothing
  <2>4. Lines' = 0
    BY <2>1, <2>2 DEF Lines
  <2> QED BY <2>1, <2>2, <2>3, <2>4 DEF StreamInv
<1>6. ASSUME NEW f \in Frames, NEW lacks \in Lacks, FrameArrives(f, lacks) PROVE StreamInv'
  BY <1>6, FrameArrivesInv
<1>7. ASSUME NEW torn \in BOOLEAN, RestArrives(torn) PROVE StreamInv'
  BY <1>7, RestArrivesInv
<1>8. CASE BodyBreaks
  <2>1. /\ wire = "open" /\ wire' = "broken" /\ parsed' = parsed
        /\ dialect' = dialect /\ body' = body /\ unfinished' = unfinished
    BY <1>8 DEF BodyBreaks
  <2>2. Lines' = Lines
    BY <2>1 DEF Lines
  <2> QED BY <2>1, <2>2 DEF StreamInv
<1>9. CASE NextTurn
  <2>1. wire' = "idle" /\ dialect' = AnthropicStream /\ body' = <<>> /\ unfinished' = "none" /\ parsed' = Nothing
    BY <1>9 DEF NextTurn
  <2> QED BY <1>0, <2>1 DEF StreamInv, Lacks
<1>10. CASE \/ TokenAges \/ UNCHANGED provVars
            \/ \E a \in Answers, b \in SUBSET BlockKinds, c, v \in BOOLEAN : Chat(a, b, c, v)
  BY <1>3, <1>10 DEF TokenAges, Chat, provVars
<1> QED BY <1>1, <1>2, <1>4, <1>5, <1>6, <1>7, <1>8, <1>9, <1>10,
           BodyEndsInv, LineParsedInv, LoopEndsInv DEF ProvNext

(* However the API's lines are split, torn or cut off, and whichever of    *)
(* the dialects is spoken (src/agents/providers): one last event closes a  *)
(* stream, and its other events tell in order, each frame once, what the   *)
(* dialect makes of the frames the parser looked at.                       *)
THEOREM StreamsAreFaithful == ProvSpec => []StreamIsFaithful
BY StreamInitInv, StreamStepInv, StreamInvFaithful, PTL DEF ProvSpec
=============================================================================
