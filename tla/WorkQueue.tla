------------------------------ MODULE WorkQueue ------------------------------
(***************************************************************************)
(* What the gateway promises of the work queued for a node: an item is     *)
(* taken at most once and in the order in which the items were accepted.   *)
(* It says nothing of what becomes of an item once it has been taken.      *)
(***************************************************************************)
EXTENDS Naturals, Sequences

CONSTANTS Nodes, Work

VARIABLES
    accepted,  \* node -> the items accepted for it, in order
    taken      \* node -> the items handed out, in order

Init ==
    /\ accepted = [n \in Nodes |-> <<>>]
    /\ taken = [n \in Nodes |-> <<>>]

Accept(n) ==
    /\ \E w \in Work : accepted' = [accepted EXCEPT ![n] = Append(@, w)]
    /\ UNCHANGED taken

(* The next so many items, all of them in one step.                        *)
Take(n) ==
    /\ \E upto \in Len(taken[n]) + 1 .. Len(accepted[n]) :
           taken' = [taken EXCEPT ![n] = SubSeq(accepted[n], 1, upto)]
    /\ UNCHANGED accepted

Next == \E n \in Nodes : Accept(n) \/ Take(n)

Spec == Init /\ [][Next]_<<accepted, taken>>
=============================================================================
