---------------------------- MODULE Subsequences ----------------------------
(***************************************************************************)
(* The entries of a sequence that are in a set, in their order.  This is   *)
(* SelectSeq with a set for a test: a set can stand in the statement of a  *)
(* theorem, a test cannot.                                                 *)
(***************************************************************************)
EXTENDS Naturals, Sequences

Only(s, K) ==
    LET upTo[i \in 0 .. Len(s)] ==
            IF i = 0 THEN <<>>
            ELSE IF s[i] \in K THEN Append(upTo[i - 1], s[i])
            ELSE upTo[i - 1]
    IN upTo[Len(s)]
=============================================================================
