----------------------------- MODULE Subsequences -----------------------------
(***************************************************************************)
(* Sequences from which entries are taken: the linked lists of wait blocks *)
(* that wakers walk from the head, unlinking some of the entries and       *)
(* keeping the order of the others.  SelectSeq would do for model          *)
(* checking; these definitions do without recursion, so that the proofs    *)
(* can say what is left of a list.                                         *)
(***************************************************************************)
EXTENDS Integers, FiniteSets, Sequences

(* How many of the positions P come before i.                              *)
Before(P, i) == Cardinality({j \in P : j < i})

(* The entries of s at the positions P, in their order.                    *)
AtPositions(s, P) ==
  [n \in 1..Cardinality(P) |-> s[CHOOSE i \in P : Before(P, i) = n - 1]]

(* What is left of s without the members of S.                             *)
Remaining(s, S) == AtPositions(s, {i \in DOMAIN s : s[i] \notin S})
=============================================================================
