------------------------------ MODULE Positions ------------------------------
(***************************************************************************)
(* Positions in a text, in the order they have there: those of the entries *)
(* of a table (MutationRun), of the comments and of the code of a bundle   *)
(* (BundleComments).                                                       *)
(***************************************************************************)
EXTENDS Integers, FiniteSets

(* The numbers of a finite set in ascending order.                          *)
Sorted(S) == [n \in 1 .. Cardinality(S) |-> CHOOSE i \in S : Cardinality({k \in S : k <= i}) = n]
=============================================================================
