------------------------------- MODULE Sorting -------------------------------
(***************************************************************************)
(* The slice::sort_by of the standard library.  Before is the order that   *)
(* the sort leaves the elements in; it tells any two of them apart, by     *)
(* their places in the slice if need be, the sort being stable.            *)
(***************************************************************************)
EXTENDS Integers, FiniteSets

\* The elements of S in order: as many stand before each as belong before it.
InOrder(S, Before(_, _)) ==
  [k \in 1 .. Cardinality(S) |->
     CHOOSE e \in S : Cardinality({d \in S : Before(d, e)}) = k - 1]
=============================================================================
