------------------------------ MODULE InOrder ------------------------------
(***************************************************************************)
(* Elements of a set or sequence in order, as the loops over std::map,     *)
(* std::set and std::vector meet them.  These are SetToSortSeq and         *)
(* SelectSeq in terms of the positions of the elements, which is the form  *)
(* the proofs can use.                                                     *)
(***************************************************************************)
EXTENDS Integers, SequencesExt

\* The number of elements of S below n.
Below(S, n) == Cardinality({m \in S : m < n})

\* The integers of the finite set S from the least to the greatest.
Ascending(S) ==
  [i \in 1 .. Cardinality(S) |-> CHOOSE n \in S : Below(S, n) = i - 1]

\* The elements of s that are in T, in the order of s.
Those(s, T) ==
  LET at == Ascending({n \in DOMAIN s : s[n] \in T})
  IN [i \in DOMAIN at |-> s[at[i]]]
=============================================================================
