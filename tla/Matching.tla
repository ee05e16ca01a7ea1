------------------------------ MODULE Matching ------------------------------
(***************************************************************************)
(* Class Matching (core/Matching.hpp): which channels of a first branch    *)
(* are matched with which channels of a second one, in one event.  There   *)
(* is a std::map for each direction; insert leaves a map alone when the    *)
(* key is taken, so each map keeps the first partner of every channel.     *)
(***************************************************************************)
EXTENDS Integers

NoMatches == [direct |-> <<>>, inverted |-> <<>>]

Insert(f, k, v) ==
  IF k \in DOMAIN f THEN f
  ELSE [x \in DOMAIN f \cup {k} |-> IF x = k THEN v ELSE f[x]]

\* Mutant of AddMatch: the inverted map is keyed like the direct one.
AddMatchSameKey(m, i, j) ==
  [direct   |-> Insert(m.direct, i, j),
   inverted |-> Insert(m.inverted, i, j)]

AddMatch(m, i, j) ==
  [direct   |-> Insert(m.direct, i, j),
   inverted |-> Insert(m.inverted, j, i)]

GetMatches(m, isInverted) == IF isInverted THEN m.inverted ELSE m.direct
=============================================================================
