---------------------- MODULE MCGenericContainerFiller ----------------------
(* Constants for model checking GenericContainerFiller.  Values are counted  *)
(* in halves.                                                                *)
EXTENDS GenericContainerFiller

MCLeaves == {"TLeafF", "TLeafI", "TLeafB"}

\* For a float 1, 1.5 and -0.5; for an int 1, the value -199 that stands for
\* "not written", and two integers with the same nearest float; for a char 1
\* and 57, the char that -199 becomes.
MCValues(l) ==
  CASE l = "TLeafF" -> {2, 3, -1}
    [] l = "TLeafI" -> {2, -398, 2 * (2^24), 2 * (2^24 + 1)}
    [] l = "TLeafB" -> {2, 114}

MCCounts == {-1, 0, 2}

MCLimits == {-1, 0, 3}
=============================================================================
