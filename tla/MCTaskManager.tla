--------------------------- MODULE MCTaskManager ---------------------------
(* Constants for model checking TaskManager: two tasks, each with a branch  *)
(* of its own.                                                              *)
EXTENDS TaskManager

CONSTANTS t1, t2, A, B, f0, f1, f2

MCBranch == [t \in {t1, t2} |-> IF t = t1 THEN A ELSE B]

\* The two tasks may be swapped with their branches, and the files that are
\* not the default one.
SwapTasks == [x \in {t1, t2, A, B} |->
                CASE x = t1 -> t2 [] x = t2 -> t1 [] x = A -> B [] OTHER -> A]

SwapFiles == [x \in {f1, f2} |-> IF x = f1 THEN f2 ELSE f1]

Same(S) == [x \in S |-> x]

MCSymmetry ==
  {[x \in {t1, t2, A, B, f1, f2} |->
      IF x \in {f1, f2} THEN files[x] ELSE names[x]] :
     names \in {SwapTasks, Same({t1, t2, A, B})},
     files \in {SwapFiles, Same({f1, f2})}}
=============================================================================
