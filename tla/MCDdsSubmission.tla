-------------------------- MODULE MCDdsSubmission --------------------------
(* Model-checking instances of DdsSubmission.                              *)
EXTENDS DdsSubmission, TLC

(* Statements, tasks, workers and lots are interchangeable.  Numbers are   *)
(* not: the model takes them in an order of its own.                       *)
Symmetry ==
  UNION {Permutations(Dds), Permutations(Lots), Permutations(Tasks),
         Permutations(Workers)}

=============================================================================
