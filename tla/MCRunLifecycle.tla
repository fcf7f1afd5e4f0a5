--------------------------- MODULE MCRunLifecycle ---------------------------
(* Instances of RunLifecycle for TLC.  The configurations give the sets of *)
(* runs and processes as model values; processes of the same kind are      *)
(* interchangeable, and so is any state that permutes them.                *)
EXTENDS RunLifecycle, TLC

Symmetry ==
  Permutations(Apis) \cup Permutations(Workers) \cup Permutations(Consoles)
=============================================================================
