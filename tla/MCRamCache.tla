----------------------------- MODULE MCRamCache -----------------------------
(* Small instances of RamCache. *)
EXTENDS RamCache, TLC

\* With a budget of 2, two files of version 1 fit, one of version 2 alone.
TwoVersions == 1 :> 1 @@ 2 :> 2

\* The third version does not fit the budget at all.
ThreeVersions == TwoVersions @@ 3 :> 3

Symmetry == Permutations(Readers) \cup Permutations(Paths)

=============================================================================
