------------------------------ MODULE MCMount -------------------------------
(* Small instances of Mount. *)
EXTENDS Mount, TLC
CONSTANTS p, s1, s2

TwoVersions == 1 :> 1 @@ 2 :> 1

\* The file is allowed, then masked with one and another pattern set, then
\* hidden.
AllFaces == <<[x \in {p} |-> "allowed"], [x \in {p} |-> s1], [x \in {p} |-> s2],
              [x \in {p} |-> "hidden"]>>

=============================================================================
