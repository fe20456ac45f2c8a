------------------------------ MODULE MCEngine ------------------------------
(***************************************************************************)
(* Values of Engine's constants for TLC: a root directory with one         *)
(* subdirectory and a path in it.                                          *)
(***************************************************************************)
EXTENDS Engine, TLC

MCDirs   == {"root", "sub"}
MCKeys   == {"root/sub/g"}
MCChain  == [k \in MCKeys |-> <<"sub", "root">>]
MCLoadOrder == <<"global", "root", "sub">>

\* The two corners of the bounds that are explored: all calls while nothing is
\* edited or unreadable, and two of them while everything may be.
Still ==
    /\ edits = 0 /\ disk = [d \in Levels |-> 1]
    /\ rs.found = Levels /\ \A c \in Callers : my[c].found \in {{}, Levels}
Corners == Still \/ calls <= 2

CallerSymmetry == Permutations(Callers)
=============================================================================
