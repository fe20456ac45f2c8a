------------------------------- MODULE MCNode -------------------------------
(* Instance of Node for TLC: two directories, a protected file, a config   *)
(* file and a plain one.                                                   *)
EXTENDS Node, TLC

MCPaths  == {<<"a">>, <<"b">>} \cup ({"a", "b"} \X {"f", "c"})
MCConfig == {<<"a", "c">>, <<"b", "c">>}
MCTree0  == [p \in MCPaths |-> CASE Len(p) = 1 -> -1
                                 [] p = <<"a", "f">> -> 1
                                 [] p = <<"a", "c">> -> 2
                                 [] p = <<"b", "f">> -> 3
                                 [] OTHER -> 0]

Allow == [p \in MCPaths |-> [file |-> "ALLOWED", dir |-> "ALLOWED"]]

\* a/f masked; a/f hidden and b hidden as a directory; all of a hidden.
MCPolicies == {
    [Allow EXCEPT ![<<"a", "f">>].file = "MASKED"],
    [Allow EXCEPT ![<<"a", "f">>].file = "HIDDEN", ![<<"b">>].dir = "HIDDEN"],
    [p \in MCPaths |-> IF p[1] = "a" THEN [file |-> "HIDDEN", dir |-> "HIDDEN"] ELSE Allow[p]] }
=============================================================================
