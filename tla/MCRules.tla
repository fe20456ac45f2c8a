------------------------------ MODULE MCRules ------------------------------
(* Instance of Rules for TLC: the tree a/, a/b/, a/b/a, a/b/xb, a/xb, b and *)
(* policy files that hide, allow, mask, combine them and break.            *)
EXTENDS Rules, TLC

A == <<"a">>
B == <<"b">>
XB == <<"x", "b">>
AnyB == <<"*", "b">>
All == <<"*">>

MCDirOrder == << <<>>, <<A>>, <<A, B>> >>
MCEntries == {[path |-> p, isDir |-> TRUE] : p \in {<<A>>, <<A, B>>}} \cup
             {[path |-> p, isDir |-> FALSE] : p \in {<<A, B, A>>, <<A, B, XB>>, <<A, XB>>, <<B>>}}

Glob(segs) == [neg |-> FALSE, dirOnly |-> FALSE, anchored |-> FALSE, segs |-> segs, ok |-> TRUE]
DirGlob(segs) == [Glob(segs) EXCEPT !.dirOnly = TRUE]
Anchored(segs) == [Glob(segs) EXCEPT !.anchored = TRUE]
Broken == [Glob(<<B>>) EXCEPT !.ok = FALSE]

File(hide, allow, mask) == [ok |-> TRUE, hide |-> hide, allow |-> allow, mask |-> mask]
MCNoFile == [ok |-> TRUE, hide |-> <<>>, allow |-> <<>>, mask |-> <<>>]
Unparsable == [MCNoFile EXCEPT !.ok = FALSE]
Mask(g, refs) == File(<<>>, <<>>, <<[glob |-> g, refs |-> refs]>>)

Hide(g)  == File(<<g>>, <<>>, <<>>)
Allow(g) == File(<<>>, <<g>>, <<>>)
Keep(g)  == File(<<Glob(<<All>>)>>, <<g>>, <<>>)

Common == {MCNoFile, Unparsable, Hide(Glob(<<AnyB>>)), Allow(Glob(<<All>>)), Keep(Glob(<<B>>)),
           Mask(Glob(<<AnyB>>), <<"aws-key">>), Mask(Glob(<<B>>), <<"typo">>)}

MCContents == [d \in {Global, <<>>, <<A>>, <<A, B>>} |->
    CASE d = Global -> Common \cup {Hide(Anchored(<<B>>)), Mask(Glob(<<All>>), <<"env-value", "aws-key">>)}
      [] d = <<>>   -> Common \cup {Hide(g) : g \in {Broken, DirGlob(<<B>>), Anchored(<<B>>), Glob(<<A, Stars, B>>),
                                     Glob(<<Stars, B>>), Glob(<<A, Stars>>), Glob(<<Stars>>)}}
                              \cup {Allow(Glob(<<A, B>>)), Mask(Broken, <<>>)}
      [] d = <<A>>  -> Common \cup {Hide(DirGlob(<<B>>)), Hide(Glob(<<XB>>)), Mask(Glob(<<XB>>), <<>>)}
      [] OTHER      -> Common \cup {Hide(Glob(<<XB>>)), Hide(Glob(<<All>>))}]

Pat(n, re) == [name |-> n, re |-> re]
MCBuiltins == [r \in {"aws-key", "env-value", "whole-file"} |->
    IF r = "aws-key" THEN <<Pat(r, "key id"), Pat(r, "secret key")>> ELSE <<Pat(r, r)>>]
=============================================================================
