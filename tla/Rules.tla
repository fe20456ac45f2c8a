------------------------------- MODULE Rules -------------------------------
(***************************************************************************)
(* Policy files compiled and resolved (internal/rules), and the linter     *)
(* that reads the same rules (internal/check).  An editor changes policy   *)
(* files, Discover compiles what it finds, and everything else is a        *)
(* question asked of the compiled levels: Resolve, the matcher of glob.go, *)
(* the linter's findings.                                                  *)
(*                                                                         *)
(* A name is a tuple of characters, a path a tuple of names; globs are cut *)
(* at their slashes, as translateGlob cuts them.  Left out: case folding,  *)
(* '?' and character classes, the grammar of a mask line (an entry is its  *)
(* glob and its pattern references).                                       *)
(***************************************************************************)
EXTENDS Integers, Sequences, SequencesExt, FiniteSetsExt

CONSTANTS
    DirOrder,   \* the directories of the tree, as sort.Strings orders them
    Entries,    \* the tree's entries: [path, isDir]
    Contents,   \* [directory -> what its policy file may hold]
    Builtins,   \* [name of a pattern reference -> its patterns]
    NoFile,     \* the content of a directory without a policy file
    MaxEdits    \* bound: edits of policy files

\* The global config directory, and the way from there to the source root.
Global == << <<"~">> >>
ToRoot == << <<".", ".">>, <<"s">> >>

TreeDirs == ToSet(DirOrder)

\* A glob: its components, and what its spelling says of it; ok if it compiles.
Globs == [neg : BOOLEAN, dirOnly : BOOLEAN, anchored : BOOLEAN, ok : BOOLEAN, segs : Seq(Seq(STRING))]
PolicyFiles == [ok : BOOLEAN, hide : Seq(Globs), allow : Seq(Globs), mask : Seq([glob : Globs, refs : Seq(STRING)])]
PatternRecs == [name : STRING, re : STRING]
Dirs == TreeDirs \cup {Global}

ASSUME RulesAssumption ==
    /\ DirOrder \in Seq(Seq(Seq(STRING))) /\ Global \notin TreeDirs /\ <<>> \in TreeDirs
    /\ \A i, j \in 1 .. Len(DirOrder) :
         i < j => DirOrder[i] # DirOrder[j] /\ ~IsStrictPrefix(DirOrder[j], DirOrder[i])
    /\ Contents \in [Dirs -> SUBSET PolicyFiles]
    /\ NoFile \in PolicyFiles /\ NoFile.ok /\ NoFile.hide = <<>> /\ NoFile.allow = <<>>
    /\ \A b \in DOMAIN Builtins : Builtins[b] \in Seq(PatternRecs)
    /\ "whole-file" \in DOMAIN Builtins
    /\ MaxEdits \in Nat

\* The entries of a tree below its root come with the directories above them.
ASSUME EntriesAssumption ==
    /\ Entries \subseteq [path : Seq(Seq(STRING)) \ {<<>>}, isDir : BOOLEAN]
    /\ \A e \in Entries : \A k \in 1 .. Len(e.path) - 1 : [path |-> SubSeq(e.path, 1, k), isDir |-> TRUE] \in Entries

VARIABLES
    files,      \* [directory -> the content of its .janusfs.yml]
    rs,         \* the RuleSet: [levels, errs]
    edits

vars == <<files, rs, edits>>

\* The elements of s at the positions in N, in their order.
Pick(s, N) ==
    LET picked[k \in 0 .. Len(s)] ==
          IF k = 0 THEN <<>> ELSE IF k \in N THEN Append(picked[k - 1], s[k]) ELSE picked[k - 1]
    IN picked[Len(s)]

-----------------------------------------------------------------------------
(* glob.go: one line becomes a regular expression *)

\* A component's regexp: '*' stays within the component.
TranslateSegment(seg) == [i \in 1 .. Len(seg) |-> IF seg[i] = "*" THEN "[^/]*" ELSE seg[i]]

Stars == <<"**">>

\* Faulty variant: a slash-free glob is matched at the level's own depth only.
AnyDepthNever(g) == FALSE

\* A glob with a slash anywhere but at its end is anchored to its level.
AnyDepth(g) == ~g.anchored /\ Len(g.segs) = 1

\* What translateGlob writes for one component.
Piece(segs, i) ==
    LET afterStars == i > 1 /\ segs[i - 1] = Stars
    IN IF segs[i] # Stars THEN (IF i > 1 /\ ~afterStars THEN <<"/">> ELSE <<>>) \o TranslateSegment(segs[i])
       ELSE IF afterStars THEN <<>>
       ELSE IF Len(segs) = 1 THEN <<".*">>
       ELSE IF i = 1 THEN <<"(.*/)?">>
       ELSE IF i = Len(segs) THEN <<"/", ".*">>
       ELSE <<"(/.*)?">>

TranslateGlob(segs) == FlattenSeq([i \in 1 .. Len(segs) |-> Piece(segs, i)])

Regex(g) == (IF AnyDepth(g) THEN <<"(.*/)?">> ELSE <<>>) \o TranslateGlob(g.segs)

\* The positions of s a match may have reached after one more part of the
\* regular expression.
Consume(s, from, part) ==
    LET ends == 0 .. Len(s)
    IN CASE part = ".*"     -> {q \in ends : \E p \in from : p <= q}
         [] part = "[^/]*"  -> {q \in ends : \E p \in from : p <= q /\ \A i \in p + 1 .. q : s[i] # "/"}
         [] part = "(.*/)?" -> from \cup {q \in ends : \E p \in from : p < q /\ s[q] = "/"}
         [] part = "(/.*)?" -> from \cup {q \in ends : \E p \in from : p < q /\ s[p + 1] = "/"}
         [] OTHER           -> {p + 1 : p \in {i \in from : i < Len(s) /\ s[i + 1] = part}}

MatchString(re, s) == Len(s) \in FoldLeft(LAMBDA from, part : Consume(s, from, part), {0}, re)

\* ignorePattern.matches
Matches(g, s, isDir) == (g.dirOnly => isDir) /\ MatchString(Regex(g), s)

-----------------------------------------------------------------------------
(* rules.go: policy files become levels *)

\* The characters of a path.
Chars(path) == FlattenSeq([i \in 1 .. Len(path) |-> IF i = 1 THEN path[1] ELSE <<"/">> \o path[i]])

\* compileIgnorePolicy: hide first, then allow, each allow a negation.
Lines(c) ==
    LET globs == c.hide \o [i \in 1 .. Len(c.allow) |-> [c.allow[i] EXCEPT !.neg = TRUE]]
    IN [i \in 1 .. Len(globs) |-> [line |-> i, glob |-> globs[i]]]

\* ParsePatternRef and LookupBuiltin; without references a mask is whole-file.
PatternsOf(refs) ==
    IF refs = <<>> THEN Builtins["whole-file"]
    ELSE FlattenSeq([i \in 1 .. Len(refs) |-> IF refs[i] \in DOMAIN Builtins THEN Builtins[refs[i]] ELSE <<>>])

\* parseMaskLine
MaskEntries(c) == [i \in 1 .. Len(c.mask) |->
    [line |-> i, glob |-> c.mask[i].glob, refs |-> c.mask[i].refs, pats |-> PatternsOf(c.mask[i].refs),
     err |-> ~c.mask[i].glob.ok \/ \E r \in ToSet(c.mask[i].refs) : r \notin DOMAIN Builtins]]

Compiled(lines) == Pick(lines, {i \in DOMAIN lines : lines[i].glob.ok})

\* Faulty variant: a line that does not compile is skipped.
LoadSkipping(d, c) ==
    [dir |-> d, poisoned |-> ~c.ok,
     patterns |-> IF c.ok THEN Compiled(Lines(c)) ELSE <<>>,
     masks |-> IF c.ok THEN MaskEntries(c) ELSE <<>>]

\* loadPolicyLevel: a file that cannot be read or parsed, or is of another
\* version, poisons its level and has no rules; a line that does not compile
\* poisons it too.
LoadPolicyLevel(d, c) ==
    [dir |-> d,
     poisoned |-> ~c.ok \/ \E l \in ToSet(Lines(c)) : ~l.glob.ok,
     patterns |-> IF c.ok THEN Compiled(Lines(c)) ELSE <<>>,
     masks |-> IF c.ok THEN MaskEntries(c) ELSE <<>>]

\* Discover when the directories in lost could not be listed: the walk goes
\* on without what is below them.
Discovered(lost) ==
    LET dirs   == <<Global>> \o DirOrder
        walked == {i \in DOMAIN dirs : i = 1 \/ \A u \in lost : ~IsStrictPrefix(u, dirs[i])}
        found  == Pick(dirs, {i \in walked : files[dirs[i]] # NoFile})
        levels == [i \in 1 .. Len(found) |-> LoadPolicyLevel(found[i], files[found[i]])]
    IN [levels |-> levels,
        errs |-> lost \cup {levels[i].dir : i \in {j \in 1 .. Len(levels) : levels[j].poisoned}}]

-----------------------------------------------------------------------------
(* resolve.go *)

Applicable(l, path) == l.dir = Global \/ IsPrefix(l.dir, path)

\* The path as the level's globs see it: "." is the level's own directory,
\* but the root sees itself as "".
RelativeTo(l, path) ==
    IF l.dir = Global THEN Chars(ToRoot \o path)
    ELSE IF l.dir # <<>> /\ l.dir = path THEN <<".">>
    ELSE Chars(SubSeq(path, Len(l.dir) + 1, Len(path)))

\* resolveIgnore on the levels in order.  blocked are the in-tree negations
\* that the floor stopped; the trace shows them to the linter.
NoVerdict == [hidden |-> FALSE, floor |-> FALSE, poisoned |-> FALSE, blocked |-> {}]

\* Faulty variant: the floor is not looked at.
NegateAlways(l, s, n) == [s EXCEPT !.hidden = FALSE]

\* What a matching negation does.
Negate(l, s, n) ==
    IF l.dir # Global /\ s.floor THEN [s EXCEPT !.blocked = @ \cup {<<l.dir, n>>}]
    ELSE [s EXCEPT !.hidden = FALSE]

\* What a line of l does to the verdict before it.
AtLine(l, p, s, rel, isDir) ==
    IF ~Matches(p.glob, rel, isDir) THEN s
    ELSE IF p.glob.neg THEN Negate(l, s, p.line)
    ELSE [s EXCEPT !.hidden = TRUE]

AtLines(l, s, rel, isDir) ==
    LET after[k \in 0 .. Len(l.patterns)] ==
          IF k = 0 THEN s ELSE AtLine(l, l.patterns[k], after[k - 1], rel, isDir)
    IN after[Len(l.patterns)]

\* The global level's verdict is the floor.
Floored(l, v) == IF l.dir = Global THEN [v EXCEPT !.floor = v.hidden] ELSE v

AtLevel(l, s, path, isDir) ==
    IF l.poisoned THEN [s EXCEPT !.hidden = TRUE, !.poisoned = TRUE, !.floor = @ \/ l.dir = Global]
    ELSE Floored(l, AtLines(l, s, RelativeTo(l, path), isDir))

ResolveIgnore(levels, path, isDir) ==
    LET verdict[k \in 0 .. Len(levels)] ==
          IF k = 0 THEN NoVerdict
          ELSE IF Applicable(levels[k], path) THEN AtLevel(levels[k], verdict[k - 1], path, isDir)
          ELSE verdict[k - 1]
    IN verdict[Len(levels)]

\* Faulty variant: only the directory right above is asked.
ParentOnly(path) == IF Len(path) > 1 THEN <<SubSeq(path, 1, Len(path) - 1)>> ELSE <<>>

\* The directories above a path, the root left out, shallowest first.
Ancestors(path) == [k \in 1 .. Len(path) - 1 |-> SubSeq(path, 1, k)]

\* The mask entries whose glob compiled and matches.
MaskHits(levels, path) ==
    LET Hits(l) == {n \in DOMAIN l.masks :
            l.masks[n].glob.ok /\ Matches(l.masks[n].glob, RelativeTo(l, path), FALSE)}
    IN FlattenSeq([i \in 1 .. Len(levels) |->
            IF Applicable(levels[i], path) THEN Pick(levels[i].masks, Hits(levels[i])) ELSE <<>>])

\* The union of the entries' patterns, the first of each name.
UnionPatterns(hits) ==
    LET all == FlattenSeq([i \in 1 .. Len(hits) |-> hits[i].pats])
    IN {all[i] : i \in {i \in DOMAIN all : \A j \in 1 .. i - 1 : all[j].name # all[i].name}}

\* The decision from the verdict, the mask hits and their patterns.
Resolution(v, bad, pats, isDir) ==
    LET Answer(d, poisoned, ps) == [decision |-> d, poisoned |-> poisoned, pats |-> ps, blocked |-> v.blocked]
    IN IF v.hidden THEN Answer("HIDDEN", v.poisoned, {})
       ELSE IF isDir THEN Answer("ALLOWED", FALSE, {})
       ELSE IF bad THEN Answer("HIDDEN", TRUE, {})
       ELSE IF pats # {} THEN Answer("MASKED", FALSE, pats)
       ELSE Answer("ALLOWED", FALSE, {})

Resolve(levels, path, isDir) ==
    LET above == {a \in DOMAIN Ancestors(path) : ResolveIgnore(levels, Ancestors(path)[a], TRUE).hidden}
        v     == IF above # {} THEN ResolveIgnore(levels, Ancestors(path)[Min(above)], TRUE)
                 ELSE ResolveIgnore(levels, path, isDir)
        hits  == MaskHits(levels, path)
    IN Resolution(v, \E i \in DOMAIN hits : hits[i].err, UnionPatterns(hits), isDir)

-----------------------------------------------------------------------------
(* check.go *)

\* isUnderDir
Below(l) == {e \in Entries : l.dir # Global /\ IsPrefix(l.dir, e.path)}

LevelMatches(l, p, e) == Matches(p.glob, RelativeTo(l, e.path), e.isDir)

\* Faulty variant: an error of Discover is not reported.
DiscoverErrorsNone(r) == {}

DiscoverErrorFindings(r) == r.errs

MaskErrors(r) == {l \in ToSet(r.levels) : \E e \in ToSet(l.masks) : e.err}

HasErrors(r) == DiscoverErrorFindings(r) # {} \/ MaskErrors(r) # {}

Negations(l) == IF l.poisoned THEN {} ELSE {p \in ToSet(l.patterns) : p.glob.neg}

\* The negations that match something: <<level, line, entry>>.
MatchingNegations(r) ==
    {f \in UNION {{l} \X Negations(l) \X Below(l) : l \in ToSet(r.levels)} : LevelMatches(f[1], f[2], f[3])}

HiddenDirNegationFindings(r) ==
    {f \in MatchingNegations(r) :
        Len(f[3].path) > 1 /\ Resolve(r.levels, Front(f[3].path), TRUE).decision = "HIDDEN"}

\* Faulty variant: every negation in the trace is reported, not only the stopped ones.
FloorNegationsAll(r) == MatchingNegations(r)

GlobalFloorNegationFindings(r) ==
    {f \in MatchingNegations(r) : <<f[1].dir, f[2].line>> \in Resolve(r.levels, f[3].path, f[3].isDir).blocked}

\* subdirLevelRedundancyFindings and findParentLevel: the levels of
\* subdirectories each of whose matches the next level above matches as well.
Subdirs(r) == {l \in ToSet(r.levels) : ~l.poisoned /\ l.patterns # <<>> /\ l.dir \notin {<<>>, Global}}
ParentLevels(r, child) ==
    LET above == {l \in Subdirs(r) : IsStrictPrefix(l.dir, child.dir)}
    IN {l \in above : \A k \in above : Len(k.dir) <= Len(l.dir)}

Covered(child, parent) ==
    \A p \in ToSet(child.patterns), e \in Below(child) :
        LevelMatches(child, p, e) => \E q \in ToSet(parent.patterns) : LevelMatches(parent, q, e)
SubdirRedundancyFindings(r) ==
    {f \in Subdirs(r) \X Subdirs(r) : f[2] \in ParentLevels(r, f[1]) /\ Covered(f[1], f[2])}

-----------------------------------------------------------------------------
\* The directories a walk cannot list: none or one.
Losses == {{}} \cup {{d} : d \in TreeDirs}

Init ==
    /\ files = [d \in Dirs |-> NoFile]
    /\ rs = [levels |-> <<>>, errs |-> {}]
    /\ edits = 0

\* An editor writes or removes a policy file.  It waits for a Discover of the
\* edit before: what an older RuleSet answers meanwhile is Engine's subject.
Edit(d, c) ==
    /\ edits < MaxEdits /\ files[d] # c
    /\ \E lost \in Losses : rs = Discovered(lost)
    /\ files' = [files EXCEPT ![d] = c] /\ edits' = edits + 1
    /\ UNCHANGED rs

\* Discover, with a directory it cannot list or without.
Discover(lost) ==
    /\ rs' = Discovered(lost)
    /\ UNCHANGED <<files, edits>>

Next ==
    \/ \E d \in DOMAIN files : \E c \in Contents[d] : Edit(d, c)
    \/ \E lost \in Losses : Discover(lost)

Spec == Init /\ [][Next]_vars

-----------------------------------------------------------------------------
(* Correctness *)

Levels == ToSet(rs.levels)
Answers(e) == Resolve(rs.levels, e.path, e.isDir)

\* The levels with l's hide and allow lines replaced.
With(l, patterns) == [i \in 1 .. Len(rs.levels) |->
    IF rs.levels[i] = l THEN [l EXCEPT !.patterns = patterns] ELSE rs.levels[i]]

\* No policy file in the tree makes anything more visible than the global
\* rules alone leave it, whatever levels, negations and broken files there
\* are: what they hide stays hidden, what they mask is hidden or masked by at
\* least their patterns.
GlobalFloor ==
    \A l \in Levels, e \in Entries : l.dir = Global =>
        LET alone == Resolve(<<l>>, e.path, e.isDir)
        IN /\ alone.decision = "HIDDEN" => Answers(e).decision = "HIDDEN"
           /\ alone.decision = "MASKED" =>
                \/ Answers(e).decision = "HIDDEN"
                \/ {p.name : p \in alone.pats} \subseteq {p.name : p \in Answers(e).pats}

\* Nothing below a hidden directory shows, whatever a deeper rule allows.
HiddenSubtree ==
    \A d, e \in Entries : (d.isDir /\ IsStrictPrefix(d.path, e.path) /\ Answers(d).decision = "HIDDEN")
        => Answers(e).decision = "HIDDEN"

\* A policy file that could not be compiled hides what is below it, unless a
\* level deeper than it matches with an allow rule.
Uncompiled(c) == ~c.ok \/ \E g \in ToSet(c.hide) \cup ToSet(c.allow) : ~g.ok
PoisonHides ==
    rs = Discovered({}) => \A d \in DOMAIN files, e \in Entries :
        (Uncompiled(files[d]) /\ (d = Global \/ IsPrefix(d, e.path))) =>
            \/ Answers(e).decision = "HIDDEN"
            \/ d # Global /\ \E k \in Levels : \E p \in ToSet(k.patterns) :
                  IsStrictPrefix(d, k.dir) /\ e \in Below(k) /\ p.glob.neg /\ LevelMatches(k, p, e)

\* gitignore's own reading of a glob, component by component.
SegmentMatches(seg, name) == MatchString(TranslateSegment(seg), name)
GitMatch[segs \in Seq(Seq(STRING)), path \in Seq(Seq(STRING))] ==
    IF segs = <<>> THEN path = <<>>
    ELSE IF Head(segs) # Stars
    THEN path # <<>> /\ SegmentMatches(Head(segs), Head(path)) /\ GitMatch[Tail(segs), Tail(path)]
    ELSE IF Tail(segs) = <<>> THEN path # <<>>
    ELSE GitMatch[Tail(segs), path] \/ (path # <<>> /\ GitMatch[segs, Tail(path)])
GitMatches(g, path) ==
    IF Len(g.segs) = 1 /\ ~g.anchored THEN SegmentMatches(g.segs[1], Last(path)) \/ g.segs[1] = Stars
    ELSE GitMatch[g.segs, path]

\* The regular expression of a glob matches every path that gitignore's
\* reading matches, and, unless "**" stands between two components, no other.
GlobsAgreeWithGit ==
    \A l \in Levels : \A p \in ToSet(l.patterns), e \in Below(l) : e.path # l.dir =>
        LET code == MatchString(Regex(p.glob), RelativeTo(l, e.path))
            git  == GitMatches(p.glob, SubSeq(e.path, Len(l.dir) + 1, Len(e.path)))
            inner == \E i \in 2 .. Len(p.glob.segs) - 1 : p.glob.segs[i] = Stars
        IN (git => code) /\ (code => git \/ inner)

\* What is hidden because the configuration is broken is never silent: the
\* linter reports an error.
PoisonReported == (\E e \in Entries : Answers(e).poisoned) => HasErrors(rs)

\* What the linter calls without effect has none.  Without a negation it
\* reports as dead, the entry it names resolves the same; without a level it
\* reports as redundant every entry does, if neither that level nor the one it
\* is compared with has an allow rule.
LintSound ==
    /\ \A f \in HiddenDirNegationFindings(rs) \cup GlobalFloorNegationFindings(rs) :
         LET cut == With(f[1], Pick(f[1].patterns, {i \in DOMAIN f[1].patterns : f[1].patterns[i] # f[2]}))
         IN Resolve(cut, f[3].path, f[3].isDir).decision = Answers(f[3]).decision
    /\ \A f \in SubdirRedundancyFindings(rs) : Negations(f[1]) \cup Negations(f[2]) = {} =>
         \A e \in Entries : Resolve(With(f[1], <<>>), e.path, e.isDir).decision = Answers(e).decision
=============================================================================
