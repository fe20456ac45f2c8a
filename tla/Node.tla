-------------------------------- MODULE Node --------------------------------
(***************************************************************************)
(* The operations of JanusNode that change the backing tree                *)
(* (janus_node.go), run by several FUSE threads at once.  Each is decided  *)
(* by name first - isConfigFile, an lstat, Engine.Resolve, gate - and done *)
(* by name afterwards by go-fuse's LoopbackNode, with the tree free to     *)
(* change in between.  The policy stays; reloads are in Mount and Engine.  *)
(*                                                                         *)
(* Names two levels deep, as sequences: <<d>> in the root and <<d, n>>.    *)
(***************************************************************************)
EXTENDS Integers, Sequences, FiniteSets

CONSTANTS
    Threads,    \* FUSE requests served at the same time
    Paths,      \* every name the model uses
    Config,     \* the names .janusfs.yml among them
    Policies,   \* what Resolve may answer: functions from Paths to [file, dir]
    Tree0,      \* the tree at the start
    MaxFiles,   \* bound: files ever created
    MaxCalls    \* bound: operations that pass their first check

\* What a name is: nothing, a directory, or a file with its inode.
None == 0
Dir  == -1

\* The files there at the start.
Files0 == {p \in Paths : Tree0[p] \notin {None, Dir}}

\* Two levels, a directory above every name that is there, and no hard links
\* at the start: the files have the inodes from 1 on.
ASSUME NodeAssumption ==
    /\ IsFiniteSet(Paths) /\ Config \subseteq Paths /\ MaxFiles \in Nat /\ MaxCalls \in Nat
    /\ \A p \in Paths : p = <<p[1]>> \/ (p = <<p[1], p[2]>> /\ <<p[1]>> \in Paths)
    /\ Tree0 \in [Paths -> {None, Dir} \cup 1 .. Cardinality(Files0)]
    /\ \A p, q \in Files0 : Tree0[p] = Tree0[q] => p = q
    /\ \A p \in Paths : Len(p) = 2 /\ Tree0[p] # None => Tree0[<<p[1]>>] = Dir

VARIABLES
    policy,
    tree,     \* [Paths -> None, Dir or the inode of a file]
    inodes,   \* how many inodes there were
    dirty,    \* inodes whose bytes, length or mode were changed
    call,     \* [Threads -> the operation under way]
    calls,
    carried,  \* history: inodes that moved because their directory was renamed
    linked    \* history: inodes that got a second name

vars == <<policy, tree, inodes, dirty, call, calls, carried, linked>>

Idle == [op |-> "none", at |-> "none", p |-> <<>>, q |-> <<>>]

\* decisionFor: Lstat tells a directory; a name that does not exist counts as
\* a file.
Decision(p, isDir) == IF isDir THEN policy[p].dir ELSE policy[p].file
DecisionFor(p) == Decision(p, tree[p] = Dir)

\* Faulty variant: every operation denies only what is HIDDEN.
GateHidden(op, d) == d # "HIDDEN"

\* gate: mkdir and rmdir deny HIDDEN, everything else denies all but ALLOWED.
Gate(op, d) == IF op \in {"mkdir", "rmdir"} THEN d # "HIDDEN" ELSE d = "ALLOWED"

\* Faulty variant: rename looks at the name it moves from only.
ConfigDeniedSource(op, p, q) == op \in {"write", "setattr", "unlink", "create", "rename"} /\ p \in Config

\* The operations that look for a config file's name, and on which names.
ConfigDenied(op, p, q) ==
    \/ op \in {"write", "setattr", "unlink", "create", "rename"} /\ p \in Config
    \/ op = "rename" /\ q \in Config

Ops1 == {"write", "setattr", "unlink", "mkdir", "rmdir", "symlink", "mknod", "create"}
Ops2 == {"rename", "link"}

\* Open, Setattr and Link's target are decided on the node, a file's; the
\* others on the name in its parent.
FirstDecision(op, p) == IF op \in {"write", "setattr", "link"} THEN Decision(p, FALSE) ELSE DecisionFor(p)

Init ==
    /\ policy \in Policies /\ tree = Tree0
    /\ inodes = Cardinality(Files0)
    /\ dirty = {} /\ call = [t \in Threads |-> Idle] /\ calls = 0
    /\ carried = {} /\ linked = {}

Call(t, op, p, q) ==
    /\ call[t] = Idle /\ calls < MaxCalls
    /\ ~ConfigDenied(op, p, q) /\ Gate(op, FirstDecision(op, p))
    /\ call' = [call EXCEPT ![t] = [op |-> op, at |-> IF op \in Ops2 THEN "second" ELSE "act", p |-> p, q |-> q]]
    /\ calls' = calls + 1
    /\ UNCHANGED <<policy, tree, inodes, dirty, carried, linked>>

\* Rename and Link decide their new name as well.
Decide(t) ==
    /\ call[t].at = "second"
    /\ call' = [call EXCEPT ![t] = IF Gate(@.op, DecisionFor(@.q)) THEN [@ EXCEPT !.at = "act"] ELSE Idle]
    /\ UNCHANGED <<policy, tree, inodes, dirty, calls, carried, linked>>

-----------------------------------------------------------------------------
(* What LoopbackNode does, by name, with the kernel's own checks. *)

IsFile(p)    == tree[p] \notin {None, Dir}
Children(p)  == {c \in Paths : Len(c) = 2 /\ <<c[1]>> = p}
Empty(p)     == \A c \in Children(p) : tree[c] = None
HasParent(p) == Len(p) = 1 \/ tree[<<p[1]>>] = Dir
Free(p)      == tree[p] = None /\ HasParent(p)

\* The tree after the name q, and what is below it, came from p; with
\* RENAME_EXCHANGE what was at q goes to p.
At(c) == IF c \in Paths THEN tree[c] ELSE None
Under(c, p) == c = p \/ c \in Children(p)
Reroot(c, p, q) == IF c = p THEN q ELSE Append(q, c[2])
Moved(p, q, exchange) == [c \in Paths |->
    IF Under(c, q) THEN At(Reroot(c, q, p))
    ELSE IF Under(c, p) THEN (IF exchange THEN At(Reroot(c, p, q)) ELSE None)
    ELSE tree[c]]

\* A directory is renamed within the root only: names have two levels.
CanRename(p, q, exchange) ==
    /\ tree[p] # None /\ HasParent(q) /\ p # q /\ p \notin Children(q) /\ q \notin Children(p)
    /\ Dir \in {tree[p], tree[q]} => Len(p) = 1 /\ Len(q) = 1
    /\ \/ exchange /\ tree[q] # None
       \/ ~exchange /\ IsFile(p) /\ tree[q] # Dir
       \/ ~exchange /\ tree[p] = Dir /\ (tree[q] = None \/ (tree[q] = Dir /\ Empty(q)))

NewFile(p) == inodes' = inodes + 1 /\ tree' = [tree EXCEPT ![p] = inodes'] /\ inodes < MaxFiles

Act(t) ==
    /\ call[t].at = "act"
    /\ LET op == call[t].op
           p == call[t].p
           q == call[t].q
       IN \/ /\ op \in {"write", "setattr"} /\ IsFile(p)
             /\ dirty' = dirty \cup {tree[p]} /\ UNCHANGED <<tree, inodes, carried, linked>>
          \/ /\ op = "unlink" /\ IsFile(p)
             /\ tree' = [tree EXCEPT ![p] = None] /\ UNCHANGED <<inodes, dirty, carried, linked>>
          \/ /\ op = "mkdir" /\ Free(p)
             /\ tree' = [tree EXCEPT ![p] = Dir] /\ UNCHANGED <<inodes, dirty, carried, linked>>
          \/ /\ op = "rmdir" /\ tree[p] = Dir /\ Empty(p)
             /\ tree' = [tree EXCEPT ![p] = None] /\ UNCHANGED <<inodes, dirty, carried, linked>>
          \/ /\ op \in {"symlink", "mknod", "create"} /\ Free(p)
             /\ NewFile(p) /\ UNCHANGED <<dirty, carried, linked>>
          \/ /\ op = "create" /\ IsFile(p)
             /\ dirty' = dirty \cup {tree[p]} /\ UNCHANGED <<tree, inodes, carried, linked>>
          \/ \E exchange \in BOOLEAN :
                /\ op = "rename" /\ CanRename(p, q, exchange)
                /\ tree' = Moved(p, q, exchange)
                /\ carried' = carried \cup {tree[c] : c \in Children(p) \cup (IF exchange THEN Children(q) ELSE {})}
                /\ UNCHANGED <<inodes, dirty, linked>>
          \/ /\ op = "link" /\ IsFile(p) /\ Free(q)
             /\ tree' = [tree EXCEPT ![q] = tree[p]] /\ linked' = linked \cup {tree[p]}
             /\ UNCHANGED <<inodes, dirty, carried>>
    /\ call' = [call EXCEPT ![t] = Idle]
    /\ UNCHANGED <<policy, calls>>

\* The kernel refuses: the name went away, or came, since the decision.
Errno(t) ==
    /\ call[t].at = "act"
    /\ call' = [call EXCEPT ![t] = Idle]
    /\ UNCHANGED <<policy, tree, inodes, dirty, calls, carried, linked>>

Next ==
    \E t \in Threads :
        \/ \E p \in Paths : \E op \in Ops1 : Call(t, op, p, <<>>)
        \/ \E p, q \in Paths : \E op \in Ops2 : Call(t, op, p, q)
        \/ Decide(t) \/ Act(t) \/ Errno(t)

Spec == Init /\ [][Next]_vars

-----------------------------------------------------------------------------
(* Correctness *)

\* The files that are MASKED or HIDDEN at the start.
Protected == {p \in Files0 : policy[p].file # "ALLOWED"}

\* A protected file is where it was, unchanged, and under no other name: no
\* interleaving of operations, each decided before the tree changed again,
\* renames, links, replaces, truncates or removes it.  A directory is decided
\* by its own name only, and carries its files along when it is renamed.
ProtectedStays ==
    \A p \in Protected : Tree0[p] \notin carried =>
        /\ {r \in Paths : tree[r] = Tree0[p]} = {p}
        /\ Tree0[p] \notin dirty

\* A config file that is there stays what it is: not removed, renamed or
\* replaced, and not written to through its own name (isConfigFile "must be
\* read-only through the mount").  Through a second name it is written to like
\* any other file, and Link, which asks no isConfigFile, makes one: `linked`.
ConfigStays ==
    \A p \in Config \cap Files0 : Tree0[p] \notin carried =>
        /\ tree[p] = Tree0[p]
        /\ Tree0[p] \in dirty => Tree0[p] \in linked
=============================================================================
