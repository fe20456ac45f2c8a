----------------------------- MODULE NodeProofs -----------------------------
(***************************************************************************)
(* ProtectedStays and ConfigStays of Node for any tree, any policies, any  *)
(* number of threads and operations.                                       *)
(*                                                                         *)
(* Neither is inductive: what a thread does to a name was decided before   *)
(* the tree changed.  The invariant says of a thread past its checks that  *)
(* the name it works on is not the home of a guarded file (Cleared), and   *)
(* of the tree that whatever exists lies in a directory (Rooted), so that  *)
(* a rename onto a name never buries a file below it.                      *)
(***************************************************************************)
EXTENDS Node, TLAPS, FiniteSetTheorems, SequenceTheorems

\* The names whose file must stay, as long as its directory is not renamed.
Home(p) == p \in Protected \cup (Config \cap Files0) /\ Tree0[p] \notin carried

CallRecs == [op : {"none"} \cup Ops1 \cup Ops2, at : {"none", "second", "act"},
             p : Paths \cup {<<>>}, q : Paths \cup {<<>>}]

NodeTypes ==
    /\ inodes \in Nat /\ tree \in [Paths -> {None, Dir} \cup 1 .. inodes]
    /\ \A p \in Paths : Tree0[p] \in {None, Dir} \cup 1 .. inodes
    /\ call \in [Threads -> CallRecs]

\* The operands of a call under way.
Operands ==
    \A t \in Threads :
        /\ call[t].at # "none" => call[t].p \in Paths /\ call[t].op \in Ops1 \cup Ops2
        /\ call[t].at # "none" /\ call[t].op \in Ops2 => call[t].q \in Paths

\* Whatever exists lies in a directory.
Rooted == \A c \in Paths : Len(c) = 2 /\ tree[c] # None => tree[<<c[1]>>] = Dir

\* A thread past its checks has a name it may change.
Cleared ==
    \A t \in Threads :
        /\ call[t].at # "none" /\ call[t].op \in {"write", "setattr", "unlink", "create", "rename"}
             => ~Home(call[t].p)
        /\ call[t].at # "none" /\ call[t].op = "link"
             => ~(Home(call[t].p) /\ call[t].p \in Protected)
        /\ call[t].at # "none" /\ call[t].op = "rename" => call[t].q \notin Config
        /\ call[t].at = "act" /\ call[t].op = "rename" => ~Home(call[t].q)

\* A guarded file is at home, and changed, or found elsewhere, only through a
\* second name the mount has made; a protected one is not even that.
Stays(p) ==
    /\ tree[p] = Tree0[p]
    /\ \A r \in Paths : tree[r] = Tree0[p] => r = p \/ Tree0[p] \in linked
    /\ Tree0[p] \in dirty => Tree0[p] \in linked
    /\ p \in Protected => Tree0[p] \notin linked

Guarded == \A p \in Paths : Home(p) => Stays(p)

IInv == NodeTypes /\ Operands /\ Rooted /\ Cleared /\ Guarded

-----------------------------------------------------------------------------
(* Names of one or two levels. *)

Parent(c) == <<c[1]>>

LEMMA Append1 == ASSUME NEW a, NEW x PROVE Len(Append(<<a>>, x)) = 2 /\ Append(<<a>>, x)[1] = a
  <1>1. <<a>> \in Seq({a, x}) /\ Len(<<a>>) = 1 /\ <<a>>[1] = a /\ x \in {a, x}
    OBVIOUS
  <1>. QED
    BY <1>1, AppendProperties

LEMMA Append2 == ASSUME NEW a, NEW b, NEW x PROVE Len(Append(<<a, b>>, x)) = 3
  <1>1. <<a, b>> \in Seq({a, b, x}) /\ Len(<<a, b>>) = 2 /\ x \in {a, b, x}
    OBVIOUS
  <1>. QED
    BY <1>1, AppendProperties

LEMMA Levels ==
    /\ \A c \in Paths : Len(c) \in {1, 2}
    /\ \A c \in Paths : Len(c) = 2 => Parent(c) \in Paths /\ Len(Parent(c)) = 1
    /\ \A p, c \in Paths : c \in Children(p) <=> Len(c) = 2 /\ Parent(c) = p
    /\ \A p \in Paths : \A x : Append(p, x) \in Paths => Append(p, x) \in Children(p)
  <1>1. ASSUME NEW c \in Paths
        PROVE  /\ Len(c) \in {1, 2}
               /\ Len(c) = 2 => Parent(c) \in Paths /\ Len(Parent(c)) = 1
    <2>1. CASE c = <<c[1]>>
      <3>1. Len(<<c[1]>>) = 1
        OBVIOUS
      <3>. QED
        BY <2>1, <3>1
    <2>2. CASE c = <<c[1], c[2]>> /\ <<c[1]>> \in Paths
      <3>1. Len(<<c[1], c[2]>>) = 2 /\ Len(<<c[1]>>) = 1
        OBVIOUS
      <3>. QED
        BY <2>2, <3>1 DEF Parent
    <2>. QED
      BY <2>1, <2>2, NodeAssumption
  <1>2. \A p, c \in Paths : c \in Children(p) <=> Len(c) = 2 /\ Parent(c) = p
    BY DEF Children, Parent
  <1>3. ASSUME NEW p \in Paths, NEW x, Append(p, x) \in Paths
        PROVE  Append(p, x) \in Children(p)
    <2>1. CASE p = <<p[1]>>
      <3>1. PICK a : p = <<a>>
        BY <2>1
      <3>2. Len(Append(<<a>>, x)) = 2 /\ Append(<<a>>, x)[1] = a
        BY Append1
      <3>3. <<a>>[1] = a
        OBVIOUS
      <3>4. Len(Append(p, x)) = 2 /\ Append(p, x)[1] = a /\ p[1] = a
        BY <3>1, <3>2, <3>3
      <3>. QED
        BY <1>3, <3>1, <3>4 DEF Children
    <2>2. CASE p = <<p[1], p[2]>>
      <3>a. PICK a, b : p = <<a, b>>
        BY <2>2
      <3>b. Len(Append(<<a, b>>, x)) = 3
        BY Append2
      <3>1. Len(Append(p, x)) = 3
        BY <3>a, <3>b
      <3>2. Len(Append(p, x)) \in {1, 2}
        BY <1>1, <1>3
      <3>. QED
        BY <3>1, <3>2
    <2>. QED
      BY <2>1, <2>2, NodeAssumption
  <1>. QED
    BY <1>1, <1>2, <1>3

\* What comes to a name below p from below q was at q, or below it.
LEMMA RerootTop == ASSUME NEW p \in Paths, NEW q \in Paths PROVE At(Reroot(p, p, q)) = tree[q]
  BY DEF At, Reroot

LEMMA RerootBelow ==
    ASSUME NEW p \in Paths, NEW q \in Paths, NEW c \in Children(p), At(Reroot(c, p, q)) # None
    PROVE  \E d \in Children(q) : At(Reroot(c, p, q)) = tree[d]
  <1>1. c # p
    BY Levels DEF Children, Parent
  <1>2. Append(q, c[2]) \in Paths /\ At(Reroot(c, p, q)) = tree[Append(q, c[2])]
    BY <1>1 DEF At, Reroot
  <1>. QED
    BY <1>2, Levels

-----------------------------------------------------------------------------
(* Renames. *)

\* Every name keeps its file, loses it, or gets one of another name that is
\* being moved; a name outside of p and q keeps it.
LEMMA MovedFrom ==
    ASSUME NEW p \in Paths, NEW q \in Paths, NEW x \in BOOLEAN, NEW c \in Paths
    PROVE  LET n == Moved(p, q, x)[c] IN
           /\ ~Under(c, p) /\ ~Under(c, q) => n = tree[c]
           /\ n # None => \/ ~Under(c, p) /\ ~Under(c, q) /\ n = tree[c]
                          \/ \E d \in Paths : n = tree[d] /\ (Under(d, p) \/ (x /\ Under(d, q)))
  <1>1. CASE Under(c, q)
    <2>1. Moved(p, q, x)[c] = At(Reroot(c, q, p))
      BY <1>1 DEF Moved
    <2>2. At(Reroot(c, q, p)) # None => \E d \in Paths : At(Reroot(c, q, p)) = tree[d] /\ Under(d, p)
      <3>1. CASE c = q
        BY <3>1, RerootTop DEF Under
      <3>2. CASE c \in Children(q)
        BY <3>2, RerootBelow DEF Under, Children
      <3>. QED
        BY <1>1, <3>1, <3>2 DEF Under
    <2>. QED
      BY <1>1, <2>1, <2>2
  <1>2. CASE ~Under(c, q) /\ Under(c, p)
    <2>1. Moved(p, q, x)[c] = IF x THEN At(Reroot(c, p, q)) ELSE None
      BY <1>2 DEF Moved
    <2>2. At(Reroot(c, p, q)) # None => \E d \in Paths : At(Reroot(c, p, q)) = tree[d] /\ Under(d, q)
      <3>1. CASE c = p
        BY <3>1, RerootTop DEF Under
      <3>2. CASE c \in Children(p)
        BY <3>2, RerootBelow DEF Under, Children
      <3>. QED
        BY <1>2, <3>1, <3>2 DEF Under
    <2>. QED
      BY <1>2, <2>1, <2>2
  <1>3. CASE ~Under(c, q) /\ ~Under(c, p)
    BY <1>3 DEF Moved
  <1>. QED
    BY <1>1, <1>2, <1>3

\* After a rename whatever exists still lies in a directory.
LEMMA MovedRooted ==
    ASSUME NEW p \in Paths, NEW q \in Paths, NEW x \in BOOLEAN, CanRename(p, q, x), Rooted,
           NEW c \in Paths, Len(c) = 2, Moved(p, q, x)[c] # None
    PROVE  Moved(p, q, x)[Parent(c)] = Dir
  <1>. DEFINE d == Parent(c)
              new == Moved(p, q, x)
  <1>0. /\ d \in Paths /\ Len(d) = 1 /\ c \in Children(d) /\ c # d
        /\ \A e \in Paths : c \in Children(e) <=> e = d
        /\ \A e \in Paths : d \notin Children(e)
        /\ tree[c] # None => tree[d] = Dir
    BY Levels DEF Rooted, Parent
  <1>1. p # q /\ p \notin Children(q) /\ q \notin Children(p) /\ tree[p] # None /\ HasParent(q)
        /\ (x => tree[q] # None)
    BY DEF CanRename, IsFile
  <1>. HIDE DEF d
  <1>2. CASE c = q
    <2>1. tree[d] = Dir
      BY <1>2 DEF HasParent, CanRename, d, Parent
    <2>2. ~Under(d, q) /\ ~Under(d, p)
      BY <1>0, <1>1, <1>2 DEF Under
    <2>. QED
      BY <1>0, <2>1, <2>2 DEF Moved, d
  <1>3. CASE c \in Children(q)
    <2>1. d = q /\ new[d] = tree[p] /\ new[c] = At(Reroot(c, q, p))
      BY <1>0, <1>3, RerootTop DEF Moved, Under
    <2>2. PICK e \in Children(p) : new[c] = tree[e]
      BY <1>3, <2>1, RerootBelow
    <2>3. tree[p] = Dir
      BY <2>2, Levels DEF Rooted, Children, Parent
    <2>. QED
      BY <2>1, <2>3 DEF d
  <1>4. CASE ~Under(c, q) /\ c = p
    <2>1. x /\ new[c] = tree[q]
      BY <1>4, RerootTop DEF Moved, Under
    <2>2. tree[d] = Dir
      BY <1>0, <1>1, <1>4
    <2>3. ~Under(d, q) /\ ~Under(d, p)
      BY <1>0, <1>1, <1>4 DEF Under
    <2>. QED
      BY <1>0, <2>2, <2>3 DEF Moved, d
  <1>5. CASE ~Under(c, q) /\ c \in Children(p)
    <2>1. /\ d = p /\ ~Under(d, q) /\ Under(d, p) /\ Under(c, p)
      BY <1>0, <1>1, <1>5 DEF Under
    <2>2. x /\ new[c] = At(Reroot(c, p, q))
      BY <1>5, <2>1 DEF Moved
    <2>a. new[d] = At(Reroot(d, p, q))
      BY <1>0, <2>1, <2>2 DEF Moved
    <2>b. new[d] = tree[q]
      BY <2>1, <2>a, RerootTop
    <2>c. c \in Children(p) /\ At(Reroot(c, p, q)) # None
      BY <1>5, <2>2
    <2>3. PICK e \in Children(q) : new[c] = tree[e]
      <3>1. \E e \in Children(q) : At(Reroot(c, p, q)) = tree[e]
        BY <2>c, RerootBelow
      <3>. QED
        BY <2>2, <3>1
    <2>4. tree[q] = Dir
      BY <2>3, Levels DEF Rooted, Children, Parent
    <2>. QED
      BY <2>b, <2>4 DEF d
  <1>6. CASE ~Under(c, q) /\ ~Under(c, p)
    <2>1. new[c] = tree[c] /\ tree[d] = Dir
      BY <1>0, <1>6 DEF Moved
    <2>2. ~Under(d, q) /\ ~Under(d, p)
      BY <1>0, <1>6 DEF Under
    <2>. QED
      BY <1>0, <2>1, <2>2 DEF Moved, d
  <1>. QED
    BY <1>2, <1>3, <1>4, <1>5, <1>6 DEF Under
-----------------------------------------------------------------------------
(* What the steps keep. *)

\* Home and its parts only shrink.
LEMMA HomeShrinks ==
    ASSUME policy' = policy, carried \subseteq carried'
    PROVE  Protected' = Protected /\ \A p : Home(p)' => Home(p)
  BY DEF Home, Protected

\* What was guarded is a file.
LEMMA HomeFile ==
    ASSUME NEW p, Home(p)
    PROVE  p \in Paths /\ p \in Files0 /\ Tree0[p] \notin {None, Dir}
  BY DEF Home, Protected, Files0

\* A call that ends clears nothing.
LEMMA CallEnds ==
    ASSUME IInv, NEW t \in Threads, call' = [call EXCEPT ![t] = Idle],
           policy' = policy, carried \subseteq carried'
    PROVE  call' \in [Threads -> CallRecs] /\ Operands' /\ Cleared'
  <1>1. Idle \in CallRecs /\ Idle.at = "none"
    BY DEF Idle, CallRecs
  <1>2. call' \in [Threads -> CallRecs]
    BY <1>1 DEF IInv, NodeTypes
  <1>3. \A u \in Threads : call'[u] = call[u] \/ call'[u].at = "none"
    BY <1>1 DEF IInv, NodeTypes
  <1>4. \A u \in Threads : call'[u].at = "none" \/ call'[u] = call[u]
    BY <1>3
  <1>5. Operands'
    BY <1>4 DEF IInv, Operands
  <1>6. Cleared'
    <2>1. Protected' = Protected /\ \A p : Home(p)' => Home(p)
      BY HomeShrinks
    <2>. QED
      BY <1>4, <2>1 DEF IInv, Cleared
  <1>. QED
    BY <1>2, <1>5, <1>6

\* One name changes: whatever exists still lies in a directory ...
LEMMA EditRooted ==
    ASSUME Rooted, NEW a \in Paths, NEW n, NEW S, tree \in [Paths -> S],
           tree' = [tree EXCEPT ![a] = n],
           n # None => HasParent(a), tree[a] = Dir /\ n # Dir => Empty(a)
    PROVE  Rooted'
  <1>. SUFFICES ASSUME NEW c \in Paths, Len(c) = 2, tree'[c] # None
                PROVE  tree'[Parent(c)] = Dir
    BY DEF Rooted, Parent
  <1>0. Parent(c) \in Paths /\ c \in Children(Parent(c)) /\ Parent(c) # c
    BY Levels
  <1>1. CASE c = a
    <2>1. tree[Parent(c)] = Dir
      BY <1>1 DEF HasParent, Parent
    <2>. QED
      BY <1>0, <1>1, <2>1
  <1>2. CASE c # a
    <2>1. tree[c] # None /\ tree[Parent(c)] = Dir
      BY <1>2 DEF Rooted, Parent
    <2>2. Parent(c) = a => n = Dir
      BY <1>0, <2>1 DEF Empty
    <2>. QED
      BY <1>0, <2>1, <2>2
  <1>. QED
    BY <1>1, <1>2

\* ... and a guarded file stays, if the name is not its home and it does not
\* come there without being counted as linked.
LEMMA EditGuarded ==
    ASSUME Guarded, NEW a \in Paths, NEW n, NEW S, tree \in [Paths -> S],
           tree' = [tree EXCEPT ![a] = n], ~Home(a),
           policy' = policy, carried' = carried, dirty' = dirty, linked \subseteq linked',
           \A p \in Paths : Home(p) /\ Tree0[p] = n => n \in linked',
           \A p \in Paths : Home(p) /\ p \in Protected => Tree0[p] \notin linked' \ linked
    PROVE  Guarded'
  <1>. SUFFICES ASSUME NEW p \in Paths, Home(p)' PROVE Stays(p)'
    BY DEF Guarded
  <1>1. Home(p) /\ Protected' = Protected
    BY HomeShrinks
  <1>2. Stays(p) /\ p # a
    BY <1>1 DEF Guarded
  <1>3. tree'[p] = Tree0[p]
    BY <1>2 DEF Stays
  <1>4. ASSUME NEW r \in Paths, tree'[r] = Tree0[p]
        PROVE  r = p \/ Tree0[p] \in linked'
    BY <1>1, <1>2, <1>4 DEF Stays
  <1>5. Tree0[p] \in dirty' => Tree0[p] \in linked'
    BY <1>2 DEF Stays
  <1>6. p \in Protected' => Tree0[p] \notin linked'
    BY <1>1, <1>2 DEF Stays
  <1>. QED
    BY <1>3, <1>4, <1>5, <1>6 DEF Stays

\* The bytes under a name change that is not the home of a guarded file.
LEMMA DirtyGuarded ==
    ASSUME Guarded, NEW a \in Paths, ~Home(a), tree' = tree, policy' = policy,
           carried' = carried, linked' = linked, dirty' = dirty \cup {tree[a]}
    PROVE  Guarded'
  <1>. SUFFICES ASSUME NEW p \in Paths, Home(p)' PROVE Stays(p)'
    BY DEF Guarded
  <1>1. Home(p) /\ Protected' = Protected
    BY HomeShrinks
  <1>2. Stays(p) /\ p # a
    BY <1>1 DEF Guarded
  <1>3. tree[a] = Tree0[p] => Tree0[p] \in linked
    BY <1>2 DEF Stays
  <1>. QED
    BY <1>1, <1>2, <1>3 DEF Stays

\* A rename takes no guarded file along but those it is known to carry.
LEMMA RenameGuarded ==
    ASSUME Guarded, Rooted, NEW p \in Paths, NEW q \in Paths, NEW x \in BOOLEAN,
           CanRename(p, q, x), ~Home(p), ~Home(q), tree' = Moved(p, q, x),
           policy' = policy, dirty' = dirty, linked' = linked,
           carried' = carried \cup {tree[c] : c \in Children(p) \cup (IF x THEN Children(q) ELSE {})}
    PROVE  Guarded'
  <1>. SUFFICES ASSUME NEW r \in Paths, Home(r)' PROVE Stays(r)'
    BY DEF Guarded
  <1>1. Home(r) /\ Protected' = Protected /\ Tree0[r] \notin carried'
    BY HomeShrinks DEF Home
  <1>2. Stays(r) /\ r # p /\ r # q /\ tree[r] = Tree0[r] /\ tree[r] \notin {None, Dir}
    BY <1>1, HomeFile DEF Guarded, Stays
  <1>3. r \notin Children(p) /\ (x => r \notin Children(q))
    BY <1>1, <1>2
  <1>4. ASSUME ~x, r \in Children(q) PROVE FALSE
    <2>1. tree[q] = Dir
      BY <1>2, <1>4, Levels DEF Rooted, Parent
    <2>2. Empty(q)
      BY <1>4, <2>1 DEF CanRename, None, Dir
    <2>. QED
      BY <1>2, <1>4, <2>2 DEF Empty
  <1>5. ~Under(r, p) /\ ~Under(r, q)
    BY <1>2, <1>3, <1>4 DEF Under
  <1>6. tree'[r] = Tree0[r]
    BY <1>2, <1>5 DEF Moved
  <1>7. ASSUME NEW s \in Paths, tree'[s] = Tree0[r]
        PROVE  s = r \/ Tree0[r] \in linked
    <2>1. \/ tree[s] = Tree0[r]
          \/ \E d \in Paths : Tree0[r] = tree[d] /\ (Under(d, p) \/ (x /\ Under(d, q)))
      BY <1>2, <1>7, MovedFrom
    <2>2. CASE tree[s] = Tree0[r]
      BY <1>2, <2>2 DEF Stays
    <2>3. ASSUME NEW d \in Paths, Tree0[r] = tree[d], Under(d, p) \/ Under(d, q)
          PROVE  Tree0[r] \in linked
      BY <1>2, <1>5, <2>3 DEF Stays
    <2>. QED
      BY <2>1, <2>2, <2>3
  <1>. QED
    BY <1>1, <1>2, <1>6, <1>7 DEF Stays
-----------------------------------------------------------------------------
(* The invariant. *)

LEMMA InitInv == Init => IInv
  <1>. SUFFICES ASSUME Init PROVE IInv
    OBVIOUS
  <1>. USE DEF Init
  <1>1. IsFiniteSet(Files0) /\ Cardinality(Files0) \in Nat
    <2>1. Files0 \subseteq Paths
      BY DEF Files0
    <2>. QED
      BY <2>1, NodeAssumption, FS_Subset, FS_CardinalityType
  <1>2. Idle \in CallRecs /\ Idle.at = "none"
    BY DEF Idle, CallRecs
  <1>3. NodeTypes
    BY <1>1, <1>2, NodeAssumption DEF NodeTypes
  <1>4. Operands /\ Cleared
    BY <1>2 DEF Operands, Cleared
  <1>5. Rooted
    BY NodeAssumption DEF Rooted
  <1>6. Guarded
    <2>. SUFFICES ASSUME NEW p \in Paths, Home(p) PROVE Stays(p)
      BY DEF Guarded
    <2>1. \A r \in Paths : Tree0[r] = Tree0[p] => r \in Files0
      BY HomeFile DEF Files0
    <2>. QED
      BY <2>1, HomeFile, NodeAssumption DEF Stays
  <1>. QED
    BY <1>3, <1>4, <1>5, <1>6 DEF IInv

\* What was allowed by name is not the home of a protected file.
LEMMA AllowedNotHome ==
    ASSUME Guarded, NEW p \in Paths, Home(p), p \in Protected
    PROVE  DecisionFor(p) # "ALLOWED" /\ Decision(p, FALSE) # "ALLOWED"
  <1>1. tree[p] # Dir
    BY HomeFile DEF Guarded, Stays
  <1>. QED
    BY <1>1 DEF DecisionFor, Decision, Protected

LEMMA CallStep ==
    ASSUME IInv, NEW t \in Threads, NEW op \in Ops1 \cup Ops2, NEW p \in Paths,
           NEW q \in Paths \cup {<<>>}, op \in Ops2 => q \in Paths, Call(t, op, p, q)
    PROVE  IInv'
  <1>. DEFINE new == [op |-> op, at |-> IF op \in Ops2 THEN "second" ELSE "act", p |-> p, q |-> q]
  <1>1. /\ call' = [call EXCEPT ![t] = new]
        /\ policy' = policy /\ tree' = tree /\ inodes' = inodes
        /\ dirty' = dirty /\ carried' = carried /\ linked' = linked
        /\ ~ConfigDenied(op, p, q) /\ Gate(op, FirstDecision(op, p))
    BY DEF Call
  <1>2. new \in CallRecs
    BY DEF CallRecs
  <1>3. NodeTypes'
    BY <1>1, <1>2 DEF IInv, NodeTypes
  <1>4. call'[t] = new /\ \A u \in Threads \ {t} : call'[u] = call[u]
    BY <1>1 DEF IInv, NodeTypes
  <1>5. Operands'
    BY <1>4 DEF IInv, Operands
  <1>6. Rooted' /\ Guarded'
    BY <1>1 DEF IInv, Rooted, Guarded, Home, Stays, Protected
  <1>7. Protected' = Protected /\ \A r : Home(r)' <=> Home(r)
    BY <1>1 DEF Home, Protected
  <1>8. op \in {"write", "setattr", "unlink", "create", "rename"} => ~Home(p)
    <2>. SUFFICES ASSUME op \in {"write", "setattr", "unlink", "create", "rename"}, Home(p) PROVE FALSE
      OBVIOUS
    <2>1. p \notin Config /\ p \in Protected
      BY <1>1 DEF ConfigDenied, Home
    <2>2. FirstDecision(op, p) = "ALLOWED"
      BY <1>1 DEF Gate
    <2>. QED
      BY <2>1, <2>2, AllowedNotHome DEF FirstDecision, IInv
  <1>9. op = "link" => ~(Home(p) /\ p \in Protected)
    <2>1. op = "link" => Decision(p, FALSE) = "ALLOWED"
      BY <1>1 DEF Gate, FirstDecision
    <2>. QED
      BY <2>1, AllowedNotHome DEF IInv
  <1>10. op = "rename" => q \notin Config /\ new.at = "second"
    BY <1>1 DEF ConfigDenied, Ops2
  <1>11. Cleared'
    BY <1>4, <1>7, <1>8, <1>9, <1>10 DEF IInv, Cleared
  <1>. QED
    BY <1>3, <1>5, <1>6, <1>11 DEF IInv

LEMMA DecideStep == ASSUME IInv, NEW t \in Threads, Decide(t) PROVE IInv'
  <1>1. /\ policy' = policy /\ tree' = tree /\ inodes' = inodes
        /\ dirty' = dirty /\ carried' = carried /\ linked' = linked
        /\ call[t].at = "second"
    BY DEF Decide
  <1>2. CASE call' = [call EXCEPT ![t] = Idle]
    <2>1. call' \in [Threads -> CallRecs] /\ Operands' /\ Cleared'
      BY <1>1, <1>2, CallEnds
    <2>. QED
      BY <1>1, <2>1 DEF IInv, NodeTypes, Rooted, Guarded, Home, Stays, Protected
  <1>3. CASE /\ call' = [call EXCEPT ![t] = [call[t] EXCEPT !.at = "act"]]
             /\ Gate(call[t].op, DecisionFor(call[t].q))
    <2>. DEFINE new == [call[t] EXCEPT !.at = "act"]
    <2>1. new \in CallRecs /\ new.op = call[t].op /\ new.p = call[t].p /\ new.q = call[t].q /\ new.at = "act"
      BY DEF IInv, NodeTypes, CallRecs
    <2>2. call' \in [Threads -> CallRecs] /\ call'[t] = new /\ \A u \in Threads \ {t} : call'[u] = call[u]
      BY <1>3, <2>1 DEF IInv, NodeTypes
    <2>3. Operands'
      BY <1>1, <2>1, <2>2 DEF IInv, Operands
    <2>4. Protected' = Protected /\ \A r : Home(r)' <=> Home(r)
      BY <1>1 DEF Home, Protected
    <2>5. call[t].op = "rename" => ~Home(call[t].q)
      <3>. SUFFICES ASSUME call[t].op = "rename", Home(call[t].q) PROVE FALSE
        OBVIOUS
      <3>1. call[t].q \in Paths /\ call[t].q \in Protected
        BY <1>1 DEF IInv, Operands, Cleared, Home, Ops2
      <3>2. DecisionFor(call[t].q) = "ALLOWED"
        BY <1>3 DEF Gate
      <3>. QED
        BY <3>1, <3>2, AllowedNotHome DEF IInv
    <2>. HIDE DEF new
    <2>6. Cleared'
      BY <1>1, <2>1, <2>2, <2>4, <2>5 DEF IInv, Cleared
    <2>. QED
      BY <1>1, <2>2, <2>3, <2>6 DEF IInv, NodeTypes, Rooted, Guarded, Home, Stays, Protected
  <1>. QED
    BY <1>2, <1>3 DEF Decide

LEMMA ActStep == ASSUME IInv, NEW t \in Threads, Act(t) PROVE IInv'
  <1>. DEFINE op == call[t].op
              p == call[t].p
              q == call[t].q
              S == {None, Dir} \cup 1 .. inodes
  <1>1. /\ call[t].at = "act" /\ call' = [call EXCEPT ![t] = Idle] /\ policy' = policy
        /\ p \in Paths /\ (op \in Ops2 => q \in Paths)
    BY DEF Act, IInv, Operands
  <1>2. /\ op \in {"write", "setattr", "unlink", "create", "rename"} => ~Home(p)
        /\ op = "link" => ~(Home(p) /\ p \in Protected)
        /\ op = "rename" => ~Home(q)
    BY <1>1 DEF IInv, Cleared
  <1>3. inodes \in Nat /\ tree \in [Paths -> S] /\ (\A r \in Paths : Tree0[r] \in S) /\ Rooted /\ Guarded
    BY DEF IInv, NodeTypes
  <1>4. \A a \in Paths : Home(a) => tree[a] \notin {None, Dir} /\ tree[a] = Tree0[a]
    BY HomeFile DEF IInv, Guarded, Stays
  \* The tree after the operation.
  <1>. DEFINE Kept == /\ carried \subseteq carried' /\ inodes' \in Nat
                      /\ tree' \in [Paths -> {None, Dir} \cup 1 .. inodes']
                      /\ \A r \in Paths : Tree0[r] \in {None, Dir} \cup 1 .. inodes'
                      /\ Rooted' /\ Guarded'
  <1>. HIDE DEF op, p, q
  <1>6. ASSUME op \in {"write", "setattr", "create"}, dirty' = dirty \cup {tree[p]},
               UNCHANGED <<tree, inodes, carried, linked>>
        PROVE  Kept
    <2>1. Guarded'
      BY <1>1, <1>2, <1>3, <1>6, DirtyGuarded
    <2>. QED
      BY <1>3, <1>6, <2>1 DEF Rooted
  <1>7. ASSUME NEW n \in {None, Dir}, tree' = [tree EXCEPT ![p] = n], ~Home(p),
               n # None => HasParent(p), tree[p] = Dir /\ n # Dir => Empty(p),
               UNCHANGED <<inodes, dirty, carried, linked>>
        PROVE  Kept
    <2>1. tree' \in [Paths -> S]
      BY <1>3, <1>7
    <2>2. Rooted'
      BY <1>1, <1>3, <1>7, EditRooted
    <2>3. \A r \in Paths : Home(r) => Tree0[r] # n
      BY HomeFile
    <2>4. Guarded'
      BY <1>1, <1>3, <1>7, <2>3, EditGuarded
    <2>. QED
      BY <1>3, <1>7, <2>1, <2>2, <2>4
  <1>8. ASSUME NewFile(p), Free(p), UNCHANGED <<dirty, carried, linked>>
        PROVE  Kept
    <2>1. inodes' = inodes + 1 /\ tree' = [tree EXCEPT ![p] = inodes + 1] /\ tree[p] = None /\ HasParent(p)
      BY <1>8 DEF NewFile, Free
    <2>2. inodes' \in Nat /\ S \subseteq {None, Dir} \cup 1 .. inodes' /\ inodes + 1 \in {None, Dir} \cup 1 .. inodes'
      BY <1>3, <2>1
    <2>3. tree' \in [Paths -> {None, Dir} \cup 1 .. inodes']
      BY <1>3, <2>1, <2>2
    <2>0. tree[p] # Dir
      BY <2>1 DEF None, Dir
    <2>4. Rooted'
      BY <1>1, <1>3, <2>0, <2>1, EditRooted
    <2>5. ~Home(p)
      BY <1>1, <1>4, <2>1
    <2>6. \A r \in Paths : Tree0[r] # inodes + 1
      BY <1>3 DEF None, Dir
    <2>7. Guarded'
      BY <1>1, <1>3, <1>8, <2>1, <2>5, <2>6, EditGuarded
    <2>. QED
      BY <1>3, <1>8, <2>2, <2>3, <2>4, <2>7
  <1>9. ASSUME NEW x \in BOOLEAN, op = "rename", CanRename(p, q, x), tree' = Moved(p, q, x),
               carried' = carried \cup {tree[c] : c \in Children(p) \cup (IF x THEN Children(q) ELSE {})},
               UNCHANGED <<inodes, dirty, linked>>
        PROVE  Kept
    <2>1. q \in Paths
      BY <1>1, <1>9 DEF Ops2
    <2>2. tree' \in [Paths -> S]
      <3>1. ASSUME NEW c \in Paths PROVE Moved(p, q, x)[c] \in S
        BY <1>1, <1>3, <2>1, MovedFrom
      <3>2. Moved(p, q, x) = [c \in Paths |-> Moved(p, q, x)[c]]
        BY DEF Moved
      <3>. QED
        BY <1>9, <3>1, <3>2
    <2>3. Rooted'
      BY <1>1, <1>3, <1>9, <2>1, MovedRooted DEF Rooted, Parent
    <2>4. Guarded'
      BY <1>1, <1>2, <1>3, <1>9, <2>1, RenameGuarded
    <2>. QED
      BY <1>3, <1>9, <2>2, <2>3, <2>4
  <1>10. ASSUME op = "link", IsFile(p), Free(q), tree' = [tree EXCEPT ![q] = tree[p]],
                linked' = linked \cup {tree[p]}, UNCHANGED <<inodes, dirty, carried>>
         PROVE  Kept
    <2>1. q \in Paths /\ tree[q] = None /\ HasParent(q) /\ tree[p] \in S
      BY <1>1, <1>3, <1>10 DEF Ops2, Free
    <2>2. tree' \in [Paths -> S]
      BY <1>3, <1>10, <2>1
    <2>0. tree[q] # Dir
      BY <2>1 DEF None, Dir
    <2>3. Rooted'
      BY <1>3, <1>10, <2>0, <2>1, EditRooted
    <2>4. ~Home(q)
      BY <1>4, <2>1
    <2>5. ASSUME NEW r \in Paths, Home(r), r \in Protected PROVE Tree0[r] \notin linked' \ linked
      <3>1. tree[p] = Tree0[r] => r = p
        BY <1>1, <1>3, <2>5 DEF Guarded, Stays
      <3>. QED
        BY <1>2, <1>10, <2>5, <3>1
    <2>6. Guarded'
      BY <1>1, <1>3, <1>10, <2>1, <2>4, <2>5, EditGuarded
    <2>. QED
      BY <1>3, <1>10, <2>2, <2>3, <2>6
  <1>11. Kept
    <2>1. ~Home(p) \/ tree[p] \notin {None, Dir}
      BY <1>1, <1>4
    <2>2. CASE op \in {"write", "setattr", "create"} /\ dirty' = dirty \cup {tree[p]} /\ UNCHANGED <<tree, inodes, carried, linked>>
      BY <1>6, <2>2
    <2>3. CASE op = "unlink" /\ IsFile(p) /\ tree' = [tree EXCEPT ![p] = None] /\ UNCHANGED <<inodes, dirty, carried, linked>>
      BY <1>2, <1>7, <2>3 DEF IsFile
    <2>4. CASE Free(p) /\ tree' = [tree EXCEPT ![p] = Dir] /\ UNCHANGED <<inodes, dirty, carried, linked>>
      BY <1>7, <2>1, <2>4 DEF Free, None, Dir
    <2>5. CASE tree[p] = Dir /\ Empty(p) /\ tree' = [tree EXCEPT ![p] = None] /\ UNCHANGED <<inodes, dirty, carried, linked>>
      BY <1>7, <2>1, <2>5
    <2>. HIDE DEF Kept
    <2>. QED
      BY <1>8, <1>9, <1>10, <2>2, <2>3, <2>4, <2>5 DEF Act, op, p, q
  <1>12. call' \in [Threads -> CallRecs] /\ Operands' /\ Cleared'
    BY <1>1, <1>11, CallEnds
  <1>. QED
    BY <1>11, <1>12 DEF IInv, NodeTypes

LEMMA ErrnoStep == ASSUME IInv, NEW t \in Threads, Errno(t) PROVE IInv'
  <1>1. /\ policy' = policy /\ tree' = tree /\ inodes' = inodes
        /\ dirty' = dirty /\ carried' = carried /\ linked' = linked
        /\ call' = [call EXCEPT ![t] = Idle]
    BY DEF Errno
  <1>2. call' \in [Threads -> CallRecs] /\ Operands' /\ Cleared'
    BY <1>1, CallEnds
  <1>. QED
    BY <1>1, <1>2 DEF IInv, NodeTypes, Rooted, Guarded, Home, Stays, Protected

LEMMA Invariance == Spec => []IInv
  <1>1. IInv /\ [Next]_vars => IInv'
    <2>. SUFFICES ASSUME IInv, [Next]_vars PROVE IInv'
      OBVIOUS
    <2>1. ASSUME NEW t \in Threads, NEW p \in Paths, NEW op \in Ops1, Call(t, op, p, <<>>) PROVE IInv'
      BY <2>1, CallStep DEF Ops1, Ops2
    <2>2. ASSUME NEW t \in Threads, NEW p \in Paths, NEW q \in Paths, NEW op \in Ops2, Call(t, op, p, q)
          PROVE  IInv'
      BY <2>2, CallStep
    <2>3. ASSUME NEW t \in Threads, Decide(t) \/ Act(t) \/ Errno(t) PROVE IInv'
      BY <2>3, DecideStep, ActStep, ErrnoStep
    <2>4. CASE UNCHANGED vars
      BY <2>4 DEF vars, IInv, NodeTypes, Operands, Cleared, Rooted, Guarded, Home, Stays, Protected
    <2>. QED
      BY <2>1, <2>2, <2>3, <2>4 DEF Next
  <1>. QED
    BY <1>1, InitInv, PTL DEF Spec

\* No interleaving of operations renames, links, replaces, truncates or removes
\* a MASKED or HIDDEN file through its own name, whatever the tree and the
\* policy are: the decision made before the tree changed is still good.
THEOREM ProtectedFiles == Spec => []ProtectedStays
  <1>1. IInv => ProtectedStays
    <2>. SUFFICES ASSUME IInv, NEW p \in Protected, Tree0[p] \notin carried
                  PROVE  {r \in Paths : tree[r] = Tree0[p]} = {p} /\ Tree0[p] \notin dirty
      BY DEF ProtectedStays
    <2>1. Home(p) /\ p \in Paths
      BY DEF Home, Protected, Files0
    <2>. QED
      BY <2>1 DEF IInv, Guarded, Stays
  <1>. QED
    BY <1>1, Invariance, PTL

\* A .janusfs.yml is not removed, renamed or replaced through the mount, and not
\* written to unless a second name was made for it.
THEOREM ConfigFiles == Spec => []ConfigStays
  <1>1. IInv => ConfigStays
    <2>. SUFFICES ASSUME IInv, NEW p \in Config \cap Files0, Tree0[p] \notin carried
                  PROVE  tree[p] = Tree0[p] /\ (Tree0[p] \in dirty => Tree0[p] \in linked)
      BY DEF ConfigStays
    <2>1. Home(p) /\ p \in Paths
      BY DEF Home, Files0
    <2>. QED
      BY <2>1 DEF IInv, Guarded, Stays
  <1>. QED
    BY <1>1, Invariance, PTL

=============================================================================
