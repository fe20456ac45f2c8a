----------------------------- MODULE CacheProofs -----------------------------
(***************************************************************************)
(* Proofs about RamCache, and about Mount, which puts file handles over    *)
(* it: any number of readers, files, pattern sets, misses, rule sets and   *)
(* overlapping reloads.                                                    *)
(*                                                                         *)
(* 1. ReadAt serves bytes redacted with the caller's own patterns, and     *)
(*    bytes not served as stale are as new as the caller's key.  Neither   *)
(*    is inductive: what a read returns was decided by the entry it held   *)
(*    on to, which left the map or was refilled since.  Inv says what      *)
(*    every entry, resident or not, and every reader on its way owe:       *)
(*    EntryOK and ReaderOK.                                                *)
(* 2. The map, the list and curBytes agree, and what is resident fits the  *)
(*    budget: CacheBook.  Every operation is a composition of four moves   *)
(*    on the book (touch, drop, install, publish), and the sums and lists  *)
(*    they change are computed by recursion: the lemmas about Total and    *)
(*    Without are by induction on the numbers up to a length, UpTo.        *)
(* 3. Every step of Mount is a step of RamCache or leaves it alone, so Inv *)
(*    holds there too.  What it does not know is where a read's patterns   *)
(*    came from: HandleOK keeps, for a read on its way through the cache   *)
(*    and for one about to touch the real file, that the decision it acts  *)
(*    on is that of a rule set in force since the call began.              *)
(***************************************************************************)
EXTENDS Mount, FiniteSetTheorems, WellFoundedInduction, TLAPS

BuiltRec(e) == e.phase \in {"built", "ready"}

\* An entry's key was stat'ed from the file, and what its rebuild read is at
\* least as new as that.
EntryOK(e, f) ==
  /\ e \in EntryRecs
  /\ e.key.ver <= f[e.key.path]
  /\ e.ver # None => e.ver >= e.key.ver

\* A reader waits for an entry of its own key; it copies from a built entry
\* of its own patterns, and of its own key unless that is stalePrev.
ReaderOK(m, es, f) ==
  /\ m \in ReaderRecs
  /\ m.pc # "idle" => m.key.ver <= f[m.key.path]
  /\ m.pc \in {"stat", "call", "wait"} => ~m.stale
  /\ m.pc \in {"wait", "copy"} => m.ent \in 1..Len(es)
  /\ m.pc = "wait" => es[m.ent].key = m.key
  /\ m.pc = "copy" => BuiltRec(es[m.ent]) /\ es[m.ent].sig = m.sig
  /\ m.pc = "copy" /\ ~m.stale => es[m.ent].key = m.key /\ es[m.ent].ver # None
  /\ m.pc = "done" /\ m.got.kind = "data" =>
       m.got.sig = m.sig /\ (~m.got.stale => m.got.ver >= m.key.ver)

CoreTypes ==
  /\ file \in [Paths -> Versions]
  /\ ents \in Seq(EntryRecs)
  /\ entries \in [Paths -> Ids \cup {None}]
  /\ rd \in [Readers -> ReaderRecs]

Inv ==
  /\ CoreTypes
  /\ \A i \in Ids : EntryOK(ents[i], file)
  /\ \A r \in Readers : ReaderOK(rd[r], ents, file)

\* Files only get newer; entries are only added, and a built one is final.
Newer(f, g) == \A p \in Paths : f[p] <= g[p]
Grows(es, fs) ==
  /\ Len(es) <= Len(fs)
  /\ \A i \in 1..Len(es) :
       /\ fs[i].key = es[i].key
       /\ fs[i].sig = es[i].sig
       /\ BuiltRec(es[i]) => BuiltRec(fs[i]) /\ fs[i].ver = es[i].ver

\* Replies are told apart by kind.
LEMMA ReplyKinds ==
  /\ NoReply \in Replies /\ NoReply.kind # "data"
  /\ Failure \in Replies /\ Failure.kind # "data"
  /\ \A v \in Versions \cup {None}, s \in Sigs, z, st \in BOOLEAN :
       /\ Data(v, s, z, st) \in Replies
       /\ Data(v, s, z, st).ver = v
       /\ Data(v, s, z, st).sig = s
       /\ Data(v, s, z, st).stale = st
BY DEF Replies, NoReply, Failure, Data

\* The constants give a reader that has not called a key and a signature.
LEMMA IdleRec ==
  SomeKey \in Keys /\ Idle \in ReaderRecs /\ Idle.pc = "idle" /\ ~Idle.stale
<1>1. SomeKey \in Keys
  <2>1. PICK p \in Paths, g \in Gens : TRUE
    BY RamCacheConstants
  <2>2. [path |-> p, ver |-> 1, gen |-> g] \in Keys
    BY <2>1, RamCacheConstants DEF Keys, Versions
  <2> QED BY <2>2 DEF SomeKey
<1>2. (CHOOSE s \in Sigs : TRUE) \in Sigs
  BY RamCacheConstants
<1>3. NoReply \in Replies
  BY ReplyKinds
<1> QED BY <1>1, <1>2, <1>3 DEF Idle, ReaderRecs, None

\* What a reader knows survives the steps of everybody else.
LEMMA ReaderKept ==
  ASSUME NEW m, NEW es \in Seq(EntryRecs), NEW fs \in Seq(EntryRecs),
         NEW f \in [Paths -> Versions], NEW g \in [Paths -> Versions],
         ReaderOK(m, es, f), Grows(es, fs), Newer(f, g)
  PROVE  ReaderOK(m, fs, g)
<1>1. m.key \in Keys /\ m.key.path \in Paths /\ m.key.ver \in Int
  BY DEF ReaderOK, ReaderRecs, Keys, Versions
<1>2. f[m.key.path] \in Int /\ g[m.key.path] \in Int
      /\ f[m.key.path] <= g[m.key.path]
  BY <1>1 DEF Newer, Versions
<1>3. m.pc # "idle" => m.key.ver <= g[m.key.path]
  BY <1>1, <1>2 DEF ReaderOK
<1>4. Len(es) \in Nat /\ Len(fs) \in Nat /\ Len(es) <= Len(fs)
  BY DEF Grows
<1>5. m.pc \in {"wait", "copy"} => m.ent \in 1..Len(es) /\ m.ent \in 1..Len(fs)
  BY <1>4 DEF ReaderOK
<1> QED BY <1>3, <1>5 DEF ReaderOK, Grows

\* One step of the system, seen through the invariant: files get newer,
\* entries grow, and a reader that moves moves to a state that is OK.
LEMMA InvStep ==
  ASSUME Inv,
         file' \in [Paths -> Versions], Newer(file, file'),
         ents' \in Seq(EntryRecs), Grows(ents, ents'),
         \A i \in Ids' : EntryOK(ents'[i], file'),
         entries' \in [Paths -> Ids' \cup {None}],
         rd' \in [Readers -> ReaderRecs],
         \A q \in Readers : rd'[q] = rd[q] \/ ReaderOK(rd'[q], ents', file')
  PROVE  Inv'
<1>1. CoreTypes'
  BY DEF CoreTypes
<1>2. ASSUME NEW q \in Readers PROVE ReaderOK(rd'[q], ents', file')
  <2>1. SUFFICES ASSUME rd'[q] = rd[q] PROVE ReaderOK(rd'[q], ents', file')
    OBVIOUS
  <2>2. ReaderOK(rd[q], ents, file)
    BY DEF Inv
  <2>3. file \in [Paths -> Versions] /\ ents \in Seq(EntryRecs)
    BY DEF Inv, CoreTypes
  <2> QED BY <2>1, <2>2, <2>3, ReaderKept
<1>3. (\A i \in Ids : EntryOK(ents[i], file))'
  BY DEF EntryOK
<1>4. (\A q \in Readers : ReaderOK(rd[q], ents, file))'
  BY <1>2
<1> QED BY <1>1, <1>3, <1>4 DEF Inv

\* The entries do not change.
LEMMA SameEntries ==
  ASSUME Inv, UNCHANGED <<file, ents>>
  PROVE  /\ file' \in [Paths -> Versions] /\ Newer(file, file')
         /\ ents' \in Seq(EntryRecs) /\ Grows(ents, ents')
         /\ \A i \in Ids' : EntryOK(ents'[i], file')
         /\ Ids' = Ids
<1>1. \A p \in Paths : file[p] \in Int
  BY DEF Inv, CoreTypes, Versions
<1>2. Newer(file, file')
  BY <1>1 DEF Newer
<1>3. Len(ents) \in Nat
  BY DEF Inv, CoreTypes
<1>4. Grows(ents, ents')
  BY <1>3 DEF Grows
<1> QED BY <1>2, <1>4 DEF Inv, CoreTypes, Ids

\* Only reader r moves, and it moves to a state that is OK.
LEMMA ReaderMoves ==
  ASSUME Inv, NEW r \in Readers, NEW u,
         UNCHANGED <<file, ents>>, entries' \in [Paths -> Ids \cup {None}],
         rd' = [rd EXCEPT ![r] = u], ReaderOK(u, ents, file)
  PROVE  Inv'
<1>1. u \in ReaderRecs
  BY DEF ReaderOK
<1>2. rd' \in [Readers -> ReaderRecs] /\ rd'[r] = u
      /\ \A q \in Readers \ {r} : rd'[q] = rd[q]
  BY <1>1 DEF Inv, CoreTypes
<1>3. ReaderOK(rd'[r], ents', file')
  BY <1>2
<1> QED BY <1>2, <1>3, SameEntries, InvStep

\* A reader that returns an error owes nothing; one that returns bytes owes
\* their patterns and, unless they are stale, their age.
LEMMA AnswerMoves ==
  ASSUME Inv, NEW r \in Readers, NEW reply \in Replies,
         UNCHANGED <<file, ents>>, entries' \in [Paths -> Ids \cup {None}],
         Answer(r, reply), rd[r].pc # "idle",
         reply.kind = "data" =>
           reply.sig = rd[r].sig /\ (~reply.stale => reply.ver >= rd[r].key.ver)
  PROVE  Inv'
<1> DEFINE u == [rd[r] EXCEPT !.pc = "done", !.got = reply]
<1>1. rd[r] \in ReaderRecs /\ ReaderOK(rd[r], ents, file)
  BY DEF Inv, CoreTypes
<1>2. u \in ReaderRecs /\ u.pc = "done" /\ u.got = reply
      /\ u.key = rd[r].key /\ u.sig = rd[r].sig
  BY <1>1 DEF ReaderRecs
<1>3. rd[r].key.ver <= file[rd[r].key.path]
  BY <1>1 DEF ReaderOK
<1> HIDE DEF u
<1>4. ReaderOK(u, ents, file)
  BY <1>2, <1>3 DEF ReaderOK
<1>5. rd' = [rd EXCEPT ![r] = u]
  BY <1>1 DEF Answer, u, Inv, CoreTypes
<1> QED BY <1>4, <1>5, ReaderMoves

\* A rebuild step changes entry i alone, into one that is OK.
LEMMA EntryMoves ==
  ASSUME Inv, NEW i \in Ids, NEW e,
         ents' = [ents EXCEPT ![i] = e], EntryOK(e, file),
         e.key = ents[i].key, e.sig = ents[i].sig,
         BuiltRec(ents[i]) => BuiltRec(e) /\ e.ver = ents[i].ver,
         UNCHANGED <<file, rd>>,
         entries' \in [Paths -> Ids \cup {None}]
  PROVE  Inv'
<1>1. e \in EntryRecs /\ ents \in Seq(EntryRecs) /\ Len(ents) \in Nat
  BY DEF EntryOK, Inv, CoreTypes
<1>2. ents' \in Seq(EntryRecs) /\ Len(ents') = Len(ents) /\ Ids' = Ids
  BY <1>1 DEF Ids
<1>3. ents'[i] = e /\ \A j \in Ids \ {i} : ents'[j] = ents[j]
  BY <1>1 DEF Ids
<1>4. \A j \in Ids' : EntryOK(ents'[j], file')
  BY <1>2, <1>3 DEF Inv
<1>5. Grows(ents, ents')
  BY <1>1, <1>2, <1>3 DEF Grows, Ids
<1>6. file' \in [Paths -> Versions] /\ Newer(file, file')
  BY DEF Inv, CoreTypes, Newer, Versions
<1>7. rd' \in [Readers -> ReaderRecs] /\ \A q \in Readers : rd'[q] = rd[q]
  BY DEF Inv, CoreTypes
<1> QED BY <1>2, <1>4, <1>5, <1>6, <1>7, InvStep

\* Steps that move nothing the invariant is about but the map.
LEMMA BookMoves ==
  ASSUME Inv, UNCHANGED <<file, ents, rd>>,
         entries' \in [Paths -> Ids \cup {None}]
  PROVE  Inv'
<1>1. rd' \in [Readers -> ReaderRecs] /\ \A q \in Readers : rd'[q] = rd[q]
  BY DEF Inv, CoreTypes
<1> QED BY <1>1, SameEntries, InvStep

\* The cache starts empty.
LEMMA InvInit == Init => Inv
<1> SUFFICES ASSUME Init PROVE Inv
  OBVIOUS
<1>1. Ids = {}
  BY DEF Init, Ids
<1>2. file \in [Paths -> Versions]
  BY RamCacheConstants DEF Init, Versions
<1>3. CoreTypes
  BY <1>2, IdleRec DEF Init, CoreTypes
<1>4. \A r \in Readers : rd[r] = Idle
  BY DEF Init
<1>5. ReaderOK(Idle, ents, file)
  BY IdleRec DEF ReaderOK
<1> QED BY <1>1, <1>3, <1>4, <1>5 DEF Inv

(***************************************************************************)
(* The steps of a reader.                                                  *)
(***************************************************************************)
LEMMA StatInv ==
  ASSUME Inv, NEW r \in Readers, NEW p \in Paths, NEW s \in Sigs, Stat(r, p, s)
  PROVE  Inv'
<1> DEFINE k == [path |-> p, ver |-> file[p], gen |-> SomeKey.gen]
           u == [Idle EXCEPT !.pc = "stat", !.sig = s, !.key = k]
<1>1. file[p] \in Versions /\ SomeKey.gen \in Gens
  BY IdleRec DEF Inv, CoreTypes, Keys
<1>2. k \in Keys /\ k.path = p /\ k.ver = file[p]
  BY <1>1 DEF Keys
<1>3. u \in ReaderRecs /\ u.pc = "stat" /\ u.key = k /\ ~u.stale
  BY <1>2, IdleRec DEF ReaderRecs
<1>4. rd' = [rd EXCEPT ![r] = u] /\ UNCHANGED <<file, ents, entries>>
  BY DEF Stat, book
<1> HIDE DEF u, k
<1>5. ReaderOK(u, ents, file)
  BY <1>1, <1>2, <1>3 DEF ReaderOK, Versions
<1>6. entries' \in [Paths -> Ids \cup {None}]
  BY <1>4 DEF Inv, CoreTypes
<1> QED BY <1>4, <1>5, <1>6, ReaderMoves

\* One lemma for every action: what it changes keeps the invariant.
LEMMA NewKeyInv ==
  ASSUME Inv, NEW r \in Readers, NEW g \in Gens, NewContentKey(r, g)
  PROVE  Inv'
<1> DEFINE k == [rd[r].key EXCEPT !.gen = g]
           u == [rd[r] EXCEPT !.pc = "call", !.key = k]
<1>1. rd[r] \in ReaderRecs /\ rd[r].key \in Keys /\ rd[r].pc = "stat"
  BY DEF Inv, CoreTypes, ReaderRecs, NewContentKey
<1>2. k \in Keys /\ k.path = rd[r].key.path /\ k.ver = rd[r].key.ver
  BY <1>1 DEF Keys
<1>3. rd' = [rd EXCEPT ![r] = u] /\ UNCHANGED <<file, ents, entries>>
  BY <1>1 DEF NewContentKey, book, Inv, CoreTypes
<1> HIDE DEF k
<1>4. /\ u \in ReaderRecs /\ u.pc = "call" /\ u.key = k
      /\ u.stale = rd[r].stale
  BY <1>1, <1>2 DEF ReaderRecs
<1> HIDE DEF u
<1>5. ReaderOK(u, ents, file)
  BY <1>1, <1>2, <1>4 DEF ReaderOK, Inv
<1>6. entries' \in [Paths -> Ids \cup {None}]
  BY <1>3 DEF Inv, CoreTypes
<1> QED BY <1>3, <1>5, <1>6, ReaderMoves

LEMMA ReturnInv ==
  ASSUME Inv, NEW r \in Readers, Return(r)
  PROVE  Inv'
<1>1. rd' = [rd EXCEPT ![r] = Idle] /\ UNCHANGED <<file, ents, entries>>
  BY DEF Return, book
<1>2. ReaderOK(Idle, ents, file)
  BY IdleRec DEF ReaderOK
<1>3. entries' \in [Paths -> Ids \cup {None}]
  BY <1>1 DEF Inv, CoreTypes
<1> QED BY <1>1, <1>2, <1>3, ReaderMoves

LEMMA OversizeInv ==
  ASSUME Inv, NEW r \in Readers, ReadOversize(r)
  PROVE  Inv'
<1> DEFINE d == Data(file[rd[r].key.path], rd[r].sig, FALSE, FALSE)
<1>1. /\ rd[r] \in ReaderRecs /\ rd[r].pc = "call"
      /\ rd[r].key.ver <= file[rd[r].key.path]
  BY DEF Inv, CoreTypes, ReaderOK, ReadOversize
<1>2. file[rd[r].key.path] \in Versions /\ rd[r].sig \in Sigs
  BY <1>1 DEF Inv, CoreTypes, ReaderRecs, Keys
<1>3. d \in Replies /\ d.sig = rd[r].sig /\ d.ver = file[rd[r].key.path]
  BY ZenonT(60), <1>2, ReplyKinds
<1> HIDE DEF d
<1>4. UNCHANGED <<file, ents, entries>> /\ (Answer(r, d) \/ Answer(r, Failure))
  BY DEF ReadOversize, book, d
<1>5. entries' \in [Paths -> Ids \cup {None}]
  BY <1>4 DEF Inv, CoreTypes
<1>6. d.ver >= rd[r].key.ver
  BY <1>1, <1>2, <1>3 DEF Versions, ReaderRecs, Keys
<1>7. CASE Answer(r, d)
  BY <1>1, <1>3, <1>4, <1>5, <1>6, <1>7, AnswerMoves
<1>8. CASE Answer(r, Failure)
  BY <1>1, <1>4, <1>5, <1>8, ReplyKinds, AnswerMoves
<1> QED BY <1>4, <1>7, <1>8

\* A reader that goes to wait for, or to copy from, an entry of its key.
LEMMA PointsTo ==
  ASSUME Inv, NEW r \in Readers, NEW i \in Ids,
         NEW label \in {"wait", "copy"},
         rd[r].pc \in {"call", "wait"}, ents[i].key = rd[r].key,
         label = "copy" =>
           BuiltRec(ents[i]) /\ ents[i].sig = rd[r].sig /\ ents[i].ver # None
  PROVE  ReaderOK([rd[r] EXCEPT !.pc = label, !.ent = i], ents, file)
<1> DEFINE u == [rd[r] EXCEPT !.pc = label, !.ent = i]
<1>1. rd[r] \in ReaderRecs /\ ReaderOK(rd[r], ents, file) /\ i \in Nat
  BY DEF Inv, CoreTypes, Ids
<1>2. /\ u \in ReaderRecs /\ u.pc = label /\ u.ent = i
      /\ u.key = rd[r].key /\ u.sig = rd[r].sig /\ u.stale = rd[r].stale
  BY <1>1 DEF ReaderRecs
<1>3. ~rd[r].stale /\ rd[r].key.ver <= file[rd[r].key.path]
  BY <1>1 DEF ReaderOK
<1> HIDE DEF u
<1>4. ReaderOK(u, ents, file)
  BY <1>2, <1>3 DEF ReaderOK, Ids
<1> QED BY <1>4 DEF u

\* The entry under a reader's path, if there is one, was allocated.
LEMMA CachedType ==
  ASSUME Inv, NEW r \in Readers
  PROVE  Cached(r) # None => Cached(r) \in Ids
<1>1. rd[r].key.path \in Paths
  BY DEF Inv, CoreTypes, ReaderRecs, Keys
<1> QED BY <1>1 DEF Inv, CoreTypes, Cached

LEMMA HitInv ==
  ASSUME Inv, NEW r \in Readers, ReadHit(r)
  PROVE  Inv'
<1>1. rd[r].pc = "call" /\ UNCHANGED <<file, ents, entries>>
  BY DEF ReadHit
<1>2. entries' \in [Paths -> Ids \cup {None}]
  BY <1>1 DEF Inv, CoreTypes
<1>3. PICK i \in Ids : i = Cached(r)
  BY CachedType DEF ReadHit, Hit, SameKey
<1>4. ents[i].key = rd[r].key /\ BuiltRec(ents[i]) /\ ents[i].sig = rd[r].sig
  BY <1>3 DEF ReadHit, Hit, SameKey, Built, BuiltRec
<1>5. (Ok(i) /\ rd' = [rd EXCEPT ![r].pc = "copy", ![r].ent = i])
      \/ Answer(r, Failure)
  BY <1>3 DEF ReadHit
<1>6. CASE Ok(i) /\ rd' = [rd EXCEPT ![r].pc = "copy", ![r].ent = i]
  <2> DEFINE u == [rd[r] EXCEPT !.pc = "copy", !.ent = i]
  <2>1. ents[i].ver # None
    BY <1>6 DEF Ok
  <2>2. ReaderOK(u, ents, file)
    BY <1>1, <1>3, <1>4, <2>1, PointsTo
  <2>3. rd' = [rd EXCEPT ![r] = u]
    BY <1>6 DEF Inv, CoreTypes
  <2> HIDE DEF u
  <2> QED BY <1>1, <1>2, <2>2, <2>3, ReaderMoves
<1>7. CASE Answer(r, Failure)
  BY <1>1, <1>2, <1>7, ReplyKinds, AnswerMoves
<1> QED BY <1>5, <1>6, <1>7

LEMMA JoinInv ==
  ASSUME Inv, NEW r \in Readers, ReadJoin(r)
  PROVE  Inv'
<1>1. rd[r].pc = "call" /\ UNCHANGED <<file, ents, entries>>
  BY DEF ReadJoin
<1>2. entries' \in [Paths -> Ids \cup {None}]
  BY <1>1 DEF Inv, CoreTypes
<1>3. PICK i \in Ids : i = Cached(r)
  BY CachedType DEF ReadJoin, SameKey
<1> DEFINE u == [rd[r] EXCEPT !.pc = "wait", !.ent = i]
<1>4. ents[i].key = rd[r].key
  BY <1>3 DEF ReadJoin, SameKey
<1>5. ReaderOK(u, ents, file)
  BY <1>1, <1>3, <1>4, PointsTo
<1>6. rd' = [rd EXCEPT ![r] = u]
  BY <1>3 DEF ReadJoin, Inv, CoreTypes
<1> HIDE DEF u
<1> QED BY <1>1, <1>2, <1>5, <1>6, ReaderMoves

LEMMA ServeInv ==
  ASSUME Inv, NEW r \in Readers, WaitAndServe(r)
  PROVE  Inv'
<1>1. rd[r].pc = "wait" /\ UNCHANGED <<file, ents, entries>>
  BY DEF WaitAndServe, book
<1>2. entries' \in [Paths -> Ids \cup {None}]
  BY <1>1 DEF Inv, CoreTypes
<1>3. rd[r].ent \in Ids /\ ents[rd[r].ent].key = rd[r].key
  BY <1>1 DEF Inv, ReaderOK, Ids
<1>4. PICK i \in Ids : i = rd[r].ent
  BY <1>3
<1>5. \/ /\ Ok(i)
         /\ ents[i].sig = rd[r].sig
         /\ rd' = [rd EXCEPT ![r].pc = "copy"]
      \/ Answer(r, Failure)
  BY <1>4 DEF WaitAndServe
<1>6. CASE /\ Ok(i)
           /\ ents[i].sig = rd[r].sig
           /\ rd' = [rd EXCEPT ![r].pc = "copy"]
  <2> DEFINE u == [rd[r] EXCEPT !.pc = "copy", !.ent = i]
  <2>1. ents[i].ver # None /\ BuiltRec(ents[i])
    BY <1>4, <1>6 DEF Ok, WaitAndServe, BuiltRec
  <2>2. ReaderOK(u, ents, file)
    BY <1>1, <1>3, <1>4, <1>6, <2>1, PointsTo
  <2>3. rd[r] \in ReaderRecs
    BY DEF Inv, CoreTypes
  <2>4. [rd[r] EXCEPT !.pc = "copy"] = u
    BY <2>3, <1>4 DEF ReaderRecs
  <2>5. rd' = [rd EXCEPT ![r] = u]
    BY <1>6, <2>4 DEF Inv, CoreTypes
  <2> HIDE DEF u
  <2> QED BY <1>1, <1>2, <2>2, <2>5, ReaderMoves
<1>7. CASE Answer(r, Failure)
  BY <1>1, <1>2, <1>7, ReplyKinds, AnswerMoves
<1> QED BY <1>5, <1>6, <1>7

LEMMA GiveUpInv ==
  ASSUME Inv, NEW r \in Readers, GiveUp(r)
  PROVE  Inv'
<1>1. rd[r].pc = "wait" /\ Answer(r, Failure) /\ UNCHANGED <<file, ents, entries>>
  BY DEF GiveUp, book
<1>2. entries' \in [Paths -> Ids \cup {None}]
  BY <1>1 DEF Inv, CoreTypes
<1> QED BY <1>1, <1>2, ReplyKinds, AnswerMoves

\* The bytes a reader copies are those its entry was built with.
LEMMA CopyInv ==
  ASSUME Inv, NEW r \in Readers, CopyAt(r)
  PROVE  Inv'
<1>1. rd[r].pc = "copy" /\ UNCHANGED <<file, ents, entries>>
  BY DEF CopyAt, book
<1>2. entries' \in [Paths -> Ids \cup {None}]
  BY <1>1 DEF Inv, CoreTypes
<1>3. PICK i \in Ids : i = rd[r].ent
  BY <1>1 DEF Inv, ReaderOK, Ids
<1> DEFINE z == i \in zeroed
           d == Data(ents[i].ver, ents[i].sig, z, rd[r].stale)
<1>4. rd[r] \in ReaderRecs /\ EntryOK(ents[i], file) /\ ents[i] \in EntryRecs
  BY DEF Inv, CoreTypes, EntryOK
<1>5. /\ ents[i].ver \in Versions \cup {None} /\ ents[i].sig \in Sigs
      /\ rd[r].stale \in BOOLEAN
  BY <1>4 DEF EntryRecs, ReaderRecs
<1>6. z \in BOOLEAN
  OBVIOUS
<1>7. Answer(r, d)
  BY <1>3 DEF CopyAt
<1> HIDE DEF z
<1>8. d \in Replies /\ d.sig = ents[i].sig /\ d.ver = ents[i].ver
      /\ d.stale = rd[r].stale
  BY <1>5, <1>6, ReplyKinds
<1> HIDE DEF d
<1>9. d.sig = rd[r].sig
  BY <1>1, <1>3, <1>8 DEF Inv, ReaderOK
<1>10. ~d.stale => d.ver >= rd[r].key.ver
  <2>1. SUFFICES ASSUME ~rd[r].stale PROVE d.ver >= rd[r].key.ver
    BY <1>8
  <2>2. ents[i].key = rd[r].key /\ ents[i].ver # None
    BY <1>1, <1>3, <2>1 DEF Inv, ReaderOK
  <2> QED BY <1>4, <1>8, <2>2 DEF EntryOK
<1> QED BY <1>1, <1>2, <1>7, <1>8, <1>9, <1>10, AnswerMoves

\* The one step that adds an entry: it is OK because the reader's key is, and
\* stalePrev is taken only from a built entry of the reader's patterns.
LEMMA MissInv ==
  ASSUME Inv, NEW r \in Readers, ReadMiss(r)
  PROVE  Inv'
<1> DEFINE new == Len(ents) + 1
           e == [key |-> rd[r].key, sig |-> rd[r].sig,
                 phase |-> "reading", ver |-> None]
           label == IF StalePrev(r) THEN "copy" ELSE "wait"
           at == IF StalePrev(r) THEN Cached(r) ELSE new
           u == [rd[r] EXCEPT !.pc = label, !.ent = at, !.stale = StalePrev(r)]
<1>1. /\ rd[r] \in ReaderRecs
      /\ ents \in Seq(EntryRecs)
      /\ Len(ents) \in Nat
      /\ rd[r].key \in Keys
      /\ rd[r].sig \in Sigs
      /\ rd[r].key.path \in Paths
  BY DEF Inv, CoreTypes, ReaderRecs, Keys
<1>2. rd[r].pc = "call" /\ rd[r].key.ver <= file[rd[r].key.path]
  BY DEF Inv, ReaderOK, ReadMiss
<1>3. file' = file /\ ents' = Append(ents, e)
  BY DEF ReadMiss
<1>4. e \in EntryRecs /\ e.key = rd[r].key /\ e.sig = rd[r].sig /\ e.ver = None
  BY <1>1 DEF EntryRecs, Phases
<1>5. EntryOK(e, file)
  BY <1>2, <1>4 DEF EntryOK
<1> HIDE DEF e
<1>6. /\ ents' \in Seq(EntryRecs)
      /\ Len(ents') = new
      /\ ents'[new] = e
      /\ \A i \in Ids : ents'[i] = ents[i]
  BY <1>1, <1>3, <1>4 DEF Ids
<1>7. Ids' = Ids \cup {new} /\ new \in Ids' /\ new \in Nat
  BY <1>1, <1>6 DEF Ids
<1>8. \A i \in Ids' : EntryOK(ents'[i], file')
  BY <1>3, <1>5, <1>6, <1>7 DEF Inv
<1>9. Grows(ents, ents')
  BY <1>1, <1>6 DEF Grows, Ids
<1>10. file' \in [Paths -> Versions] /\ Newer(file, file')
  BY <1>3 DEF Inv, CoreTypes, Newer, Versions
<1>11. entries' \in [Paths -> Ids' \cup {None}]
  BY <1>7 DEF ReadMiss, Inv, CoreTypes
<1>12. StalePrev(r) \in BOOLEAN
  BY DEF StalePrev
<1>13. StalePrev(r) => /\ Cached(r) \in Ids
                       /\ BuiltRec(ents[Cached(r)])
                       /\ ents[Cached(r)].sig = rd[r].sig
  BY CachedType DEF StalePrev, Built, BuiltRec
<1>14. rd' = [rd EXCEPT ![r] = u]
  BY <1>1 DEF ReadMiss, Inv, CoreTypes
<1>15. label \in {"wait", "copy"} /\ at \in Ids'
  BY <1>7, <1>13
<1>16. at \in Nat
  BY <1>15, <1>6 DEF Ids
<1>17. /\ u \in ReaderRecs /\ u.pc = label /\ u.ent = at
       /\ u.stale = StalePrev(r) /\ u.key = rd[r].key /\ u.sig = rd[r].sig
  <2> HIDE DEF label, at
  <2> QED BY <1>1, <1>12, <1>15, <1>16 DEF ReaderRecs
<1>18. ReaderOK(u, ents', file')
  <2>1. CASE StalePrev(r)
    <3>1. label = "copy" /\ at = Cached(r) /\ at \in Ids
      BY <2>1, <1>13
    <3>2. BuiltRec(ents'[at]) /\ ents'[at].sig = rd[r].sig
      BY <2>1, <3>1, <1>6, <1>13
    <3>3. at \in 1..Len(ents')
      BY <1>15 DEF Ids
    <3> HIDE DEF u, label, at
    <3> QED BY <2>1, <3>1, <3>2, <3>3, <1>2, <1>3, <1>17 DEF ReaderOK
  <2>2. CASE ~StalePrev(r)
    <3>1. label = "wait" /\ at = new
      BY <2>2
    <3>2. ents'[at].key = rd[r].key
      BY <3>1, <1>4, <1>6
    <3>3. at \in 1..Len(ents')
      BY <1>15 DEF Ids
    <3> HIDE DEF u, label, at
    <3> QED BY <2>2, <3>1, <3>2, <3>3, <1>2, <1>3, <1>17 DEF ReaderOK
  <2> QED BY <2>1, <2>2
<1> HIDE DEF u, label, at, new
<1>19. rd' \in [Readers -> ReaderRecs]
       /\ \A q \in Readers : rd'[q] = rd[q] \/ ReaderOK(rd'[q], ents', file')
  BY <1>14, <1>17, <1>18 DEF Inv, CoreTypes
<1> QED BY <1>6, <1>8, <1>9, <1>10, <1>11, <1>19, InvStep

(***************************************************************************)
(* The steps of a rebuild, of the environment and of an invalidation.      *)
(***************************************************************************)
LEMMA RedactInv ==
  ASSUME Inv, NEW i \in Ids, RedactFile(i)
  PROVE  Inv'
<1>1. /\ ents[i].phase = "reading"
      /\ UNCHANGED <<file, entries, rd>>
  BY DEF RedactFile, book
<1>2. PICK v \in {file[ents[i].key.path], None} :
        ents' = [ents EXCEPT ![i].phase = "read", ![i].ver = v]
  BY DEF RedactFile
<1> DEFINE e == [ents[i] EXCEPT !.phase = "read", !.ver = v]
<1>3. EntryOK(ents[i], file) /\ ents[i] \in EntryRecs /\ ents[i].key.path \in Paths
  BY DEF Inv, EntryOK, EntryRecs, Keys
<1>4. v \in Versions \cup {None}
  BY <1>3 DEF Inv, CoreTypes
<1>5. e \in EntryRecs /\ e.key = ents[i].key /\ e.sig = ents[i].sig /\ e.ver = v
  BY <1>3, <1>4 DEF EntryRecs, Phases
<1>6. ents' = [ents EXCEPT ![i] = e]
  BY <1>2 DEF Inv, CoreTypes
<1> HIDE DEF e
<1>7. e.ver # None => e.ver >= e.key.ver
  BY <1>2, <1>3, <1>5 DEF EntryOK, EntryRecs, Keys, Versions, Inv, CoreTypes
<1>8. EntryOK(e, file)
  BY <1>3, <1>5, <1>7 DEF EntryOK
<1>9. ~BuiltRec(ents[i])
  BY <1>1 DEF BuiltRec
<1>10. entries' \in [Paths -> Ids \cup {None}]
  BY <1>1 DEF Inv, CoreTypes
<1> QED BY <1>1, <1>5, <1>6, <1>8, <1>9, <1>10, EntryMoves

\* Publish and CloseReady move entry i to a phase that counts as built.
LEMMA FinishInv ==
  ASSUME Inv, NEW i \in Ids, NEW label \in {"built", "ready"},
         ents' = [ents EXCEPT ![i].phase = label],
         UNCHANGED <<file, rd>>,
         entries' \in [Paths -> Ids \cup {None}]
  PROVE  Inv'
<1> DEFINE e == [ents[i] EXCEPT !.phase = label]
<1>1. EntryOK(ents[i], file) /\ ents[i] \in EntryRecs
  BY DEF Inv, EntryOK
<1>2. /\ e \in EntryRecs /\ e.key = ents[i].key /\ e.sig = ents[i].sig
      /\ e.ver = ents[i].ver /\ e.phase = label
  BY <1>1 DEF EntryRecs, Phases
<1>3. ents' = [ents EXCEPT ![i] = e]
  BY DEF Inv, CoreTypes
<1> HIDE DEF e
<1>4. EntryOK(e, file)
  BY <1>1, <1>2 DEF EntryOK
<1>5. BuiltRec(e)
  BY <1>2 DEF BuiltRec
<1> QED BY <1>2, <1>3, <1>4, <1>5, EntryMoves

LEMMA RebuildInv ==
  ASSUME Inv, NEW i \in Ids, Rebuild(i)
  PROVE  Inv'
<1>1. CASE RedactFile(i)
  BY <1>1, RedactInv
<1>2. CASE Publish(i)
  <2>1. PICK gone : entries' = [p \in Paths |->
                       IF entries[p] \in gone THEN None ELSE entries[p]]
    BY <1>2 DEF Publish
  <2>2. entries' \in [Paths -> Ids \cup {None}]
    BY <2>1 DEF Inv, CoreTypes
  <2>3. ents' = [ents EXCEPT ![i].phase = "built"] /\ UNCHANGED <<file, rd>>
    BY <1>2 DEF Publish
  <2> QED BY <2>2, <2>3, FinishInv
<1>3. CASE CloseReady(i)
  <2>1. /\ ents' = [ents EXCEPT ![i].phase = "ready"]
        /\ UNCHANGED <<file, rd, entries>>
    BY <1>3 DEF CloseReady, book
  <2>2. entries' \in [Paths -> Ids \cup {None}]
    BY <2>1 DEF Inv, CoreTypes
  <2> QED BY <2>1, <2>2, FinishInv
<1> QED BY <1>1, <1>2, <1>3 DEF Rebuild

LEMMA EditInv ==
  ASSUME Inv, NEW p \in Paths, Edit(p)
  PROVE  Inv'
<1>1. /\ file \in [Paths -> Versions]
      /\ file[p] < MaxVersion
      /\ file' = [file EXCEPT ![p] = file[p] + 1]
      /\ UNCHANGED <<ents, entries, rd>>
  BY DEF Edit, Inv, CoreTypes, book
<1>2. file[p] + 1 \in Versions
  BY <1>1, RamCacheConstants DEF Versions
<1>3. file' \in [Paths -> Versions]
  BY <1>1, <1>2
<1>4. \A q \in Paths : file[q] \in Int /\ file[q] <= file'[q] /\ file'[q] \in Int
  BY <1>1, <1>3, RamCacheConstants DEF Versions
<1>5. Newer(file, file')
  BY <1>4 DEF Newer
<1>6. /\ ents' \in Seq(EntryRecs) /\ Grows(ents, ents') /\ Ids' = Ids
      /\ entries' \in [Paths -> Ids' \cup {None}]
      /\ rd' \in [Readers -> ReaderRecs] /\ \A q \in Readers : rd'[q] = rd[q]
  BY <1>1 DEF Inv, CoreTypes, Grows, Ids
<1>7. ASSUME NEW i \in Ids' PROVE EntryOK(ents'[i], file')
  <2>1. ents'[i] = ents[i] /\ EntryOK(ents[i], file)
    BY <1>1, <1>6 DEF Inv
  <2>2. ents[i].key.path \in Paths /\ ents[i].key.ver \in Int
    BY <2>1 DEF EntryOK, EntryRecs, Keys, Versions
  <2>3. ents[i].key.ver <= file'[ents[i].key.path]
    BY <2>1, <2>2, <1>4 DEF EntryOK
  <2> QED BY <2>1, <2>3 DEF EntryOK
<1> QED BY <1>3, <1>5, <1>6, <1>7, InvStep

LEMMA DropInv ==
  ASSUME Inv, NEW S, Drop(S)
  PROVE  Inv'
<1>1. entries' \in [Paths -> Ids \cup {None}]
  BY DEF Drop, Inv, CoreTypes
<1>2. UNCHANGED <<file, ents, rd>>
  BY DEF Drop
<1> QED BY <1>1, <1>2, BookMoves

\* Every step of the cache keeps the invariant.
LEMMA InvNext == Inv /\ [Next]_vars => Inv'
<1> SUFFICES ASSUME Inv, [Next]_vars PROVE Inv'
  OBVIOUS
<1>1. ASSUME NEW p \in Paths, Edit(p) PROVE Inv'
  BY <1>1, EditInv
<1>2. ASSUME NEW p \in Paths, Invalidate(p) PROVE Inv'
  BY <1>2, DropInv DEF Invalidate
<1>3. CASE InvalidateAll
  BY <1>3, DropInv DEF InvalidateAll
<1>4. ASSUME NEW r \in Readers, NEW p \in Paths, NEW s \in Sigs, Stat(r, p, s)
      PROVE  Inv'
  BY <1>4, StatInv
<1>9. ASSUME NEW r \in Readers, NEW g \in Gens, NewContentKey(r, g) PROVE Inv'
  BY <1>9, NewKeyInv
<1>5. ASSUME NEW r \in Readers, ReadStep(r) PROVE Inv'
  BY <1>5, OversizeInv, HitInv, JoinInv, MissInv, ServeInv, GiveUpInv, CopyInv
     DEF ReadStep
<1>6. ASSUME NEW r \in Readers, Return(r) PROVE Inv'
  BY <1>6, ReturnInv
<1>7. ASSUME NEW i \in Ids, Rebuild(i) PROVE Inv'
  BY <1>7, RebuildInv
<1>8. CASE UNCHANGED vars
  <2>1. UNCHANGED <<file, ents, rd, entries>>
    BY <1>8 DEF vars
  <2>2. entries' \in [Paths -> Ids \cup {None}]
    BY <2>1 DEF Inv, CoreTypes
  <2> QED BY <2>1, <2>2, BookMoves
<1> QED BY <1>1, <1>2, <1>3, <1>4, <1>5, <1>6, <1>7, <1>8, <1>9
         DEF Next, Exhausted

\* The invariant of the cache, in every behaviour.
LEMMA CacheInvariant == Spec => []Inv
<1>1. Init => Inv
  BY InvInit
<1>2. Inv /\ [Next]_vars => Inv'
  BY InvNext
<1> QED BY <1>1, <1>2, PTL DEF Spec

\* ReadAt serves redacted bytes made with the caller's pattern set, and no
\* other, by whichever of its paths: a hit, a wait, stalePrev or the bypass.
THEOREM ServesOwnPatterns == Spec => []NoMismatchedServe
<1>1. Inv => NoMismatchedServe
  BY DEF Inv, ReaderOK, NoMismatchedServe
<1> QED BY <1>1, CacheInvariant, PTL

\* Bytes that ReadAt does not serve as stale come from a version of the file
\* at least as new as the one the caller's stat saw.
THEOREM ServesFresh == Spec => []FreshServe
<1>1. Inv => FreshServe
  BY DEF Inv, ReaderOK, FreshServe
<1> QED BY <1>1, CacheInvariant, PTL

(***************************************************************************)
(* The map, the list and the account.  Induction first.                    *)
(***************************************************************************)
LEMMA Least ==
  ASSUME NEW T, T \subseteq Nat, T # {}
  PROVE  \E n \in T : \A m \in T : n <= m
<1> DEFINE R == {ss \in Nat \X Nat : ss[1] < ss[2]}
<1>1. IsWellFoundedOn(OpToRel(<, Nat), Nat)
  BY NatLessThanWellFounded
<1>2. IsWellFoundedOn(R, Nat)
  BY <1>1 DEF OpToRel
<1>3. \A m, n \in Nat : m < n => <<m, n>> \in R
  OBVIOUS
<1> HIDE DEF R
<1>4. PICK n \in T : \A m \in T : ~ (<<m, n>> \in R)
  BY <1>2, WFMin
<1>5. ASSUME NEW m \in T PROVE n <= m
  <2>1. m \in Nat /\ n \in Nat
    OBVIOUS
  <2>2. ~ (m < n)
    BY <2>1, <1>3, <1>4
  <2> QED BY <2>1, <2>2
<1> QED
  BY <1>5

\* Induction up to n: a set that has 0 and, with any k < n, also k + 1.
LEMMA UpTo ==
  ASSUME NEW n \in Nat, NEW G, 0 \in G, \A k \in 0 .. n - 1 : k \in G => k + 1 \in G
  PROVE  0 .. n \subseteq G
<1> DEFINE T == (0 .. n) \ G
<1>1. SUFFICES ASSUME T # {} PROVE FALSE
  OBVIOUS
<1>2. T \subseteq Nat
  OBVIOUS
<1>3. PICK m \in T : \A k \in T : m <= k
  <2> HIDE DEF T
  <2> QED BY <1>1, <1>2, Least
<1>4. m # 0 /\ m - 1 \in 0 .. n - 1 /\ m - 1 \notin T
  BY <1>3
<1> QED
  BY <1>3, <1>4

\* A function defined by recursion on 0 .. n, its step given as a function.
Obeys(f, n, b, st) == f[0] = b /\ \A k \in 1 .. n : f[k] = st[<<f[k - 1], k>>]

\* There is a function on 0 .. n that starts at b and goes on by st: the
\* recursive functions of RamCache are such functions.
LEMMA Recursion ==
  ASSUME NEW n \in Nat, NEW V, NEW b \in V, NEW st \in [V \X (1 .. n) -> V]
  PROVE  \E f \in [0 .. n -> V] : Obeys(f, n, b, st)
<1> DEFINE G == {m \in 0 .. n : \E f \in [0 .. m -> V] :
                   f[0] = b /\ \A k \in 1 .. m : f[k] = st[<<f[k - 1], k>>]}
<1>1. 0 \in G
  <2> DEFINE f == [k \in 0 .. 0 |-> b]
  <2>1. f \in [0 .. 0 -> V] /\ f[0] = b /\ \A k \in 1 .. 0 : f[k] = st[<<f[k - 1], k>>]
    OBVIOUS
  <2> HIDE DEF f
  <2> QED BY <2>1
<1>2. ASSUME NEW m \in 0 .. n - 1, m \in G PROVE m + 1 \in G
  <2>1. PICK f \in [0 .. m -> V] : f[0] = b /\ \A k \in 1 .. m : f[k] = st[<<f[k - 1], k>>]
    BY <1>2
  <2> DEFINE g == [k \in 0 .. m + 1 |-> IF k = m + 1 THEN st[<<f[m], m + 1>>] ELSE f[k]]
  <2>2. f[m] \in V /\ m + 1 \in 1 .. n /\ st[<<f[m], m + 1>>] \in V
    OBVIOUS
  <2>3. g \in [0 .. m + 1 -> V]
    BY <2>2
  <2>4. g[0] = b
    BY <2>1
  <2>5. ASSUME NEW k \in 1 .. m + 1 PROVE g[k] = st[<<g[k - 1], k>>]
    <3>1. CASE k = m + 1
      <4>1. k - 1 = m /\ m \in 0 .. m + 1 /\ m # m + 1 /\ k \in 0 .. m + 1
        BY <3>1
      <4>2. g[k] = st[<<f[m], m + 1>>] /\ g[m] = f[m]
        BY <4>1, <3>1
      <4> QED BY <4>1, <4>2, <3>1
    <3>2. CASE k # m + 1
      <4>1. k \in 1 .. m /\ k \in 0 .. m + 1 /\ k - 1 \in 0 .. m + 1 /\ k - 1 # m + 1
        BY <3>2
      <4>2. g[k] = f[k] /\ g[k - 1] = f[k - 1]
        BY <4>1, <3>2
      <4> QED BY <4>1, <4>2, <2>1
    <3> QED BY <3>1, <3>2
  <2> HIDE DEF g
  <2> QED BY <2>3, <2>4, <2>5
<1>3. 0 .. n \subseteq G
  <2> HIDE DEF G
  <2> QED BY <1>1, <1>2, UpTo
<1> QED
  BY <1>3 DEF Obeys

\* The sum is computed step by step.
SumRun(f, w, S) ==
  /\ f[0] = 0
  /\ \A k \in 1 .. Len(w) : f[k] = f[k - 1] + (IF k \in S THEN w[k] ELSE 0)

\* Total walks the positions and adds the weights of those in S.
LEMMA TotalSteps ==
  ASSUME NEW w \in Seq(Nat), NEW S
  PROVE  \E f \in [0 .. Len(w) -> Nat] : SumRun(f, w, S) /\ Total(w, S) = f[Len(w)]
<1> DEFINE n == Len(w)
           Body(f) == [i \in 0 .. n |-> IF i = 0 THEN 0 ELSE f[i - 1] + (IF i \in S THEN w[i] ELSE 0)]
           st == [p \in Nat \X (1 .. n) |-> p[1] + (IF p[2] \in S THEN w[p[2]] ELSE 0)]
           sum == CHOOSE f : f = Body(f)
<1>1. n \in Nat /\ \A k \in 1 .. n : w[k] \in Nat
  OBVIOUS
<1>2. st \in [Nat \X (1 .. n) -> Nat]
  BY <1>1
<1>3. \A q \in Nat, k \in 1 .. n : st[<<q, k>>] = q + (IF k \in S THEN w[k] ELSE 0)
  OBVIOUS
<1>4. PICK f \in [0 .. n -> Nat] : f[0] = 0 /\ \A k \in 1 .. n : f[k] = st[<<f[k - 1], k>>]
  <2>1. \E f \in [0 .. n -> Nat] : Obeys(f, n, 0, st)
    <3>1. 0 \in Nat
      OBVIOUS
    <3> HIDE DEF st, n
    <3> QED BY <1>1, <1>2, <3>1, Recursion, Zenon
  <2> QED BY <2>1 DEF Obeys
<1>5. \A k \in 1 .. n : f[k] = f[k - 1] + (IF k \in S THEN w[k] ELSE 0)
  <2>1. \A k \in 1 .. n : f[k - 1] \in Nat
    BY <1>1
  <2> HIDE DEF st, n
  <2> QED BY <1>3, <1>4, <2>1
<1>6. f = Body(f)
  <2>1. ASSUME NEW k \in 0 .. n PROVE f[k] = Body(f)[k]
    <3>1. k = 0 \/ k \in 1 .. n
      BY <1>1
    <3> HIDE DEF st
    <3> QED BY <3>1, <1>4, <1>5
  <2> QED BY <2>1
<1>7. sum = Body(sum)
  <2> HIDE DEF Body
  <2> QED BY <1>6
<1>8. Total(w, S) = sum[n]
  BY DEF Total
<1>9. sum[0] = 0 /\ \A k \in 1 .. n : sum[k] = sum[k - 1] + (IF k \in S THEN w[k] ELSE 0)
  <2>1. 0 \in 0 .. n /\ \A k \in 1 .. n : k \in 0 .. n /\ k # 0
    BY <1>1
  <2> HIDE DEF sum
  <2> QED BY <2>1, <1>7
<1>10. sum \in [0 .. n -> Nat]
  <2> DEFINE G == {k \in 0 .. n : sum[k] \in Nat}
  <2> HIDE DEF sum, n
  <2>1. 0 \in G
    BY <1>1, <1>9
  <2>2. ASSUME NEW k \in 0 .. n - 1, k \in G PROVE k + 1 \in G
    <3>1. k + 1 \in 1 .. n /\ k + 1 \in 0 .. n /\ (k + 1) - 1 = k
      BY <1>1
    <3>2. sum[k + 1] = sum[k] + (IF k + 1 \in S THEN w[k + 1] ELSE 0)
      BY <1>9, <3>1
    <3>3. sum[k] \in Nat /\ w[k + 1] \in Nat
      BY <2>2, <3>1, <1>1
    <3> QED BY <3>1, <3>2, <3>3
  <2>3. 0 .. n \subseteq G
    <3> HIDE DEF G
    <3> QED BY <1>1, <2>1, <2>2, UpTo
  <2>4. sum = [k \in 0 .. n |-> sum[k]]
    BY <1>7
  <2> QED BY <2>3, <2>4
<1> HIDE DEF sum
<1>11. SumRun(sum, w, S)
  BY <1>9 DEF SumRun
<1> QED
  BY <1>8, <1>10, <1>11

\* A total is a number.
LEMMA TotalType ==
  ASSUME NEW w \in Seq(Nat), NEW S
  PROVE  Total(w, S) \in Nat
<1>1. PICK f \in [0 .. Len(w) -> Nat] : SumRun(f, w, S) /\ Total(w, S) = f[Len(w)]
  BY TotalSteps
<1>2. Len(w) \in 0 .. Len(w)
  OBVIOUS
<1> QED BY <1>1, <1>2

\* The sum over a union of disjoint sets.
LEMMA TotalUnion ==
  ASSUME NEW w \in Seq(Nat), NEW S, NEW T, S \cap T = {}
  PROVE  Total(w, S \cup T) = Total(w, S) + Total(w, T)
<1> DEFINE n == Len(w)
<1>1. n \in Nat /\ \A k \in 1 .. n : w[k] \in Nat
  OBVIOUS
<1>2. PICK f \in [0 .. n -> Nat] : SumRun(f, w, S) /\ Total(w, S) = f[n]
  BY TotalSteps
<1>3. PICK g \in [0 .. n -> Nat] : SumRun(g, w, T) /\ Total(w, T) = g[n]
  BY TotalSteps
<1>4. PICK h \in [0 .. n -> Nat] : SumRun(h, w, S \cup T) /\ Total(w, S \cup T) = h[n]
  BY TotalSteps
<1> DEFINE G == {k \in 0 .. n : h[k] = f[k] + g[k]}
<1>5. 0 \in G
  BY <1>1, <1>2, <1>3, <1>4 DEF SumRun
<1>6. ASSUME NEW k \in 0 .. n - 1, k \in G PROVE k + 1 \in G
  <2>1. k + 1 \in 1 .. n /\ (k + 1) - 1 = k /\ k \in 0 .. n /\ k + 1 \in 0 .. n
    BY <1>1
  <2>2. /\ f[k] \in Nat /\ g[k] \in Nat /\ h[k] = f[k] + g[k] /\ w[k + 1] \in Nat
    BY <1>1, <1>6, <2>1
  <2>3. f[k + 1] = f[k] + (IF k + 1 \in S THEN w[k + 1] ELSE 0)
    BY <1>2, <2>1 DEF SumRun
  <2>4. g[k + 1] = g[k] + (IF k + 1 \in T THEN w[k + 1] ELSE 0)
    BY <1>3, <2>1 DEF SumRun
  <2>5. h[k + 1] = h[k] + (IF k + 1 \in S \cup T THEN w[k + 1] ELSE 0)
    BY <1>4, <2>1 DEF SumRun
  <2>6. ~(k + 1 \in S /\ k + 1 \in T)
    OBVIOUS
  <2>7. h[k + 1] = f[k + 1] + g[k + 1]
    BY <2>2, <2>3, <2>4, <2>5, <2>6
  <2> QED BY <2>1, <2>7
<1>7. 0 .. n \subseteq G
  <2> HIDE DEF G, n
  <2> QED BY <1>1, <1>5, <1>6, UpTo
<1>8. n \in 0 .. n
  BY <1>1
<1> QED BY <1>2, <1>3, <1>4, <1>7, <1>8

\* Nothing weighs nothing.
LEMMA TotalNone ==
  ASSUME NEW w \in Seq(Nat)
  PROVE  Total(w, {}) = 0
<1>1. Total(w, {} \cup {}) = Total(w, {}) + Total(w, {})
  BY TotalUnion
<1>2. {} \cup {} = {}
  OBVIOUS
<1> QED BY <1>1, <1>2, TotalType

\* A part weighs no more, and what is left when it goes is the difference.
LEMMA TotalPart ==
  ASSUME NEW w \in Seq(Nat), NEW S, NEW T, S \subseteq T
  PROVE  Total(w, S) <= Total(w, T) /\ Total(w, T \ S) = Total(w, T) - Total(w, S)
<1>1. S \cup (T \ S) = T /\ S \cap (T \ S) = {}
  OBVIOUS
<1>2. Total(w, S \cup (T \ S)) = Total(w, S) + Total(w, T \ S)
  BY <1>1, TotalUnion
<1>3. Total(w, S) \in Nat /\ Total(w, T) \in Nat /\ Total(w, T \ S) \in Nat
  BY TotalType
<1>4. Total(w, T) = Total(w, S) + Total(w, T \ S)
  BY <1>1, <1>2, Zenon
<1> DEFINE a == Total(w, S)
           b == Total(w, T \ S)
           c == Total(w, T)
<1>5. a \in Nat /\ b \in Nat /\ c = a + b
  BY <1>3, <1>4
<1> HIDE DEF a, b, c
<1>6. a <= c /\ b = c - a
  BY <1>5
<1> QED BY <1>6 DEF a, b, c

\* Two tables that agree on S, where the longer one has nothing more of S.
LEMMA TotalSame ==
  ASSUME NEW w \in Seq(Nat), NEW v \in Seq(Nat), NEW S, Len(w) <= Len(v),
         \A k \in 1 .. Len(w) : k \in S => w[k] = v[k],
         \A k \in Len(w) + 1 .. Len(v) : k \notin S
  PROVE  Total(w, S) = Total(v, S)
<1> DEFINE m == Len(w)
           n == Len(v)
<1>1. /\ m \in Nat /\ n \in Nat /\ m <= n
      /\ \A k \in 1 .. m : w[k] \in Nat
      /\ \A k \in 1 .. n : v[k] \in Nat
  OBVIOUS
<1>2. PICK f \in [0 .. m -> Nat] : SumRun(f, w, S) /\ Total(w, S) = f[m]
  BY TotalSteps
<1>3. PICK g \in [0 .. n -> Nat] : SumRun(g, v, S) /\ Total(v, S) = g[n]
  BY TotalSteps
<1> DEFINE G == {k \in 0 .. n : g[k] = IF k <= m THEN f[k] ELSE f[m]}
<1>4. 0 \in G
  BY <1>1, <1>2, <1>3 DEF SumRun
<1>5. ASSUME NEW k \in 0 .. n - 1, k \in G PROVE k + 1 \in G
  <2>1. k + 1 \in 1 .. n /\ (k + 1) - 1 = k /\ k \in 0 .. n /\ k + 1 \in 0 .. n
    BY <1>1
  <2>2. g[k + 1] = g[k] + (IF k + 1 \in S THEN v[k + 1] ELSE 0)
    BY <1>3, <2>1 DEF SumRun
  <2>3. g[k] = IF k <= m THEN f[k] ELSE f[m]
    BY <1>5
  <2>4. CASE k + 1 <= m
    <3>1. k + 1 \in 1 .. m /\ k <= m
      BY <1>1, <2>1, <2>4
    <3>2. f[k + 1] = f[k] + (IF k + 1 \in S THEN w[k + 1] ELSE 0)
      BY <1>2, <2>1, <3>1 DEF SumRun
    <3>3. k + 1 \in S => w[k + 1] = v[k + 1]
      BY <3>1
    <3>4. g[k + 1] = f[k + 1]
      BY <2>2, <2>3, <3>1, <3>2, <3>3
    <3> QED BY <2>1, <2>4, <3>4
  <2>5. CASE ~(k + 1 <= m)
    <3>1. k + 1 \in Len(w) + 1 .. Len(v)
      BY <1>1, <2>1, <2>5
    <3>2. k + 1 \notin S
      BY <3>1
    <3>3. g[k + 1] = g[k] + 0
      BY <2>2, <3>2
    <3>4. g[k] = f[m] /\ f[m] \in Nat
      <4>1. k <= m => k = m
        BY <1>1, <2>1, <2>5
      <4>2. m \in 0 .. m
        BY <1>1
      <4> QED BY <2>3, <4>1, <4>2
    <3> QED BY <2>1, <2>5, <3>3, <3>4
  <2> QED BY <2>4, <2>5
<1>6. 0 .. n \subseteq G
  <2> HIDE DEF G, n
  <2> QED BY <1>1, <1>4, <1>5, UpTo
<1>7. n \in G
  BY <1>1, <1>6
<1>8. g[n] = f[m]
  BY <1>1, <1>7
<1> QED BY <1>2, <1>3, <1>8

\* One position weighs what it weighs.
LEMMA TotalOne ==
  ASSUME NEW w \in Seq(Nat), NEW i \in 1 .. Len(w)
  PROVE  Total(w, {i}) = w[i]
<1> DEFINE n == Len(w)
<1>1. n \in Nat /\ \A k \in 1 .. n : w[k] \in Nat
  OBVIOUS
<1>2. PICK f \in [0 .. n -> Nat] : SumRun(f, w, {i}) /\ Total(w, {i}) = f[n]
  BY TotalSteps
<1> DEFINE G == {k \in 0 .. n : f[k] = IF k >= i THEN w[i] ELSE 0}
<1>3. 0 \in G
  BY <1>1, <1>2 DEF SumRun
<1>4. ASSUME NEW k \in 0 .. n - 1, k \in G PROVE k + 1 \in G
  <2>1. k + 1 \in 1 .. n /\ (k + 1) - 1 = k /\ k \in 0 .. n /\ k + 1 \in 0 .. n
    BY <1>1
  <2>2. f[k + 1] = f[k] + (IF k + 1 = i THEN w[k + 1] ELSE 0)
    BY <1>2, <2>1 DEF SumRun
  <2>3. f[k] = IF k >= i THEN w[i] ELSE 0
    BY <1>4
  <2>4. w[i] \in Nat
    BY <1>1
  <2>5. f[k + 1] = IF k + 1 >= i THEN w[i] ELSE 0
    BY <1>1, <2>1, <2>2, <2>3, <2>4
  <2> QED BY <2>1, <2>5
<1>5. 0 .. n \subseteq G
  <2> HIDE DEF G, n
  <2> QED BY <1>1, <1>3, <1>4, UpTo
<1>6. n \in G
  BY <1>1, <1>5
<1> QED BY <1>1, <1>2, <1>6


(***************************************************************************)
(* The list.                                                               *)
(***************************************************************************)
Elements(s) == {s[n] : n \in 1 .. Len(s)}
Once(s) == \A m, n \in 1 .. Len(s) : s[m] = s[n] => m = n

\* What is left of a list is computed step by step.
KeepRun(f, s, S) ==
  /\ f[0] = <<>>
  /\ \A k \in 1 .. Len(s) : f[k] = IF s[k] \in S THEN f[k - 1] ELSE Append(f[k - 1], s[k])

\* Without walks the list and leaves out what is in S.
LEMMA WithoutSteps ==
  ASSUME NEW V, NEW s \in Seq(V), NEW S
  PROVE  \E f \in [0 .. Len(s) -> Seq(V)] :
           KeepRun(f, s, S) /\ Without(s, S) = f[Len(s)]
<1> DEFINE n == Len(s)
           Body(f) == [k \in 0 .. n |-> IF k = 0 THEN <<>> ELSE IF s[k] \in S THEN f[k - 1] ELSE Append(f[k - 1], s[k])]
           st == [p \in Seq(V) \X (1 .. n) |-> IF s[p[2]] \in S THEN p[1] ELSE Append(p[1], s[p[2]])]
           kept == CHOOSE f : f = Body(f)
<1>1. n \in Nat /\ <<>> \in Seq(V) /\ \A k \in 1 .. n : s[k] \in V
  OBVIOUS
<1>2. st \in [Seq(V) \X (1 .. n) -> Seq(V)]
  BY <1>1
<1>3. \A q \in Seq(V), k \in 1 .. n : st[<<q, k>>] = IF s[k] \in S THEN q ELSE Append(q, s[k])
  OBVIOUS
<1>4. PICK f \in [0 .. n -> Seq(V)] : f[0] = <<>> /\ \A k \in 1 .. n : f[k] = st[<<f[k - 1], k>>]
  <2>1. \E f \in [0 .. n -> Seq(V)] : Obeys(f, n, <<>>, st)
    <3> HIDE DEF st, n
    <3> QED BY <1>1, <1>2, Recursion, Zenon
  <2> QED BY <2>1 DEF Obeys
<1>5. \A k \in 1 .. n : f[k] = IF s[k] \in S THEN f[k - 1] ELSE Append(f[k - 1], s[k])
  <2>1. \A k \in 1 .. n : f[k - 1] \in Seq(V)
    BY <1>1
  <2> HIDE DEF st, n
  <2> QED BY <1>3, <1>4, <2>1
<1>6. f = Body(f)
  <2>1. ASSUME NEW k \in 0 .. n PROVE f[k] = Body(f)[k]
    <3>1. k = 0 \/ k \in 1 .. n
      BY <1>1
    <3> HIDE DEF st
    <3> QED BY <3>1, <1>4, <1>5
  <2> QED BY <2>1
<1>7. kept = Body(kept)
  <2> HIDE DEF Body
  <2> QED BY <1>6
<1>8. Without(s, S) = kept[n]
  BY DEF Without
<1>9. kept[0] = <<>> /\ \A k \in 1 .. n : kept[k] = IF s[k] \in S THEN kept[k - 1] ELSE Append(kept[k - 1], s[k])
  <2>1. 0 \in 0 .. n /\ \A k \in 1 .. n : k \in 0 .. n /\ k # 0
    BY <1>1
  <2> HIDE DEF kept
  <2> QED BY <2>1, <1>7
<1>10. kept \in [0 .. n -> Seq(V)]
  <2> DEFINE G == {k \in 0 .. n : kept[k] \in Seq(V)}
  <2> HIDE DEF kept, n
  <2>1. 0 \in G
    <3>1. 0 \in 0 .. n /\ kept[0] \in Seq(V)
      BY <1>1, <1>9 DEF n
    <3> QED BY <3>1
  <2>2. ASSUME NEW k \in 0 .. n - 1, k \in G PROVE k + 1 \in G
    <3>1. k + 1 \in 1 .. n /\ k + 1 \in 0 .. n /\ (k + 1) - 1 = k
      BY <1>1
    <3>2. kept[k + 1] = IF s[k + 1] \in S THEN kept[k] ELSE Append(kept[k], s[k + 1])
      BY <1>9, <3>1
    <3>3. kept[k] \in Seq(V) /\ s[k + 1] \in V
      BY <2>2, <3>1, <1>1
    <3>4. kept[k + 1] \in Seq(V)
      BY <3>2, <3>3
    <3> QED BY <3>1, <3>4
  <2>3. 0 .. n \subseteq G
    <3> HIDE DEF G
    <3> QED BY <1>1, <2>1, <2>2, UpTo
  <2>4. kept = [k \in 0 .. n |-> kept[k]]
    BY <1>7
  <2> QED BY <2>3, <2>4
<1> HIDE DEF kept
<1>11. KeepRun(kept, s, S)
  BY <1>9 DEF KeepRun
<1> QED
  BY <1>8, <1>10, <1>11

\* A sequence over a set is one over a larger set.
LEMMA Wider == ASSUME NEW V, NEW s \in Seq(V), NEW W, V \subseteq W PROVE s \in Seq(W)
<1>1. Len(s) \in Nat /\ s = [i \in 1 .. Len(s) |-> s[i]] /\ \A i \in 1 .. Len(s) : s[i] \in W
  OBVIOUS
<1>2. [i \in 1 .. Len(s) |-> s[i]] \in Seq(W)
  BY <1>1
<1> QED BY <1>1, <1>2

\* An element appended to a list without it.
LEMMA AppendElements ==
  ASSUME NEW V, NEW t \in Seq(V), NEW x \in V
  PROVE  /\ Append(t, x) \in Seq(V) /\ Elements(Append(t, x)) = Elements(t) \cup {x}
         /\ Once(t) /\ x \notin Elements(t) => Once(Append(t, x))
<1> DEFINE u == Append(t, x)
<1>1. /\ u \in Seq(V) /\ Len(u) = Len(t) + 1 /\ Len(t) \in Nat
      /\ u[Len(t) + 1] = x /\ \A i \in 1 .. Len(t) : u[i] = t[i]
  OBVIOUS
<1> HIDE DEF u
<1>2. \A i \in 1 .. Len(u) : i \in 1 .. Len(t) \/ i = Len(t) + 1
  BY <1>1
<1>3. Elements(u) = Elements(t) \cup {x}
  <2>1. Elements(u) \subseteq Elements(t) \cup {x}
    BY <1>1, <1>2 DEF Elements
  <2>2. Elements(t) \subseteq Elements(u)
    BY <1>1 DEF Elements
  <2>3. x \in Elements(u)
    <3>1. Len(t) + 1 \in 1 .. Len(u)
      BY <1>1
    <3> QED BY <1>1, <3>1 DEF Elements
  <2> QED BY <2>1, <2>2, <2>3
<1>4. ASSUME Once(t), x \notin Elements(t) PROVE Once(u)
  <2> SUFFICES ASSUME NEW i \in 1 .. Len(u), NEW j \in 1 .. Len(u), u[i] = u[j] PROVE i = j
    BY DEF Once
  <2>1. \A k \in 1 .. Len(t) : t[k] # x
    BY <1>4 DEF Elements
  <2>2. CASE i \in 1 .. Len(t) /\ j \in 1 .. Len(t)
    <3>1. t[i] = t[j]
      BY <1>1, <2>2
    <3> QED BY <1>4, <2>2, <3>1 DEF Once
  <2>3. CASE i = Len(t) + 1 /\ j \in 1 .. Len(t)
    BY <1>1, <2>1, <2>3
  <2>4. CASE j = Len(t) + 1 /\ i \in 1 .. Len(t)
    BY <1>1, <2>1, <2>4
  <2>5. CASE j = Len(t) + 1 /\ i = Len(t) + 1
    BY <2>5
  <2> QED BY <1>2, <2>2, <2>3, <2>4, <2>5
<1> QED BY <1>1, <1>3, <1>4 DEF u

\* Without keeps the elements that are not in S, each as often as before.
LEMMA WithoutElements ==
  ASSUME NEW V, NEW s \in Seq(V), NEW S, Once(s)
  PROVE  /\ Without(s, S) \in Seq(V)
         /\ Elements(Without(s, S)) = Elements(s) \ S
         /\ Once(Without(s, S))
<1> DEFINE n == Len(s)
<1>1. n \in Nat /\ \A k \in 1 .. n : s[k] \in V
  OBVIOUS
<1>2. PICK f \in [0 .. n -> Seq(V)] : KeepRun(f, s, S) /\ Without(s, S) = f[n]
  BY WithoutSteps
<1> DEFINE Up(k) == {s[m] : m \in 1 .. k}
           G == {k \in 0 .. n : Elements(f[k]) = Up(k) \ S /\ Once(f[k])}
<1>3. 0 \in G
  <2>1. f[0] = <<>> /\ Up(0) = {}
    BY <1>2 DEF KeepRun
  <2>2. Elements(<<>>) = {} /\ Once(<<>>)
    BY DEF Elements, Once
  <2> HIDE DEF Up
  <2> QED BY <1>1, <2>1, <2>2
<1>4. ASSUME NEW k \in 0 .. n - 1, k \in G PROVE k + 1 \in G
  <2>1. k + 1 \in 1 .. n /\ (k + 1) - 1 = k /\ k \in 0 .. n /\ k + 1 \in 0 .. n /\ k \in Nat
    BY <1>1
  <2>2. f[k] \in Seq(V) /\ s[k + 1] \in V /\ Elements(f[k]) = Up(k) \ S /\ Once(f[k])
    BY <1>1, <1>4, <2>1
  <2>3. f[k + 1] = IF s[k + 1] \in S THEN f[k] ELSE Append(f[k], s[k + 1])
    BY <1>2, <2>1 DEF KeepRun
  <2>4. Up(k + 1) = Up(k) \cup {s[k + 1]}
    <3>1. \A m : m \in 1 .. k + 1 <=> m \in 1 .. k \/ m = k + 1
      BY <2>1
    <3> QED BY <3>1
  <2>5. s[k + 1] \notin Up(k)
    <3>1. ASSUME NEW m \in 1 .. k, s[m] = s[k + 1] PROVE FALSE
      <4>1. m \in 1 .. n /\ m # k + 1
        BY <1>1, <2>1
      <4> QED BY <2>1, <3>1, <4>1 DEF Once
    <3> QED BY <3>1
  <2> HIDE DEF Up
  <2>6. CASE s[k + 1] \in S
    <3>1. f[k + 1] = f[k] /\ Up(k + 1) \ S = Up(k) \ S
      BY <2>3, <2>4, <2>6
    <3> QED BY <2>1, <2>2, <3>1
  <2>7. CASE s[k + 1] \notin S
    <3>1. f[k + 1] = Append(f[k], s[k + 1]) /\ Up(k + 1) \ S = (Up(k) \ S) \cup {s[k + 1]}
      BY <2>3, <2>4, <2>7
    <3>2. s[k + 1] \notin Elements(f[k])
      BY <2>2, <2>5
    <3>3. Elements(f[k + 1]) = Elements(f[k]) \cup {s[k + 1]} /\ Once(f[k + 1])
      BY <2>2, <3>1, <3>2, AppendElements
    <3> QED BY <2>1, <2>2, <3>1, <3>3
  <2> QED BY <2>6, <2>7
<1>5. 0 .. n \subseteq G
  <2> HIDE DEF G, n
  <2> QED BY <1>1, <1>3, <1>4, UpTo
<1>6. n \in 0 .. n
  BY <1>1
<1>7. Elements(f[n]) = Up(n) \ S /\ Once(f[n]) /\ f[n] \in Seq(V)
  BY <1>5, <1>6
<1>8. Up(n) = Elements(s)
  BY DEF Elements
<1> QED BY <1>2, <1>7, <1>8

\* An element pushed to the front of a list without it.
LEMMA PushElements ==
  ASSUME NEW V, NEW t \in Seq(V), NEW x \in V
  PROVE  /\ PushFront(t, x) \in Seq(V) /\ Elements(PushFront(t, x)) = Elements(t) \cup {x}
         /\ Once(t) /\ x \notin Elements(t) => Once(PushFront(t, x))
<1> DEFINE u == <<x>> \o t
<1>1. /\ u \in Seq(V) /\ Len(u) = Len(t) + 1 /\ Len(t) \in Nat
      /\ u[1] = x /\ \A i \in 1 .. Len(t) : u[i + 1] = t[i]
  OBVIOUS
<1>2. u = PushFront(t, x)
  BY DEF PushFront
<1> HIDE DEF u
<1>3. \A i \in 1 .. Len(u) : i = 1 \/ (i - 1 \in 1 .. Len(t) /\ u[i] = t[i - 1])
  <2> SUFFICES ASSUME NEW i \in 1 .. Len(u), i # 1 PROVE i - 1 \in 1 .. Len(t) /\ u[i] = t[i - 1]
    OBVIOUS
  <2>1. i - 1 \in 1 .. Len(t) /\ (i - 1) + 1 = i
    BY <1>1
  <2> QED BY <1>1, <2>1
<1>4. Elements(u) = Elements(t) \cup {x}
  <2>1. ASSUME NEW y \in Elements(u) PROVE y \in Elements(t) \cup {x}
    <3>1. PICK i \in 1 .. Len(u) : y = u[i]
      BY DEF Elements
    <3>2. CASE i = 1
      BY <1>1, <3>1, <3>2
    <3>3. CASE i # 1
      <4>1. i - 1 \in 1 .. Len(t) /\ y = t[i - 1]
        BY <1>3, <3>1, <3>3
      <4> QED BY <4>1 DEF Elements
    <3> QED BY <3>2, <3>3
  <2>2. \A i \in 1 .. Len(t) : i + 1 \in 1 .. Len(u)
    BY <1>1
  <2>3. Elements(t) \subseteq Elements(u)
    BY <1>1, <2>2 DEF Elements
  <2>4. x \in Elements(u)
    <3>1. 1 \in 1 .. Len(u)
      BY <1>1
    <3> QED BY <1>1, <3>1 DEF Elements
  <2> QED BY <2>1, <2>3, <2>4
<1>5. ASSUME Once(t), x \notin Elements(t) PROVE Once(u)
  <2> SUFFICES ASSUME NEW i \in 1 .. Len(u), NEW j \in 1 .. Len(u), u[i] = u[j] PROVE i = j
    BY DEF Once
  <2>1. \A k \in 1 .. Len(t) : t[k] # x
    BY <1>5 DEF Elements
  <2>2. CASE i # 1 /\ j # 1
    <3>1. i - 1 \in 1 .. Len(t) /\ j - 1 \in 1 .. Len(t) /\ t[i - 1] = t[j - 1]
      BY <1>3, <2>2
    <3>2. i - 1 = j - 1
      BY <1>5, <3>1 DEF Once
    <3> QED BY <3>2
  <2>3. CASE i = 1 \/ j = 1
    BY <1>1, <1>3, <2>1, <2>3
  <2> QED BY <2>2, <2>3
<1> QED BY <1>1, <1>2, <1>4, <1>5


(***************************************************************************)
(* The book: the map, the list, the accounted bytes and the orphans.       *)
(***************************************************************************)
Size(e) == IF e.ver # None THEN Bytes[e.ver] ELSE 0
Sizes(es) == [i \in 1 .. Len(es) |-> Size(es[i])]
Held(map) == {map[p] : p \in Paths} \ {None}
BuiltOf(es, S) == {i \in S : BuiltRec(es[i])}

\* The book of the cache: the entries es, the map, the LRU list, the account
\* and the entries detached before their rebuild ended.
Book(es, map, list, cur, orph) ==
  /\ es \in Seq(EntryRecs)
  /\ map \in [Paths -> (1 .. Len(es)) \cup {None}]
  /\ list \in Seq(1 .. Len(es)) /\ Once(list) /\ Elements(list) = Held(map)
  /\ \A p \in Paths : map[p] # None => es[map[p]].key.path = p
  /\ orph \subseteq 1 .. Len(es) /\ orph \cap Held(map) = {}
  /\ \A i \in 1 .. Len(es) : BuiltRec(es[i]) \/ i \in Held(map) \/ i \in orph
  /\ cur = Total(Sizes(es), BuiltOf(es, Held(map))) + Total(Sizes(es), BuiltOf(es, orph))

\* The built entries of the map fit the budget.
Fits(es, map) == Total(Sizes(es), BuiltOf(es, Held(map))) <= MaxBytes

\* The sizes of the entries, one number for each.
LEMMA SizesType ==
  ASSUME NEW es \in Seq(EntryRecs)
  PROVE  Sizes(es) \in Seq(Nat) /\ Len(Sizes(es)) = Len(es) /\ \A i \in 1 .. Len(es) : Sizes(es)[i] = Size(es[i])
<1>1. ASSUME NEW i \in 1 .. Len(es) PROVE Size(es[i]) \in Nat
  <2>1. es[i] \in EntryRecs
    OBVIOUS
  <2>2. es[i].ver \in Versions \cup {None}
    BY <2>1 DEF EntryRecs
  <2> QED BY <2>2, RamCacheConstants DEF Size, Versions
<1>2. Len(es) \in Nat
  OBVIOUS
<1>3. [i \in 1 .. Len(es) |-> Size(es[i])] \in Seq(Nat)
  BY <1>1, <1>2
<1>4. Len([i \in 1 .. Len(es) |-> Size(es[i])]) = Len(es)
  BY <1>2
<1> QED BY <1>3, <1>4 DEF Sizes

\* What the map holds are entries.
LEMMA HeldIds ==
  ASSUME NEW es, NEW map \in [Paths -> (1 .. Len(es)) \cup {None}]
  PROVE  Held(map) \subseteq 1 .. Len(es)
BY DEF Held

\* A hit or a join moves a resident entry to the front.
LEMMA TouchBook ==
  ASSUME NEW es, NEW map, NEW list, NEW cur, NEW orph, Book(es, map, list, cur, orph),
         NEW i \in Held(map)
  PROVE  Book(es, map, PushFront(Without(list, {i}), i), cur, orph)
<1>1. list \in Seq(1 .. Len(es)) /\ Once(list) /\ Elements(list) = Held(map) /\ i \in 1 .. Len(es)
  BY HeldIds DEF Book
<1> DEFINE rest == Without(list, {i})
<1>2. rest \in Seq(1 .. Len(es)) /\ Elements(rest) = Held(map) \ {i} /\ Once(rest)
  BY <1>1, WithoutElements
<1> HIDE DEF rest
<1>3. i \notin Elements(rest)
  BY <1>2
<1> DEFINE new == PushFront(rest, i)
<1>4. new \in Seq(1 .. Len(es)) /\ Elements(new) = Elements(rest) \cup {i} /\ Once(new)
  BY <1>1, <1>2, <1>3, PushElements
<1> HIDE DEF new
<1>5. Elements(new) = Held(map)
  BY <1>2, <1>4
<1>6. Book(es, map, new, cur, orph)
  BY <1>4, <1>5 DEF Book
<1> QED BY <1>6 DEF new, rest

\* An invalidation, or an eviction of built entries, takes the entries of S
\* out of the map and the list, and the built ones off the account; the
\* others become orphans.
LEMMA DropBook ==
  ASSUME NEW es, NEW map, NEW list, NEW cur, NEW orph, Book(es, map, list, cur, orph),
         NEW S, S \subseteq Held(map)
  PROVE  LET map2 == [p \in Paths |-> IF map[p] \in S THEN None ELSE map[p]]
         IN  /\ Book(es, map2, Without(list, S), cur - Total(Sizes(es), BuiltOf(es, S)),
                     orph \cup {i \in S : ~BuiltRec(es[i])})
             /\ Held(map2) = Held(map) \ S
             /\ Fits(es, map) => Fits(es, map2)
<1> DEFINE map2 == [p \in Paths |-> IF map[p] \in S THEN None ELSE map[p]]
           list2 == Without(list, S)
           lost == {i \in S : ~BuiltRec(es[i])}
           w == Sizes(es)
           H == Held(map)
           cur2 == cur - Total(w, BuiltOf(es, S))
<1>1. /\ es \in Seq(EntryRecs)
      /\ map \in [Paths -> (1 .. Len(es)) \cup {None}]
      /\ list \in Seq(1 .. Len(es)) /\ Once(list) /\ Elements(list) = H
      /\ orph \subseteq 1 .. Len(es) /\ orph \cap H = {}
      /\ cur = Total(w, BuiltOf(es, H)) + Total(w, BuiltOf(es, orph))
  BY DEF Book
<1>2. /\ \A p \in Paths : map[p] # None => es[map[p]].key.path = p
      /\ \A i \in 1 .. Len(es) : BuiltRec(es[i]) \/ i \in H \/ i \in orph
  BY DEF Book
<1>3. H \subseteq 1 .. Len(es)
  BY <1>1, HeldIds
<1>4. map2 \in [Paths -> (1 .. Len(es)) \cup {None}] /\ \A p \in Paths : map2[p] = IF map[p] \in S THEN None ELSE map[p]
  BY <1>1
<1>5. Held(map2) = H \ S
  BY <1>4 DEF Held
<1>6. w \in Seq(Nat)
  BY <1>1, SizesType
<1> HIDE DEF map2, w, H
<1>7. list2 \in Seq(1 .. Len(es)) /\ Once(list2) /\ Elements(list2) = Held(map2)
  BY <1>1, <1>5, WithoutElements
<1>8. BuiltOf(es, H \ S) = BuiltOf(es, H) \ BuiltOf(es, S) /\ BuiltOf(es, S) \subseteq BuiltOf(es, H)
  BY DEF BuiltOf, H
<1>9. /\ Total(w, BuiltOf(es, H \ S)) = Total(w, BuiltOf(es, H)) - Total(w, BuiltOf(es, S))
      /\ Total(w, BuiltOf(es, S)) \in Nat /\ Total(w, BuiltOf(es, H)) \in Nat
      /\ Total(w, BuiltOf(es, orph)) \in Nat
  BY <1>6, <1>8, TotalPart, TotalType
<1>10. BuiltOf(es, orph \cup lost) = BuiltOf(es, orph)
  BY DEF BuiltOf
<1>11. cur2 = Total(w, BuiltOf(es, Held(map2))) + Total(w, BuiltOf(es, orph \cup lost))
  BY <1>1, <1>5, <1>9, <1>10
<1>12. orph \cup lost \subseteq 1 .. Len(es) /\ (orph \cup lost) \cap Held(map2) = {}
  BY <1>1, <1>3, <1>5 DEF H
<1>13. \A i \in 1 .. Len(es) : BuiltRec(es[i]) \/ i \in Held(map2) \/ i \in orph \cup lost
  BY <1>2, <1>5
<1>14. \A p \in Paths : map2[p] # None => es[map2[p]].key.path = p
  BY <1>2, <1>4
<1> HIDE DEF list2, lost, cur2
<1>15. Book(es, map2, list2, cur2, orph \cup lost)
  BY <1>1, <1>4, <1>7, <1>11, <1>12, <1>13, <1>14 DEF Book, w
<1>16. Fits(es, map) => Fits(es, map2)
  BY <1>5, <1>9, RamCacheConstants DEF Fits, w, H
<1> QED BY <1>5, <1>15, <1>16 DEF map2, list2, lost, cur2, w, H


\* The entries of S that are built in es are those built in fs, with the same
\* bytes.
BuiltKept(es, fs, S) ==
  \A i \in S : (BuiltRec(fs[i]) <=> BuiltRec(es[i])) /\ (BuiltRec(es[i]) => fs[i].ver = es[i].ver)

\* Entries that were built keep their bytes, whatever is added or read.
LEMMA SameTotals ==
  ASSUME NEW es \in Seq(EntryRecs), NEW fs \in Seq(EntryRecs), Len(es) <= Len(fs),
         NEW S, S \subseteq 1 .. Len(es), BuiltKept(es, fs, S)
  PROVE  Total(Sizes(fs), BuiltOf(fs, S)) = Total(Sizes(es), BuiltOf(es, S))
<1>1. /\ Sizes(es) \in Seq(Nat) /\ Len(Sizes(es)) = Len(es) /\ \A i \in 1 .. Len(es) : Sizes(es)[i] = Size(es[i])
      /\ Sizes(fs) \in Seq(Nat) /\ Len(Sizes(fs)) = Len(fs) /\ \A i \in 1 .. Len(fs) : Sizes(fs)[i] = Size(fs[i])
  BY SizesType
<1>2. BuiltOf(fs, S) = BuiltOf(es, S)
  BY DEF BuiltOf, BuiltKept
<1> DEFINE B == BuiltOf(es, S)
<1>3. \A i \in B : i \in S /\ Size(fs[i]) = Size(es[i])
  BY DEF BuiltOf, BuiltKept, Size
<1>4. Len(es) \in Nat /\ Len(fs) \in Nat
  OBVIOUS
<1> HIDE DEF B
<1>5. ASSUME NEW i \in 1 .. Len(es), i \in B PROVE Sizes(es)[i] = Sizes(fs)[i]
  <2>1. i \in 1 .. Len(fs)
    BY <1>4
  <2> QED BY <1>1, <1>3, <1>5, <2>1
<1>6. ASSUME NEW i \in Len(es) + 1 .. Len(fs), i \in B PROVE FALSE
  <2>1. i \in 1 .. Len(es)
    BY <1>3, <1>6
  <2> QED BY <1>4, <2>1
<1> DEFINE w == Sizes(es)
           v == Sizes(fs)
<1> HIDE DEF w, v
<1>7. w \in Seq(Nat) /\ v \in Seq(Nat) /\ Len(w) <= Len(v)
  BY <1>1, <1>4 DEF w, v
<1>8. \A k \in 1 .. Len(w) : k \in B => w[k] = v[k]
  BY <1>1, <1>5 DEF w, v
<1>9. \A k \in Len(w) + 1 .. Len(v) : k \notin B
  BY <1>1, <1>6 DEF w, v
<1>10. Total(w, B) = Total(v, B)
  BY <1>7, <1>8, <1>9, TotalSame
<1> QED BY <1>2, <1>10 DEF B, w, v

\* A miss installs a new entry, under a path that has none.
LEMMA InstallBook ==
  ASSUME NEW es, NEW map, NEW list, NEW cur, NEW orph, Book(es, map, list, cur, orph),
         NEW p \in Paths, map[p] = None,
         NEW e \in EntryRecs, e.key.path = p, ~BuiltRec(e)
  PROVE  LET new  == Len(es) + 1
             map2 == [map EXCEPT ![p] = new]
         IN  /\ Book(Append(es, e), map2, PushFront(list, new), cur, orph)
             /\ Fits(es, map) => Fits(Append(es, e), map2)
<1> DEFINE new == Len(es) + 1
           map2 == [map EXCEPT ![p] = new]
           fs == Append(es, e)
           list2 == PushFront(list, new)
           H == Held(map)
<1>1. /\ es \in Seq(EntryRecs)
      /\ map \in [Paths -> (1 .. Len(es)) \cup {None}]
      /\ list \in Seq(1 .. Len(es)) /\ Once(list) /\ Elements(list) = H
      /\ orph \subseteq 1 .. Len(es) /\ orph \cap H = {}
      /\ cur = Total(Sizes(es), BuiltOf(es, H)) + Total(Sizes(es), BuiltOf(es, orph))
  BY DEF Book
<1>2. /\ \A q \in Paths : map[q] # None => es[map[q]].key.path = q
      /\ \A i \in 1 .. Len(es) : BuiltRec(es[i]) \/ i \in H \/ i \in orph
  BY DEF Book
<1>3. H \subseteq 1 .. Len(es)
  BY <1>1, HeldIds
<1>4. fs \in Seq(EntryRecs) /\ Len(fs) = new /\ fs[new] = e /\ \A i \in 1 .. Len(es) : fs[i] = es[i]
  BY <1>1
<1>5. Len(es) \in Nat /\ new \in 1 .. new /\ new \notin 1 .. Len(es) /\ new # None
  BY <1>1 DEF None
<1>6. 1 .. new = (1 .. Len(es)) \cup {new}
  BY <1>5
<1>7. /\ map2 \in [Paths -> (1 .. new) \cup {None}]
      /\ map2[p] = new /\ \A q \in Paths \ {p} : map2[q] = map[q]
  BY <1>1, <1>6
<1> HIDE DEF map2, new, fs
<1>8. Held(map2) = H \cup {new}
  BY <1>5, <1>7 DEF Held
<1>9. list2 \in Seq(1 .. new) /\ Once(list2) /\ Elements(list2) = H \cup {new}
  <2>1. list \in Seq(1 .. new)
    BY <1>1, <1>6, Wider
  <2>2. new \notin Elements(list)
    BY <1>1, <1>3, <1>5
  <2>3. /\ PushFront(list, new) \in Seq(1 .. new)
        /\ Elements(PushFront(list, new)) = Elements(list) \cup {new}
        /\ Once(PushFront(list, new))
    BY <1>1, <1>5, <2>1, <2>2, PushElements
  <2> QED BY <1>1, <2>3
<1> HIDE DEF H
<1>10. BuiltOf(fs, H \cup {new}) = BuiltOf(fs, H)
  BY <1>4 DEF BuiltOf
<1>11. Len(es) <= Len(fs)
  BY <1>4, <1>5 DEF new
<1>12. Total(Sizes(fs), BuiltOf(fs, H)) = Total(Sizes(es), BuiltOf(es, H))
  <2>1. BuiltKept(es, fs, H)
    BY <1>3, <1>4 DEF BuiltKept
  <2> QED BY <1>1, <1>3, <1>4, <1>11, <2>1, SameTotals
<1>13. Total(Sizes(fs), BuiltOf(fs, orph)) = Total(Sizes(es), BuiltOf(es, orph))
  <2>1. BuiltKept(es, fs, orph)
    BY <1>1, <1>4 DEF BuiltKept
  <2> QED BY <1>1, <1>4, <1>11, <2>1, SameTotals
<1>14. cur = Total(Sizes(fs), BuiltOf(fs, Held(map2))) + Total(Sizes(fs), BuiltOf(fs, orph))
  BY <1>1, <1>8, <1>10, <1>12, <1>13
<1>15. orph \subseteq 1 .. new /\ orph \cap Held(map2) = {}
  BY <1>1, <1>5, <1>6, <1>8
<1>16. \A i \in 1 .. new : BuiltRec(fs[i]) \/ i \in Held(map2) \/ i \in orph
  BY <1>2, <1>4, <1>6, <1>8
<1>17. \A q \in Paths : map2[q] # None => fs[map2[q]].key.path = q
  <2> SUFFICES ASSUME NEW q \in Paths, map2[q] # None PROVE fs[map2[q]].key.path = q
    OBVIOUS
  <2>1. CASE q = p
    BY <1>4, <1>7, <2>1
  <2>2. CASE q # p
    <3>1. map2[q] = map[q] /\ map[q] \in 1 .. Len(es)
      BY <1>1, <1>7, <2>2
    <3> QED BY <1>2, <1>4, <3>1
  <2> QED BY <2>1, <2>2
<1> HIDE DEF list2
<1>18. Book(fs, map2, list2, cur, orph)
  BY <1>4, <1>7, <1>8, <1>9, <1>14, <1>15, <1>16, <1>17 DEF Book
<1>19. Fits(es, map) => Fits(fs, map2)
  BY <1>8, <1>10, <1>12 DEF Fits, H
<1> QED BY <1>18, <1>19 DEF fs, map2, new, list2

\* A step of a rebuild that publishes nothing leaves the book as it is.
LEMMA RelabelBook ==
  ASSUME NEW es, NEW map, NEW list, NEW cur, NEW orph, Book(es, map, list, cur, orph),
         NEW fs \in Seq(EntryRecs), Len(fs) = Len(es),
         \A i \in 1 .. Len(es) : /\ fs[i].key = es[i].key
                                 /\ BuiltRec(fs[i]) <=> BuiltRec(es[i])
                                 /\ BuiltRec(es[i]) => fs[i].ver = es[i].ver
  PROVE  /\ Book(fs, map, list, cur, orph)
         /\ Fits(es, map) => Fits(fs, map)
<1> DEFINE H == Held(map)
<1>1. /\ es \in Seq(EntryRecs) /\ Len(es) \in Nat
      /\ map \in [Paths -> (1 .. Len(es)) \cup {None}]
      /\ list \in Seq(1 .. Len(es)) /\ Once(list) /\ Elements(list) = H
      /\ orph \subseteq 1 .. Len(es) /\ orph \cap H = {}
      /\ cur = Total(Sizes(es), BuiltOf(es, H)) + Total(Sizes(es), BuiltOf(es, orph))
  BY DEF Book
<1>2. /\ \A q \in Paths : map[q] # None => es[map[q]].key.path = q
      /\ \A i \in 1 .. Len(es) : BuiltRec(es[i]) \/ i \in H \/ i \in orph
  BY DEF Book
<1>3. H \subseteq 1 .. Len(es)
  BY <1>1, HeldIds
<1>4. Len(es) <= Len(fs)
  BY <1>1
<1> HIDE DEF H
<1>5. Total(Sizes(fs), BuiltOf(fs, H)) = Total(Sizes(es), BuiltOf(es, H))
  <2>1. BuiltKept(es, fs, H)
    BY <1>3 DEF BuiltKept
  <2> QED BY <1>1, <1>3, <1>4, <2>1, SameTotals
<1>6. Total(Sizes(fs), BuiltOf(fs, orph)) = Total(Sizes(es), BuiltOf(es, orph))
  <2>1. BuiltKept(es, fs, orph)
    BY <1>1 DEF BuiltKept
  <2> QED BY <1>1, <1>4, <2>1, SameTotals
<1>7. \A q \in Paths : map[q] # None => fs[map[q]].key.path = q
  <2> SUFFICES ASSUME NEW q \in Paths, map[q] # None PROVE fs[map[q]].key.path = q
    OBVIOUS
  <2>1. map[q] \in 1 .. Len(es)
    BY <1>1
  <2> QED BY <1>2, <2>1
<1>8. \A i \in 1 .. Len(es) : BuiltRec(fs[i]) \/ i \in H \/ i \in orph
  BY <1>2
<1>9. Book(fs, map, list, cur, orph)
  BY <1>1, <1>5, <1>6, <1>7, <1>8 DEF Book, H
<1> QED BY <1>5, <1>9 DEF Fits, H

\* A result is published: its length goes on the account, whether its entry
\* is still resident or an orphan.
LEMMA PublishBook ==
  ASSUME NEW es, NEW map, NEW list, NEW cur, NEW orph, Book(es, map, list, cur, orph),
         NEW i \in 1 .. Len(es), ~BuiltRec(es[i]),
         NEW fs \in Seq(EntryRecs), Len(fs) = Len(es),
         fs[i].key = es[i].key, fs[i].ver = es[i].ver, BuiltRec(fs[i]),
         \A j \in (1 .. Len(es)) \ {i} : fs[j] = es[j]
  PROVE  Book(fs, map, list, cur + Size(es[i]), orph)
<1> DEFINE H == Held(map)
<1>1. /\ es \in Seq(EntryRecs) /\ Len(es) \in Nat
      /\ map \in [Paths -> (1 .. Len(es)) \cup {None}]
      /\ list \in Seq(1 .. Len(es)) /\ Once(list) /\ Elements(list) = H
      /\ orph \subseteq 1 .. Len(es) /\ orph \cap H = {}
      /\ cur = Total(Sizes(es), BuiltOf(es, H)) + Total(Sizes(es), BuiltOf(es, orph))
  BY DEF Book
<1>2. /\ \A q \in Paths : map[q] # None => es[map[q]].key.path = q
      /\ \A j \in 1 .. Len(es) : BuiltRec(es[j]) \/ j \in H \/ j \in orph
  BY DEF Book
<1>3. H \subseteq 1 .. Len(es)
  BY <1>1, HeldIds
<1>4. Len(es) <= Len(fs)
  BY <1>1
<1>5. Sizes(fs) \in Seq(Nat) /\ Len(Sizes(fs)) = Len(es) /\ Sizes(fs)[i] = Size(es[i])
  BY SizesType DEF Size
<1> HIDE DEF H
<1>6. ASSUME NEW S, S \subseteq 1 .. Len(es), i \notin S
      PROVE  Total(Sizes(fs), BuiltOf(fs, S)) = Total(Sizes(es), BuiltOf(es, S))
  <2>1. BuiltKept(es, fs, S)
    <3>1. \A j \in S : fs[j] = es[j]
      BY <1>6
    <3> QED BY <3>1 DEF BuiltKept
  <2> QED BY <1>1, <1>4, <1>6, <2>1, SameTotals
<1>7. ASSUME NEW S, S \subseteq 1 .. Len(es), i \in S
      PROVE  Total(Sizes(fs), BuiltOf(fs, S)) = Total(Sizes(es), BuiltOf(es, S)) + Size(es[i])
  <2>1. BuiltOf(fs, S) = BuiltOf(fs, S \ {i}) \cup {i} /\ BuiltOf(fs, S \ {i}) \cap {i} = {}
    BY <1>7 DEF BuiltOf
  <2>2. BuiltOf(es, S) = BuiltOf(es, S \ {i})
    BY DEF BuiltOf
  <2>3. Total(Sizes(fs), BuiltOf(fs, S \ {i}) \cup {i}) = Total(Sizes(fs), BuiltOf(fs, S \ {i})) + Total(Sizes(fs), {i})
    BY <1>5, <2>1, TotalUnion
  <2>4. Total(Sizes(fs), {i}) = Size(es[i])
    BY <1>5, TotalOne
  <2>5. Total(Sizes(fs), BuiltOf(fs, S \ {i})) = Total(Sizes(es), BuiltOf(es, S \ {i}))
    BY <1>6, <1>7
  <2> QED BY <2>1, <2>2, <2>3, <2>4, <2>5
<1>8. /\ Size(es[i]) \in Nat
      /\ Total(Sizes(es), BuiltOf(es, H)) \in Nat /\ Total(Sizes(es), BuiltOf(es, orph)) \in Nat
  <2>1. Size(es[i]) \in Nat
    BY <1>1, <1>5, SizesType
  <2> QED BY <1>1, <2>1, SizesType, TotalType
<1>9. cur + Size(es[i]) = Total(Sizes(fs), BuiltOf(fs, H)) + Total(Sizes(fs), BuiltOf(fs, orph))
  <2>1. CASE i \in H
    <3>1. i \notin orph
      BY <1>1, <2>1
    <3>2. Total(Sizes(fs), BuiltOf(fs, H)) = Total(Sizes(es), BuiltOf(es, H)) + Size(es[i])
      BY <1>3, <1>7, <2>1
    <3>3. Total(Sizes(fs), BuiltOf(fs, orph)) = Total(Sizes(es), BuiltOf(es, orph))
      BY <1>1, <1>6, <3>1
    <3> QED BY <1>1, <1>8, <3>2, <3>3
  <2>2. CASE i \notin H
    <3>1. i \in orph
      BY <1>2, <2>2
    <3>2. Total(Sizes(fs), BuiltOf(fs, H)) = Total(Sizes(es), BuiltOf(es, H))
      BY <1>3, <1>6, <2>2
    <3>3. Total(Sizes(fs), BuiltOf(fs, orph)) = Total(Sizes(es), BuiltOf(es, orph)) + Size(es[i])
      BY <1>1, <1>7, <3>1
    <3> QED BY <1>1, <1>8, <3>2, <3>3
  <2> QED BY <2>1, <2>2
<1>10. \A j \in 1 .. Len(es) : fs[j].key = es[j].key /\ (BuiltRec(es[j]) => BuiltRec(fs[j]))
  OBVIOUS
<1>11. \A q \in Paths : map[q] # None => fs[map[q]].key.path = q
  <2> SUFFICES ASSUME NEW q \in Paths, map[q] # None PROVE fs[map[q]].key.path = q
    OBVIOUS
  <2>1. map[q] \in 1 .. Len(es)
    BY <1>1
  <2> QED BY <1>2, <1>10, <2>1
<1>12. \A j \in 1 .. Len(es) : BuiltRec(fs[j]) \/ j \in H \/ j \in orph
  BY <1>2, <1>10
<1> QED BY <1>1, <1>9, <1>11, <1>12 DEF Book, H


\* evictLocked leaves no more than the budget: the last built entry that
\* stays fits together with all the built ones behind it, and no entry of the
\* list but those is built and stays behind it.
LEMMA EvictedFits ==
  ASSUME NEW es, NEW map, NEW list, NEW cur, NEW orph, Book(es, map, list, cur, orph),
         \A S : SumBytes(S) = Total(Sizes(es), S)
  PROVE  /\ Evicted(es, list, cur) \subseteq BuiltOf(es, Held(map))
         /\ Total(Sizes(es), BuiltOf(es, Held(map)) \ Evicted(es, list, cur)) <= MaxBytes
<1> DEFINE w == Sizes(es)
           B == BuiltOf(es, Held(map))
           gone == Evicted(es, list, cur)
           R == B \ gone
<1>1. /\ es \in Seq(EntryRecs) /\ list \in Seq(1 .. Len(es)) /\ Len(list) \in Nat /\ Elements(list) = Held(map)
      /\ cur = Total(w, B) + Total(w, BuiltOf(es, orph))
  BY DEF Book
<1>2. w \in Seq(Nat)
  BY <1>1, SizesType
<1>3. ASSUME NEW n \in Nat, n >= 1 PROVE BuiltFrom(es, list, n) \subseteq B
  <2>1. \A m \in n .. Len(list) : m \in 1 .. Len(list)
    BY <1>1, <1>3
  <2> QED BY <1>1, <2>1 DEF BuiltFrom, BuiltOf, Elements, BuiltRec
<1>4. gone \subseteq B
  <2> SUFFICES ASSUME NEW n \in 1 .. Len(list), list[n] \in BuiltFrom(es, list, n) PROVE list[n] \in B
    BY DEF Evicted
  <2>1. n \in Nat /\ n >= 1
    BY <1>1
  <2> QED BY <1>3, <2>1
<1> HIDE DEF w, gone
<1>5. CASE R = {}
  <2>1. Total(w, {}) = 0
    BY <1>2, TotalNone
  <2>2. Total(w, R) <= MaxBytes
    <3> HIDE DEF R
    <3>1. Total(w, R) = 0
      BY <1>5, <2>1, Zenon
    <3> QED BY <3>1, RamCacheConstants
  <2> QED BY <1>4, <2>2 DEF w, gone
<1>6. CASE R # {}
  <2> DEFINE L == Len(list)
             N == {k \in 0 .. L - 1 : list[L - k] \in R}
  <2>1. N \subseteq Nat /\ N # {}
    <3>1. PICK x \in R : TRUE
      BY <1>6
    <3>2. x \in Elements(list)
      BY <1>1 DEF BuiltOf
    <3>3. PICK n \in 1 .. L : x = list[n]
      BY <3>2 DEF Elements
    <3>4. L - n \in 0 .. L - 1 /\ L - (L - n) = n
      BY <1>1
    <3>5. L - n \in N
      BY <3>3, <3>4
    <3>6. N \subseteq Nat
      BY <1>1
    <3> HIDE DEF N
    <3> QED BY <3>5, <3>6
  <2>2. PICK k \in N : \A j \in N : k <= j
    <3> HIDE DEF N
    <3> QED BY <2>1, Least
  <2> DEFINE n == L - k
             Behind == BuiltFrom(es, list, n + 1)
  <2>3. n \in 1 .. L /\ list[n] \in R /\ n + 1 \in Nat /\ n + 1 >= 1
    BY <1>1
  <2>4. ASSUME NEW m \in n + 1 .. L, list[m] \in R PROVE FALSE
    <3>1. L - m \in 0 .. L - 1 /\ L - (L - m) = m /\ L - m < k
      BY <1>1, <2>3
    <3>2. L - m \in N
      BY <2>4, <3>1
    <3>3. k <= L - m
      BY <2>2, <3>2
    <3>4. k \in Int /\ L - m \in Int
      BY <1>1, <3>1
    <3> QED BY <3>1, <3>3, <3>4
  <2> HIDE DEF N, n
  <2>5. R \cap Behind = {}
    BY <2>4 DEF BuiltFrom
  <2>6. Behind \subseteq B
    BY <1>3, <2>3
  <2>7. ~(cur - SumBytes(Behind) > MaxBytes)
    <3>1. list[n] \in BuiltFrom(es, list, n)
      <4>1. n \in n .. L
        BY <1>1, <2>3
      <4>2. BuiltRec(es[list[n]])
        BY <2>3 DEF BuiltOf
      <4> QED BY <4>1, <4>2 DEF BuiltFrom, BuiltRec
    <3>2. list[n] \notin gone
      BY <2>3
    <3> QED BY <2>3, <3>1, <3>2 DEF Evicted, gone
  <2> HIDE DEF R, Behind
  <2>8. Total(w, R \cup Behind) = Total(w, R) + Total(w, Behind)
    BY <1>2, <2>5, TotalUnion
  <2>9. R \cup Behind \subseteq B
    BY <2>6 DEF R
  <2>10. Total(w, R \cup Behind) <= Total(w, B)
    BY <1>2, <2>9, TotalPart
  <2>11. SumBytes(Behind) = Total(w, Behind)
    BY DEF w
  <2>12. Total(w, R) \in Nat /\ Total(w, Behind) \in Nat /\ Total(w, B) \in Nat /\ Total(w, BuiltOf(es, orph)) \in Nat
    BY <1>2, TotalType
  <2>13. Total(w, R) <= MaxBytes
    BY <1>1, <2>7, <2>8, <2>10, <2>11, <2>12, RamCacheConstants
  <2> QED BY <1>4, <2>13 DEF R, w, gone
<1> QED BY <1>5, <1>6

\* The inductive invariant of the list and the account.
CacheBook ==
  /\ Book(ents, entries, lru, curBytes, orphans)
  /\ Fits(ents, entries)

\* What an account sums is a total of the entries' sizes.
LEMMA SumIsTotal == \A S : SumBytes(S) = Total(Sizes(ents), S)
<1>1. [i \in Ids |-> LenBytes(i)] = Sizes(ents)
  BY DEF Sizes, Ids, LenBytes, Ok, Size
<1> QED BY <1>1 DEF SumBytes

\* The book of an empty cache.
LEMMA BookInit == Init => CacheBook
<1> SUFFICES ASSUME Init PROVE CacheBook
  OBVIOUS
<1>1. ents = <<>> /\ lru = <<>> /\ curBytes = 0 /\ orphans = {} /\ entries = [p \in Paths |-> None]
  BY DEF Init
<1>2. Held(entries) = {}
  BY <1>1 DEF Held
<1>3. ents \in Seq(EntryRecs) /\ Len(ents) = 0 /\ 1 .. Len(ents) = {}
  BY <1>1
<1>4. Sizes(ents) \in Seq(Nat)
  BY <1>3, SizesType
<1>5. BuiltOf(ents, {}) = {}
  BY DEF BuiltOf
<1>6. Total(Sizes(ents), BuiltOf(ents, {})) = 0
  BY <1>4, <1>5, TotalNone
<1>7. lru \in Seq(1 .. Len(ents)) /\ Once(lru) /\ Elements(lru) = {}
  BY <1>1 DEF Once, Elements
<1>8. entries \in [Paths -> (1 .. Len(ents)) \cup {None}] /\ \A p \in Paths : entries[p] = None
  BY <1>1
<1>9. Book(ents, entries, lru, curBytes, orphans)
  <2>1. orphans \subseteq 1 .. Len(ents) /\ orphans \cap Held(entries) = {}
    BY <1>1
  <2>2. \A i \in 1 .. Len(ents) : BuiltRec(ents[i]) \/ i \in Held(entries) \/ i \in orphans
    BY <1>3
  <2>3. curBytes = Total(Sizes(ents), BuiltOf(ents, Held(entries))) + Total(Sizes(ents), BuiltOf(ents, orphans))
    <3>1. orphans = {}
      BY <1>1
    <3>2. Total(Sizes(ents), BuiltOf(ents, Held(entries))) = 0
      BY <1>2, <1>6, Zenon
    <3>3. Total(Sizes(ents), BuiltOf(ents, orphans)) = 0
      BY <3>1, <1>6, Zenon
    <3> QED BY <1>1, <3>2, <3>3
  <2> QED BY <1>2, <1>3, <1>7, <1>8, <2>1, <2>2, <2>3 DEF Book
<1> QED BY <1>2, <1>6, <1>9, RamCacheConstants DEF CacheBook, Fits

\* A read that finds its entry moves it to the front: the book is kept.
LEMMA TouchStep ==
  ASSUME CacheBook, NEW i, i \in Held(entries), Touch(i), UNCHANGED <<ents, entries, curBytes, orphans>>
  PROVE  CacheBook'
<1>1. lru' = PushFront(Without(lru, {i}), i)
  BY DEF Touch
<1>2. Book(ents, entries, PushFront(Without(lru, {i}), i), curBytes, orphans)
  BY TouchBook DEF CacheBook
<1> QED BY <1>1, <1>2 DEF CacheBook

\* The entry a reader finds is held by the map.
LEMMA CachedHeld == ASSUME Inv, NEW r \in Readers, Cached(r) # None PROVE Cached(r) \in Held(entries)
<1>1. rd[r].key.path \in Paths
  BY DEF Inv, CoreTypes, ReaderRecs, Keys
<1> QED BY <1>1 DEF Cached, Held

\* One lemma for every action that changes the book.
LEMMA HitBook == ASSUME Inv, CacheBook, NEW r \in Readers, ReadHit(r) PROVE CacheBook'
<1>1. Cached(r) # None /\ Touch(Cached(r)) /\ UNCHANGED <<ents, entries, curBytes, orphans>>
  BY DEF ReadHit, Hit, SameKey
<1> QED BY <1>1, CachedHeld, TouchStep

LEMMA JoinBook == ASSUME Inv, CacheBook, NEW r \in Readers, ReadJoin(r) PROVE CacheBook'
<1>1. Cached(r) # None /\ Touch(Cached(r)) /\ UNCHANGED <<ents, entries, curBytes, orphans>>
  BY DEF ReadJoin, SameKey
<1> QED BY <1>1, CachedHeld, TouchStep

\* What Drop writes is what DropBook says.
LEMMA Forgotten == \A S : /\ Forget(S) = curBytes - Total(Sizes(ents), BuiltOf(ents, S))
                          /\ {i \in S : ~Built(i)} = {i \in S : ~BuiltRec(ents[i])}
<1>1. \A S : {i \in S : Built(i)} = BuiltOf(ents, S)
  BY DEF BuiltOf, Built, BuiltRec
<1> QED BY <1>1, SumIsTotal DEF Forget, Built, BuiltRec

\* Dropping entries takes them from the map, the list and the account.
LEMMA DropStep == ASSUME CacheBook, NEW S, S \subseteq Held(entries), Drop(S) PROVE CacheBook'
<1> DEFINE map2 == [p \in Paths |-> IF entries[p] \in S THEN None ELSE entries[p]]
<1>1. /\ ents' = ents /\ entries' = map2 /\ lru' = Without(lru, S)
      /\ curBytes' = Forget(S) /\ orphans' = orphans \cup {i \in S : ~Built(i)}
  BY DEF Drop
<1>2. /\ Book(ents, map2, Without(lru, S), curBytes - Total(Sizes(ents), BuiltOf(ents, S)),
              orphans \cup {i \in S : ~BuiltRec(ents[i])})
      /\ Fits(ents, entries) => Fits(ents, map2)
  BY DropBook DEF CacheBook
<1> HIDE DEF map2
<1>3. /\ curBytes' = curBytes - Total(Sizes(ents), BuiltOf(ents, S))
      /\ orphans' = orphans \cup {i \in S : ~BuiltRec(ents[i])}
  BY <1>1, Forgotten
<1> QED BY <1>1, <1>2, <1>3 DEF CacheBook

LEMMA MissBook == ASSUME Inv, CacheBook, NEW r \in Readers, ReadMiss(r) PROVE CacheBook'
<1> DEFINE p == rd[r].key.path
           new == Len(ents) + 1
           old == {Cached(r)} \ {None}
           e == [key |-> rd[r].key, sig |-> rd[r].sig, phase |-> "reading", ver |-> None]
           map1 == [q \in Paths |-> IF entries[q] \in old THEN None ELSE entries[q]]
           list1 == Without(lru, old)
           cur1 == curBytes - Total(Sizes(ents), BuiltOf(ents, old))
           orph1 == orphans \cup {i \in old : ~BuiltRec(ents[i])}
           map2 == [map1 EXCEPT ![p] = new]
<1>1. /\ ents' = Append(ents, e)
      /\ entries' = [entries EXCEPT ![p] = new]
      /\ lru' = PushFront(list1, new)
      /\ curBytes' = Forget(old)
      /\ orphans' = orphans \cup {i \in old : ~Built(i)}
  BY DEF ReadMiss
<1>2. rd[r] \in ReaderRecs /\ rd[r].key \in Keys /\ rd[r].sig \in Sigs /\ p \in Paths
  BY DEF Inv, CoreTypes, ReaderRecs, Keys
<1>3. e \in EntryRecs /\ e.key.path = p /\ ~BuiltRec(e)
  BY <1>2 DEF EntryRecs, Phases, BuiltRec
<1>4. old \subseteq Held(entries)
  BY CachedHeld
<1>5. Book(ents, map1, list1, cur1, orph1) /\ Fits(ents, map1)
  BY <1>4, DropBook DEF CacheBook
<1>6. entries[p] = Cached(r) /\ entries \in [Paths -> (1 .. Len(ents)) \cup {None}]
  BY DEF Cached, CacheBook, Book
<1>7. map1[p] = None
  BY <1>2, <1>6
<1>8. ASSUME NEW q \in Paths, q # p PROVE map1[q] = entries[q]
  <2>1. SUFFICES ASSUME entries[q] \in old PROVE FALSE
    BY <1>8
  <2>2. entries[q] # None /\ entries[q] = entries[p]
    BY <1>6, <2>1
  <2>3. ents[entries[q]].key.path = q /\ ents[entries[p]].key.path = p
    BY <1>2, <2>2 DEF CacheBook, Book
  <2> QED BY <1>8, <2>2, <2>3
<1>9. map2 = [entries EXCEPT ![p] = new]
  <2>1. map1 \in [Paths -> (1 .. Len(ents)) \cup {None}]
    BY <1>6
  <2> HIDE DEF map1
  <2> QED BY <1>2, <1>6, <1>8, <2>1
<1>10. curBytes' = cur1 /\ orphans' = orph1
  BY <1>1, Forgotten
<1> HIDE DEF e, map1, list1, cur1, orph1, old
<1>11. /\ Book(Append(ents, e), map2, PushFront(list1, new), cur1, orph1)
       /\ Fits(Append(ents, e), map2)
  BY <1>2, <1>3, <1>5, <1>7, InstallBook
<1> HIDE DEF map2, new
<1> QED BY <1>1, <1>9, <1>10, <1>11 DEF CacheBook

\* An entry that changes nothing the account or the list is about.
LEMMA RelabelStep ==
  ASSUME CacheBook, NEW i \in Ids, NEW e \in EntryRecs, e.key = ents[i].key,
         BuiltRec(e) <=> BuiltRec(ents[i]), BuiltRec(e) => e.ver = ents[i].ver,
         ents' = [ents EXCEPT ![i] = e], UNCHANGED <<entries, lru, curBytes, orphans>>
  PROVE  CacheBook'
<1>1. ents \in Seq(EntryRecs)
  BY DEF CacheBook, Book
<1>2. ents' \in Seq(EntryRecs) /\ Len(ents') = Len(ents) /\ ents'[i] = e /\ \A j \in Ids \ {i} : ents'[j] = ents[j]
  BY <1>1 DEF Ids
<1>3. \A j \in 1 .. Len(ents) : /\ ents'[j].key = ents[j].key
                                /\ BuiltRec(ents'[j]) <=> BuiltRec(ents[j])
                                /\ BuiltRec(ents[j]) => ents'[j].ver = ents[j].ver
  BY <1>2 DEF Ids
<1>4. Book(ents', entries, lru, curBytes, orphans) /\ Fits(ents', entries)
  BY <1>2, <1>3, RelabelBook DEF CacheBook
<1> QED BY <1>4 DEF CacheBook

LEMMA RedactBook == ASSUME Inv, CacheBook, NEW i \in Ids, RedactFile(i) PROVE CacheBook'
<1>1. ents[i].phase = "reading" /\ UNCHANGED <<entries, lru, curBytes, orphans>>
  BY DEF RedactFile, book
<1>2. PICK v \in {file[ents[i].key.path], None} :
        ents' = [ents EXCEPT ![i].phase = "read", ![i].ver = v]
  BY DEF RedactFile
<1> DEFINE e == [ents[i] EXCEPT !.phase = "read", !.ver = v]
<1>3. ents[i] \in EntryRecs /\ ents[i].key.path \in Paths
  BY DEF Inv, EntryOK, EntryRecs, Keys
<1>4. v \in Versions \cup {None}
  BY <1>3 DEF Inv, CoreTypes
<1>5. e \in EntryRecs /\ e.key = ents[i].key /\ e.phase = "read"
  BY <1>3, <1>4 DEF EntryRecs, Phases
<1>6. ents' = [ents EXCEPT ![i] = e]
  BY <1>2 DEF Inv, CoreTypes
<1> HIDE DEF e
<1>7. ~BuiltRec(e) /\ ~BuiltRec(ents[i])
  BY <1>1, <1>5 DEF BuiltRec
<1> QED BY <1>1, <1>5, <1>6, <1>7, RelabelStep

LEMMA CloseBook == ASSUME Inv, CacheBook, NEW i \in Ids, CloseReady(i) PROVE CacheBook'
<1>1. ents[i].phase = "built" /\ ents' = [ents EXCEPT ![i].phase = "ready"] /\ UNCHANGED <<entries, lru, curBytes, orphans>>
  BY DEF CloseReady, book
<1> DEFINE e == [ents[i] EXCEPT !.phase = "ready"]
<1>2. ents[i] \in EntryRecs
  BY DEF Inv, EntryOK
<1>3. e \in EntryRecs /\ e.key = ents[i].key /\ e.phase = "ready" /\ e.ver = ents[i].ver
  BY <1>2 DEF EntryRecs, Phases
<1>4. ents' = [ents EXCEPT ![i] = e]
  BY <1>1 DEF Inv, CoreTypes
<1> HIDE DEF e
<1>5. BuiltRec(e) /\ BuiltRec(ents[i])
  BY <1>1, <1>3 DEF BuiltRec
<1> QED BY <1>1, <1>3, <1>4, <1>5, RelabelStep

\* rebuild publishes, accounts and evicts in one critical section.
LEMMA FinishBook == ASSUME Inv, CacheBook, NEW i \in Ids, Publish(i) PROVE CacheBook'
<1> DEFINE e == [ents[i] EXCEPT !.phase = "built"]
           es == [ents EXCEPT ![i].phase = "built"]
           cur == curBytes + LenBytes(i)
           gone == Evicted(es, lru, cur)
           map2 == [p \in Paths |-> IF entries[p] \in gone THEN None ELSE entries[p]]
<1>1. /\ ents[i].phase = "read" /\ ents' = es /\ entries' = map2 /\ lru' = Without(lru, gone)
      /\ curBytes' = cur - SumBytes(gone) /\ orphans' = orphans
  BY DEF Publish
<1>2. ents[i] \in EntryRecs /\ ents \in Seq(EntryRecs)
  BY DEF Inv, EntryOK, CoreTypes
<1>3. e \in EntryRecs /\ e.key = ents[i].key /\ e.phase = "built" /\ e.ver = ents[i].ver
  BY <1>2 DEF EntryRecs, Phases
<1>4. es = [ents EXCEPT ![i] = e]
  BY <1>2
<1> HIDE DEF e, es
<1>5. /\ es \in Seq(EntryRecs) /\ Len(es) = Len(ents) /\ es[i] = e
      /\ \A j \in (1 .. Len(ents)) \ {i} : es[j] = ents[j]
  BY <1>2, <1>3, <1>4 DEF Ids
<1>6. BuiltRec(es[i]) /\ ~BuiltRec(ents[i])
  BY <1>1, <1>3, <1>5 DEF BuiltRec
<1>7. cur = curBytes + Size(ents[i])
  BY DEF LenBytes, Ok, Size
<1>8. Book(es, entries, lru, cur, orphans)
  BY <1>3, <1>5, <1>6, <1>7, PublishBook DEF CacheBook, Ids
<1>9. Sizes(es) = Sizes(ents)
  <2>1. \A j \in 1 .. Len(ents) : Size(es[j]) = Size(ents[j])
    BY <1>3, <1>5 DEF Size
  <2> QED BY <1>5, <2>1 DEF Sizes
<1>10. \A S : SumBytes(S) = Total(Sizes(es), S)
  BY <1>9, SumIsTotal
<1> HIDE DEF cur
<1>11. /\ gone \subseteq BuiltOf(es, Held(entries))
       /\ Total(Sizes(es), BuiltOf(es, Held(entries)) \ gone) <= MaxBytes
  BY <1>8, <1>10, EvictedFits
<1> HIDE DEF gone
<1>12. gone \subseteq Held(entries) /\ BuiltOf(es, gone) = gone /\ {j \in gone : ~BuiltRec(es[j])} = {}
  BY <1>11 DEF BuiltOf
<1>13. /\ Book(es, map2, Without(lru, gone), cur - Total(Sizes(es), BuiltOf(es, gone)),
               orphans \cup {j \in gone : ~BuiltRec(es[j])})
       /\ Held(map2) = Held(entries) \ gone
  BY <1>8, <1>12, DropBook
<1> HIDE DEF map2
<1>14. Book(es, map2, Without(lru, gone), curBytes', orphans')
  <2>1. curBytes' = cur - Total(Sizes(es), BuiltOf(es, gone))
    BY <1>1, <1>10, <1>12
  <2>2. orphans' = orphans \cup {j \in gone : ~BuiltRec(es[j])}
    BY <1>1, <1>12
  <2> QED BY <1>13, <2>1, <2>2
<1>15. BuiltOf(es, Held(map2)) = BuiltOf(es, Held(entries)) \ gone
  BY <1>13 DEF BuiltOf
<1> QED BY <1>1, <1>11, <1>14, <1>15 DEF CacheBook, Fits

\* Every step of the cache keeps the book.
LEMMA BookNext == Inv /\ CacheBook /\ [Next]_vars => CacheBook'
<1> SUFFICES ASSUME Inv, CacheBook, [Next]_vars PROVE CacheBook'
  OBVIOUS
<1>1. ASSUME UNCHANGED <<ents, entries, lru, curBytes, orphans>> PROVE CacheBook'
  BY <1>1 DEF CacheBook
<1>2. ASSUME NEW p \in Paths, Edit(p) PROVE CacheBook'
  BY <1>1, <1>2 DEF Edit, book
<1>3. Resident = Held(entries)
  BY DEF Resident, Held
<1>4. ASSUME NEW p \in Paths, Invalidate(p) PROVE CacheBook'
  <2>1. Drop({entries[p]}) /\ {entries[p]} \subseteq Held(entries)
    BY <1>4 DEF Invalidate, Held
  <2> QED BY <2>1, DropStep
<1>5. CASE InvalidateAll
  BY <1>3, <1>5, DropStep DEF InvalidateAll
<1>6. ASSUME NEW r \in Readers, NEW p \in Paths, NEW s \in Sigs, Stat(r, p, s) PROVE CacheBook'
  BY <1>1, <1>6 DEF Stat, book
<1>7. ASSUME NEW r \in Readers, NEW g \in Gens, NewContentKey(r, g) PROVE CacheBook'
  BY <1>1, <1>7 DEF NewContentKey, book
<1>8. ASSUME NEW r \in Readers, ReadStep(r) PROVE CacheBook'
  <2>1. CASE ReadHit(r) \/ ReadJoin(r) \/ ReadMiss(r)
    BY <2>1, HitBook, JoinBook, MissBook
  <2>2. CASE ReadOversize(r) \/ WaitAndServe(r) \/ GiveUp(r) \/ CopyAt(r)
    BY <1>1, <2>2 DEF ReadOversize, WaitAndServe, GiveUp, CopyAt, book
  <2> QED BY <1>8, <2>1, <2>2 DEF ReadStep
<1>9. ASSUME NEW r \in Readers, Return(r) PROVE CacheBook'
  BY <1>1, <1>9 DEF Return, book
<1>10. ASSUME NEW i \in Ids, Rebuild(i) PROVE CacheBook'
  BY <1>10, RedactBook, FinishBook, CloseBook DEF Rebuild
<1>11. CASE UNCHANGED vars
  BY <1>1, <1>11 DEF vars, book
<1> QED BY <1>2, <1>4, <1>5, <1>6, <1>7, <1>8, <1>9, <1>10, <1>11 DEF Next, Exhausted


\* The map, the list, the account and the orphans agree after every critical
\* section of RamCache: the book is an invariant.
THEOREM BookInvariant == Spec => []CacheBook
<1>1. Init => CacheBook
  BY BookInit
<1>2. Inv /\ CacheBook /\ [Next]_vars => CacheBook'
  BY BookNext
<1> QED BY <1>1, <1>2, CacheInvariant, PTL DEF Spec

\* RamCache.entries and RamCache.lru hold the same entries, each once and
\* under its own path: an entry can always be evicted, and none is removed
\* from the list twice.
THEOREM ListMatchesMap == Spec => []LruMatchesEntries
<1>1. CacheBook => LruMatchesEntries
  <2> SUFFICES ASSUME CacheBook PROVE LruMatchesEntries
    OBVIOUS
  <2>1. /\ lru \in Seq(1 .. Len(ents)) /\ Once(lru) /\ Elements(lru) = Held(entries)
        /\ \A p \in Paths : entries[p] # None => ents[entries[p]].key.path = p
    BY DEF CacheBook, Book
  <2>2. Resident = Held(entries) /\ {lru[n] : n \in 1..Len(lru)} = Elements(lru)
    BY DEF Resident, Held, Elements
  <2>3. Len(lru) = Cardinality(Resident)
    <3> DEFINE f == [n \in 1 .. Len(lru) |-> lru[n]]
    <3>1. f \in Bijection(1 .. Len(lru), Resident)
      <4>1. f \in [1 .. Len(lru) -> Resident] /\ \A x \in Resident : \E n \in 1 .. Len(lru) : f[n] = x
        BY <2>1, <2>2 DEF Elements
      <4>2. \A m, n \in 1 .. Len(lru) : f[m] = f[n] => m = n
        BY <2>1 DEF Once
      <4> HIDE DEF f
      <4> QED BY <4>1, <4>2 DEF Bijection, Injection, Surjection, IsInjective
    <3>2. ExistsBijection(1 .. Len(lru), Resident)
      BY <3>1, Zenon DEF ExistsBijection
    <3>3. Len(lru) \in Nat
      BY <2>1
    <3> QED BY <3>2, <3>3, FS_CountingElements
  <2> QED BY <2>1, <2>2, <2>3 DEF LruMatchesEntries
<1> QED BY <1>1, BookInvariant, PTL

\* RamCache.curBytes is what the resident built entries weigh and what the
\* orphans that were built weigh, no more and no less.
THEOREM AccountIsExact == Spec => []Accounting
<1>1. CacheBook => Accounting
  <2> SUFFICES ASSUME CacheBook PROVE Accounting
    OBVIOUS
  <2>1. Resident = Held(entries)
    BY DEF Resident, Held
  <2>2. \A S : {i \in S : Built(i)} = BuiltOf(ents, S)
    BY DEF BuiltOf, Built, BuiltRec
  <2>3. curBytes = Total(Sizes(ents), BuiltOf(ents, Held(entries))) + Total(Sizes(ents), BuiltOf(ents, orphans))
    BY DEF CacheBook, Book
  <2> QED BY <2>1, <2>2, <2>3, SumIsTotal DEF Accounting
<1> QED BY <1>1, BookInvariant, PTL

\* What RamCache keeps alive in its map fits --cache-max-bytes after every
\* critical section, although curBytes may count orphans for ever.
THEOREM ResidentBytesFit == Spec => []BudgetRespected
<1>1. CacheBook => BudgetRespected
  <2> SUFFICES ASSUME CacheBook PROVE BudgetRespected
    OBVIOUS
  <2>1. {i \in Resident : Built(i)} = BuiltOf(ents, Held(entries))
    BY DEF Resident, Held, BuiltOf, Built, BuiltRec
  <2>2. Total(Sizes(ents), BuiltOf(ents, Held(entries))) <= MaxBytes
    BY DEF CacheBook, Fits
  <2> QED BY <2>1, <2>2, SumIsTotal DEF BudgetRespected
<1> QED BY <1>1, BookInvariant, PTL


(***************************************************************************)
(* Mount: the handles over the cache.                                      *)
(***************************************************************************)
HandleRecs == [kind : Kinds, path : Paths, writable : BOOLEAN,
               pc : Pcs, floor : Gens, out : Outs]

\* The decisions of rule sets lo..hi about file p.
Said(p, lo, hi) == {Rules[n][p] : n \in lo..hi}

\* What handle h owes when rule set n is installed.
HandleOK(h, n) ==
  /\ h \in HandleRecs
  /\ h.pc = "raw" /\ h.kind # "created" => "allowed" \in Said(h.path, h.floor, n)
  /\ h.out \in {"raw", "wrote"} /\ h.kind # "created"
       => "allowed" \in Said(h.path, h.floor, n)

\* What the handle h of a reader m of the cache owes.
InCacheOK(m, h, n) ==
  m.pc # "idle" => h.pc = "cache" /\ m.sig \in Said(h.path, h.floor, n)

Counters ==
  /\ rs \in Gens /\ gen \in Gens /\ pub \in Gens /\ flush \in Nat
  /\ gen <= rs /\ gen <= pub /\ pub <= rs

MountInv ==
  /\ Inv
  /\ Counters
  /\ fd \in [Readers -> HandleRecs]
  /\ \A r \in Readers : HandleOK(fd[r], rs)
  /\ \A r \in Readers : InCacheOK(rd[r], fd[r], rs)

(***************************************************************************)
(* Mount drives RamCache.                                                  *)
(***************************************************************************)
LEMMA CacheStep ==
  ASSUME MountInv, [MountNext]_mountVars
  PROVE  [Next]_vars
<1>1. CASE UNCHANGED mountVars
  BY <1>1 DEF mountVars
<1>2. CASE Reload
  BY <1>2 DEF Reload, StoreRs, AddGen, Flush, Next
<1>3. ASSUME NEW r \in Readers, Handler(r) PROVE [Next]_vars
  <2>1. fd[r] \in HandleRecs /\ gen \in Gens
    BY DEF MountInv, Counters
  <2>2. fd[r].path \in Paths
    BY <2>1 DEF HandleRecs
  <2>3. CASE MaskedRead(r)
    BY <2>2, <2>3 DEF MaskedRead, Next
  <2>4. CASE RevocableWrite(r) \/ CreatedWrite(r)
    BY <2>2, <2>4 DEF RevocableWrite, CreatedWrite, Next
  <2>5. CASE ContentKey(r) \/ ReadAt(r) \/ MaskedReply(r)
    BY <2>1, <2>5 DEF ContentKey, ReadAt, MaskedReply, Next
  <2>6. CASE \/ \E p \in Paths, w \in BOOLEAN : CallOpen(r, p, w)
             \/ \E p \in Paths : CallCreate(r, p)
             \/ Open(r) \/ Create(r) \/ Release(r) \/ CallRead(r) \/ CallWrite(r)
             \/ RevocableRead(r) \/ CreatedRead(r) \/ ReadRaw(r)
    BY <2>6 DEF CallOpen, CallCreate, Open, Create, Release, CallRead, CallWrite,
                Begin, RevocableRead, CreatedRead, ReadRaw
  <2> QED BY <1>3, <2>3, <2>4, <2>5, <2>6 DEF Handler
<1>4. CASE Background
  BY <1>4 DEF Background, Next
<1>5. CASE MountExhausted
  BY <1>5 DEF MountExhausted, mountVars
<1> QED BY <1>1, <1>2, <1>3, <1>4, <1>5 DEF MountNext

\* More rule sets installed: what was in force still was.
LEMMA SaidGrows ==
  ASSUME NEW p, NEW lo \in Nat, NEW m \in Nat, NEW n \in Nat, m <= n
  PROVE  Said(p, lo, m) \subseteq Said(p, lo, n)
BY DEF Said

\* Generations are numbers.
LEMMA GensNat == Gens \subseteq Nat
BY MountConstants

\* What holds of a handle at a publication holds at later ones.
LEMMA HandleKept ==
  ASSUME NEW h, NEW m \in Nat, NEW n \in Nat, m <= n, HandleOK(h, m)
  PROVE  HandleOK(h, n)
<1>1. h.floor \in Nat
  BY GensNat DEF HandleOK, HandleRecs
<1>2. Said(h.path, h.floor, m) \subseteq Said(h.path, h.floor, n)
  BY <1>1, SaidGrows
<1> QED BY <1>2 DEF HandleOK

\* The same of a reader inside the cache.
LEMMA InCacheKept ==
  ASSUME NEW u, NEW h \in HandleRecs, NEW m \in Nat, NEW n \in Nat, m <= n,
         InCacheOK(u, h, m)
  PROVE  InCacheOK(u, h, n)
<1>1. h.floor \in Nat
  BY GensNat DEF HandleRecs
<1>2. Said(h.path, h.floor, m) \subseteq Said(h.path, h.floor, n)
  BY <1>1, SaidGrows
<1> QED BY <1>2 DEF InCacheOK

\* One step of Mount, seen through the invariant.
LEMMA MountStep ==
  ASSUME MountInv, [MountNext]_mountVars, Counters', rs <= rs',
         fd' \in [Readers -> HandleRecs],
         \A r \in Readers : fd'[r] = fd[r] \/ HandleOK(fd'[r], rs'),
         \A r \in Readers :
            (fd'[r] = fd[r] /\ rd'[r] = rd[r]) \/ InCacheOK(rd'[r], fd'[r], rs')
  PROVE  MountInv'
<1>1. Inv'
  BY CacheStep, InvNext DEF MountInv
<1>2. rs \in Nat /\ rs' \in Nat
  BY GensNat DEF MountInv, Counters
<1>3. \A r \in Readers : HandleOK(fd'[r], rs')
  BY <1>2, HandleKept DEF MountInv
<1>4. \A r \in Readers : InCacheOK(rd'[r], fd'[r], rs')
  BY <1>2, InCacheKept DEF MountInv
<1> QED BY <1>1, <1>3, <1>4 DEF MountInv

\* A handler step of thread r: its handle becomes u, the counters stay.
LEMMA HandleMoves ==
  ASSUME MountInv, [MountNext]_mountVars, NEW r \in Readers, NEW u,
         UNCHANGED rules, fd' = [fd EXCEPT ![r] = u], HandleOK(u, rs),
         \A q \in Readers \ {r} : rd'[q] = rd[q],
         InCacheOK(rd'[r], u, rs)
  PROVE  MountInv'
<1>1. u \in HandleRecs /\ fd \in [Readers -> HandleRecs]
  BY DEF HandleOK, MountInv
<1>2. /\ fd' \in [Readers -> HandleRecs]
      /\ fd'[r] = u
      /\ \A q \in Readers \ {r} : fd'[q] = fd[q]
  BY <1>1
<1>3. rs' = rs /\ gen' = gen /\ pub' = pub /\ flush' = flush
  BY DEF rules
<1>4. Counters' /\ rs <= rs'
  BY <1>3, GensNat DEF MountInv, Counters
<1>5. \A q \in Readers : fd'[q] = fd[q] \/ HandleOK(fd'[q], rs')
  BY <1>2, <1>3
<1>6. \A q \in Readers :
        (fd'[q] = fd[q] /\ rd'[q] = rd[q]) \/ InCacheOK(rd'[q], fd'[q], rs')
  BY <1>2, <1>3
<1> QED BY <1>2, <1>4, <1>5, <1>6, MountStep

\* ... outside the cache: then thread r is not in it.
LEMMA PlainMoves ==
  ASSUME MountInv, [MountNext]_mountVars, NEW r \in Readers, NEW u,
         UNCHANGED rules, rd' = rd, fd' = [fd EXCEPT ![r] = u], HandleOK(u, rs),
         fd[r].pc # "cache"
  PROVE  MountInv'
<1>1. rd'[r].pc = "idle"
  BY DEF MountInv, InCacheOK
<1>2. InCacheOK(rd'[r], u, rs)
  BY <1>1 DEF InCacheOK
<1> QED BY <1>2, HandleMoves

\* What a thread has when it is about to reply, go on, or open.
LEMMA HandleFields ==
  ASSUME MountInv, NEW r \in Readers
  PROVE  /\ fd[r] \in HandleRecs /\ HandleOK(fd[r], rs)
         /\ fd \in [Readers -> HandleRecs]
         /\ fd[r].path \in Paths /\ fd[r].floor \in Gens
         /\ Resolve(r) = Said(fd[r].path, fd[r].floor, rs)
         /\ InForce(r) = Said(fd[r].path, fd[r].floor, rs)
BY DEF MountInv, HandleRecs, Resolve, InForce, Said

\* One lemma for every kind of step a handle makes.
LEMMA ReplyMoves ==
  ASSUME MountInv, [MountNext]_mountVars, NEW r \in Readers, NEW out \in Outs,
         UNCHANGED rules, rd' = rd, Reply(r, out), fd[r].pc # "cache",
         out \in {"raw", "wrote"} =>
           fd[r].kind = "created" \/ "allowed" \in Resolve(r)
  PROVE  MountInv'
<1> DEFINE u == [fd[r] EXCEPT !.pc = "idle", !.out = out]
<1>1. fd[r] \in HandleRecs /\ Resolve(r) = Said(fd[r].path, fd[r].floor, rs)
  BY HandleFields
<1>2. /\ u \in HandleRecs /\ u.pc = "idle" /\ u.out = out
      /\ u.kind = fd[r].kind /\ u.path = fd[r].path /\ u.floor = fd[r].floor
  BY <1>1 DEF HandleRecs, Pcs
<1>3. fd' = [fd EXCEPT ![r] = u]
  BY HandleFields DEF Reply
<1> HIDE DEF u
<1>4. HandleOK(u, rs)
  BY <1>1, <1>2 DEF HandleOK
<1> QED BY <1>3, <1>4, PlainMoves

LEMMA GotoMoves ==
  ASSUME MountInv, [MountNext]_mountVars, NEW r \in Readers,
         UNCHANGED rules, rd' = rd, Goto(r, "raw"), fd[r].pc # "cache",
         fd[r].kind = "created" \/ "allowed" \in Resolve(r)
  PROVE  MountInv'
<1> DEFINE u == [fd[r] EXCEPT !.pc = "raw"]
<1>1. /\ fd[r] \in HandleRecs /\ HandleOK(fd[r], rs)
      /\ Resolve(r) = Said(fd[r].path, fd[r].floor, rs)
  BY HandleFields
<1>2. /\ u \in HandleRecs /\ u.pc = "raw" /\ u.out = fd[r].out
      /\ u.kind = fd[r].kind /\ u.path = fd[r].path /\ u.floor = fd[r].floor
  BY <1>1 DEF HandleRecs, Pcs
<1>3. fd' = [fd EXCEPT ![r] = u]
  BY HandleFields DEF Goto
<1> HIDE DEF u
<1>4. HandleOK(u, rs)
  BY <1>1, <1>2 DEF HandleOK
<1> QED BY <1>3, <1>4, PlainMoves

LEMMA OpenedMoves ==
  ASSUME MountInv, [MountNext]_mountVars, NEW r \in Readers, NEW k \in Kinds,
         UNCHANGED rules, rd' = rd, Opened(r, k), fd[r].pc # "cache"
  PROVE  MountInv'
<1> DEFINE u == [fd[r] EXCEPT !.pc = "idle", !.kind = k, !.out = "ok"]
<1>1. fd[r] \in HandleRecs
  BY HandleFields
<1>2. u \in HandleRecs /\ u.pc = "idle" /\ u.out = "ok"
  BY <1>1 DEF HandleRecs, Pcs, Outs
<1>3. fd' = [fd EXCEPT ![r] = u]
  BY HandleFields DEF Opened
<1> HIDE DEF u
<1>4. HandleOK(u, rs)
  BY <1>2 DEF HandleOK
<1> QED BY <1>3, <1>4, PlainMoves

LEMMA BeginMoves ==
  ASSUME MountInv, [MountNext]_mountVars, NEW r \in Readers,
         NEW label \in {"read", "write"}, Begin(r, label)
  PROVE  MountInv'
<1> DEFINE u == [fd[r] EXCEPT !.pc = label, !.floor = pub, !.out = "none"]
<1>1. fd[r] \in HandleRecs /\ pub \in Gens /\ fd[r].pc # "cache"
  BY HandleFields DEF MountInv, Counters, Begin
<1>2. u \in HandleRecs /\ u.pc = label /\ u.out = "none"
  BY <1>1 DEF HandleRecs, Pcs, Outs
<1>3. fd' = [fd EXCEPT ![r] = u] /\ rd' = rd /\ UNCHANGED rules
  BY HandleFields DEF Begin, vars
<1> HIDE DEF u
<1>4. HandleOK(u, rs)
  BY <1>2 DEF HandleOK
<1> QED BY <1>1, <1>3, <1>4, PlainMoves

\* A closed handle is a handle.
LEMMA ClosedRec == Closed \in HandleRecs /\ Closed.pc = "idle" /\ Closed.out = "none"
<1>1. (CHOOSE p \in Paths : TRUE) \in Paths /\ 1 \in Gens
  BY RamCacheConstants, MountConstants
<1> QED BY <1>1 DEF Closed, HandleRecs, Kinds, Pcs, Outs

LEMMA CallMoves ==
  ASSUME MountInv, [MountNext]_mountVars, NEW r \in Readers, NEW p \in Paths,
         NEW w \in BOOLEAN, NEW label \in {"open", "create"},
         fd[r].pc = "idle", UNCHANGED <<vars, rules>>,
         fd' = [fd EXCEPT ![r] = [Closed EXCEPT
                  !.path = p, !.writable = w, !.pc = label, !.floor = pub]]
  PROVE  MountInv'
<1> DEFINE u == [Closed EXCEPT !.path = p, !.writable = w, !.pc = label, !.floor = pub]
<1>1. pub \in Gens
  BY DEF MountInv, Counters
<1>2. u \in HandleRecs /\ u.pc = label /\ u.out = "none"
  BY <1>1, ClosedRec DEF HandleRecs, Pcs
<1>3. fd' = [fd EXCEPT ![r] = u]
  OBVIOUS
<1> HIDE DEF u
<1>4. HandleOK(u, rs)
  BY <1>2 DEF HandleOK
<1>5. rd' = rd /\ UNCHANGED rules
  BY DEF vars
<1> QED BY <1>3, <1>4, <1>5, PlainMoves

(***************************************************************************)
(* The steps, one kind at a time.                                          *)
(***************************************************************************)
\* A step of ReadAt moves its own reader only, and keeps its patterns.
LEMMA ReadStepSig ==
  ASSUME rd \in [Readers -> ReaderRecs], NEW r \in Readers,
         ReadStep(r) \/ NewContentKey(r, gen)
  PROVE  /\ rd[r].pc # "idle"
         /\ rd'[r].sig = rd[r].sig
         /\ \A q \in Readers \ {r} : rd'[q] = rd[q]
<1>1. CASE NewContentKey(r, gen)
  BY <1>1 DEF NewContentKey, ReaderRecs
<1>2. CASE ReadOversize(r)
  BY <1>2 DEF ReadOversize, Answer, ReaderRecs
<1>3. CASE ReadHit(r)
  BY <1>3 DEF ReadHit, Answer, ReaderRecs
<1>4. CASE ReadJoin(r)
  BY <1>4 DEF ReadJoin, ReaderRecs
<1>5. CASE ReadMiss(r)
  BY <1>5 DEF ReadMiss, ReaderRecs
<1>6. CASE WaitAndServe(r)
  BY <1>6 DEF WaitAndServe, Answer, ReaderRecs
<1>7. CASE GiveUp(r)
  BY <1>7 DEF GiveUp, Answer, ReaderRecs
<1>8. CASE CopyAt(r)
  BY <1>8 DEF CopyAt, Answer, ReaderRecs
<1> QED BY <1>1, <1>2, <1>3, <1>4, <1>5, <1>6, <1>7, <1>8 DEF ReadStep

\* contentKey's Generation() and ReadAt: the handle stays as it is.
LEMMA InCacheMoves ==
  ASSUME MountInv, [MountNext]_mountVars, NEW r \in Readers,
         ContentKey(r) \/ ReadAt(r)
  PROVE  MountInv'
<1>1. rd \in [Readers -> ReaderRecs]
  BY DEF MountInv, Inv, CoreTypes
<1>2. UNCHANGED <<rules, fd>> /\ (ReadStep(r) \/ NewContentKey(r, gen))
  BY DEF ContentKey, ReadAt
<1>3. /\ rd[r].pc # "idle" /\ rd'[r].sig = rd[r].sig
      /\ \A q \in Readers \ {r} : rd'[q] = rd[q]
  BY <1>1, <1>2, ReadStepSig
<1>4. fd' = [fd EXCEPT ![r] = fd[r]] /\ HandleOK(fd[r], rs)
  BY <1>2, HandleFields
<1>5. InCacheOK(rd'[r], fd[r], rs)
  BY <1>3 DEF MountInv, InCacheOK
<1> QED BY <1>2, <1>3, <1>4, <1>5, HandleMoves

\* A masked read that goes to the cache takes the patterns of its decision.
LEMMA MaskedReadMoves ==
  ASSUME MountInv, [MountNext]_mountVars, NEW r \in Readers, MaskedRead(r)
  PROVE  MountInv'
<1>1. fd[r].pc # "cache" /\ UNCHANGED rules
  BY DEF MaskedRead
<1>2. PICK d \in Resolve(r) :
       \/ d = "hidden" /\ Reply(r, "eacces") /\ UNCHANGED vars
       \/ d = "allowed" /\ Goto(r, "raw") /\ UNCHANGED vars
       \/ d \in Sigs /\ Reply(r, "eio") /\ UNCHANGED vars
       \/ d \in Sigs /\ Goto(r, "cache") /\ Stat(r, fd[r].path, d)
  BY DEF MaskedRead
<1>3. UNCHANGED vars => rd' = rd
  BY DEF vars
<1>4. {"eacces", "eio"} \subseteq Outs \ {"raw", "wrote"}
  BY DEF Outs
<1>5. CASE Reply(r, "eacces") /\ UNCHANGED vars
  BY <1>1, <1>3, <1>4, <1>5, ReplyMoves
<1>6. CASE d = "allowed" /\ Goto(r, "raw") /\ UNCHANGED vars
  BY <1>1, <1>2, <1>3, <1>6, GotoMoves
<1>7. CASE Reply(r, "eio") /\ UNCHANGED vars
  BY <1>1, <1>3, <1>4, <1>7, ReplyMoves
<1>8. CASE d \in Sigs /\ Goto(r, "cache") /\ Stat(r, fd[r].path, d)
  <2> DEFINE u == [fd[r] EXCEPT !.pc = "cache"]
  <2>1. /\ fd[r] \in HandleRecs /\ HandleOK(fd[r], rs)
        /\ d \in Said(fd[r].path, fd[r].floor, rs)
    BY <1>2, HandleFields
  <2>2. /\ u \in HandleRecs /\ u.pc = "cache" /\ u.out = fd[r].out
        /\ u.kind = fd[r].kind /\ u.path = fd[r].path /\ u.floor = fd[r].floor
    BY <2>1 DEF HandleRecs, Pcs
  <2>3. fd' = [fd EXCEPT ![r] = u]
    BY <1>8, HandleFields DEF Goto
  <2> HIDE DEF u
  <2>4. HandleOK(u, rs)
    BY <2>1, <2>2 DEF HandleOK
  <2>5. rd \in [Readers -> ReaderRecs] /\ Idle \in ReaderRecs
    BY IdleRec DEF MountInv, Inv, CoreTypes
  <2>6. rd'[r].sig = d /\ \A q \in Readers \ {r} : rd'[q] = rd[q]
    BY <1>8, <2>5 DEF Stat, ReaderRecs
  <2>7. InCacheOK(rd'[r], u, rs)
    BY <2>1, <2>2, <2>6 DEF InCacheOK
  <2> QED BY <1>1, <2>3, <2>4, <2>6, <2>7, HandleMoves
<1> QED BY <1>2, <1>5, <1>6, <1>7, <1>8

LEMMA MaskedReplyMoves ==
  ASSUME MountInv, [MountNext]_mountVars, NEW r \in Readers, MaskedReply(r)
  PROVE  MountInv'
<1>1. PICK out \in {"ok", "eio"} : Reply(r, out)
  BY DEF MaskedReply
<1> DEFINE u == [fd[r] EXCEPT !.pc = "idle", !.out = out]
<1>2. fd[r] \in HandleRecs /\ rd \in [Readers -> ReaderRecs]
  BY HandleFields DEF MountInv, Inv, CoreTypes
<1>3. u \in HandleRecs /\ u.pc = "idle" /\ u.out = out
  BY <1>2 DEF HandleRecs, Pcs, Outs
<1>4. fd' = [fd EXCEPT ![r] = u]
  BY <1>1, HandleFields DEF Reply
<1> HIDE DEF u
<1>5. HandleOK(u, rs)
  BY <1>3 DEF HandleOK
<1>6. rd'[r] = Idle /\ \A q \in Readers \ {r} : rd'[q] = rd[q]
  BY <1>2 DEF MaskedReply, Return
<1>7. InCacheOK(rd'[r], u, rs)
  BY <1>6, IdleRec DEF InCacheOK
<1>8. UNCHANGED rules
  BY DEF MaskedReply
<1> QED BY <1>4, <1>5, <1>6, <1>7, <1>8, HandleMoves

\* Opening, creating and releasing.
LEMMA OpenMoves ==
  ASSUME MountInv, [MountNext]_mountVars, NEW r \in Readers,
         Open(r) \/ Create(r) \/ Release(r)
  PROVE  MountInv'
<1>1. fd[r].pc # "cache" /\ UNCHANGED rules /\ rd' = rd
  BY DEF Open, Create, Release, vars
<1>2. \/ Reply(r, "eacces") \/ Reply(r, "eio")
      \/ \E k \in {"masked", "revocable", "created"} : Opened(r, k)
      \/ fd' = [fd EXCEPT ![r] = Closed]
  BY DEF Open, Create, Release
<1>3. CASE Reply(r, "eacces") \/ Reply(r, "eio")
  <2>1. {"eacces", "eio"} \subseteq Outs
    BY DEF Outs
  <2>2. CASE Reply(r, "eacces")
    BY <1>1, <2>1, <2>2, ReplyMoves
  <2>3. CASE Reply(r, "eio")
    BY <1>1, <2>1, <2>3, ReplyMoves
  <2> QED BY <1>3, <2>2, <2>3
<1>4. ASSUME NEW k \in {"masked", "revocable", "created"}, Opened(r, k)
      PROVE  MountInv'
  <2>1. k \in Kinds
    BY DEF Kinds
  <2> QED BY <1>1, <1>4, <2>1, OpenedMoves
<1>5. CASE fd' = [fd EXCEPT ![r] = Closed]
  <2>1. HandleOK(Closed, rs)
    BY ClosedRec DEF HandleOK
  <2> QED BY <1>1, <1>5, <2>1, PlainMoves
<1> QED BY <1>2, <1>3, <1>4, <1>5

\* Reads and writes of the real file.
LEMMA RawMoves ==
  ASSUME MountInv, [MountNext]_mountVars, NEW r \in Readers,
         \/ RevocableRead(r) \/ RevocableWrite(r)
         \/ CreatedRead(r) \/ CreatedWrite(r) \/ ReadRaw(r)
  PROVE  MountInv'
<1>1. fd[r].pc # "cache" /\ UNCHANGED rules
  BY DEF RevocableRead, RevocableWrite, CreatedRead, CreatedWrite, ReadRaw
<1>2. rd' = rd
  BY DEF RevocableRead, RevocableWrite, CreatedRead, CreatedWrite, ReadRaw,
         Edit, vars
<1>3. {"eacces", "eio", "raw", "wrote"} \subseteq Outs
  BY DEF Outs
<1>4. CASE RevocableRead(r)
  <2>1. Reply(r, "eacces") \/ ("allowed" \in Resolve(r) /\ Goto(r, "raw"))
    BY <1>4 DEF RevocableRead
  <2>2. CASE Reply(r, "eacces")
    BY <1>1, <1>2, <1>3, <2>2, ReplyMoves
  <2>3. CASE "allowed" \in Resolve(r) /\ Goto(r, "raw")
    BY <1>1, <1>2, <2>3, GotoMoves
  <2> QED BY <2>1, <2>2, <2>3
<1>5. CASE RevocableWrite(r)
  <2>1. \/ Reply(r, "eacces") \/ Reply(r, "eio")
        \/ "allowed" \in Resolve(r) /\ Reply(r, "wrote")
    BY <1>5 DEF RevocableWrite
  <2>2. CASE Reply(r, "eacces")
    BY <1>1, <1>2, <1>3, <2>2, ReplyMoves
  <2>3. CASE "allowed" \in Resolve(r) /\ Reply(r, "wrote")
    BY <1>1, <1>2, <1>3, <2>3, ReplyMoves
  <2>4. CASE Reply(r, "eio")
    BY <1>1, <1>2, <1>3, <2>4, ReplyMoves
  <2> QED BY <2>1, <2>2, <2>3, <2>4
<1>6. CASE CreatedRead(r)
  <2>1. fd[r].kind = "created" /\ Goto(r, "raw")
    BY <1>6 DEF CreatedRead
  <2> QED BY <1>1, <1>2, <2>1, GotoMoves
<1>7. CASE CreatedWrite(r)
  <2>1. fd[r].kind = "created" /\ (Reply(r, "wrote") \/ Reply(r, "eio"))
    BY <1>7 DEF CreatedWrite
  <2>2. CASE Reply(r, "wrote")
    BY <1>1, <1>2, <1>3, <2>1, <2>2, ReplyMoves
  <2>3. CASE Reply(r, "eio")
    BY <1>1, <1>2, <1>3, <2>3, ReplyMoves
  <2> QED BY <2>1, <2>2, <2>3
<1>8. CASE ReadRaw(r)
  <2>1. fd[r].kind = "created" \/ "allowed" \in Resolve(r)
    BY <1>8, HandleFields DEF ReadRaw, HandleOK
  <2>2. Reply(r, "raw") \/ Reply(r, "eio")
    BY <1>8 DEF ReadRaw
  <2>3. CASE Reply(r, "raw")
    BY <1>1, <1>2, <1>3, <2>1, <2>3, ReplyMoves
  <2>4. CASE Reply(r, "eio")
    BY <1>1, <1>2, <1>3, <2>4, ReplyMoves
  <2> QED BY <2>2, <2>3, <2>4
<1> QED BY <1>4, <1>5, <1>6, <1>7, <1>8

\* A handler's step keeps the invariant.
LEMMA HandlerInv ==
  ASSUME MountInv, [MountNext]_mountVars, NEW r \in Readers, Handler(r)
  PROVE  MountInv'
<1>1. ASSUME NEW p \in Paths, NEW w \in BOOLEAN, CallOpen(r, p, w)
      PROVE  MountInv'
  BY <1>1, CallMoves DEF CallOpen
<1>2. ASSUME NEW p \in Paths, CallCreate(r, p) PROVE MountInv'
  BY <1>2, CallMoves DEF CallCreate
<1>3. CASE CallRead(r) \/ CallWrite(r)
  BY <1>3, BeginMoves DEF CallRead, CallWrite
<1> QED BY <1>1, <1>2, <1>3, OpenMoves, RawMoves, MaskedReadMoves, InCacheMoves,
           MaskedReplyMoves DEF Handler

\* A reload, a rebuild or an edit: no thread moves.
LEMMA OthersMove ==
  ASSUME MountInv, [MountNext]_mountVars, Counters', rs <= rs',
         rd' = rd, fd' = fd
  PROVE  MountInv'
<1>1. fd' \in [Readers -> HandleRecs]
  BY DEF MountInv
<1> QED BY <1>1, MountStep

\* So does a publication of new rules.
LEMMA ReloadInv ==
  ASSUME MountInv, [MountNext]_mountVars, Reload
  PROVE  MountInv'
<1>1. /\ rs \in Gens /\ gen \in Gens /\ pub \in Gens /\ flush \in Nat
      /\ gen <= rs /\ gen <= pub /\ pub <= rs
  BY DEF MountInv, Counters
<1>2. CASE StoreRs
  <2>1. rd' = rd /\ fd' = fd /\ rs' = rs + 1 /\ rs < Len(Rules)
        /\ UNCHANGED <<gen, pub, flush>>
    BY <1>2 DEF StoreRs, vars
  <2>2. Counters' /\ rs <= rs'
    BY <1>1, <2>1, MountConstants DEF Counters
  <2> QED BY <2>1, <2>2, OthersMove
<1>3. CASE AddGen
  <2>1. rd' = rd /\ fd' = fd /\ rs' = rs /\ gen < rs /\ gen' = gen + 1
        /\ pub' = rs /\ flush' = flush + 1
    BY <1>3 DEF AddGen, vars
  <2>2. Counters' /\ rs <= rs'
    BY <1>1, <2>1, MountConstants DEF Counters
  <2> QED BY <2>1, <2>2, OthersMove
<1>4. CASE Flush
  <2>1. rd' = rd /\ fd' = fd /\ UNCHANGED <<rs, gen, pub>>
        /\ flush > 0 /\ flush' = flush - 1
    BY <1>4 DEF Flush, InvalidateAll, Drop, vars
  <2>2. Counters' /\ rs <= rs'
    BY <1>1, <2>1, MountConstants DEF Counters
  <2> QED BY <2>1, <2>2, OthersMove
<1> QED BY <1>2, <1>3, <1>4 DEF Reload

\* There is no open handle in the beginning.
LEMMA MountInvInit == MountInit => MountInv
<1> SUFFICES ASSUME MountInit PROVE MountInv
  OBVIOUS
<1>1. Inv
  BY InvInit DEF MountInit
<1>2. Counters
  BY MountConstants DEF MountInit, Counters
<1>3. fd \in [Readers -> HandleRecs] /\ \A r \in Readers : fd[r] = Closed
  BY ClosedRec DEF MountInit
<1>4. HandleOK(Closed, rs)
  BY ClosedRec DEF HandleOK
<1>5. \A r \in Readers : rd[r].pc = "idle"
  BY IdleRec DEF MountInit, Init
<1>6. \A r \in Readers : InCacheOK(rd[r], fd[r], rs)
  BY <1>5 DEF InCacheOK
<1> QED BY <1>1, <1>2, <1>3, <1>4, <1>6 DEF MountInv

\* Every step of the mount keeps the invariant.
LEMMA MountInvNext == MountInv /\ [MountNext]_mountVars => MountInv'
<1> SUFFICES ASSUME MountInv, [MountNext]_mountVars PROVE MountInv'
  OBVIOUS
<1>1. CASE Reload
  BY <1>1, ReloadInv
<1>2. ASSUME NEW r \in Readers, Handler(r) PROVE MountInv'
  BY <1>2, HandlerInv
<1>3. CASE Background \/ MountExhausted \/ UNCHANGED mountVars
  <2>1. rd' = rd /\ fd' = fd /\ UNCHANGED <<rs, gen, pub, flush>>
    BY <1>3 DEF Background, Rebuild, RedactFile, Publish, CloseReady, Edit,
                MountExhausted, mountVars, vars, rules
  <2>2. Counters' /\ rs <= rs'
    BY <2>1, GensNat DEF MountInv, Counters
  <2> QED BY <2>1, <2>2, OthersMove
<1> QED BY <1>1, <1>2, <1>3 DEF MountNext

\* The invariant of the mount, in every behaviour.
LEMMA MountInvariant == MountSpec => []MountInv
<1>1. MountInit => MountInv
  BY MountInvInit
<1>2. MountInv /\ [MountNext]_mountVars => MountInv'
  BY MountInvNext
<1> QED BY <1>1, <1>2, PTL DEF MountSpec

\* The engine's counters and the handles keep their shape; the generation
\* never runs ahead of the rule set that is installed.
THEOREM MountTypes == MountSpec => []MountTypeOK
<1>1. MountInv => MountTypeOK
  BY DEF MountInv, MountTypeOK, Counters, HandleRecs
<1> QED BY <1>1, MountInvariant, PTL

\* A reload reaches every handle Open returned: no real bytes pass through one
\* in a call during the whole of which the file was not ALLOWED.
THEOREM OpenHandlesRevoked == MountSpec => []RevokedOnReload
<1>1. MountInv => RevokedOnReload
  BY HandleFields DEF MountInv, HandleOK, RevokedOnReload
<1> QED BY <1>1, MountInvariant, PTL

\* What a masked read serves was redacted with the patterns of a rule set in
\* force during that read.
THEOREM MaskedReadsCurrent == MountSpec => []MaskedByCurrentRules
<1>1. ASSUME MountInv, NEW r \in Readers, rd[r].pc = "done",
             rd[r].got.kind = "data"
      PROVE  rd[r].got.sig \in InForce(r)
  <2>1. rd[r].got.sig = rd[r].sig
    BY <1>1 DEF MountInv, Inv, ReaderOK
  <2>2. rd[r].sig \in Said(fd[r].path, fd[r].floor, rs)
    BY <1>1 DEF MountInv, InCacheOK
  <2> QED BY <1>1, <2>1, <2>2, HandleFields
<1>2. MountInv => MaskedByCurrentRules
  BY <1>1 DEF MaskedByCurrentRules
<1> QED BY <1>2, MountInvariant, PTL
==============================================================================
