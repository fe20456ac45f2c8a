------------------------------- MODULE Engine -------------------------------
(***************************************************************************)
(* The decision engine, internal/engine/engine.go.                         *)
(*                                                                         *)
(* Several goroutines (FUSE handlers, the API server, `janusfs update`)    *)
(* share one Engine.  Its fields are five independent atomics - rs, gen,   *)
(* cache, cacheEntries, configFP - and neither Resolve nor Reload takes a  *)
(* lock, so every load and every store of an atomic is a step of its own   *)
(* here.  A caller makes one of three calls:                               *)
(*   Resolve(k)   from a read, a getattr-style check or the API,           *)
(*   Open(k)      reloadIfStale (StaleAncestors, Reload) and then Resolve, *)
(*   Reload       `janusfs update` or the dashboard's Reload button.       *)
(* Meanwhile somebody edits the .janusfs.yml files on disk.                *)
(*                                                                         *)
(* What is abstracted.  A policy file is a version number, its fingerprint *)
(* (mtime, size) is that number too: every edit is taken to change the     *)
(* fingerprint, which is what dirConfigFP's comment argues for.  A         *)
(* compiled rule set is the version read in each directory, and the        *)
(* decision for a path is the tuple of versions of the levels that cover   *)
(* it - the finest decision RuleSet.Resolve could make of them.            *)
(***************************************************************************)
EXTENDS Naturals, Sequences, FiniteSets

CONSTANTS
  Callers,      \* goroutines that call into the engine
  Dirs,         \* directories of the source tree
  Root,         \* the root of the source tree
  GlobalDir,    \* ~/.janusfs/config, a level outside the tree
  Keys,         \* the (relPath, isDir) pairs callers ask about
  Chain,        \* Chain[k]: k's directory, its parent, ..., Root
  LoadOrder,    \* GlobalDir, then Dirs sorted as Discover sorts them
  CacheMax,     \* decisionCacheMax
  WalkMayFail,  \* whether directories can be unreadable during a walk
  MaxCalls,     \* bound: calls made in a behaviour
  MaxEdits      \* bound: edits of policy files in a behaviour

Levels == Dirs \cup {GlobalDir}
Absent == 0
LevelsOf(k) == {GlobalDir} \cup {Chain[k][i] : i \in 1..Len(Chain[k])}

ASSUME EngineConstants ==
  /\ Root \in Dirs
  /\ Keys # {}
  /\ GlobalDir \notin Dirs
  /\ Chain \in [Keys -> Seq(Dirs)]
  /\ \A k \in Keys : Len(Chain[k]) > 0 /\ Chain[k][Len(Chain[k])] = Root
  /\ LoadOrder \in Seq(Levels)
  /\ Len(LoadOrder) > 0
  /\ \A d \in Levels : \E i \in 1..Len(LoadOrder) : LoadOrder[i] = d
  /\ CacheMax \in Nat
  /\ MaxCalls \in Nat
  /\ MaxEdits \in Nat
  /\ WalkMayFail \in BOOLEAN

VARIABLES
  disk,         \* version of each level's .janusfs.yml, Absent if none
  edits,        \* edits made so far; also the source of fresh versions
  calls,        \* calls made so far
  rs,           \* Engine.rs: the installed rule set
  gen,          \* Engine.gen
  cache,        \* Engine.cache: which map is the current decision cache
  maps,         \* every sync.Map allocated so far: its set of entries
  cacheEntries, \* Engine.cacheEntries
  configFP,     \* Engine.configFP
  my,           \* each caller's program counter and local variables
  genSeq,       \* history: genSeq[g] = rs.seq when gen became g
  raced         \* history: an edit or a Reload overlapped a Reload

env    == <<disk, edits, calls>>
engine == <<rs, gen, cache, maps, cacheEntries, configFP>>
hist   == <<genSeq, raced>>
vars   == <<disk, edits, calls, rs, gen, cache, maps, cacheEntries, configFP,
            my, genSeq, raced>>

(***************************************************************************)
(* Data.  seq numbers the rule sets in the order of their rs.Store.        *)
(***************************************************************************)
PerLevel    == [Levels -> Nat]
NoLevel     == [d \in Levels |-> Absent]
RuleSets    == [seq : Nat, found : SUBSET Levels, lv : PerLevel]
Resolutions == [seq : Nat, dec : PerLevel]
Entries     == [key : Keys, gen : Nat, out : Resolutions]

\* RuleSet.Resolve: a level that does not cover k has no say in the decision.
RuleSetResolve(r, k) ==
  [seq |-> r.seq,
   dec |-> [d \in Levels |-> IF d \in LevelsOf(k) THEN r.lv[d] ELSE Absent]]

\* What a caller holds: the call it is in and the locals of Resolve (gen, map,
\* out), Reload (found, lv, snap) and StaleAncestors (snap); at is a position in
\* a loop over directories.  floor and asOf are history: the rule set that
\* was published when Resolve started, the edits made when Open started.
Idle ==
  [pc |-> "idle", op |-> "none", key |-> CHOOSE k \in Keys : TRUE,
   gen |-> 1, map |-> 1, out |-> [seq |-> 0, dec |-> NoLevel],
   found |-> {}, lv |-> NoLevel, snap |-> NoLevel, at |-> 1,
   floor |-> 0, asOf |-> 0]

Goto(c, label) == my' = [my EXCEPT ![c].pc = label]

ReloadLabels == {"walk", "load", "storeRs", "addGen", "storeCache",
                 "zeroCount", "stat", "storeFP"}
ResolveLabels == {"loadGen", "loadCache", "lookup", "loadRs", "count", "store",
                  "swap", "zeroAfterSwap", "done"}

Labels == {"idle", "ancestor"} \cup ReloadLabels \cup ResolveLabels
Calls  == {"none", "resolve", "open", "reload"}

Reloading == \E c \in Callers : my[c].pc \in ReloadLabels

\* The directories a walk reports: all of them, or, when directories can be
\* unreadable, any set that holds every ancestor of each of its members.
Walks ==
  IF WalkMayFail
  THEN {S \in SUBSET Dirs :
          \A k \in Keys : \A i \in 1..(Len(Chain[k]) - 1) :
             Chain[k][i] \in S => Chain[k][i+1] \in S}
  ELSE {Dirs}

\* Faulty variant: fingerprint every directory, read by Discover or not.
FingerprintAll(lv, d) == disk[d]

\* statConfigFP for a directory the rule set lv found a policy file in; the
\* others have no entry in the snapshot, which reads as "no file expected".
Fingerprint(lv, d) == IF lv[d] # Absent THEN disk[d] ELSE Absent

(***************************************************************************)
(* New: discover, install as generation 1, snapshot.  The model starts     *)
(* when New has returned; the window inside New is the one inside Reload.  *)
(***************************************************************************)
Init ==
  /\ disk \in [Levels -> {Absent, 1}]
  /\ edits = 0
  /\ calls = 0
  /\ rs = [seq |-> 1, found |-> Levels, lv |-> disk]
  /\ gen = 1
  /\ cache = 1
  /\ maps = <<{}>>
  /\ cacheEntries = 0
  /\ configFP = disk
  /\ my = [c \in Callers |-> Idle]
  /\ genSeq = <<1>>
  /\ raced = FALSE

(***************************************************************************)
(* The environment: an editor writes or removes a policy file.             *)
(***************************************************************************)
Edit(d) ==
  /\ edits < MaxEdits
  /\ edits' = edits + 1
  /\ \/ disk' = [disk EXCEPT ![d] = edits + 2]
     \/ disk[d] # Absent /\ disk' = [disk EXCEPT ![d] = Absent]
  /\ raced' = (raced \/ Reloading)
  /\ UNCHANGED <<calls, engine, my, genSeq>>

NewCall(c) ==
  /\ my[c].pc = "idle"
  /\ calls < MaxCalls
  /\ calls' = calls + 1
  /\ UNCHANGED <<disk, edits>>

(***************************************************************************)
(* Resolve.                                                                *)
(***************************************************************************)
\* gen := e.gen.Load() - before anything else, deliberately.
CallResolve(c, k) ==
  /\ NewCall(c)
  /\ my' = [my EXCEPT ![c] = [Idle EXCEPT
               !.pc = "loadCache", !.op = "resolve", !.key = k,
               !.gen = gen, !.floor = genSeq[gen]]]
  /\ UNCHANGED <<engine, hist>>

\* The Resolve an Open makes once reloadIfStale has returned.
ResolveAfterOpen(c) ==
  /\ my[c].pc = "loadGen"
  /\ my' = [my EXCEPT ![c].pc = "loadCache", ![c].gen = gen,
                      ![c].floor = genSeq[gen]]
  /\ UNCHANGED <<env, engine, hist>>

LoadCache(c) ==
  /\ my[c].pc = "loadCache"
  /\ my' = [my EXCEPT ![c].pc = "lookup", ![c].map = cache]
  /\ UNCHANGED <<env, engine, hist>>

\* Faulty variant: decisionKey without its gen field.
MatchesAnyGen(e, c) == e.key = my[c].key

Matches(e, c) == e.key = my[c].key /\ e.gen = my[c].gen

LookupHit(c) ==
  /\ my[c].pc = "lookup"
  /\ \E e \in maps[my[c].map] :
       /\ Matches(e, c)
       /\ my' = [my EXCEPT ![c].pc = "done", ![c].out = e.out]
  /\ UNCHANGED <<env, engine, hist>>

LookupMiss(c) ==
  /\ my[c].pc = "lookup"
  /\ ~\E e \in maps[my[c].map] : Matches(e, c)
  /\ Goto(c, "loadRs")
  /\ UNCHANGED <<env, engine, hist>>

\* rs := e.rs.Load(), and the pure computation on that snapshot.
LoadRs(c) ==
  /\ my[c].pc = "loadRs"
  /\ my' = [my EXCEPT ![c].pc = "count",
                      ![c].out = RuleSetResolve(rs, my[c].key)]
  /\ UNCHANGED <<env, engine, hist>>

Count(c) ==
  /\ my[c].pc = "count"
  /\ cacheEntries' = cacheEntries + 1
  /\ Goto(c, IF cacheEntries + 1 > CacheMax THEN "swap" ELSE "store")
  /\ UNCHANGED <<env, rs, gen, cache, maps, configFP, hist>>

\* Faulty variant: the key takes the generation current when it is stored.
StoreUnderCurrentGen(c) ==
  /\ my[c].pc = "store"
  /\ maps' = [maps EXCEPT ![my[c].map] = @ \cup
                {[key |-> my[c].key, gen |-> gen, out |-> my[c].out]}]
  /\ Goto(c, "done")
  /\ UNCHANGED <<env, rs, gen, cache, cacheEntries, configFP, hist>>

\* cache.Store(k, out) on the map loaded at the start of the call.
Store(c) ==
  /\ my[c].pc = "store"
  /\ maps' = [maps EXCEPT ![my[c].map] =
                {e \in @ : ~Matches(e, c)} \cup
                {[key |-> my[c].key, gen |-> my[c].gen, out |-> my[c].out]}]
  /\ Goto(c, "done")
  /\ UNCHANGED <<env, rs, gen, cache, cacheEntries, configFP, hist>>

FreshMap == maps' = Append(maps, {}) /\ cache' = Len(maps) + 1

\* e.cache.CompareAndSwap(cache, &sync.Map{})
Swap(c) ==
  /\ my[c].pc = "swap"
  /\ \/ cache = my[c].map /\ FreshMap /\ Goto(c, "zeroAfterSwap")
     \/ cache # my[c].map /\ UNCHANGED <<maps, cache>> /\ Goto(c, "done")
  /\ UNCHANGED <<env, rs, gen, cacheEntries, configFP, hist>>

\* Faulty variant: subtract what was counted instead of storing 0.
SubtractAfterSwap(c) ==
  /\ my[c].pc = "zeroAfterSwap"
  /\ cacheEntries' = cacheEntries - (CacheMax + 1)
  /\ Goto(c, "done")
  /\ UNCHANGED <<env, rs, gen, cache, maps, configFP, hist>>

ZeroAfterSwap(c) ==
  /\ my[c].pc = "zeroAfterSwap"
  /\ cacheEntries' = 0
  /\ Goto(c, "done")
  /\ UNCHANGED <<env, rs, gen, cache, maps, configFP, hist>>

\* The call returns out; its locals die with it.
Return(c) ==
  /\ my[c].pc = "done"
  /\ my' = [my EXCEPT ![c] = Idle]
  /\ UNCHANGED <<env, engine, hist>>

(***************************************************************************)
(* Reload: Discover, then the stores, in the order of the code.            *)
(***************************************************************************)
CallReload(c) ==
  /\ NewCall(c)
  /\ my' = [my EXCEPT ![c] = [Idle EXCEPT !.pc = "walk", !.op = "reload"]]
  /\ raced' = (raced \/ Reloading)
  /\ UNCHANGED <<engine, genSeq>>

\* Discover's WalkDir.  The callback swallows every error, the root's too:
\* an unreadable directory is left out and the walk goes on.
Walk(c) ==
  /\ my[c].pc = "walk"
  /\ \E S \in Walks :
       my' = [my EXCEPT ![c].pc = "load", ![c].at = 1,
                        ![c].found = S \cup {GlobalDir}]
  /\ UNCHANGED <<env, engine, hist>>

\* The next directory of a loop over LoadOrder, or the statement after it.
Advance(m, after) ==
  IF m.at < Len(LoadOrder) THEN [m EXCEPT !.at = @ + 1]
                           ELSE [m EXCEPT !.at = 1, !.pc = after]

\* loadLevel on the next directory.  A file that does not parse is a level
\* too (a poisoned one), so its version is kept like any other.
LoadLevel(c) ==
  LET d == LoadOrder[my[c].at]
      v == IF d \in my[c].found THEN disk[d] ELSE Absent
  IN
  /\ my[c].pc = "load"
  /\ my' = [my EXCEPT ![c] = Advance(
              [my[c] EXCEPT !.lv = [my[c].lv EXCEPT ![d] = v]], "storeRs")]
  /\ UNCHANGED <<env, engine, hist>>

StoreRs(c) ==
  /\ my[c].pc = "storeRs"
  /\ rs' = [seq |-> rs.seq + 1, found |-> my[c].found, lv |-> my[c].lv]
  /\ Goto(c, "addGen")
  /\ UNCHANGED <<env, gen, cache, maps, cacheEntries, configFP, hist>>

AddGen(c) ==
  /\ my[c].pc = "addGen"
  /\ gen' = gen + 1
  /\ genSeq' = Append(genSeq, rs.seq)
  /\ Goto(c, "storeCache")
  /\ UNCHANGED <<env, rs, cache, maps, cacheEntries, configFP, raced>>

StoreCache(c) ==
  /\ my[c].pc = "storeCache"
  /\ FreshMap
  /\ Goto(c, "zeroCount")
  /\ UNCHANGED <<env, rs, gen, cacheEntries, configFP, hist>>

ZeroCount(c) ==
  /\ my[c].pc = "zeroCount"
  /\ cacheEntries' = 0
  /\ Goto(c, "stat")
  /\ UNCHANGED <<env, rs, gen, cache, maps, configFP, hist>>

\* buildConfigSnapshot, one stat at a time.
StatLevel(c) ==
  LET d == LoadOrder[my[c].at]
      v == Fingerprint(my[c].lv, d)
  IN
  /\ my[c].pc = "stat"
  /\ my' = [my EXCEPT ![c] = Advance(
              [my[c] EXCEPT !.snap = [my[c].snap EXCEPT ![d] = v]], "storeFP")]
  /\ UNCHANGED <<env, engine, hist>>

\* The last store of Reload.  An Open goes on to resolve its path.
StoreFP(c) ==
  /\ my[c].pc = "storeFP"
  /\ configFP' = my[c].snap
  /\ my' = [my EXCEPT ![c] =
              IF my[c].op = "open"
              THEN [Idle EXCEPT !.pc = "loadGen", !.op = "open",
                                !.key = my[c].key, !.asOf = my[c].asOf]
              ELSE Idle]
  /\ UNCHANGED <<env, rs, gen, cache, maps, cacheEntries, hist>>

(***************************************************************************)
(* Open and Opendir: reloadIfStale, then Resolve.                          *)
(***************************************************************************)
\* StaleAncestors loads the snapshot once and then walks up.
CallOpen(c, k) ==
  /\ NewCall(c)
  /\ my' = [my EXCEPT ![c] = [Idle EXCEPT
               !.pc = "ancestor", !.op = "open", !.key = k,
               !.snap = configFP, !.asOf = edits]]
  /\ UNCHANGED <<engine, hist>>

Ancestor(c) == Chain[my[c].key][my[c].at]

\* The first difference is enough: reload.
AncestorStale(c) ==
  /\ my[c].pc = "ancestor"
  /\ disk[Ancestor(c)] # my[c].snap[Ancestor(c)]
  /\ my' = [my EXCEPT ![c].pc = "walk", ![c].at = 1, ![c].snap = NoLevel]
  /\ raced' = (raced \/ Reloading)
  /\ UNCHANGED <<env, engine, genSeq>>

\* Faulty variant: the walk up ends below the root.
AncestorFreshBelowRoot(c) ==
  /\ my[c].pc = "ancestor"
  /\ disk[Ancestor(c)] = my[c].snap[Ancestor(c)]
  /\ \/ /\ my[c].at < Len(Chain[my[c].key]) - 1
        /\ my' = [my EXCEPT ![c].at = @ + 1]
     \/ /\ my[c].at >= Len(Chain[my[c].key]) - 1
        /\ my' = [my EXCEPT ![c].pc = "loadGen", ![c].at = 1,
                            ![c].snap = NoLevel]
  /\ UNCHANGED <<env, engine, hist>>

\* No difference here: go to the parent, or, at the root, report "not stale".
AncestorFresh(c) ==
  /\ my[c].pc = "ancestor"
  /\ disk[Ancestor(c)] = my[c].snap[Ancestor(c)]
  /\ \/ /\ my[c].at < Len(Chain[my[c].key])
        /\ my' = [my EXCEPT ![c].at = @ + 1]
     \/ /\ my[c].at = Len(Chain[my[c].key])
        /\ my' = [my EXCEPT ![c].pc = "loadGen", ![c].at = 1,
                            ![c].snap = NoLevel]
  /\ UNCHANGED <<env, engine, hist>>

\* The callers have made all the calls of this behaviour and all returned.
Quiet ==
  /\ calls = MaxCalls
  /\ \A c \in Callers : my[c].pc = "idle"
  /\ UNCHANGED vars

Step(c) ==
  \/ \E k \in Keys : CallResolve(c, k) \/ CallOpen(c, k)
  \/ CallReload(c)
  \/ ResolveAfterOpen(c) \/ LoadCache(c) \/ LookupHit(c) \/ LookupMiss(c)
  \/ LoadRs(c) \/ Count(c) \/ Store(c) \/ Swap(c) \/ ZeroAfterSwap(c)
  \/ Return(c)
  \/ Walk(c) \/ LoadLevel(c) \/ StoreRs(c) \/ AddGen(c) \/ StoreCache(c)
  \/ ZeroCount(c) \/ StatLevel(c) \/ StoreFP(c)
  \/ AncestorStale(c) \/ AncestorFresh(c)

Next ==
  \/ \E d \in Levels : Edit(d)
  \/ \E c \in Callers : Step(c)
  \/ Quiet

Spec == Init /\ [][Next]_vars

(***************************************************************************)
(* Properties.                                                             *)
(***************************************************************************)
CallerStates ==
  [pc : Labels, op : Calls, key : Keys, gen : Nat, map : Nat,
   out : Resolutions, found : SUBSET Levels, lv : PerLevel, snap : PerLevel,
   at : Nat, floor : Nat, asOf : Nat]

EngineTypes ==
  /\ disk \in PerLevel
  /\ edits \in Nat
  /\ calls \in Nat
  /\ rs \in RuleSets
  /\ gen \in Nat \ {0}
  /\ maps \in Seq(SUBSET Entries)
  /\ cache \in 1..Len(maps)
  /\ cacheEntries \in Nat
  /\ configFP \in PerLevel

\* A caller's locals when n maps and g generations exist.
CallerOK(m, n, g) ==
  /\ m \in CallerStates
  /\ m.map \in 1..n
  /\ m.gen \in 1..g
  /\ m.pc \in ReloadLabels => m.at \in 1..Len(LoadOrder)

CallerTypes ==
  /\ my \in [Callers -> CallerStates]
  /\ \A c \in Callers : CallerOK(my[c], Len(maps), gen)

HistoryTypes ==
  /\ genSeq \in Seq(Nat)
  /\ Len(genSeq) = gen
  /\ raced \in BOOLEAN

\* The shape of the engine's fields and of its callers' locals; every map a
\* caller holds and every generation it read exists.
TypeOK == EngineTypes /\ CallerTypes /\ HistoryTypes

\* Resolve's memo, "merely a wasted entry, never a stale serve": whatever the
\* interleaving with any number of Reloads, an entry stored under generation g,
\* in the current map or in one some goroutine still holds, was computed from a
\* rule set at least as new as the one installed when g began.
CacheFresh ==
  \A i \in 1..Len(maps) : \A e \in maps[i] :
     e.gen \in 1..gen /\ e.out.seq >= genSeq[e.gen]

\* Resolve never serves a decision older than the rule set that was published
\* (rs stored and gen bumped) when the call started, hit or miss.
NoStaleServe ==
  \A c \in Callers : my[c].pc = "done" => my[c].out.seq >= my[c].floor

\* StaleAncestors: between Reloads, a policy file that differs from what the
\* current generation was compiled from also differs from its fingerprint, so
\* that the next Open below it notices - provided no edit and no second Reload
\* ever overlapped a Reload.
EditsNoticed ==
  ~raced /\ ~Reloading =>
    \A d \in Dirs : rs.lv[d] # disk[d] => configFP[d] # disk[d]

\* reloadIfStale then Resolve: an Open decides by the policy files as they
\* were when it started - an edit takes effect without `janusfs update` - if
\* they did not change meanwhile, no Reload was raced, and it was decided by
\* the installed rule set, whose walk had missed no directory.
OpenSeesEdits ==
  \A c \in Callers :
    /\ my[c].pc = "done"
    /\ my[c].op = "open"
    /\ ~raced
    /\ edits = my[c].asOf
    /\ my[c].out.seq = rs.seq
    /\ Dirs \subseteq rs.found
    => \A d \in Dirs \cap LevelsOf(my[c].key) : my[c].out.dec[d] = disk[d]
=============================================================================
