---------------------------- MODULE EngineProofs ----------------------------
(***************************************************************************)
(* Proofs about Engine for any number of callers, calls, edits and         *)
(* directories.  First its type invariant, and that Resolve never serves a *)
(* decision older than the rule set published when the call started; then  *)
(* EditsNoticed and OpenSeesEdits: what a Reload reads from disk, installs *)
(* and fingerprints agree as long as nothing overlapped it, so that an     *)
(* Open that compares fingerprints decides by the files as they are.       *)
(***************************************************************************)
EXTENDS Engine, TLAPS

\* Membership of every label and call name, so that no proof enumerates them.
LEMMA Names ==
  /\ {"idle", "ancestor", "walk", "load", "storeRs", "addGen", "storeCache",
      "zeroCount", "stat", "storeFP", "loadGen", "loadCache", "lookup",
      "loadRs", "count", "store", "swap", "zeroAfterSwap", "done"} = Labels
  /\ {"none", "resolve", "open", "reload"} = Calls
BY DEF Labels, Calls, ReloadLabels, ResolveLabels

\* The locals of a caller outside any call are well formed.
LEMMA IdleType == Idle \in CallerStates /\ NoLevel \in PerLevel
<1>1. NoLevel \in PerLevel
  BY DEF NoLevel, PerLevel, Absent
<1>2. [seq |-> 0, dec |-> NoLevel] \in Resolutions
  BY <1>1 DEF Resolutions
<1>3. (CHOOSE k \in Keys : TRUE) \in Keys
  BY EngineConstants
<1> QED
  BY <1>1, <1>2, <1>3, Names DEF Idle, CallerStates

\* RuleSet.Resolve returns a resolution that bears its rule set's number.
LEMMA ResolveType ==
  ASSUME NEW r \in RuleSets, NEW k \in Keys
  PROVE  RuleSetResolve(r, k) \in Resolutions /\ RuleSetResolve(r, k).seq = r.seq
BY DEF RuleSetResolve, Resolutions, RuleSets, PerLevel, Absent


\* What only grows: the generations, the maps, the numbers of the rule sets,
\* and what each generation published.
Growth ==
  /\ gen <= gen' /\ gen' \in Nat
  /\ Len(maps) <= Len(maps') /\ Len(maps') \in Nat
  /\ rs.seq <= rs'.seq
  /\ \A g \in 1..gen : genSeq'[g] = genSeq[g]

\* Engine.rs, gen, cache, cacheEntries, configFP and the disk keep their types
\* and only grow.
LEMMA EngineStep == TypeOK /\ [Next]_vars => EngineTypes' /\ Growth
<1> SUFFICES ASSUME TypeOK, [Next]_vars PROVE EngineTypes' /\ Growth
  OBVIOUS
<1> DEFINE Goal == EngineTypes' /\ Growth
<1> USE DEF TypeOK, EngineTypes
<1>1. /\ rs \in RuleSets /\ rs.seq \in Nat
      /\ gen \in Nat /\ Len(maps) \in Nat /\ genSeq \in Seq(Nat) /\ Len(genSeq) = gen
  BY DEF HistoryTypes, RuleSets
<1>2. ASSUME UNCHANGED <<disk, edits, engine, genSeq>>, calls' \in Nat PROVE Goal
  BY <1>1, <1>2 DEF engine, Growth
<1>3. ASSUME NEW d \in Levels, Edit(d) PROVE Goal
  <2>1. edits' \in Nat /\ edits + 2 \in Nat /\ Absent \in Nat
    BY <1>3 DEF Edit, Absent
  <2>2. disk' = [disk EXCEPT ![d] = edits + 2] \/ disk' = [disk EXCEPT ![d] = Absent]
    BY <1>3 DEF Edit
  <2>3. disk' \in PerLevel
    BY <2>1, <2>2 DEF PerLevel
  <2> QED
    BY <1>1, <1>3, <2>1, <2>3 DEF Edit, engine, Growth
<1>4. ASSUME UNCHANGED <<disk, edits, calls, rs, gen, cache, maps, configFP, genSeq>>,
             cacheEntries' \in Nat
      PROVE Goal
  BY <1>1, <1>4 DEF Growth
<1>5. ASSUME NEW c \in Callers, Store(c) PROVE Goal
  <2>1. my[c].map \in 1..Len(maps) /\ my[c].key \in Keys /\ my[c].gen \in Nat
        /\ my[c].out \in Resolutions
    BY DEF CallerTypes, CallerOK, CallerStates
  <2>2. [key |-> my[c].key, gen |-> my[c].gen, out |-> my[c].out] \in Entries
    BY <2>1 DEF Entries
  <2>3. maps' \in Seq(SUBSET Entries) /\ Len(maps') = Len(maps)
    BY <2>1, <2>2, <1>5 DEF Store
  <2> QED
    BY <1>1, <1>5, <2>3 DEF Store, env, Growth, hist
<1>6. ASSUME FreshMap, UNCHANGED <<disk, edits, calls, rs, gen, cacheEntries, configFP, genSeq>>
      PROVE Goal
  <2>1. maps' \in Seq(SUBSET Entries) /\ Len(maps') = Len(maps) + 1
    BY <1>6, <1>1 DEF FreshMap
  <2>2. cache' \in 1..Len(maps')
    BY <1>6, <2>1, <1>1 DEF FreshMap
  <2> QED
    BY <1>1, <1>6, <2>1, <2>2 DEF Growth
<1>7. ASSUME NEW c \in Callers, StoreRs(c) PROVE Goal
  <2>1. my[c].found \in SUBSET Levels /\ my[c].lv \in PerLevel
    BY DEF CallerTypes, CallerStates
  <2>2. rs' \in RuleSets /\ rs'.seq = rs.seq + 1
    BY <1>1, <1>7, <2>1 DEF StoreRs, RuleSets
  <2> QED
    BY <1>1, <1>7, <2>2 DEF StoreRs, env, hist, Growth
<1>8. ASSUME NEW c \in Callers, AddGen(c) PROVE Goal
  <2>1. \A g \in 1..gen : genSeq'[g] = genSeq[g]
    BY <1>1, <1>8 DEF AddGen
  <2> QED
    BY <1>1, <1>8, <2>1 DEF AddGen, env, Growth
<1>9. ASSUME NEW c \in Callers, StoreFP(c) PROVE Goal
  <2>1. configFP' \in PerLevel
    BY <1>9 DEF StoreFP, CallerTypes, CallerStates
  <2> QED
    BY <1>1, <1>9, <2>1 DEF StoreFP, env, hist, Growth
<1>10. ASSUME NEW c \in Callers, Step(c) PROVE Goal
  <2>1. CASE \E k \in Keys : CallResolve(c, k) \/ CallOpen(c, k)
    BY <2>1, <1>2 DEF CallResolve, CallOpen, NewCall, hist
  <2>2. CASE CallReload(c)
    BY <2>2, <1>2 DEF CallReload, NewCall
  <2>3. CASE \/ ResolveAfterOpen(c) \/ LoadCache(c) \/ LookupHit(c)
             \/ LookupMiss(c) \/ LoadRs(c) \/ Return(c) \/ Walk(c)
             \/ AncestorStale(c) \/ AncestorFresh(c)
    BY <2>3, <1>2 DEF ResolveAfterOpen, LoadCache, LookupHit, LookupMiss, LoadRs,
       Return, Walk, AncestorStale, AncestorFresh, env, hist
  <2>4. CASE LoadLevel(c) \/ StatLevel(c)
    BY <2>4, <1>2 DEF LoadLevel, StatLevel, env, hist
  <2>5. CASE Count(c) \/ ZeroAfterSwap(c) \/ ZeroCount(c)
    BY <2>5, <1>4 DEF Count, ZeroAfterSwap, ZeroCount, env, hist
  <2>6. CASE Swap(c)
    BY <2>6, <1>2, <1>6 DEF Swap, env, hist, engine
  <2>7. CASE StoreCache(c)
    BY <2>7, <1>6 DEF StoreCache, env, hist
  <2> QED
    BY <1>10, <1>5, <1>7, <1>8, <1>9, <2>1, <2>2, <2>3, <2>4, <2>5, <2>6, <2>7 DEF Step
<1>11. CASE UNCHANGED vars
  BY <1>11, <1>2 DEF vars, engine
<1> QED
  BY <1>3, <1>10, <1>11 DEF Next, Quiet

\* Replacing one caller's locals by well-formed ones keeps CallerTypes.
LEMMA SetCaller ==
  ASSUME TypeOK, Growth, NEW c \in Callers, NEW m,
         my' = [my EXCEPT ![c] = m], CallerOK(m, Len(maps'), gen')
  PROVE  CallerTypes'
<1>1. my' \in [Callers -> CallerStates]
  BY DEF TypeOK, CallerTypes, CallerOK
<1>2. ASSUME NEW d \in Callers PROVE CallerOK(my'[d], Len(maps'), gen')
  <2>1. CASE d = c
    BY <2>1 DEF TypeOK, CallerTypes
  <2>2. CASE d # c
    <3>1. my'[d] = my[d] /\ CallerOK(my[d], Len(maps), gen)
      BY <2>2 DEF TypeOK, CallerTypes
    <3>2. gen \in Nat /\ Len(maps) \in Nat
      BY DEF TypeOK, EngineTypes
    <3> QED
      BY <3>1, <3>2 DEF CallerOK, Growth, CallerStates
  <2> QED
    BY <2>1, <2>2
<1> QED
  BY <1>1, <1>2 DEF CallerTypes

\* A caller that only moves to another label stays well formed.
LEMMA GotoOK ==
  ASSUME NEW m, NEW n \in Nat, NEW g \in Nat, CallerOK(m, n, g), NEW l \in Labels,
         l \in ReloadLabels => m.pc \in ReloadLabels
  PROVE  CallerOK([m EXCEPT !.pc = l], n, g)
BY DEF CallerOK, CallerStates

\* Every step of a caller leaves its locals well formed.
LEMMA CallerStep ==
  ASSUME TypeOK, Growth, NEW c \in Callers, Step(c)
  PROVE  CallerTypes'
<1> DEFINE m == my[c]
           n == Len(maps')
           g == gen'
<1>1. m \in CallerStates /\ my \in [Callers -> CallerStates]
  BY DEF TypeOK, CallerTypes
<1>2. n \in Nat /\ g \in Nat /\ gen \in Nat /\ Len(maps) \in Nat
      /\ gen >= 1 /\ Len(maps) >= 1 /\ n >= Len(maps) /\ g >= gen
  BY DEF TypeOK, EngineTypes, Growth
<1>3. CallerOK(m, n, g)
  BY <1>1, <1>2 DEF TypeOK, CallerTypes, CallerOK, CallerStates
<1>4. CallerOK(Idle, n, g)
  BY <1>2, IdleType DEF CallerOK, Idle, ReloadLabels
<1>5. ASSUME NEW l \in Labels, Goto(c, l), l \in ReloadLabels => m.pc \in ReloadLabels
      PROVE  CallerTypes'
  <2>1. my' = [my EXCEPT ![c] = [m EXCEPT !.pc = l]]
    BY <1>5, <1>1 DEF Goto
  <2>2. CallerOK([m EXCEPT !.pc = l], n, g)
    BY <1>2, <1>3, <1>5, GotoOK
  <2> QED
    BY <2>1, <2>2, SetCaller
<1>6. CASE \E k \in Keys : CallResolve(c, k)
  <2>1. PICK k \in Keys : CallResolve(c, k)
    BY <1>6
  <2> DEFINE u == [Idle EXCEPT !.pc = "loadCache", !.op = "resolve", !.key = k,
                               !.gen = gen, !.floor = genSeq[gen]]
  <2>2. my' = [my EXCEPT ![c] = u]
    BY <2>1 DEF CallResolve
  <2>3. genSeq[gen] \in Nat
    BY DEF TypeOK, EngineTypes, HistoryTypes
  <2>4. u \in CallerStates
    BY <1>2, <2>3, IdleType, Names DEF CallerStates
  <2>5. u.map = Idle.map /\ u.gen = gen /\ u.pc = "loadCache"
    BY IdleType DEF CallerStates
  <2>6. CallerOK(u, n, g)
    BY <1>2, <1>4, <2>4, <2>5 DEF CallerOK, ReloadLabels
  <2> QED
    BY <2>2, <2>6, SetCaller
<1>7. CASE \E k \in Keys : CallOpen(c, k)
  <2>1. PICK k \in Keys : CallOpen(c, k)
    BY <1>7
  <2> DEFINE u == [Idle EXCEPT !.pc = "ancestor", !.op = "open", !.key = k,
                               !.snap = configFP, !.asOf = edits]
  <2>2. my' = [my EXCEPT ![c] = u]
    BY <2>1 DEF CallOpen
  <2>3. configFP \in PerLevel /\ edits \in Nat
    BY DEF TypeOK, EngineTypes
  <2>4. CallerOK(u, n, g)
    BY <1>2, <1>4, <2>3, Names DEF CallerOK, CallerStates, ReloadLabels
  <2> QED
    BY <2>2, <2>4, SetCaller
<1>8. CASE CallReload(c)
  <2> DEFINE u == [Idle EXCEPT !.pc = "walk", !.op = "reload"]
  <2>1. my' = [my EXCEPT ![c] = u]
    BY <1>8 DEF CallReload
  <2>2. Idle.at = 1 /\ Len(LoadOrder) \in Nat /\ Len(LoadOrder) >= 1
    BY EngineConstants DEF Idle
  <2>3. u \in CallerStates
    BY IdleType, Names DEF CallerStates
  <2>4. u.map = Idle.map /\ u.gen = Idle.gen /\ u.at = 1
    BY IdleType, <2>2 DEF CallerStates
  <2>5. CallerOK(u, n, g)
    BY <1>4, <2>2, <2>3, <2>4 DEF CallerOK
  <2> QED
    BY <2>1, <2>5, SetCaller
<1>9. CASE ResolveAfterOpen(c)
  <2> DEFINE u == [m EXCEPT !.pc = "loadCache", !.gen = gen, !.floor = genSeq[gen]]
  <2>1. my' = [my EXCEPT ![c] = u]
    BY <1>9, <1>1 DEF ResolveAfterOpen
  <2>2. genSeq[gen] \in Nat
    BY DEF TypeOK, EngineTypes, HistoryTypes
  <2>3. u \in CallerStates
    BY <1>1, <1>2, <2>2, Names DEF CallerStates
  <2>4. u.map = m.map /\ u.gen = gen /\ u.pc = "loadCache"
    BY <1>1 DEF CallerStates
  <2>5. CallerOK(u, n, g)
    BY <1>2, <1>3, <2>3, <2>4 DEF CallerOK, ReloadLabels
  <2> QED
    BY <2>1, <2>5, SetCaller
<1>10. CASE LoadCache(c)
  <2> DEFINE u == [m EXCEPT !.pc = "lookup", !.map = cache]
  <2>1. my' = [my EXCEPT ![c] = u]
    BY <1>10, <1>1 DEF LoadCache
  <2>2. cache \in 1..n /\ cache \in Nat
    BY <1>2 DEF TypeOK, EngineTypes
  <2>3. u \in CallerStates
    BY <1>1, <1>2, <2>2, Names DEF CallerStates
  <2>4. u.map = cache /\ u.gen = m.gen /\ u.pc = "lookup"
    BY <1>1 DEF CallerStates
  <2>5. CallerOK(u, n, g)
    BY <1>3, <2>2, <2>3, <2>4 DEF CallerOK, ReloadLabels
  <2> QED
    BY <2>1, <2>5, SetCaller
<1>11. CASE LookupHit(c)
  <2>1. PICK e \in maps[m.map] :
          my' = [my EXCEPT ![c].pc = "done", ![c].out = e.out]
    BY <1>11 DEF LookupHit
  <2> DEFINE u == [m EXCEPT !.pc = "done", !.out = e.out]
  <2>2. my' = [my EXCEPT ![c] = u]
    BY <2>1, <1>1
  <2>3. m.map \in 1..Len(maps)
    BY DEF TypeOK, CallerTypes, CallerOK
  <2>4. e \in Entries
    BY <2>1, <2>3 DEF TypeOK, EngineTypes
  <2>5. e.out \in Resolutions
    BY <2>4 DEF Entries
  <2>6. CallerOK(u, n, g)
    BY <1>2, <1>3, <2>5, Names DEF CallerOK, CallerStates, ReloadLabels
  <2> QED
    BY <2>2, <2>6, SetCaller
<1>12. CASE LoadRs(c)
  <2> DEFINE r == RuleSetResolve(rs, m.key)
             u == [m EXCEPT !.pc = "count", !.out = r]
  <2>1. my' = [my EXCEPT ![c] = u]
    BY <1>12, <1>1 DEF LoadRs
  <2>2. r \in Resolutions
    BY <1>1, ResolveType DEF TypeOK, EngineTypes, CallerStates
  <2> HIDE DEF r
  <2>3. CallerOK(u, n, g)
    BY <1>2, <1>3, <2>2, Names DEF CallerOK, CallerStates, ReloadLabels
  <2> QED
    BY <2>1, <2>3, SetCaller
<1>13. CASE Walk(c)
  <2>1. PICK S \in Walks : my' = [my EXCEPT ![c].pc = "load", ![c].at = 1,
                                     ![c].found = S \cup {GlobalDir}]
    BY <1>13 DEF Walk
  <2> DEFINE u == [m EXCEPT !.pc = "load", !.at = 1, !.found = S \cup {GlobalDir}]
  <2>2. my' = [my EXCEPT ![c] = u]
    BY <2>1, <1>1
  <2>3. S \cup {GlobalDir} \in SUBSET Levels
    BY <2>1 DEF Walks, Levels
  <2>4. Len(LoadOrder) \in Nat /\ Len(LoadOrder) >= 1
    BY EngineConstants
  <2>5. u \in CallerStates
    BY <1>1, <2>3, Names DEF CallerStates
  <2>6. u.map = m.map /\ u.gen = m.gen /\ u.at = 1
    BY <1>1 DEF CallerStates
  <2>7. CallerOK(u, n, g)
    BY <1>3, <2>4, <2>5, <2>6 DEF CallerOK
  <2> QED
    BY <2>2, <2>7, SetCaller
<1>14. ASSUME NEW v \in CallerStates, CallerOK(v, n, g), v.pc \in ReloadLabels,
              NEW l \in Labels, my' = [my EXCEPT ![c] = Advance(v, l)]
       PROVE  CallerTypes'
  <2>1. Len(LoadOrder) \in Nat /\ Len(LoadOrder) >= 1
    BY EngineConstants
  <2>2. CASE v.at < Len(LoadOrder)
    <3>1. Advance(v, l) = [v EXCEPT !.at = v.at + 1]
      BY <2>2 DEF Advance, CallerStates
    <3>2. CallerOK([v EXCEPT !.at = v.at + 1], n, g)
      BY <1>14, <2>1, <2>2 DEF CallerOK, CallerStates
    <3> QED
      BY <1>14, <3>1, <3>2, SetCaller
  <2>3. CASE ~(v.at < Len(LoadOrder))
    <3>1. Advance(v, l) = [v EXCEPT !.at = 1, !.pc = l]
      BY <2>3 DEF Advance
    <3> DEFINE w == [v EXCEPT !.at = 1, !.pc = l]
    <3>2. w \in CallerStates /\ w.map = v.map /\ w.gen = v.gen /\ w.at = 1
      BY DEF CallerStates
    <3>3. CallerOK(w, n, g)
      BY <1>14, <2>1, <3>2 DEF CallerOK
    <3> QED
      BY <1>14, <3>1, <3>3, SetCaller
  <2> QED
    BY <2>2, <2>3
<1>15. CASE LoadLevel(c)
  <2> DEFINE d == LoadOrder[m.at]
             x == IF d \in m.found THEN disk[d] ELSE Absent
             v == [m EXCEPT !.lv = [m.lv EXCEPT ![d] = x]]
  <2>1. m.pc = "load" /\ my' = [my EXCEPT ![c] = Advance(v, "storeRs")]
    BY <1>15, Zenon DEF LoadLevel
  <2>2. x \in Nat
    BY <1>1 DEF TypeOK, EngineTypes, PerLevel, CallerStates, Absent
  <2>3. [m.lv EXCEPT ![d] = x] \in PerLevel
    BY <1>1, <2>2 DEF PerLevel, CallerStates
  <2>4. v \in CallerStates /\ CallerOK(v, n, g) /\ v.pc = "load"
    BY <1>1, <1>3, <2>1, <2>3 DEF CallerOK, CallerStates
  <2> QED
    BY <1>14, <2>1, <2>4, Names DEF ReloadLabels
<1>16. CASE StatLevel(c)
  <2> DEFINE d == LoadOrder[m.at]
             x == Fingerprint(m.lv, d)
             v == [m EXCEPT !.snap = [m.snap EXCEPT ![d] = x]]
  <2>1. m.pc = "stat" /\ my' = [my EXCEPT ![c] = Advance(v, "storeFP")]
    BY <1>16, Zenon DEF StatLevel
  <2>2. d \in Levels
    BY SMTT(30), <1>3, <2>1, EngineConstants DEF CallerOK, ReloadLabels
  <2>3. x \in Nat
    BY <2>2 DEF Fingerprint, TypeOK, EngineTypes, PerLevel, Absent
  <2>4. [m.snap EXCEPT ![d] = x] \in PerLevel
    BY <1>1, <2>3 DEF PerLevel, CallerStates
  <2>5. v \in CallerStates /\ CallerOK(v, n, g) /\ v.pc = "stat"
    BY <1>1, <1>3, <2>1, <2>4 DEF CallerOK, CallerStates
  <2> QED
    BY <1>14, <2>1, <2>5, Names DEF ReloadLabels
<1>17. CASE StoreFP(c)
  <2> DEFINE u == [Idle EXCEPT !.pc = "loadGen", !.op = "open",
                               !.key = m.key, !.asOf = m.asOf]
  <2>1. my' = [my EXCEPT ![c] = u] \/ my' = [my EXCEPT ![c] = Idle]
    BY <1>17 DEF StoreFP
  <2>2. CallerOK(u, n, g)
    BY <1>1, <1>2, <1>4, Names DEF CallerOK, CallerStates, ReloadLabels
  <2> QED
    BY <1>4, <2>1, <2>2, SetCaller
<1>18. CASE AncestorStale(c)
  <2> DEFINE u == [m EXCEPT !.pc = "walk", !.at = 1, !.snap = NoLevel]
  <2>1. my' = [my EXCEPT ![c] = u]
    BY <1>18, <1>1 DEF AncestorStale
  <2>2. Len(LoadOrder) \in Nat /\ Len(LoadOrder) >= 1
    BY EngineConstants
  <2>3. u \in CallerStates /\ u.map = m.map /\ u.gen = m.gen /\ u.at = 1
    BY <1>1, IdleType, Names DEF CallerStates
  <2>4. CallerOK(u, n, g)
    BY <1>3, <2>2, <2>3 DEF CallerOK
  <2> QED
    BY <2>1, <2>4, SetCaller
<1>19. CASE AncestorFresh(c)
  <2> DEFINE u == [m EXCEPT !.at = m.at + 1]
             w == [m EXCEPT !.pc = "loadGen", !.at = 1, !.snap = NoLevel]
  <2>1. m.pc = "ancestor" /\ (my' = [my EXCEPT ![c] = u] \/ my' = [my EXCEPT ![c] = w])
    BY <1>19, <1>1 DEF AncestorFresh
  <2>2. CallerOK(u, n, g)
    BY SMTT(30), <1>3, <2>1 DEF CallerOK, CallerStates, ReloadLabels
  <2>3. CallerOK(w, n, g)
    BY <1>3, IdleType, Names DEF CallerOK, CallerStates, ReloadLabels
  <2> QED
    BY <2>1, <2>2, <2>3, SetCaller
<1>20. CASE Return(c)
  BY <1>4, <1>20, SetCaller DEF Return
<1>21. CASE LookupMiss(c) \/ Count(c) \/ Store(c) \/ Swap(c) \/ ZeroAfterSwap(c)
  BY <1>5, <1>21, Names DEF LookupMiss, Count, Store, Swap, ZeroAfterSwap, ReloadLabels
<1>22. CASE StoreRs(c) \/ AddGen(c) \/ StoreCache(c) \/ ZeroCount(c)
  BY <1>5, <1>22, Names DEF StoreRs, AddGen, StoreCache, ZeroCount, ReloadLabels
<1> QED
  BY <1>6, <1>7, <1>8, <1>9, <1>10, <1>11, <1>12, <1>13, <1>15, <1>16, <1>17,
     <1>18, <1>19, <1>20, <1>21, <1>22 DEF Step

\* The history variables keep their types.
LEMMA HistoryStep == TypeOK /\ [Next]_vars => HistoryTypes'
<1> SUFFICES ASSUME TypeOK, [Next]_vars PROVE HistoryTypes'
  OBVIOUS
<1>1. genSeq \in Seq(Nat) /\ Len(genSeq) = gen /\ gen \in Nat /\ rs.seq \in Nat
  BY DEF TypeOK, EngineTypes, HistoryTypes, RuleSets
<1>2. raced' \in BOOLEAN
  <2>1. raced \in BOOLEAN
    BY DEF TypeOK, HistoryTypes
  <2>2. raced' = raced \/ raced' = (raced \/ Reloading)
    BY ZenonT(60) DEF Next, Step, vars, hist, Edit, CallResolve, CallOpen, CallReload,
       ResolveAfterOpen, LoadCache, LookupHit, LookupMiss, LoadRs, Count, Store,
       Swap, ZeroAfterSwap, Return, Walk, LoadLevel, StoreRs, AddGen, StoreCache,
       ZeroCount, StatLevel, StoreFP, AncestorStale, AncestorFresh, Quiet
  <2> QED
    BY <2>1, <2>2
<1>3. CASE \E c \in Callers : AddGen(c)
  <2>1. gen' = gen + 1 /\ genSeq' = Append(genSeq, rs.seq)
    BY <1>3 DEF AddGen
  <2>2. genSeq' \in Seq(Nat) /\ Len(genSeq') = gen'
    BY <1>1, <2>1
  <2> QED
    BY <1>2, <2>2 DEF HistoryTypes
<1>4. CASE UNCHANGED <<gen, genSeq>>
  <2>1. genSeq' \in Seq(Nat) /\ Len(genSeq') = gen'
    BY <1>1, <1>4
  <2> QED
    BY <1>2, <2>1 DEF HistoryTypes
<1>5. (\E c \in Callers : AddGen(c)) \/ UNCHANGED <<gen, genSeq>>
  BY ZenonT(60) DEF Next, Step, vars, hist, engine, Edit, CallResolve, CallOpen, CallReload,
     ResolveAfterOpen, LoadCache, LookupHit, LookupMiss, LoadRs, Count, Store,
     Swap, ZeroAfterSwap, Return, Walk, LoadLevel, StoreRs, StoreCache,
     ZeroCount, StatLevel, StoreFP, AncestorStale, AncestorFresh, Quiet
<1> QED
  BY <1>3, <1>4, <1>5

\* The engine starts well typed: New's rule set, generation 1, an empty map.
LEMMA InitType == Init => TypeOK
<1> SUFFICES ASSUME Init PROVE TypeOK
  OBVIOUS
<1>1. disk \in PerLevel /\ configFP \in PerLevel /\ rs \in RuleSets
  BY DEF Init, PerLevel, RuleSets, Absent
<1>2. maps \in Seq(SUBSET Entries) /\ Len(maps) = 1 /\ gen = 1 /\ cache = 1
  BY DEF Init
<1>3. genSeq \in Seq(Nat) /\ Len(genSeq) = 1
  BY DEF Init
<1>4. EngineTypes
  BY <1>1, <1>2 DEF Init, EngineTypes
<1>5. CallerOK(Idle, 1, 1)
  BY IdleType DEF CallerOK, Idle, ReloadLabels
<1>6. CallerTypes
  BY <1>2, <1>5, IdleType DEF Init, CallerTypes
<1>7. raced \in BOOLEAN
  BY DEF Init
<1>8. HistoryTypes
  BY <1>2, <1>3, <1>7, Zenon DEF HistoryTypes
<1> QED
  BY <1>4, <1>6, <1>8 DEF TypeOK

\* Type correctness of the engine and of every caller's locals: no caller ever
\* holds a map or a generation that does not exist.
THEOREM TypeCorrect == Spec => []TypeOK
<1>1. TypeOK /\ [Next]_vars => TypeOK'
  <2> SUFFICES ASSUME TypeOK, [Next]_vars PROVE TypeOK'
    OBVIOUS
  <2>1. EngineTypes' /\ Growth
    BY EngineStep
  <2>2. HistoryTypes'
    BY HistoryStep
  <2>3. CASE \E c \in Callers : Step(c)
    BY <2>1, <2>2, <2>3, CallerStep DEF TypeOK
  <2>4. CASE UNCHANGED my
    <3>1. \A c \in Callers : CallerOK(my'[c], Len(maps'), gen')
      BY <2>1, <2>4 DEF TypeOK, EngineTypes, CallerTypes, CallerOK, Growth, CallerStates
    <3> QED
      BY <2>1, <2>2, <2>4, <3>1 DEF TypeOK, CallerTypes
  <2> QED
    BY <2>3, <2>4 DEF Next, Edit, Quiet, vars
<1> QED
  BY InitType, <1>1, PTL DEF Spec

(***************************************************************************)
(* The memo.  NoStaleServe speaks of the result a Resolve returns, but a   *)
(* hit returns what some other call stored and a miss what rs held when it *)
(* was loaded.  So the induction needs, besides the types, what rs holds   *)
(* relative to every generation, what every entry of every map was         *)
(* computed from, and what each Resolve in flight has read so far.         *)
(***************************************************************************)
\* Labels at which a Resolve has read gen, and at which it also has a result.
GenRead  == ResolveLabels \ {"loadGen"}
Computed == {"count", "store", "swap", "zeroAfterSwap", "done"}

\* What was published at any generation is no newer than what is installed.
Installed == \A g \in 1..gen : genSeq[g] <= rs.seq

\* A Resolve in flight with locals m: its floor is what its generation
\* published (gs), and a result it holds is at least that new.
Flight(m, gs) ==
  /\ m.pc \in GenRead  => m.floor = gs[m.gen]
  /\ m.pc \in Computed => m.out.seq >= gs[m.gen]

InFlight == \A c \in Callers : Flight(my[c], genSeq)

\* The inductive invariant.
MemoInv == TypeOK /\ Installed /\ CacheFresh /\ InFlight

\* What generations published only refers to rule sets already installed.
LEMMA InstalledStep ==
  ASSUME TypeOK, TypeOK', Installed, Growth, [Next]_vars
  PROVE  Installed'
<1>1. rs.seq \in Nat /\ rs'.seq \in Nat /\ gen \in Nat /\ genSeq \in Seq(Nat) /\ Len(genSeq) = gen
  BY DEF TypeOK, EngineTypes, HistoryTypes, RuleSets
<1>2. CASE \E c \in Callers : AddGen(c)
  <2>1. gen' = gen + 1 /\ genSeq' = Append(genSeq, rs.seq) /\ rs' = rs
    BY <1>2 DEF AddGen
  <2> QED
    BY <1>1, <2>1 DEF Installed
<1>3. CASE UNCHANGED <<gen, genSeq>>
  <2>1. \A g \in 1..gen : genSeq[g] \in Nat
    BY <1>1
  <2> QED
    BY <1>1, <1>3, <2>1 DEF Installed, Growth
<1>4. (\E c \in Callers : AddGen(c)) \/ UNCHANGED <<gen, genSeq>>
  BY ZenonT(60) DEF Next, Step, vars, hist, engine, Edit, CallResolve, CallOpen, CallReload,
     ResolveAfterOpen, LoadCache, LookupHit, LookupMiss, LoadRs, Count, Store,
     Swap, ZeroAfterSwap, Return, Walk, LoadLevel, StoreRs, StoreCache,
     ZeroCount, StatLevel, StoreFP, AncestorStale, AncestorFresh, Quiet
<1> QED
  BY <1>2, <1>3, <1>4

\* Every entry stays at least as new as its generation: the only new entries
\* are those a Resolve stores, under the generation it read first.
LEMMA CacheFreshStep ==
  ASSUME TypeOK, CacheFresh, InFlight, Growth, [Next]_vars
  PROVE  CacheFresh'
<1>1. /\ gen \in Nat /\ gen' \in Nat /\ gen <= gen' /\ Len(maps) \in Nat
      /\ maps \in Seq(SUBSET Entries)
      /\ \A g \in 1..gen : genSeq'[g] = genSeq[g]
  BY DEF TypeOK, EngineTypes, Growth
<1> DEFINE Fresh(e) == e.gen \in 1..gen /\ e.out.seq >= genSeq[e.gen]
<1>2. \A i \in 1..Len(maps) : \A e \in maps[i] : Fresh(e)
  BY DEF CacheFresh
<1>3. ASSUME NEW e, Fresh(e) PROVE e.gen \in 1..gen' /\ e.out.seq >= genSeq'[e.gen]
  BY <1>1, <1>3
<1> HIDE DEF Fresh
<1>4. SUFFICES ASSUME NEW i \in 1..Len(maps'), NEW e \in maps'[i] PROVE Fresh(e)
  BY <1>3, <1>4 DEF CacheFresh
<1>5. CASE \E c \in Callers : Store(c)
  <2>1. PICK c \in Callers : Store(c)
    BY <1>5
  <2> DEFINE x == [key |-> my[c].key, gen |-> my[c].gen, out |-> my[c].out]
  <2>2. my[c].map \in 1..Len(maps) /\ my[c].gen \in 1..gen
    BY DEF TypeOK, CallerTypes, CallerOK
  <2>3. Len(maps') = Len(maps)
    BY <1>1, <2>1 DEF Store
  <2>4. e \in maps[i] \/ e = x
    BY <1>1, <1>4, <2>1, <2>2, <2>3 DEF Store
  <2>5. my[c].out.seq >= genSeq[my[c].gen]
    BY <2>1 DEF Store, InFlight, Flight, Computed
  <2>6. Fresh(x)
    BY <2>2, <2>5 DEF Fresh
  <2> QED
    BY <1>2, <1>4, <2>3, <2>4, <2>6
<1>6. CASE FreshMap
  <2>1. Len(maps') = Len(maps) + 1 /\ maps'[Len(maps) + 1] = {}
        /\ \A j \in 1..Len(maps) : maps'[j] = maps[j]
    BY <1>1, <1>6 DEF FreshMap
  <2>2. i \in 1..Len(maps)
    BY <1>1, <1>4, <2>1
  <2> QED
    BY <1>2, <1>4, <2>1, <2>2
<1>7. CASE UNCHANGED maps
  BY <1>2, <1>4, <1>7
<1>8. (\E c \in Callers : Store(c)) \/ FreshMap \/ UNCHANGED maps
  BY DEF Next, Step, vars, engine, Edit, CallResolve, CallOpen, CallReload,
     ResolveAfterOpen, LoadCache, LookupHit, LookupMiss, LoadRs, Count,
     Swap, ZeroAfterSwap, Return, Walk, LoadLevel, StoreRs, AddGen, StoreCache,
     ZeroCount, StatLevel, StoreFP, AncestorStale, AncestorFresh, Quiet
<1> QED
  BY <1>5, <1>6, <1>7, <1>8

\* A Resolve in flight keeps its promise: it reads gen first, so whatever it
\* finds later, in a map or in rs, is at least as new as its generation.
LEMMA InFlightStep ==
  ASSUME MemoInv, Growth, [Next]_vars
  PROVE  InFlight'
<1> USE DEF MemoInv
<1>1. /\ gen \in Nat /\ gen >= 1 /\ my \in [Callers -> CallerStates]
      /\ \A g \in 1..gen : genSeq'[g] = genSeq[g]
      /\ \A c \in Callers : my[c].gen \in 1..gen /\ my[c].map \in 1..Len(maps)
  BY DEF TypeOK, EngineTypes, CallerTypes, CallerOK, Growth
<1>2. ASSUME NEW d \in Callers, my'[d] = my[d] PROVE Flight(my'[d], genSeq')
  BY <1>1, <1>2 DEF InFlight, Flight
<1>3. ASSUME NEW c \in Callers, Step(c) PROVE Flight(my'[c], genSeq')
  <2> DEFINE m == my[c]
             u == my'[c]
  <2>1. m \in CallerStates /\ Flight(m, genSeq) /\ m.gen \in 1..gen
    BY <1>1 DEF InFlight
  <2>2. ASSUME u.pc \notin GenRead PROVE Flight(u, genSeq')
    BY <2>2 DEF Flight, GenRead, Computed, ResolveLabels
  <2>3. ASSUME u.pc \in GenRead, u.pc \notin Computed, u.gen = gen, u.floor = genSeq[gen]
        PROVE  Flight(u, genSeq')
    BY <1>1, <2>3 DEF Flight
  <2>4. ASSUME m.pc \in GenRead, u.gen = m.gen, u.floor = m.floor,
               u.pc \in Computed => u.out.seq >= genSeq[m.gen]
        PROVE  Flight(u, genSeq')
    BY <1>1, <2>1, <2>4 DEF Flight
  <2>5. CASE \E k \in Keys : CallResolve(c, k)
    <3>1. u.pc = "loadCache" /\ u.gen = gen /\ u.floor = genSeq[gen]
      BY <1>1, <2>5, IdleType DEF CallResolve, CallerStates
    <3> QED
      BY <2>3, <3>1 DEF GenRead, Computed, ResolveLabels
  <2>6. CASE ResolveAfterOpen(c)
    <3>1. u.pc = "loadCache" /\ u.gen = gen /\ u.floor = genSeq[gen]
      BY <1>1, <2>1, <2>6 DEF ResolveAfterOpen, CallerStates
    <3> QED
      BY <2>3, <3>1 DEF GenRead, Computed, ResolveLabels
  <2>7. CASE LoadCache(c)
    <3>1. m.pc = "loadCache" /\ u.pc = "lookup" /\ u.gen = m.gen /\ u.floor = m.floor
      BY <1>1, <2>1, <2>7 DEF LoadCache, CallerStates
    <3> QED
      BY <2>4, <3>1 DEF GenRead, Computed, ResolveLabels
  <2>8. CASE LookupMiss(c)
    <3>1. m.pc = "lookup" /\ u.pc = "loadRs" /\ u.gen = m.gen /\ u.floor = m.floor
      BY <1>1, <2>1, <2>8 DEF LookupMiss, Goto, CallerStates
    <3> QED
      BY <2>4, <3>1 DEF GenRead, Computed, ResolveLabels
  <2>9. CASE LookupHit(c)
    <3>1. PICK e \in maps[m.map] :
            Matches(e, c) /\ my' = [my EXCEPT ![c].pc = "done", ![c].out = e.out]
      BY <2>9 DEF LookupHit
    <3>2. e.gen = m.gen /\ e.out.seq >= genSeq[e.gen]
      BY <1>1, <3>1 DEF Matches, CacheFresh
    <3>3. m.pc = "lookup" /\ u.out = e.out /\ u.gen = m.gen /\ u.floor = m.floor
      BY <1>1, <2>1, <2>9, <3>1 DEF LookupHit, CallerStates
    <3> QED
      BY <2>4, <3>2, <3>3 DEF GenRead, ResolveLabels
  <2>10. CASE LoadRs(c)
    <3>1. RuleSetResolve(rs, m.key).seq = rs.seq
      BY <2>1, ResolveType DEF TypeOK, EngineTypes, CallerStates
    <3>2. m.pc = "loadRs" /\ u.out.seq = rs.seq /\ u.gen = m.gen /\ u.floor = m.floor
      BY <1>1, <2>1, <2>10, <3>1 DEF LoadRs, CallerStates
    <3>3. rs.seq >= genSeq[m.gen]
      <4>1. genSeq[m.gen] <= rs.seq
        BY <2>1 DEF Installed
      <4>2. rs.seq \in Nat
        BY DEF TypeOK, EngineTypes, RuleSets
      <4>3. genSeq \in Seq(Nat) /\ Len(genSeq) = gen
        BY DEF TypeOK, HistoryTypes
      <4>4. genSeq[m.gen] \in Nat
        BY <2>1, <4>3
      <4> QED
        BY <4>1, <4>2, <4>4
    <3> QED
      BY <2>4, <3>2, <3>3 DEF GenRead, ResolveLabels
  <2>11. CASE Count(c) \/ Store(c) \/ Swap(c) \/ ZeroAfterSwap(c)
    <3>1. m.pc \in Computed
      BY <2>11 DEF Count, Store, Swap, ZeroAfterSwap, Computed
    <3>2. u.out = m.out /\ u.gen = m.gen /\ u.floor = m.floor
      BY <1>1, <2>1, <2>11 DEF Count, Store, Swap, ZeroAfterSwap, Goto, CallerStates
    <3> QED
      BY <2>1, <2>4, <3>1, <3>2 DEF Flight, Computed, GenRead, ResolveLabels
  <2>12. CASE \/ \E k \in Keys : CallOpen(c, k)
              \/ CallReload(c) \/ Return(c) \/ StoreFP(c)
    <3>1. u.pc \in {"ancestor", "walk", "idle", "loadGen"}
      <4>1. Idle.pc = "idle"
        BY DEF Idle
      <4>2. CASE (\E k \in Keys : CallOpen(c, k)) \/ CallReload(c)
        BY <1>1, <4>2, IdleType DEF CallOpen, CallReload, CallerStates
      <4>3. CASE Return(c)
        BY <1>1, <4>1, <4>3 DEF Return
      <4>4. CASE StoreFP(c)
        BY <1>1, <4>1, <4>4, IdleType DEF StoreFP, CallerStates
      <4> QED
        BY <2>12, <4>2, <4>3, <4>4
    <3> QED
      BY <2>2, <3>1 DEF GenRead, ResolveLabels
  <2>13. CASE Walk(c) \/ AncestorStale(c) \/ AncestorFresh(c)
    <3>1. u.pc \in {"load", "walk", "ancestor", "loadGen"}
      <4>1. CASE Walk(c) \/ AncestorStale(c)
        BY <1>1, <2>1, <4>1 DEF Walk, AncestorStale, CallerStates
      <4>2. CASE AncestorFresh(c)
        BY <1>1, <2>1, <4>2 DEF AncestorFresh, CallerStates
      <4> QED
        BY <2>13, <4>1, <4>2
    <3> QED
      BY <2>2, <3>1 DEF GenRead, ResolveLabels
  <2>14. CASE StoreRs(c) \/ AddGen(c) \/ StoreCache(c) \/ ZeroCount(c)
    <3>1. u.pc \in ReloadLabels
      BY <1>1, <2>1, <2>14 DEF StoreRs, AddGen, StoreCache, ZeroCount, Goto,
         CallerStates, ReloadLabels
    <3> QED
      BY <2>2, <3>1 DEF GenRead, ResolveLabels, ReloadLabels
  <2>15. CASE LoadLevel(c) \/ StatLevel(c)
    <3>1. u.pc \in {"load", "storeRs", "stat", "storeFP"}
      BY ZenonT(60), <1>1, <2>1, <2>15 DEF LoadLevel, StatLevel, Advance, CallerStates
    <3> QED
      BY <2>2, <3>1 DEF GenRead, ResolveLabels
  <2> QED
    BY <1>3, <2>5, <2>6, <2>7, <2>8, <2>9, <2>10, <2>11, <2>12, <2>13, <2>14,
       <2>15 DEF Step
<1>4. ASSUME NEW c \in Callers, Step(c), NEW d \in Callers, d # c
      PROVE  my'[d] = my[d]
  BY <1>1, <1>4 DEF Step, Goto, CallResolve, CallOpen, CallReload, ResolveAfterOpen,
     LoadCache, LookupHit, LookupMiss, LoadRs, Count, Store, Swap, ZeroAfterSwap,
     Return, Walk, LoadLevel, StoreRs, AddGen, StoreCache, ZeroCount, StatLevel,
     StoreFP, AncestorStale, AncestorFresh
<1>5. CASE \E c \in Callers : Step(c)
  BY <1>2, <1>3, <1>4, <1>5 DEF InFlight
<1>6. CASE UNCHANGED my
  BY <1>2, <1>6 DEF InFlight
<1> QED
  BY <1>5, <1>6 DEF Next, Edit, Quiet, vars

\* MemoInv is an invariant of the engine.
LEMMA MemoInvariant == Spec => []MemoInv
<1>1. Init => MemoInv
  <2> SUFFICES ASSUME Init PROVE MemoInv
    OBVIOUS
  <2>1. gen = 1 /\ genSeq = <<1>> /\ rs.seq = 1 /\ maps = <<{}>>
    BY DEF Init
  <2>2. Installed /\ CacheFresh
    BY <2>1 DEF Installed, CacheFresh
  <2>3. InFlight
    BY DEF Init, InFlight, Flight, Idle, GenRead, Computed, ResolveLabels
  <2> QED
    BY <2>2, <2>3, InitType DEF MemoInv
<1>2. MemoInv /\ TypeOK' /\ [Next]_vars => MemoInv'
  <2> SUFFICES ASSUME MemoInv, TypeOK', [Next]_vars PROVE MemoInv'
    OBVIOUS
  <2>1. Growth
    BY EngineStep DEF MemoInv
  <2> QED
    BY <2>1, InstalledStep, CacheFreshStep, InFlightStep DEF MemoInv
<1> QED
  BY <1>1, <1>2, TypeCorrect, PTL DEF Spec

\* "Never a stale serve": however many goroutines resolve and reload, every
\* Resolve returns a decision computed from a rule set at least as new as the
\* one published when the call started.
THEOREM ResolveNeverStale == Spec => []NoStaleServe
<1>1. MemoInv => NoStaleServe
  <2> SUFFICES ASSUME MemoInv, NEW c \in Callers, my[c].pc = "done"
               PROVE  my[c].out.seq >= my[c].floor
    BY DEF NoStaleServe
  <2> QED
    BY DEF MemoInv, InFlight, Flight, GenRead, Computed, ResolveLabels
<1> QED
  BY <1>1, MemoInvariant, PTL

\* No entry of the memo, in the current map or in one a goroutine still holds,
\* is older than the generation it is stored under.
THEOREM MemoNeverStale == Spec => []CacheFresh
<1>1. MemoInv => CacheFresh
  BY DEF MemoInv
<1> QED
  BY <1>1, MemoInvariant, PTL

(***************************************************************************)
(* What Open sees of an edit.                                              *)
(***************************************************************************)
\* Labels of a Reload that has installed its rule set, and that has read all
\* levels.
Installing == {"addGen", "storeCache", "zeroCount", "stat", "storeFP"}
Loaded == {"storeRs"} \cup Installing

\* What loadLevel reads for a level when a walk found the directories S.
Read(S, d) == IF d \in S THEN disk[d] ELSE Absent

\* No two Reloads overlap.
Single == \A c, d \in Callers : my[c].pc \in ReloadLabels /\ my[d].pc \in ReloadLabels => c = d

\* A Reload in flight: the levels read so far are as on disk, the rule set
\* it installed is what it read, and so are the fingerprints taken so far.
ReloadOK(m) ==
  /\ m.pc \in {"storeRs", "addGen", "storeCache", "zeroCount"} => m.at = 1
  /\ m.pc = "load" => \A i \in 1..(m.at - 1) : m.lv[LoadOrder[i]] = Read(m.found, LoadOrder[i])
  /\ m.pc \in Loaded => \A d \in Levels : m.lv[d] = Read(m.found, d)
  /\ m.pc \in Installing => rs.lv = m.lv /\ rs.found = m.found
  /\ m.pc = "stat" => \A i \in 1..(m.at - 1) : m.snap[LoadOrder[i]] = m.lv[LoadOrder[i]]
  /\ m.pc = "storeFP" => m.snap = m.lv

\* Between a Reload's stores the snapshot is that of the installed rule set.
Synced == (\A c \in Callers : my[c].pc \notin Installing) => configFP = rs.lv

\* The inductive invariant of EditsNoticed.
NoticeInv == ~raced => Single /\ Synced /\ \A c \in Callers : ReloadOK(my[c])

-----------------------------------------------------------------------------
\* What was computed from the installed rule set is what that rule set says.
OutOK(out, k) == out.seq <= rs.seq /\ (out.seq = rs.seq => out = RuleSetResolve(rs, k))

Outs ==
  /\ \A i \in 1..Len(maps) : \A e \in maps[i] : OutOK(e.out, e.key)
  /\ \A c \in Callers : my[c].pc \in Computed => OutOK(my[c].out, my[c].key)

\* An Open in flight, if nobody edited a policy file since it started: going up
\* it has found the files below as in the snapshot it took, which is what is
\* installed unless that is fresh; once it resolves, what is installed is fresh.
Covered(k) == Dirs \cap LevelsOf(k)
OpenOK(m) ==
  /\ m.pc = "ancestor" =>
       /\ \A i \in 1..(m.at - 1) : disk[Chain[m.key][i]] = m.snap[Chain[m.key][i]]
       /\ Dirs \subseteq rs.found =>
            \A d \in Covered(m.key) : rs.lv[d] \in {disk[d], m.snap[d]}
  /\ m.pc \in ResolveLabels /\ Dirs \subseteq rs.found =>
       \A d \in Covered(m.key) : rs.lv[d] = disk[d]

Opens ==
  \A c \in Callers :
    /\ my[c].asOf <= edits
    /\ ~raced /\ my[c].op = "open" /\ my[c].asOf = edits => OpenOK(my[c])

EditInv == TypeOK /\ NoticeInv /\ Outs /\ Opens
-----------------------------------------------------------------------------
(* What one caller's step leaves alone. *)

LEMMA Names2 ==
  /\ \A l : l \in ReloadLabels <=> l \in {"walk", "load"} \cup Loaded
  /\ Installing \subseteq Loaded
  /\ \A l \in {"idle", "ancestor", "walk"} \cup ResolveLabels : l # "load" /\ l \notin Loaded
BY DEF ReloadLabels, ResolveLabels, Loaded, Installing

\* What a caller's step leaves alone.
LEMMA StepFrame ==
  ASSUME TypeOK, NEW c \in Callers, Step(c)
  PROVE  /\ disk' = disk /\ edits' = edits
         /\ \A d \in Callers \ {c} : my'[d] = my[d]
         /\ rs' = rs \/ StoreRs(c)
         /\ configFP' = configFP \/ StoreFP(c)
         /\ ~raced' => ~raced
<1>1. my \in [Callers -> CallerStates]
  BY DEF TypeOK, CallerTypes
<1>2. disk' = disk /\ edits' = edits
  BY DEF Step, CallResolve, CallOpen, CallReload, NewCall, ResolveAfterOpen,
     LoadCache, LookupHit, LookupMiss, LoadRs, Count, Store, Swap, ZeroAfterSwap,
     Return, Walk, LoadLevel, StoreRs, AddGen, StoreCache, ZeroCount, StatLevel,
     StoreFP, AncestorStale, AncestorFresh, env
<1>3. \A d \in Callers \ {c} : my'[d] = my[d]
  BY <1>1 DEF Step, Goto, CallResolve, CallOpen, CallReload, ResolveAfterOpen,
     LoadCache, LookupHit, LookupMiss, LoadRs, Count, Store, Swap, ZeroAfterSwap,
     Return, Walk, LoadLevel, StoreRs, AddGen, StoreCache, ZeroCount, StatLevel,
     StoreFP, AncestorStale, AncestorFresh
<1>4. rs' = rs \/ StoreRs(c)
  BY DEF Step, CallResolve, CallOpen, CallReload, ResolveAfterOpen,
     LoadCache, LookupHit, LookupMiss, LoadRs, Count, Store, Swap, ZeroAfterSwap,
     Return, Walk, LoadLevel, AddGen, StoreCache, ZeroCount, StatLevel,
     StoreFP, AncestorStale, AncestorFresh, engine
<1>5. configFP' = configFP \/ StoreFP(c)
  BY DEF Step, CallResolve, CallOpen, CallReload, ResolveAfterOpen,
     LoadCache, LookupHit, LookupMiss, LoadRs, Count, Store, Swap, ZeroAfterSwap,
     Return, Walk, LoadLevel, StoreRs, AddGen, StoreCache, ZeroCount, StatLevel,
     AncestorStale, AncestorFresh, engine
<1>6. raced' = raced \/ raced' = (raced \/ Reloading)
  BY DEF Step, hist, CallResolve, CallOpen, CallReload,
     ResolveAfterOpen, LoadCache, LookupHit, LookupMiss, LoadRs, Count, Store,
     Swap, ZeroAfterSwap, Return, Walk, LoadLevel, StoreRs, AddGen, StoreCache,
     ZeroCount, StatLevel, StoreFP, AncestorStale, AncestorFresh
<1>7. ~raced' => ~raced
  <2>1. raced \in BOOLEAN
    BY DEF TypeOK, HistoryTypes
  <2> QED
    BY <1>6, <2>1
<1> QED
  BY <1>2, <1>3, <1>4, <1>5, <1>7

\* Where a step may take a caller: into a Reload only where raced takes note of
\* those under way, and to the labels of a Reload only along its statements.
LEMMA StepLabels ==
  ASSUME TypeOK, NEW c \in Callers, Step(c)
  PROVE  \/ my'[c].pc \in {"idle", "ancestor"} \cup ResolveLabels
         \/ my'[c].pc = "walk" /\ raced' = (raced \/ Reloading)
         \/ /\ my[c].pc \in ReloadLabels
            /\ \/ Walk(c) \/ LoadLevel(c) \/ StoreRs(c) \/ AddGen(c) \/ StoreCache(c)
               \/ ZeroCount(c) \/ StatLevel(c)
<1>1. my \in [Callers -> CallerStates] /\ my[c] \in CallerStates
  BY DEF TypeOK, CallerTypes
<1>2. CASE \E k \in Keys : CallResolve(c, k) \/ CallOpen(c, k)
  <2>1. ASSUME NEW k \in Keys, CallResolve(c, k) PROVE my'[c].pc = "loadCache"
    BY <1>1, <2>1, IdleType DEF CallResolve, CallerStates
  <2>2. ASSUME NEW k \in Keys, CallOpen(c, k) PROVE my'[c].pc = "ancestor"
    BY <1>1, <2>2, IdleType DEF CallOpen, CallerStates
  <2> QED
    BY <1>2, <2>1, <2>2 DEF ResolveLabels
<1>3. CASE CallReload(c) \/ AncestorStale(c)
  <2>1. raced' = (raced \/ Reloading)
    BY <1>3 DEF CallReload, AncestorStale
  <2>2. ASSUME CallReload(c) PROVE my'[c].pc = "walk"
    BY <1>1, <2>2, IdleType DEF CallReload, CallerStates
  <2>3. ASSUME AncestorStale(c) PROVE my'[c].pc = "walk"
    BY <1>1, <2>3 DEF AncestorStale, CallerStates
  <2> QED
    BY <1>3, <2>1, <2>2, <2>3
<1>4. CASE \/ ResolveAfterOpen(c) \/ LoadCache(c) \/ LookupMiss(c)
           \/ LoadRs(c) \/ Count(c) \/ Store(c) \/ Swap(c) \/ ZeroAfterSwap(c)
  <2>1. my'[c].pc \in {"loadCache", "lookup", "loadRs", "count", "store", "swap",
                       "zeroAfterSwap", "done"}
    BY <1>1, <1>4 DEF Goto, ResolveAfterOpen, LoadCache, LookupMiss, LoadRs, Count, Store,
       Swap, ZeroAfterSwap, CallerStates
  <2> QED
    BY <2>1 DEF ResolveLabels
<1>5. CASE LookupHit(c)
  <2>1. my'[c].pc = "done"
    BY <1>1, <1>5 DEF LookupHit, CallerStates
  <2> QED
    BY <2>1 DEF ResolveLabels
<1>6. CASE Return(c) \/ StoreFP(c)
  <2>1. my'[c].pc \in {"idle", "loadGen"}
    <3>1. Idle.pc = "idle"
      BY DEF Idle
    <3>2. CASE Return(c)
      BY <1>1, <3>1, <3>2 DEF Return
    <3>3. CASE StoreFP(c)
      BY <1>1, <3>1, <3>3, IdleType DEF StoreFP, CallerStates
    <3> QED
      BY <1>6, <3>2, <3>3
  <2> QED
    BY <2>1 DEF ResolveLabels
<1>7. CASE AncestorFresh(c)
  <2>1. my'[c].pc \in {"ancestor", "loadGen"}
    BY <1>1, <1>7 DEF AncestorFresh, CallerStates
  <2> QED
    BY <2>1 DEF ResolveLabels
<1>8. CASE \/ Walk(c) \/ LoadLevel(c) \/ StoreRs(c) \/ AddGen(c) \/ StoreCache(c)
           \/ ZeroCount(c) \/ StatLevel(c)
  BY <1>8 DEF Walk, LoadLevel, StoreRs, AddGen, StoreCache, ZeroCount, StatLevel, ReloadLabels
<1> QED
  BY <1>2, <1>3, <1>4, <1>5, <1>6, <1>7, <1>8 DEF Step

-----------------------------------------------------------------------------
(* A Reload that nothing overlaps. *)

\* Positions of a loop over LoadOrder.
LEMMA LoopStep ==
  ASSUME NEW m \in CallerStates, m.at \in 1..Len(LoadOrder), NEW l
  PROVE  LET u == Advance(m, l) IN
         /\ u.lv = m.lv /\ u.found = m.found /\ u.snap = m.snap
         /\ \/ u.pc = m.pc /\ u.at = m.at + 1
            \/ u.pc = l /\ u.at = 1 /\ m.at = Len(LoadOrder)
<1>1. Len(LoadOrder) \in Nat
  BY EngineConstants
<1>2. CASE m.at < Len(LoadOrder)
  BY <1>1, <1>2 DEF Advance, CallerStates
<1>3. CASE ~(m.at < Len(LoadOrder))
  BY <1>1, <1>3 DEF Advance, CallerStates
<1> QED
  BY <1>2, <1>3

\* The Reload's own steps.
LEMMA ReloadStep ==
  ASSUME TypeOK, TypeOK', NEW c \in Callers, Step(c), ReloadOK(my[c])
  PROVE  ReloadOK(my[c])'
<1> DEFINE m == my[c]
           u == my'[c]
<1>1. my \in [Callers -> CallerStates] /\ m \in CallerStates /\ u \in CallerStates
  BY DEF TypeOK, CallerTypes
<1>2. disk' = disk /\ (rs' = rs \/ StoreRs(c))
  BY StepFrame
<1>3. \A S, d : Read(S, d)' = Read(S, d)
  BY <1>2 DEF Read
<1>4. \A i \in 1..Len(LoadOrder) : LoadOrder[i] \in Levels
  BY EngineConstants
<1>5. ASSUME u.pc # "load", u.pc \notin Loaded PROVE ReloadOK(my[c])'
  BY <1>5 DEF ReloadOK, Loaded, Installing
<1>6. CASE Walk(c)
  <2>1. u.pc = "load" /\ u.at = 1
    BY <1>1, <1>6 DEF Walk, CallerStates
  <2> QED
    BY <2>1 DEF ReloadOK, Loaded, Installing
<1>7. CASE LoadLevel(c)
  <2> DEFINE d == LoadOrder[m.at]
             v == [m EXCEPT !.lv = [m.lv EXCEPT ![d] = Read(m.found, d)]]
  <2>1. m.pc = "load" /\ u = Advance(v, "storeRs")
    BY <1>1, <1>7 DEF LoadLevel, Read
  <2>2. m.at \in 1..Len(LoadOrder)
    BY <2>1 DEF TypeOK, CallerTypes, CallerOK, ReloadLabels
  <2>3. d \in Levels /\ m.lv \in PerLevel
    BY <1>1, <1>4, <2>2 DEF CallerStates
  <2>4. Read(m.found, d) \in Nat
    BY <2>3 DEF Read, TypeOK, EngineTypes, PerLevel, Absent
  <2>5. /\ v \in CallerStates /\ v.at = m.at /\ v.pc = "load" /\ v.found = m.found
        /\ v.lv = [m.lv EXCEPT ![d] = Read(m.found, d)]
    BY <1>1, <2>1, <2>3, <2>4 DEF CallerStates, PerLevel
  <2> HIDE DEF v
  <2>6. /\ u.lv = v.lv /\ u.found = m.found
        /\ \/ u.pc = "load" /\ u.at = m.at + 1
           \/ u.pc = "storeRs" /\ u.at = 1 /\ m.at = Len(LoadOrder)
    BY <2>1, <2>2, <2>5, LoopStep
  <2>7. \A i \in 1..m.at : u.lv[LoadOrder[i]] = Read(u.found, LoadOrder[i])
    <3>1. \A i \in 1..(m.at - 1) : m.lv[LoadOrder[i]] = Read(m.found, LoadOrder[i])
      BY <2>1 DEF ReloadOK
    <3>2. \A i \in 1..m.at : i = m.at \/ i \in 1..(m.at - 1)
      BY <2>2
    <3> QED
      BY <1>4, <2>2, <2>3, <2>5, <2>6, <3>1, <3>2 DEF PerLevel
  <2>8. CASE u.pc = "load" /\ u.at = m.at + 1
    <3>1. 1..(u.at - 1) = 1..m.at
      BY <2>2, <2>8
    <3> QED
      BY <1>3, <2>7, <2>8, <3>1 DEF ReloadOK, Loaded, Installing
  <2>9. CASE u.pc = "storeRs" /\ u.at = 1 /\ m.at = Len(LoadOrder)
    <3>1. \A e \in Levels : u.lv[e] = Read(u.found, e)
      BY <2>7, <2>9, EngineConstants
    <3> QED
      BY <1>3, <2>9, <3>1 DEF ReloadOK, Installing
  <2> QED
    BY <2>6, <2>8, <2>9
<1>8. CASE StoreRs(c)
  <2>1. /\ m.pc = "storeRs" /\ u.pc = "addGen"
        /\ u.lv = m.lv /\ u.found = m.found /\ u.at = m.at
        /\ rs'.lv = u.lv /\ rs'.found = u.found
    BY <1>1, <1>8 DEF StoreRs, Goto, CallerStates
  <2> QED
    BY <1>3, <2>1 DEF ReloadOK, Loaded, Installing
<1>9. CASE AddGen(c) \/ StoreCache(c)
  <2>1. /\ m.pc \in {"addGen", "storeCache"} /\ u.pc \in {"storeCache", "zeroCount"}
        /\ u.lv = m.lv /\ u.found = m.found /\ u.at = m.at /\ rs' = rs
    BY <1>1, <1>9 DEF AddGen, StoreCache, Goto, CallerStates
  <2> QED
    BY <1>3, <2>1 DEF ReloadOK, Loaded, Installing
<1>10. CASE ZeroCount(c)
  <2>1. /\ m.pc = "zeroCount" /\ u.pc = "stat"
        /\ u.lv = m.lv /\ u.found = m.found /\ u.at = m.at /\ rs' = rs
    BY <1>1, <1>10 DEF ZeroCount, Goto, CallerStates
  <2> QED
    BY <1>3, <2>1 DEF ReloadOK, Loaded, Installing
<1>11. CASE StatLevel(c)
  <2> DEFINE d == LoadOrder[m.at]
             v == [m EXCEPT !.snap = [m.snap EXCEPT ![d] = Fingerprint(m.lv, d)]]
  <2>1. m.pc = "stat" /\ u = Advance(v, "storeFP") /\ rs' = rs
    BY <1>1, <1>11 DEF StatLevel, engine
  <2>2. m.at \in 1..Len(LoadOrder)
    BY <2>1 DEF TypeOK, CallerTypes, CallerOK, ReloadLabels
  <2>3. d \in Levels /\ m.snap \in PerLevel /\ m.lv \in PerLevel
    BY <1>1, <1>4, <2>2 DEF CallerStates
  <2>4. \A e \in Levels : m.lv[e] = Read(m.found, e)
    BY <2>1 DEF ReloadOK, Loaded, Installing
  <2>5. Fingerprint(m.lv, d) = m.lv[d]
    BY <2>3, <2>4 DEF Fingerprint, Read
  <2>6. /\ v \in CallerStates /\ v.at = m.at /\ v.pc = "stat" /\ v.found = m.found /\ v.lv = m.lv
        /\ v.snap = [m.snap EXCEPT ![d] = m.lv[d]]
    BY <1>1, <2>1, <2>3, <2>5 DEF CallerStates, PerLevel
  <2> HIDE DEF v
  <2>7. /\ u.lv = m.lv /\ u.found = m.found /\ u.snap = v.snap
        /\ \/ u.pc = "stat" /\ u.at = m.at + 1
           \/ u.pc = "storeFP" /\ u.at = 1 /\ m.at = Len(LoadOrder)
    BY <2>1, <2>2, <2>6, LoopStep
  <2>8. \A i \in 1..m.at : u.snap[LoadOrder[i]] = u.lv[LoadOrder[i]]
    <3>1. \A i \in 1..(m.at - 1) : m.snap[LoadOrder[i]] = m.lv[LoadOrder[i]]
      BY <2>1 DEF ReloadOK
    <3>2. \A i \in 1..m.at : i = m.at \/ i \in 1..(m.at - 1)
      BY <2>2
    <3> QED
      BY SMTT(30), <1>4, <2>2, <2>3, <2>6, <2>7, <3>1, <3>2 DEF PerLevel
  <2>9. /\ \A e \in Levels : u.lv[e] = Read(u.found, e)
        /\ rs'.lv = u.lv /\ rs'.found = u.found
    BY <2>1, <2>4, <2>7 DEF ReloadOK, Installing
  <2>10. CASE u.pc = "stat" /\ u.at = m.at + 1
    <3>1. 1..(u.at - 1) = 1..m.at
      BY <2>2, <2>10
    <3> QED
      BY <1>3, <2>8, <2>9, <2>10, <3>1 DEF ReloadOK
  <2>11. CASE u.pc = "storeFP" /\ u.at = 1 /\ m.at = Len(LoadOrder)
    <3>1. \A e \in Levels : u.snap[e] = u.lv[e]
      BY <2>8, <2>11, EngineConstants
    <3>2. u.snap = u.lv
      BY <1>1, <3>1 DEF CallerStates, PerLevel
    <3> QED
      BY <1>3, <2>9, <2>11, <3>2 DEF ReloadOK
  <2> QED
    BY <2>7, <2>10, <2>11
<1> QED
  BY <1>5, <1>6, <1>7, <1>8, <1>9, <1>10, <1>11, StepLabels, Names2
\* Every step keeps what a notice owes.
LEMMA NoticeStep ==
  ASSUME TypeOK, TypeOK', NoticeInv, [Next]_vars
  PROVE  NoticeInv'
<1> SUFFICES ASSUME ~raced' PROVE Single' /\ Synced' /\ \A c \in Callers : ReloadOK(my[c])'
  BY DEF NoticeInv
<1>1. CASE \E c \in Callers : Step(c)
  <2>1. PICK c \in Callers : Step(c)
    BY <1>1
  <2>2. /\ disk' = disk
        /\ \A d \in Callers \ {c} : my'[d] = my[d]
        /\ rs' = rs \/ StoreRs(c)
        /\ configFP' = configFP \/ StoreFP(c)
        /\ ~raced
    BY <2>1, StepFrame
  <2>3. Single /\ Synced /\ \A d \in Callers : ReloadOK(my[d])
    BY <2>2 DEF NoticeInv
  <2>4. my \in [Callers -> CallerStates] /\ my' \in [Callers -> CallerStates]
    BY DEF TypeOK, CallerTypes
  <2>5. Single'
    <3>1. my'[c].pc \notin ReloadLabels \/ my[c].pc \in ReloadLabels \/ ~Reloading
      <4>1. raced' = (raced \/ Reloading) => ~Reloading
        BY Zenon
      <4>2. /\ \A l \in {"idle", "ancestor"} \cup ResolveLabels : l \notin ReloadLabels
            /\ "walk" \in ReloadLabels
        BY DEF ResolveLabels, ReloadLabels
      <4> QED
        BY <2>1, <4>1, <4>2, StepLabels
    <3>2. ASSUME NEW d \in Callers, d # c, my'[c].pc \in ReloadLabels PROVE my'[d].pc \notin ReloadLabels
      BY <2>2, <2>3, <3>1, <3>2 DEF Single, Reloading
    <3> QED
      BY <2>2, <2>3, <3>2 DEF Single
  <2>6. ASSUME NEW d \in Callers PROVE ReloadOK(my[d])'
    <3>1. CASE d = c
      BY <2>1, <2>3, <3>1, ReloadStep
    <3>2. CASE d # c
      <4>1. rs' = rs \/ my[d].pc \notin ReloadLabels
        BY <2>2, <2>3, <3>2 DEF StoreRs, Single, ReloadLabels
      <4>2. ReloadOK(my[d]) /\ my'[d] = my[d]
        BY <2>2, <2>3, <3>2
      <4> QED
        BY <2>2, <4>1, <4>2 DEF ReloadOK, Read, ReloadLabels, Loaded, Installing
    <3> QED
      BY <3>1, <3>2
  <2>7. Synced'
    <3> SUFFICES ASSUME \A d \in Callers : my'[d].pc \notin Installing
                 PROVE  configFP' = rs'.lv
      BY DEF Synced
    <3>1. CASE StoreFP(c)
      <4>1. my[c].pc = "storeFP" /\ configFP' = my[c].snap /\ rs' = rs
        BY <3>1 DEF StoreFP
      <4> QED
        BY <2>3, <4>1 DEF ReloadOK, Installing
    <3>2. CASE ~StoreFP(c)
      <4>1. ~StoreRs(c)
        <5>1. StoreRs(c) => my'[c].pc = "addGen"
          BY <2>4 DEF StoreRs, Goto, CallerStates
        <5> QED
          BY <5>1 DEF Installing
      <4>2. my[c].pc \notin Installing
        <5> SUFFICES ASSUME my[c].pc \in Installing PROVE FALSE
          OBVIOUS
        <5>1. AddGen(c) \/ StoreCache(c) \/ ZeroCount(c) \/ StatLevel(c)
          BY <2>1, <3>2 DEF Installing, Step, CallResolve, CallOpen, CallReload, NewCall,
             ResolveAfterOpen, LoadCache, LookupHit, LookupMiss, LoadRs, Count, Store,
             Swap, ZeroAfterSwap, Return, Walk, LoadLevel, StoreRs, AncestorStale,
             AncestorFresh
        <5>2. my'[c].pc \in {"storeCache", "zeroCount", "stat", "storeFP"}
          BY ZenonT(60), <2>4, <5>1 DEF AddGen, StoreCache, ZeroCount, StatLevel, Goto, Advance,
             CallerStates
        <5> QED
          BY <5>2 DEF Installing
      <4>3. rs' = rs /\ configFP' = configFP
        BY <2>2, <3>2, <4>1
      <4> QED
        BY <2>2, <2>3, <4>2, <4>3 DEF Synced
    <3> QED
      BY <3>1, <3>2
  <2> QED
    BY <2>5, <2>6, <2>7
<1>2. CASE \E d \in Levels : Edit(d)
  <2>1. ~raced /\ ~Reloading /\ UNCHANGED <<my, rs, configFP>>
    BY <1>2 DEF Edit, engine
  <2>2. Single /\ Synced
    BY <2>1 DEF NoticeInv
  <2>3. \A c \in Callers : ReloadOK(my[c])'
    BY <2>1 DEF Reloading, ReloadOK, ReloadLabels, Loaded, Installing
  <2> QED
    BY <2>1, <2>2, <2>3 DEF Single, Synced
<1>3. CASE UNCHANGED vars
  BY <1>3 DEF vars, NoticeInv, Single, Synced, ReloadOK, Read
<1> QED
  BY <1>1, <1>2, <1>3 DEF Next, Quiet
-----------------------------------------------------------------------------
(* What was computed from the installed rule set. *)

\* The next rule set has a number of its own.
LEMMA OutKept ==
  ASSUME TypeOK, [Next]_vars, NEW out \in Resolutions, NEW k \in Keys, OutOK(out, k)
  PROVE  OutOK(out, k)'
<1>1. rs.seq \in Nat /\ out.seq \in Nat
  BY DEF TypeOK, EngineTypes, RuleSets, Resolutions
<1>2. rs' = rs \/ rs'.seq = rs.seq + 1
  <2>1. ASSUME NEW c \in Callers, Step(c) PROVE rs' = rs \/ rs'.seq = rs.seq + 1
    <3>1. rs' = rs \/ StoreRs(c)
      BY <2>1, StepFrame
    <3> QED
      BY <3>1 DEF StoreRs
  <2> QED
    BY <2>1 DEF Next, Edit, Quiet, vars, engine
<1> QED
  BY <1>1, <1>2 DEF OutOK, RuleSetResolve

\* The statements of Resolve after which a caller holds a result.
LEMMA IntoComputed ==
  ASSUME TypeOK, NEW c \in Callers, Step(c), my'[c].pc \in Computed
  PROVE  \/ LookupHit(c) \/ LoadRs(c) \/ Count(c) \/ Store(c) \/ Swap(c) \/ ZeroAfterSwap(c)
<1>1. my \in [Callers -> CallerStates] /\ my[c] \in CallerStates
  BY DEF TypeOK, CallerTypes
<1>2. Idle.pc = "idle"
  BY DEF Idle
<1> SUFFICES ASSUME my'[c].pc \notin {"idle", "ancestor", "walk", "load", "storeRs", "stat", "storeFP",
                                     "addGen", "storeCache", "zeroCount", "loadGen", "loadCache",
                                     "lookup", "loadRs"}
             PROVE  \/ LookupHit(c) \/ LoadRs(c)
                    \/ Count(c) \/ Store(c) \/ Swap(c) \/ ZeroAfterSwap(c)
  BY DEF Computed
<1>3. \A k \in Keys : ~CallResolve(c, k) /\ ~CallOpen(c, k)
  <2>1. \A k \in Keys : ~CallResolve(c, k)
    BY ZenonT(60), <1>1, IdleType DEF CallResolve, CallerStates
  <2>2. \A k \in Keys : ~CallOpen(c, k)
    BY ZenonT(60), <1>1, IdleType DEF CallOpen, CallerStates
  <2> QED
    BY <2>1, <2>2
<1>4. ~CallReload(c) /\ ~AncestorStale(c) /\ ~Walk(c)
  BY ZenonT(60), <1>1, IdleType DEF CallReload, AncestorStale, Walk, CallerStates
<1>5. ~ResolveAfterOpen(c) /\ ~LoadCache(c) /\ ~LookupMiss(c)
  BY <1>1 DEF ResolveAfterOpen, LoadCache, LookupMiss, Goto, CallerStates
<1>6. ~AncestorFresh(c)
  BY <1>1 DEF AncestorFresh, CallerStates
<1>7. ~Return(c)
  BY <1>1, <1>2 DEF Return
<1>8. ~StoreFP(c)
  BY ZenonT(60), <1>1, <1>2, IdleType DEF StoreFP, CallerStates
<1>9. ~LoadLevel(c) /\ ~StatLevel(c)
  BY ZenonT(60), <1>1 DEF LoadLevel, StatLevel, Advance, CallerStates
<1>10. ~StoreRs(c) /\ ~AddGen(c) /\ ~StoreCache(c) /\ ~ZeroCount(c)
  BY <1>1 DEF StoreRs, AddGen, StoreCache, ZeroCount, Goto, CallerStates
<1> QED
  BY <1>3, <1>4, <1>5, <1>6, <1>7, <1>8, <1>9, <1>10 DEF Step

\* Every step keeps what answers are like.
LEMMA OutsStep ==
  ASSUME TypeOK, TypeOK', Outs, [Next]_vars
  PROVE  Outs'
<1>1. /\ maps \in Seq(SUBSET Entries) /\ Len(maps) \in Nat
      /\ \A c \in Callers : my[c] \in CallerStates /\ my[c].map \in 1..Len(maps)
      /\ my \in [Callers -> CallerStates]
  BY DEF TypeOK, EngineTypes, CallerTypes, CallerOK
<1> DEFINE Good(e) == OutOK(e.out, e.key)
<1>2. \A i \in 1..Len(maps) : \A e \in maps[i] : e \in Entries /\ Good(e)
  BY <1>1 DEF Outs
<1>3. ASSUME NEW e \in Entries, Good(e) PROVE OutOK(e.out, e.key)'
  BY <1>3, OutKept DEF Entries
<1>4. ASSUME NEW i \in 1..Len(maps'), NEW e \in maps'[i] PROVE OutOK(e.out, e.key)'
  <2> HIDE DEF Good
  <2>1. SUFFICES e \in Entries /\ Good(e)
    BY <1>3
  <2>2. CASE \E c \in Callers : Store(c)
    <3>1. PICK c \in Callers : Store(c)
      BY <2>2
    <3> DEFINE x == [key |-> my[c].key, gen |-> my[c].gen, out |-> my[c].out]
    <3>2. e \in maps[i] \/ e = x
      BY <1>1, <1>4, <3>1 DEF Store
    <3>3. i \in 1..Len(maps)
      BY <1>1, <1>4, <3>1 DEF Store
    <3>4. x \in Entries /\ Good(x)
      BY <1>1, <3>1 DEF Store, Outs, Computed, Good, Entries, CallerStates
    <3> QED
      BY <1>2, <3>2, <3>3, <3>4
  <2>3. CASE FreshMap
    <3>1. Len(maps') = Len(maps) + 1 /\ maps'[Len(maps) + 1] = {}
          /\ \A j \in 1..Len(maps) : maps'[j] = maps[j]
      BY <1>1, <2>3 DEF FreshMap
    <3>2. i \in 1..Len(maps)
      BY <1>1, <1>4, <3>1
    <3> QED
      BY <1>2, <1>4, <3>1, <3>2
  <2>4. CASE UNCHANGED maps
    BY <1>2, <1>4, <2>4
  <2>5. (\E c \in Callers : Store(c)) \/ FreshMap \/ UNCHANGED maps
    BY DEF Next, Step, vars, engine, Edit, CallResolve, CallOpen, CallReload,
       ResolveAfterOpen, LoadCache, LookupHit, LookupMiss, LoadRs, Count,
       Swap, ZeroAfterSwap, Return, Walk, LoadLevel, StoreRs, AddGen, StoreCache,
       ZeroCount, StatLevel, StoreFP, AncestorStale, AncestorFresh, Quiet
  <2> QED
    BY <2>2, <2>3, <2>4, <2>5
<1>5. ASSUME NEW d \in Callers, my'[d].pc \in Computed PROVE OutOK(my[d].out, my[d].key)'
  <2>1. my'[d] \in CallerStates
    BY DEF TypeOK, CallerTypes
  <2>2. SUFFICES OutOK(my'[d].out, my'[d].key)
    BY <2>1, OutKept DEF CallerStates
  <2>3. CASE my'[d] = my[d]
    BY <1>5, <2>3 DEF Outs
  <2>4. CASE LookupHit(d)
    <3>1. PICK e \in maps[my[d].map] : Matches(e, d) /\ my' = [my EXCEPT ![d].pc = "done", ![d].out = e.out]
      BY <2>4 DEF LookupHit
    <3>2. my'[d].out = e.out /\ my'[d].key = e.key
      BY <1>1, <3>1 DEF Matches, CallerStates
    <3> QED
      BY <1>1, <1>2, <3>2
  <2>5. CASE LoadRs(d)
    <3>1. my'[d].out = RuleSetResolve(rs, my[d].key) /\ my'[d].key = my[d].key
      BY <1>1, <2>5 DEF LoadRs, CallerStates
    <3>2. RuleSetResolve(rs, my[d].key).seq = rs.seq /\ rs.seq \in Nat
      BY <1>1, ResolveType DEF TypeOK, EngineTypes, CallerStates, RuleSets
    <3> QED
      BY <3>1, <3>2 DEF OutOK
  <2>6. CASE Count(d) \/ Store(d) \/ Swap(d) \/ ZeroAfterSwap(d)
    <3>1. my[d].pc \in Computed /\ my'[d].out = my[d].out /\ my'[d].key = my[d].key
      BY <1>1, <2>6 DEF Count, Store, Swap, ZeroAfterSwap, Goto, CallerStates, Computed
    <3> QED
      BY <3>1 DEF Outs
  <2>7. \/ my'[d] = my[d] \/ LookupHit(d) \/ LoadRs(d)
        \/ Count(d) \/ Store(d) \/ Swap(d) \/ ZeroAfterSwap(d)
    <3>1. ASSUME NEW c \in Callers, Step(c), d # c PROVE my'[d] = my[d]
      BY <3>1, StepFrame
    <3>2. Step(d) => \/ LookupHit(d) \/ LoadRs(d)
                     \/ Count(d) \/ Store(d) \/ Swap(d) \/ ZeroAfterSwap(d)
      BY <1>5, IntoComputed
    <3> QED
      BY <3>1, <3>2 DEF Next, Edit, Quiet, vars
  <2> QED
    BY <2>3, <2>4, <2>5, <2>6, <2>7
<1> QED
  BY <1>4, <1>5 DEF Outs
-----------------------------------------------------------------------------
(* An Open, from its first stat to its decision. *)

Fresh(k) == Dirs \subseteq rs.found => \A d \in Covered(k) : rs.lv[d] = disk[d]

\* What a Reload that nothing overlapped has installed is fresh.
LEMMA InstalledFresh ==
  ASSUME NEW c \in Callers, ReloadOK(my[c]), my[c].pc \in Installing, NEW k \in Keys
  PROVE  Fresh(k)
BY Names2 DEF ReloadOK, Fresh, Covered, Read, Levels

\* ... and so is what it is about to install.
LEMMA StoreFresh ==
  ASSUME TypeOK, NEW c \in Callers, Step(c), StoreRs(c), ReloadOK(my[c]), NEW k \in Keys
  PROVE  Fresh(k)'
<1>1. disk' = disk
  BY StepFrame
<1>2. my[c].pc = "storeRs" /\ rs'.lv = my[c].lv /\ rs'.found = my[c].found
  BY DEF StoreRs
<1>3. \A d \in Levels : my[c].lv[d] = Read(my[c].found, d)
  BY <1>2 DEF ReloadOK, Loaded
<1> QED
  BY <1>1, <1>2, <1>3 DEF Fresh, Covered, Read, Levels

\* The directories of a path are the ones the walk up goes through.
LEMMA CoveredChain ==
  ASSUME NEW k \in Keys, NEW d \in Covered(k)
  PROVE  \E i \in 1..Len(Chain[k]) : d = Chain[k][i]
BY EngineConstants DEF Covered, LevelsOf

\* The steps of the Open itself.
LEMMA OpenStep ==
  ASSUME TypeOK, NEW c \in Callers, Step(c),
         ~raced, Single, Synced, \A d \in Callers : ReloadOK(my[d]),
         my[c].op = "open" /\ my[c].asOf = edits => OpenOK(my[c]),
         my'[c].op = "open", my'[c].asOf = edits
  PROVE  OpenOK(my[c])'
<1> DEFINE m == my[c]
           u == my'[c]
<1>1. my \in [Callers -> CallerStates] /\ m \in CallerStates /\ m.key \in Keys
  BY DEF TypeOK, CallerTypes, CallerStates
<1>2. disk' = disk /\ (rs' = rs \/ StoreRs(c))
  BY StepFrame
<1>3. CASE \E k \in Keys : CallOpen(c, k)
  <2>1. PICK k \in Keys : CallOpen(c, k)
    BY <1>3
  <2>2. u.pc = "ancestor" /\ u.at = Idle.at /\ u.key = k /\ u.snap = configFP /\ rs' = rs
    BY <1>1, <2>1, IdleType DEF CallOpen, CallerStates, engine
  <2>3. Idle.at = 1
    BY DEF Idle
  <2>4. Fresh(k) \/ configFP = rs.lv
    <3>1. CASE \E d \in Callers : my[d].pc \in Installing
      BY <3>1, InstalledFresh
    <3>2. CASE ~\E d \in Callers : my[d].pc \in Installing
      BY <3>2 DEF Synced
    <3> QED
      BY <3>1, <3>2
  <2> QED
    BY <1>2, <2>2, <2>3, <2>4 DEF OpenOK, Fresh, Covered, ResolveLabels
<1>4. CASE AncestorFresh(c)
  <2>1. /\ m.pc = "ancestor" /\ u.key = m.key /\ u.op = m.op /\ u.asOf = m.asOf /\ rs' = rs
        /\ disk[Chain[m.key][m.at]] = m.snap[Chain[m.key][m.at]]
        /\ \/ u.pc = "ancestor" /\ u.at = m.at + 1 /\ u.snap = m.snap
           \/ u.pc = "loadGen" /\ m.at = Len(Chain[m.key])
    BY <1>1, <1>4 DEF AncestorFresh, Ancestor, CallerStates, engine
  <2>2. OpenOK(m) /\ m.at \in Nat
    BY <1>1, <2>1 DEF CallerStates
  <2>3. \A i \in 1..m.at : disk[Chain[m.key][i]] = m.snap[Chain[m.key][i]]
    <3>1. \A i \in 1..m.at : i = m.at \/ i \in 1..(m.at - 1)
      BY <2>2
    <3> QED
      BY <2>1, <2>2, <3>1 DEF OpenOK
  <2>4. CASE u.pc = "ancestor" /\ u.at = m.at + 1 /\ u.snap = m.snap
    <3>1. 1..(u.at - 1) = 1..m.at
      BY <2>2, <2>4
    <3> QED
      BY <1>2, <2>1, <2>2, <2>3, <2>4, <3>1 DEF OpenOK, Covered, ResolveLabels
  <2>5. CASE u.pc = "loadGen" /\ m.at = Len(Chain[m.key])
    <3>1. \A d \in Covered(m.key) : disk[d] = m.snap[d]
      BY <1>1, <2>3, <2>5, CoveredChain
    <3>2. Fresh(m.key)
      BY <2>1, <2>2, <3>1 DEF OpenOK, Fresh
    <3> QED
      BY <1>2, <2>1, <2>5, <3>2 DEF OpenOK, Fresh, Covered
  <2> QED
    BY <2>1, <2>4, <2>5
<1>5. CASE StoreFP(c)
  <2>1. m.pc = "storeFP" /\ rs' = rs
    BY <1>5 DEF StoreFP
  <2>2. u.pc = "loadGen" /\ u.key = m.key
    <3>1. Idle.op = "none"
      BY DEF Idle
    <3> QED
      BY <1>1, <1>5, <3>1, IdleType DEF StoreFP, CallerStates
  <2>3. Fresh(m.key)
    BY <1>1, <2>1, InstalledFresh DEF Installing
  <2> QED
    BY <1>2, <2>1, <2>2, <2>3 DEF OpenOK, Fresh, Covered
<1>6. CASE m.pc \in ResolveLabels /\ u.key = m.key /\ u.op = m.op /\ u.asOf = m.asOf /\ rs' = rs
           /\ u.pc # "ancestor"
  BY <1>2, <1>6 DEF OpenOK, Covered
<1>7. CASE u.pc \notin {"ancestor"} \cup ResolveLabels
  BY <1>7 DEF OpenOK
<1>8. CASE \/ ResolveAfterOpen(c) \/ LoadCache(c) \/ LookupMiss(c) \/ LookupHit(c)
           \/ LoadRs(c) \/ Count(c) \/ Store(c) \/ Swap(c) \/ ZeroAfterSwap(c)
  <2>1. m.pc \in ResolveLabels /\ rs' = rs
    BY <1>8 DEF ResolveAfterOpen, LoadCache, LookupMiss, LookupHit, LoadRs, Count, Store, Swap,
       ZeroAfterSwap, ResolveLabels, engine
  <2>2. u.key = m.key /\ u.op = m.op /\ u.asOf = m.asOf /\ u.pc # "ancestor"
    <3>1. CASE LookupHit(c)
      BY <1>1, <3>1 DEF LookupHit, CallerStates
    <3>2. CASE \/ ResolveAfterOpen(c) \/ LoadCache(c) \/ LookupMiss(c)
               \/ LoadRs(c) \/ Count(c) \/ Store(c) \/ Swap(c) \/ ZeroAfterSwap(c)
      BY <1>1, <3>2 DEF ResolveAfterOpen, LoadCache, LookupMiss, LoadRs, Count, Store, Swap,
         ZeroAfterSwap, Goto, CallerStates
    <3> QED
      BY <1>8, <3>1, <3>2
  <2> QED
    BY <1>6, <2>1, <2>2
<1>9. CASE Return(c)
  <2>1. u.op = "none"
    BY <1>1, <1>9 DEF Return, Idle
  <2> QED
    BY <2>1
<1>10. CASE \E k \in Keys : CallResolve(c, k)
  <2>1. u.op = "resolve"
    BY <1>1, <1>10, IdleType DEF CallResolve, CallerStates
  <2> QED
    BY <2>1
<1>11. CASE \/ CallReload(c) \/ AncestorStale(c) \/ Walk(c) \/ LoadLevel(c) \/ StoreRs(c) \/ AddGen(c)
            \/ StoreCache(c) \/ ZeroCount(c) \/ StatLevel(c)
  <2>1. u.pc \in ReloadLabels
    <3>1. CASE CallReload(c) \/ AncestorStale(c)
      <4>1. u.pc = "walk"
        BY ZenonT(60), <1>1, <3>1, IdleType DEF CallReload, AncestorStale, CallerStates
      <4> QED
        BY <4>1 DEF ReloadLabels
    <3>2. CASE Walk(c)
      BY <1>1, <3>2 DEF Walk, CallerStates, ReloadLabels
    <3>3. CASE LoadLevel(c) \/ StatLevel(c)
      BY ZenonT(60), <1>1, <3>3 DEF LoadLevel, StatLevel, Advance, CallerStates, ReloadLabels
    <3>4. CASE StoreRs(c) \/ AddGen(c) \/ StoreCache(c) \/ ZeroCount(c)
      BY <1>1, <3>4 DEF StoreRs, AddGen, StoreCache, ZeroCount, Goto, CallerStates, ReloadLabels
    <3> QED
      BY <1>11, <3>1, <3>2, <3>3, <3>4
  <2> QED
    BY <1>7, <2>1 DEF ReloadLabels, ResolveLabels
<1> QED
  BY <1>3, <1>4, <1>5, <1>8, <1>9, <1>10, <1>11 DEF Step

\* When an Open began is known, and no edit was made later than the last one.
LEMMA AsOfStep ==
  ASSUME TypeOK, NEW c \in Callers, Step(c)
  PROVE  my'[c].asOf \in {my[c].asOf, edits, 0}
<1>1. my \in [Callers -> CallerStates] /\ my[c] \in CallerStates
  BY DEF TypeOK, CallerTypes
<1>2. Idle.asOf = 0
  BY DEF Idle
<1>3. CASE \E k \in Keys : CallResolve(c, k)
  BY <1>1, <1>2, <1>3, IdleType DEF CallResolve, CallerStates
<1>4. CASE \E k \in Keys : CallOpen(c, k)
  BY <1>1, <1>2, <1>4, IdleType DEF CallOpen, CallerStates
<1>5. CASE CallReload(c) \/ Return(c) \/ StoreFP(c)
  <2>1. CASE CallReload(c)
    BY <1>1, <1>2, <2>1, IdleType DEF CallReload, CallerStates
  <2>2. CASE Return(c)
    BY <1>1, <1>2, <2>2 DEF Return
  <2>3. CASE StoreFP(c)
    BY <1>1, <1>2, <2>3, IdleType DEF StoreFP, CallerStates
  <2> QED
    BY <1>5, <2>1, <2>2, <2>3
<1>6. CASE LookupHit(c)
  BY <1>1, <1>6 DEF LookupHit, CallerStates
<1>7. CASE Walk(c)
  BY <1>1, <1>7 DEF Walk, CallerStates
<1>8. CASE LoadLevel(c) \/ StatLevel(c)
  <2>1. \A x, l : Advance([my[c] EXCEPT !.lv = x], l).asOf = my[c].asOf
    BY <1>1 DEF Advance, CallerStates
  <2>2. \A x, l : Advance([my[c] EXCEPT !.snap = x], l).asOf = my[c].asOf
    BY <1>1 DEF Advance, CallerStates
  <2> QED
    BY <1>1, <1>8, <2>1, <2>2 DEF LoadLevel, StatLevel
<1>9. CASE \/ ResolveAfterOpen(c) \/ LoadCache(c) \/ LookupMiss(c)
           \/ LoadRs(c) \/ Count(c) \/ Store(c) \/ Swap(c) \/ ZeroAfterSwap(c)
  BY <1>1, <1>9 DEF ResolveAfterOpen, LoadCache, LookupMiss, LoadRs, Count, Store, Swap,
     ZeroAfterSwap, Goto, CallerStates
<1>10. CASE \/ StoreRs(c) \/ AddGen(c) \/ StoreCache(c) \/ ZeroCount(c)
            \/ AncestorStale(c) \/ AncestorFresh(c)
  BY <1>1, <1>10 DEF StoreRs, AddGen, StoreCache, ZeroCount, AncestorStale, AncestorFresh, Goto,
     CallerStates
<1> QED
  BY <1>3, <1>4, <1>5, <1>6, <1>7, <1>8, <1>9, <1>10 DEF Step
\* Every step keeps what an open in flight has found.
LEMMA OpensStep ==
  ASSUME TypeOK, TypeOK', NoticeInv, Opens, [Next]_vars
  PROVE  Opens'
<1>1. edits \in Nat /\ edits' \in Nat /\ my' \in [Callers -> CallerStates]
      /\ \A d \in Callers : my[d].asOf \in Nat /\ my[d] \in CallerStates
  BY DEF TypeOK, EngineTypes, CallerTypes, CallerStates
<1>2. CASE \E c \in Callers : Step(c)
  <2>1. PICK c \in Callers : Step(c)
    BY <1>2
  <2>2. /\ disk' = disk /\ edits' = edits
        /\ \A d \in Callers \ {c} : my'[d] = my[d]
        /\ ~raced' => ~raced
    BY <2>1, StepFrame
  <2>3. ASSUME NEW d \in Callers PROVE my'[d].asOf <= edits'
    <3>1. my'[d].asOf \in {my[d].asOf, edits, 0}
      BY <2>1, <2>2, AsOfStep
    <3>2. my[d].asOf <= edits
      BY DEF Opens
    <3> QED
      BY <1>1, <2>2, <3>1, <3>2
  <2>4. ASSUME NEW d \in Callers, ~raced', my'[d].op = "open", my'[d].asOf = edits'
        PROVE  OpenOK(my[d])'
    <3>1. Single /\ Synced /\ \A e \in Callers : ReloadOK(my[e])
      BY <2>2, <2>4 DEF NoticeInv
    <3>2. my[d].op = "open" /\ my[d].asOf = edits => OpenOK(my[d])
      BY <2>2, <2>4 DEF Opens
    <3>3. CASE d = c
      BY <2>1, <2>2, <2>4, <3>1, <3>2, <3>3, OpenStep
    <3>4. CASE d # c
      <4>1. my'[d] = my[d] /\ OpenOK(my[d])
        BY <2>2, <2>4, <3>2, <3>4
      <4> DEFINE m == my[d]
      <4>2. (rs' = rs) \/ Fresh(m.key)'
        BY <1>1, <2>1, <3>1, StepFrame, StoreFresh DEF CallerStates
      <4> QED
        BY <2>2, <4>1, <4>2 DEF OpenOK, Fresh, Covered
    <3> QED
      BY <3>3, <3>4
  <2> QED
    BY <2>3, <2>4 DEF Opens
<1>3. CASE \E d \in Levels : Edit(d)
  <2>1. my' = my /\ edits' = edits + 1
    BY <1>3 DEF Edit
  <2> QED
    BY <1>1, <2>1 DEF Opens
<1>4. CASE UNCHANGED vars
  BY <1>4 DEF vars, Opens, OpenOK, Covered
<1> QED
  BY <1>2, <1>3, <1>4 DEF Next, Quiet

\* The invariant of edits and notices, in every behaviour.
LEMMA EditInvariant == Spec => []EditInv
<1>1. Init => EditInv
  <2> SUFFICES ASSUME Init PROVE EditInv
    OBVIOUS
  <2>1. Idle.pc = "idle" /\ Idle.op = "none" /\ Idle.asOf = 0
    BY DEF Idle
  <2>2. /\ \A c \in Callers : my[c] = Idle
        /\ maps = <<{}>> /\ edits = 0 /\ configFP = disk /\ rs.lv = disk
    BY DEF Init
  <2>3. NoticeInv
    BY <2>1, <2>2 DEF NoticeInv, Single, Synced, ReloadOK, ReloadLabels, Loaded, Installing
  <2>4. Outs
    BY <2>1, <2>2 DEF Outs, Computed
  <2>5. Opens
    BY <2>1, <2>2 DEF Opens
  <2> QED
    BY <2>3, <2>4, <2>5, InitType DEF EditInv
<1>2. EditInv /\ TypeOK' /\ [Next]_vars => EditInv'
  BY NoticeStep, OutsStep, OpensStep DEF EditInv
<1> QED
  BY <1>1, <1>2, TypeCorrect, PTL DEF Spec

\* The snapshot that Opens compare with is never fresher than the rule set it
\* stands for: between Reloads that nothing overlapped, a policy file edited
\* since it was read differs from its fingerprint.
THEOREM EditsSeen == Spec => []EditsNoticed
<1>1. EditInv => EditsNoticed
  <2> SUFFICES ASSUME EditInv, ~raced, ~Reloading PROVE configFP = rs.lv
    BY DEF EditsNoticed
  <2> QED
    BY Names2 DEF EditInv, NoticeInv, Synced, Reloading
<1> QED
  BY <1>1, EditInvariant, PTL

\* An Open decides by the policy files as they were when it started, whether
\* it reloaded, found nothing stale, or resolved from the memo: an edit takes
\* effect at the next Open without `janusfs update`.
THEOREM OpensSeeEdits == Spec => []OpenSeesEdits
<1>1. EditInv => OpenSeesEdits
  <2> SUFFICES ASSUME EditInv, NEW c \in Callers, my[c].pc = "done", my[c].op = "open", ~raced,
                      edits = my[c].asOf, my[c].out.seq = rs.seq, Dirs \subseteq rs.found,
                      NEW d \in Dirs \cap LevelsOf(my[c].key)
               PROVE  my[c].out.dec[d] = disk[d]
    BY DEF OpenSeesEdits
  <2>1. my[c].out = RuleSetResolve(rs, my[c].key)
    BY DEF EditInv, Outs, Computed, OutOK
  <2>2. rs.lv[d] = disk[d]
    BY DEF EditInv, Opens, OpenOK, Covered, ResolveLabels
  <2>3. d \in Levels
    BY DEF Levels
  <2> QED
    BY <2>1, <2>2, <2>3 DEF RuleSetResolve
<1> QED
  BY <1>1, EditInvariant, PTL
=============================================================================
