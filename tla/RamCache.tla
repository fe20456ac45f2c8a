------------------------------ MODULE RamCache ------------------------------
(***************************************************************************)
(* The RAM cache of redacted bytes, internal/provider/provider.go.         *)
(*                                                                         *)
(* Readers (FUSE read handlers) stat a masked file, build a ContentKey and *)
(* call ReadAt.  A critical section under RamCache.mu is one step; what    *)
(* runs outside the lock - the stat, the rebuild goroutine's read of the   *)
(* file, close(ready), the wait and the copy of the bytes - is a step of   *)
(* its own.  Entries live on after they leave the map: a rebuild goroutine *)
(* or a reader may still hold one.                                         *)
(*                                                                         *)
(* What is abstracted.  The contents of a file are a version number, its   *)
(* (mtime, size, inode) too: an edit changes one of them.  Redacted bytes  *)
(* are the pair (version read, pattern signature); their length is         *)
(* Bytes[version].  A byte slice that zero() overwrote is in `zeroed`.     *)
(***************************************************************************)
EXTENDS Integers, Sequences, FiniteSets

CONSTANTS
  Readers,     \* FUSE read handlers
  Paths,       \* masked files
  Sigs,        \* pattern signatures
  Gens,        \* rule-set generations a key can carry
  Bytes,       \* Bytes[v]: length of the redacted bytes of file version v
  Oversized,   \* file versions larger than --cache-max-file
  MaxBytes,    \* --cache-max-bytes
  MaxEntries,  \* bound: cache misses in a behaviour
  MaxVersion   \* bound: file versions

None   == 0    \* no entry; no version, as after a rebuild that failed

ASSUME RamCacheConstants ==
  /\ Paths # {}
  /\ Sigs # {}
  /\ Gens \subseteq Nat
  /\ Gens # {}
  /\ MaxVersion \in Nat \ {0}
  /\ Bytes \in [1..MaxVersion -> Nat]
  /\ Oversized \subseteq 1..MaxVersion
  /\ MaxBytes \in Nat
  /\ MaxEntries \in Nat

VARIABLES
  file,        \* version of each file on disk
  ents,        \* every entry allocated so far
  zeroed,      \* entries whose bytes were zeroed
  orphans,     \* history: entries detached before their rebuild finished
  entries,     \* RamCache.entries: path -> entry, or None
  lru,         \* RamCache.lru, front first
  curBytes,    \* RamCache.curBytes
  rd           \* each reader's program counter and locals

book == <<entries, lru, curBytes>>
vars == <<file, ents, zeroed, orphans, entries, lru, curBytes, rd>>

(***************************************************************************)
(* Data.                                                                   *)
(***************************************************************************)
Versions == 1..MaxVersion
Keys     == [path : Paths, ver : Versions, gen : Gens]

\* phase: "reading" until redactFile returns, "read" until the result is
\* published under the lock, then "built", and "ready" once ready is closed.
\* ver is what the rebuild read: None before that, and if it failed.
Phases    == {"reading", "read", "built", "ready"}
EntryRecs == [key : Keys, sig : Sigs, phase : Phases, ver : Versions \cup {None}]

Ids == 1..Len(ents)
Built(i) == ents[i].phase \in {"built", "ready"}
Ok(i)    == ents[i].ver # None

\* len(e.bytes); bytes is nil until the entry is built, and if that failed.
LenBytes(i) == IF Ok(i) THEN Bytes[ents[i].ver] ELSE 0

\* What a read returned: an error, or bytes - the version and the patterns
\* they were made with, and whether they had been zeroed, or were stale ones.
NoReply == [kind |-> "none"]
Failure == [kind |-> "error"]
Data(v, s, z, st) ==
  [kind |-> "data", ver |-> v, sig |-> s, zero |-> z, stale |-> st]

SomeKey == CHOOSE k \in Keys : TRUE
Idle ==
  [pc |-> "idle", key |-> SomeKey, sig |-> CHOOSE s \in Sigs : TRUE,
   ent |-> None, stale |-> FALSE, got |-> NoReply]

Answer(r, reply) == rd' = [rd EXCEPT ![r].pc = "done", ![r].got = reply]

(***************************************************************************)
(* The LRU list.                                                           *)
(***************************************************************************)
Without(list, S) ==
  LET kept[n \in 0..Len(list)] ==
        IF n = 0 THEN <<>>
        ELSE IF list[n] \in S THEN kept[n - 1] ELSE Append(kept[n - 1], list[n])
  IN  kept[Len(list)]
PushFront(list, i) == <<i>> \o list

\* touchLocked
Touch(i) == lru' = PushFront(Without(lru, {i}), i)

\* The sum of the w[i], i in S.
Total(w, S) ==
  LET sum[i \in 0..Len(w)] ==
        IF i = 0 THEN 0 ELSE sum[i - 1] + (IF i \in S THEN w[i] ELSE 0)
  IN  sum[Len(w)]

\* The lengths of the entries of S together.
SumBytes(S) == Total([i \in Ids |-> LenBytes(i)], S)

\* The built entries of a list from its n-th element to its back.
BuiltFrom(es, list, n) ==
  {i \in {list[m] : m \in n..Len(list)} : es[i].phase \in {"built", "ready"}}

\* Faulty variant: the budget is tested as if the entry were gone already.
EvictLate(es, list, cur) ==
  {list[n] : n \in {n \in 1..Len(list) :
     /\ list[n] \in BuiltFrom(es, list, n)
     /\ cur - SumBytes(BuiltFrom(es, list, n)) >= MaxBytes}}

\* evictLocked walks from the back and drops built entries until the budget
\* fits: an entry goes if dropping every built one behind it is not enough.
Evicted(es, list, cur) ==
  {list[n] : n \in {n \in 1..Len(list) :
     /\ list[n] \in BuiltFrom(es, list, n)
     /\ cur - SumBytes(BuiltFrom(es, list, n + 1)) > MaxBytes}}

Resident == {entries[p] : p \in Paths} \ {None}

Init ==
  /\ file = [p \in Paths |-> 1]
  /\ ents = <<>>
  /\ zeroed = {}
  /\ orphans = {}
  /\ entries = [p \in Paths |-> None]
  /\ lru = <<>>
  /\ curBytes = 0
  /\ rd = [r \in Readers |-> Idle]

(***************************************************************************)
(* The caller: somebody edits the file; a reader stats it and calls.       *)
(***************************************************************************)
Edit(p) ==
  /\ file[p] < MaxVersion
  /\ file' = [file EXCEPT ![p] = @ + 1]
  /\ UNCHANGED <<ents, zeroed, orphans, book, rd>>

\* contentKey: the stat, in a read whose decision came with the patterns s ...
Stat(r, p, s) ==
  /\ rd[r].pc = "idle"
  /\ rd' = [rd EXCEPT ![r] = [Idle EXCEPT
              !.pc = "stat", !.sig = s,
              !.key = [path |-> p, ver |-> file[p], gen |-> SomeKey.gen]]]
  /\ UNCHANGED <<file, ents, zeroed, orphans, book>>

\* ... and then Generation(), which completes the key.
NewContentKey(r, g) ==
  /\ rd[r].pc = "stat"
  /\ rd' = [rd EXCEPT ![r].pc = "call", ![r].key.gen = g]
  /\ UNCHANGED <<file, ents, zeroed, orphans, book>>

Return(r) ==
  /\ rd[r].pc = "done"
  /\ rd' = [rd EXCEPT ![r] = Idle]
  /\ UNCHANGED <<file, ents, zeroed, orphans, book>>

(***************************************************************************)
(* ReadAt, its four ways through the lock.                                 *)
(***************************************************************************)
\* The entry under the reader's path, and whether it is for the reader's key.
Cached(r) == entries[rd[r].key.path]

\* Faulty variant: only the path is compared.
SameKeyByPath(r) == Cached(r) # None

SameKey(r) == Cached(r) # None /\ ents[Cached(r)].key = rd[r].key

\* The fast path's condition: built, and matchesPatternSig.
Hit(r) == SameKey(r) /\ Built(Cached(r)) /\ ents[Cached(r)].sig = rd[r].sig

\* readOversize: nothing is cached; the file is opened and redacted anew.
ReadOversize(r) ==
  /\ rd[r].pc = "call"
  /\ rd[r].key.ver \in Oversized
  /\ \/ Answer(r, Data(file[rd[r].key.path], rd[r].sig, FALSE, FALSE))
     \/ Answer(r, Failure)
  /\ UNCHANGED <<file, ents, zeroed, orphans, book>>

ReadHit(r) ==
  /\ rd[r].pc = "call"
  /\ rd[r].key.ver \notin Oversized
  /\ Hit(r)
  /\ Touch(Cached(r))
  /\ \/ Ok(Cached(r)) /\ rd' = [rd EXCEPT ![r].pc = "copy", ![r].ent = Cached(r)]
     \/ ~Ok(Cached(r)) /\ Answer(r, Failure)
  /\ UNCHANGED <<file, ents, zeroed, orphans, entries, curBytes>>

\* An entry for this very key that is not built, or has other patterns.
ReadJoin(r) ==
  /\ rd[r].pc = "call"
  /\ rd[r].key.ver \notin Oversized
  /\ SameKey(r)
  /\ ~Hit(r)
  /\ Touch(Cached(r))
  /\ rd' = [rd EXCEPT ![r].pc = "wait", ![r].ent = Cached(r)]
  /\ UNCHANGED <<file, ents, zeroed, orphans, entries, curBytes>>

\* Faulty variant: stale bytes are served whatever their patterns.
StalePrevAnySig(r) == Cached(r) # None /\ Built(Cached(r))

\* stalePrev != nil
StalePrev(r) ==
  /\ Cached(r) # None
  /\ Built(Cached(r))
  /\ ents[Cached(r)].sig = rd[r].sig

\* Faulty variant: the bytes of the entry that is replaced stay accounted.
ForgetReplaced(S) == curBytes

\* curBytes once the entries of S left the list: built ones are subtracted.
Forget(S) == curBytes - SumBytes({i \in S : Built(i)})

\* Detach what is there, install a new entry, start its rebuild.
ReadMiss(r) ==
  LET new == Len(ents) + 1
      old == {Cached(r)} \ {None}
  IN
  /\ rd[r].pc = "call"
  /\ rd[r].key.ver \notin Oversized
  /\ ~SameKey(r)
  /\ Len(ents) < MaxEntries
  /\ ents' = Append(ents, [key |-> rd[r].key, sig |-> rd[r].sig,
                           phase |-> "reading", ver |-> None])
  /\ entries' = [entries EXCEPT ![rd[r].key.path] = new]
  /\ lru' = PushFront(Without(lru, old), new)
  /\ curBytes' = Forget(old)
  /\ orphans' = orphans \cup {i \in old : ~Built(i)}
  /\ rd' = [rd EXCEPT ![r].pc = IF StalePrev(r) THEN "copy" ELSE "wait",
                      ![r].ent = IF StalePrev(r) THEN Cached(r) ELSE new,
                      ![r].stale = StalePrev(r)]
  /\ UNCHANGED <<file, zeroed>>

(***************************************************************************)
(* rebuild, the goroutine of entry i.                                      *)
(***************************************************************************)
\* redactFile: open, read, redact.  It may fail.
RedactFile(i) ==
  /\ ents[i].phase = "reading"
  /\ \E v \in {file[ents[i].key.path], None} :
       ents' = [ents EXCEPT ![i].phase = "read", ![i].ver = v]
  /\ UNCHANGED <<file, zeroed, orphans, book, rd>>

\* Under the lock: publish the result, then evictLocked.
Publish(i) ==
  LET es   == [ents EXCEPT ![i].phase = "built"]
      cur  == curBytes + LenBytes(i)
      gone == Evicted(es, lru, cur)
  IN
  /\ ents[i].phase = "read"
  /\ ents' = es
  /\ entries' = [p \in Paths |-> IF entries[p] \in gone THEN None ELSE entries[p]]
  /\ lru' = Without(lru, gone)
  /\ curBytes' = cur - SumBytes(gone)
  /\ zeroed' = zeroed \cup gone
  /\ UNCHANGED <<file, orphans, rd>>

CloseReady(i) ==
  /\ ents[i].phase = "built"
  /\ ents' = [ents EXCEPT ![i].phase = "ready"]
  /\ UNCHANGED <<file, zeroed, orphans, book, rd>>

(***************************************************************************)
(* waitAndServe and copyAt.                                                *)
(***************************************************************************)
\* <-e.ready: fail if the rebuild did, or if it was for other patterns.
WaitAndServe(r) ==
  LET good == Ok(rd[r].ent) /\ ents[rd[r].ent].sig = rd[r].sig
  IN
  /\ rd[r].pc = "wait"
  /\ ents[rd[r].ent].phase = "ready"
  /\ \/ good /\ rd' = [rd EXCEPT ![r].pc = "copy"]
     \/ ~good /\ Answer(r, Failure)
  /\ UNCHANGED <<file, ents, zeroed, orphans, book>>

\* Faulty variant: no timer, only <-e.ready.
NeverGiveUp(r) == FALSE /\ UNCHANGED vars

\* <-time.After(rebuildTimeout) or <-ctx.Done()
GiveUp(r) ==
  /\ rd[r].pc = "wait"
  /\ Answer(r, Failure)
  /\ UNCHANGED <<file, ents, zeroed, orphans, book>>

\* copyAt, without the lock.  If zero() has run, or runs meanwhile, the copy
\* holds zeros: that read is Data with zero = TRUE, the other outcome of the
\* race is the copy made before zero().
CopyAt(r) ==
  /\ rd[r].pc = "copy"
  /\ Answer(r, Data(ents[rd[r].ent].ver, ents[rd[r].ent].sig,
                    rd[r].ent \in zeroed, rd[r].stale))
  /\ UNCHANGED <<file, ents, zeroed, orphans, book>>

(***************************************************************************)
(* Invalidate and InvalidateAll.                                           *)
(***************************************************************************)
\* Faulty variant: the list keeps the element of an entry that is building.
DropBuiltOnly(S) ==
  /\ entries' = [p \in Paths |-> IF entries[p] \in S THEN None ELSE entries[p]]
  /\ lru' = Without(lru, {i \in S : Built(i)})
  /\ curBytes' = Forget(S)
  /\ zeroed' = zeroed \cup {i \in S : Built(i)}
  /\ orphans' = orphans \cup {i \in S : ~Built(i)}
  /\ UNCHANGED <<file, ents, rd>>

\* invalidateLocked for each entry of S.
Drop(S) ==
  /\ entries' = [p \in Paths |-> IF entries[p] \in S THEN None ELSE entries[p]]
  /\ lru' = Without(lru, S)
  /\ curBytes' = Forget(S)
  /\ zeroed' = zeroed \cup {i \in S : Built(i)}
  /\ orphans' = orphans \cup {i \in S : ~Built(i)}
  /\ UNCHANGED <<file, ents, rd>>

Invalidate(p) == entries[p] # None /\ Drop({entries[p]})

InvalidateAll == Resident # {} /\ Drop(Resident)

(***************************************************************************)
(* The specification.                                                      *)
(***************************************************************************)
ReadStep(r) ==
  \/ ReadOversize(r) \/ ReadHit(r) \/ ReadJoin(r) \/ ReadMiss(r)
  \/ WaitAndServe(r) \/ GiveUp(r) \/ CopyAt(r)

Rebuild(i) == RedactFile(i) \/ Publish(i) \/ CloseReady(i)

\* Where a behaviour of the model may end: it has used up its cache misses.
Exhausted == Len(ents) = MaxEntries /\ UNCHANGED vars

Next ==
  \/ \E p \in Paths : Edit(p) \/ Invalidate(p)
  \/ InvalidateAll
  \/ \E r \in Readers, p \in Paths, s \in Sigs : Stat(r, p, s)
  \/ \E r \in Readers, g \in Gens : NewContentKey(r, g)
  \/ \E r \in Readers : ReadStep(r) \/ Return(r)
  \/ \E i \in Ids : Rebuild(i)
  \/ Exhausted

Spec == Init /\ [][Next]_vars

\* A goroutine that can run does, and a timer fires; a rebuild may hang in
\* open or read for ever, so it gets no fairness.
FairSpec == Spec /\ \A r \in Readers : WF_vars(ReadStep(r))

(***************************************************************************)
(* Properties.                                                             *)
(***************************************************************************)
Replies == {NoReply, Failure} \cup
  [kind : {"data"}, ver : Versions \cup {None}, sig : Sigs,
   zero : BOOLEAN, stale : BOOLEAN]

ReaderRecs ==
  [pc : {"idle", "stat", "call", "wait", "copy", "done"}, key : Keys, sig : Sigs,
   ent : Nat, stale : BOOLEAN, got : Replies]

\* The map and the list hold the same entries, each once and under its own
\* path, however misses, evictions and invalidations interleave with the
\* rebuilds that finish late: otherwise an entry could never be evicted, or
\* lruElem would be removed twice.
LruMatchesEntries ==
  /\ {lru[n] : n \in 1..Len(lru)} = Resident
  /\ Len(lru) = Cardinality(Resident)
  /\ \A p \in Paths : entries[p] # None => ents[entries[p]].key.path = p

\* curBytes is the length of the resident built entries plus that of the
\* rebuilds that finished after their entry had been replaced or invalidated:
\* rebuild adds those too, and nothing ever subtracts them.
Accounting ==
  curBytes = SumBytes({i \in Resident : Built(i)})
             + SumBytes({i \in orphans : Built(i)})

\* --cache-max-bytes bounds what the map keeps alive, after every critical
\* section, even though curBytes may be far too high.
BudgetRespected == SumBytes({i \in Resident : Built(i)}) <= MaxBytes

\* ReadAt never serves bytes made with another pattern set than the caller's,
\* whether they were a hit, waited for, or stale: redaction is never weaker
\* than the decision the read was made under.
NoMismatchedServe ==
  \A r \in Readers :
    rd[r].pc = "done" /\ rd[r].got.kind = "data" => rd[r].got.sig = rd[r].sig

\* ContentKey, "the authoritative change detector": bytes that are not served
\* as stale ones were read from the file at or after the version the caller's
\* stat saw.
FreshServe ==
  \A r \in Readers :
    /\ rd[r].pc = "done"
    /\ rd[r].got.kind = "data"
    /\ ~rd[r].got.stale
    => rd[r].got.ver >= rd[r].key.ver

\* rebuildTimeout: no reader hangs on a wedged rebuild; every call returns.
ReadReturns == \A r \in Readers : rd[r].pc = "wait" ~> rd[r].pc = "done"
=============================================================================
