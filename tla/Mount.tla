------------------------------- MODULE Mount --------------------------------
(***************************************************************************)
(* File handles of the FUSE adapter, internal/mount, over the engine and   *)
(* the cache they share: Open and Create, reads and writes through the     *)
(* three kinds of handle, and the reload of cmd/janusfs/runtime.go that    *)
(* runs beside them.                                                       *)
(*                                                                         *)
(* The cache is RamCache, every step of it; Readers are the handler        *)
(* threads, each with at most one file open.  The engine is reduced to     *)
(* what Engine shows of it: rule sets are numbered as they are installed,  *)
(* pub is the one installed when the current generation began, and a       *)
(* Resolve answers by some rule set from pub at its start to rs at its end *)
(* (NoStaleServe there).  reloadIfStale is that same reload, run by some   *)
(* Open; here any thread may run it, at any time.  The files are not       *)
(* .janusfs.yml files, whose writes Open and Create refuse beforehand.     *)
(***************************************************************************)
EXTENDS RamCache

CONSTANT
  Rules        \* Rules[n][p]: what the n-th rule set says about file p

VARIABLES
  rs,          \* Engine.rs: number of the installed rule set
  gen,         \* Engine.gen
  pub,         \* history: the rule set installed when gen was last bumped
  flush,       \* reloads that have still to call InvalidateAll
  fd           \* each thread's handle and the call it is in

rules     == <<rs, gen, pub, flush>>
mountVars == <<vars, rs, gen, pub, flush, fd>>

\* A rule set's decision: "allowed", "hidden", or masked with a pattern set.
Decisions == {"allowed", "hidden"} \cup Sigs

ASSUME MountConstants ==
  /\ Rules \in Seq([Paths -> Decisions])
  /\ Len(Rules) > 0
  /\ Gens = 1..Len(Rules)
  /\ {"allowed", "hidden"} \cap Sigs = {}

Kinds == {"none", "masked", "revocable", "created"}
Pcs   == {"idle", "open", "create", "read", "write", "raw", "cache"}
Outs  == {"none", "ok", "raw", "wrote", "eacces", "eio"}

Closed ==
  [kind |-> "none", path |-> CHOOSE p \in Paths : TRUE, writable |-> FALSE,
   pc |-> "idle", floor |-> 1, out |-> "none"]

MountInit ==
  /\ Init
  /\ rs = 1
  /\ gen = 1
  /\ pub = 1
  /\ flush = 0
  /\ fd = [r \in Readers |-> Closed]

(***************************************************************************)
(* mountRuntime.reload: Engine.Reload, whose effect on a Resolve is these  *)
(* two stores, then InvalidateAll.  Reloads may overlap.                   *)
(***************************************************************************)
StoreRs ==
  /\ rs < Len(Rules)
  /\ rs' = rs + 1
  /\ UNCHANGED <<vars, gen, pub, flush, fd>>

AddGen ==
  /\ gen < rs
  /\ gen' = gen + 1
  /\ pub' = rs
  /\ flush' = flush + 1
  /\ UNCHANGED <<vars, rs, fd>>

Flush ==
  /\ flush > 0
  /\ flush' = flush - 1
  /\ InvalidateAll \/ (Resident = {} /\ UNCHANGED vars)
  /\ UNCHANGED <<rs, gen, pub, fd>>

(***************************************************************************)
(* Handlers.  A handler begins, and later gets its decision: resolve(),    *)
(* which saw at least the rule set published when the handler began.       *)
(***************************************************************************)
Begin(r, label) ==
  /\ fd[r].pc = "idle"
  /\ fd' = [fd EXCEPT ![r].pc = label, ![r].floor = pub, ![r].out = "none"]
  /\ UNCHANGED <<vars, rules>>

\* Faulty variant: whatever was ever decided about the file.
ResolveEver(r) == {Rules[n][fd[r].path] : n \in 1..rs}

Resolve(r) == {Rules[n][fd[r].path] : n \in fd[r].floor..rs}

Reply(r, out) == fd' = [fd EXCEPT ![r].pc = "idle", ![r].out = out]
Goto(r, label) == fd' = [fd EXCEPT ![r].pc = label]

\* Open of a file, with or without write intent, and Create of a name.
CallOpen(r, p, w) ==
  /\ fd[r].kind = "none"
  /\ fd[r].pc = "idle"
  /\ fd' = [fd EXCEPT ![r] = [Closed EXCEPT
              !.path = p, !.writable = w, !.pc = "open", !.floor = pub]]
  /\ UNCHANGED <<vars, rules>>

CallCreate(r, p) ==
  /\ fd[r].kind = "none"
  /\ fd[r].pc = "idle"
  /\ fd' = [fd EXCEPT ![r] = [Closed EXCEPT
              !.path = p, !.writable = TRUE, !.pc = "create", !.floor = pub]]
  /\ UNCHANGED <<vars, rules>>

Opened(r, kind) ==
  fd' = [fd EXCEPT ![r].pc = "idle", ![r].kind = kind, ![r].out = "ok"]

\* HIDDEN is refused, MASKED too if write is intended; MASKED opens a virtual
\* handle and ALLOWED the real file, wrapped in a revocableHandle; opening
\* the real file may fail.
Open(r) ==
  /\ fd[r].pc = "open"
  /\ \E d \in Resolve(r) :
       \/ d = "hidden" /\ Reply(r, "eacces")
       \/ d \in Sigs /\ fd[r].writable /\ Reply(r, "eacces")
       \/ d \in Sigs /\ ~fd[r].writable /\ Opened(r, "masked")
       \/ d = "allowed" /\ Opened(r, "revocable")
       \/ d = "allowed" /\ Reply(r, "eio")
  /\ UNCHANGED <<vars, rules>>

\* gate(denyNonAllowed, d); LoopbackNode.Create's handle is returned as it is.
Create(r) ==
  /\ fd[r].pc = "create"
  /\ \E d \in Resolve(r) :
       \/ d # "allowed" /\ Reply(r, "eacces")
       \/ d = "allowed" /\ Opened(r, "created")
       \/ d = "allowed" /\ Reply(r, "eio")
  /\ UNCHANGED <<vars, rules>>

Release(r) ==
  /\ fd[r].kind # "none"
  /\ fd[r].pc = "idle"
  /\ fd' = [fd EXCEPT ![r] = Closed]
  /\ UNCHANGED <<vars, rules>>

CallRead(r)  == fd[r].kind # "none" /\ Begin(r, "read")

\* A masked handle has no Write method.
CallWrite(r) == fd[r].kind \in {"revocable", "created"} /\ fd[r].writable
                /\ Begin(r, "write")

(***************************************************************************)
(* revocableHandle: stillAllowed, then the LoopbackFile.                   *)
(***************************************************************************)
\* Faulty variant: the embedded LoopbackFile's own Read.
UncheckedRead(r) ==
  /\ fd[r].pc = "read"
  /\ fd[r].kind = "revocable"
  /\ Goto(r, "raw")
  /\ UNCHANGED <<vars, rules>>

RevocableRead(r) ==
  /\ fd[r].pc = "read"
  /\ fd[r].kind = "revocable"
  /\ \E d \in Resolve(r) :
       \/ d # "allowed" /\ Reply(r, "eacces")
       \/ d = "allowed" /\ Goto(r, "raw")
  /\ UNCHANGED <<vars, rules>>

RevocableWrite(r) ==
  /\ fd[r].pc = "write"
  /\ fd[r].kind = "revocable"
  /\ \E d \in Resolve(r) :
       \/ d # "allowed" /\ Reply(r, "eacces") /\ UNCHANGED vars
       \/ d = "allowed" /\ Reply(r, "wrote") /\ Edit(fd[r].path)
       \/ d = "allowed" /\ Reply(r, "eio") /\ UNCHANGED vars
  /\ UNCHANGED rules

\* The handle Create returned: LoopbackFile.Read and Write, nothing else.
CreatedRead(r) ==
  /\ fd[r].pc = "read"
  /\ fd[r].kind = "created"
  /\ Goto(r, "raw")
  /\ UNCHANGED <<vars, rules>>

CreatedWrite(r) ==
  /\ fd[r].pc = "write"
  /\ fd[r].kind = "created"
  /\ \/ Reply(r, "wrote") /\ Edit(fd[r].path)
     \/ Reply(r, "eio") /\ UNCHANGED vars
  /\ UNCHANGED rules

\* The bytes of the real file, through the handle's fd or by readRaw.
ReadRaw(r) ==
  /\ fd[r].pc = "raw"
  /\ Reply(r, "raw") \/ Reply(r, "eio")
  /\ UNCHANGED <<vars, rules>>

(***************************************************************************)
(* maskedHandle.Read.                                                      *)
(***************************************************************************)
\* Faulty variant: the patterns the handle was opened with, say.
MaskedReadOldPatterns(r) ==
  /\ fd[r].pc = "read"
  /\ fd[r].kind = "masked"
  /\ \E s \in ResolveEver(r) \cap Sigs :
       Stat(r, fd[r].path, s) /\ Goto(r, "cache")
  /\ UNCHANGED rules

\* Resolve again; MASKED goes on to contentKey's stat, with these patterns.
\* The stat fails if the file is gone.
MaskedRead(r) ==
  /\ fd[r].pc = "read"
  /\ fd[r].kind = "masked"
  /\ \E d \in Resolve(r) :
       \/ d = "hidden" /\ Reply(r, "eacces") /\ UNCHANGED vars
       \/ d = "allowed" /\ Goto(r, "raw") /\ UNCHANGED vars
       \/ d \in Sigs /\ Reply(r, "eio") /\ UNCHANGED vars
       \/ d \in Sigs /\ Goto(r, "cache") /\ Stat(r, fd[r].path, d)
  /\ UNCHANGED rules

\* Generation(): not necessarily the one the decision was made under.
ContentKey(r) ==
  /\ NewContentKey(r, gen)
  /\ UNCHANGED <<rules, fd>>

\* Provider.ReadAt, a step of it.
ReadAt(r) ==
  /\ ReadStep(r)
  /\ UNCHANGED <<rules, fd>>

MaskedReply(r) ==
  /\ fd[r].pc = "cache"
  /\ Return(r)
  /\ Reply(r, IF rd[r].got.kind = "data" THEN "ok" ELSE "eio")
  /\ UNCHANGED rules

(***************************************************************************)
(* The specification.                                                      *)
(***************************************************************************)
Reload == StoreRs \/ AddGen \/ Flush

Handler(r) ==
  \/ \E p \in Paths, w \in BOOLEAN : CallOpen(r, p, w)
  \/ \E p \in Paths : CallCreate(r, p)
  \/ Open(r) \/ Create(r) \/ Release(r)
  \/ CallRead(r) \/ CallWrite(r)
  \/ RevocableRead(r) \/ RevocableWrite(r) \/ CreatedRead(r) \/ CreatedWrite(r)
  \/ ReadRaw(r)
  \/ MaskedRead(r) \/ ContentKey(r) \/ ReadAt(r) \/ MaskedReply(r)

\* The cache's rebuild goroutines, and somebody who edits the real file.
Background ==
  /\ (\E i \in Ids : Rebuild(i)) \/ (\E p \in Paths : Edit(p))
  /\ UNCHANGED <<rules, fd>>

\* Where a behaviour of the model may end: at the bounds on misses or edits.
MountExhausted ==
  /\ Len(ents) = MaxEntries \/ \E p \in Paths : file[p] = MaxVersion
  /\ UNCHANGED mountVars

MountNext ==
  \/ Reload
  \/ \E r \in Readers : Handler(r)
  \/ Background
  \/ MountExhausted

MountSpec == MountInit /\ [][MountNext]_mountVars

(***************************************************************************)
(* Properties.                                                             *)
(***************************************************************************)
\* The shape of the engine's counters and of the handles.
MountTypeOK ==
  /\ rs \in Gens /\ gen \in Gens /\ pub \in Gens /\ flush \in Nat
  /\ gen <= rs /\ gen <= pub /\ pub <= rs
  /\ fd \in [Readers -> [kind : Kinds, path : Paths, writable : BOOLEAN,
                         pc : Pcs, floor : Gens, out : Outs]]

\* The decisions about the file of r's handle by the rule sets that were in
\* force at some moment of the call r is in, or has just made.
InForce(r) == {Rules[n][fd[r].path] : n \in fd[r].floor..rs}

\* A reload applies to handles that are open: through a handle that Open
\* returned, real bytes are read or written only if the file was ALLOWED at
\* some moment of that very call.
RevokedOnReload ==
  \A r \in Readers :
    fd[r].out \in {"raw", "wrote"} /\ fd[r].kind # "created"
      => "allowed" \in InForce(r)

\* Bytes a masked read serves, cached, waited for or stale, were redacted with
\* the patterns of a rule set in force during that read: after a reload that
\* changes the patterns nobody is served under the old ones.
MaskedByCurrentRules ==
  \A r \in Readers :
    rd[r].pc = "done" /\ rd[r].got.kind = "data" => rd[r].got.sig \in InForce(r)
=============================================================================
