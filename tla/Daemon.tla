------------------------------- MODULE Daemon -------------------------------
(***************************************************************************)
(* The life of a mount across processes: daemons that start, resume, serve *)
(* requests, shut down and crash (daemon.go, runtime.go); the watchdog     *)
(* each one spawns (watchdog.go); the umount command, which works directly *)
(* when no daemon answers (umount.go); and what they share: the control    *)
(* socket, the dashboard port, the kernel's mount table, the pidfiles and  *)
(* the registry mounts.json, which is read, changed and rewritten in place *)
(* (config.go).                                                            *)
(*                                                                         *)
(* A source and the mountpoint ResolveMountpoint derives from it are one   *)
(* value.  A mount whose process is dead stays in the kernel's table.      *)
(***************************************************************************)
EXTENDS Naturals, FiniteSets

CONSTANTS
    Mps,        \* mountpoints, each with its source
    Starts,     \* bound: how many daemon processes are started, one by one
    MaxReqs,    \* bound: mount and umount commands
    MaxFaults   \* bound: operations of the operating system that fail

\* No mountpoint: mountpoints are absolute paths.
NoMp == "none"

ASSUME DaemonAssumption ==
    /\ NoMp \notin Mps
    /\ Starts \in Nat \ {0} /\ MaxReqs \in Nat /\ MaxFaults \in Nat

Pids == 1 .. Starts

VARIABLES
    pc,        \* [Pids -> where runDaemon is]
    op,        \* [Pids -> the request that holds opsMu]
    mounts,    \* [Pids -> d.mounts]
    todo,      \* [Pids -> records resume still has to mount, runtimes shutdown still has to stop]
    sock,      \* the process that bound the socket file, 0: no file
    kernel,    \* [Mps -> the process whose mount is attached there, 0: none]
    pidfile,   \* [Mps -> the recorded pid, 0: no file]
    registry,  \* the records of mounts.json
    torn,      \* mounts.json does not parse (truncated and not yet rewritten)
    wd,        \* [Pids -> the watchdog of that daemon]
    sweep,     \* [Pids -> records its sweep has not come to yet]
    cl,        \* the umount command
    reqs, faults,  \* how much of the bounds is used
    raced,     \* history: an update of the registry overlapped another one or a
               \* read of it, or was cut by a crash; or a direct unmount overlapped
               \* a request for the same mountpoint
    late,      \* history: a shutdown and a request overlapped
    apart,     \* history: two daemons were up at once, on different dashboard ports
    failed,    \* history: mountpoints an unmount gave up on
    stopped,   \* history: unmounted by request, and not requested again since
    overtaken  \* history: unmounted directly after a resume had read their records

procs == <<pc, op, mounts, todo>>
disk  == <<kernel, pidfile, registry, torn>>
hist  == <<raced, late, failed, stopped, apart, overtaken>>
ups   == <<apart, overtaken>>
vars  == <<procs, sock, disk, wd, sweep, cl, reqs, faults, hist>>

-----------------------------------------------------------------------------
(* Who is alive, and what a path looks like from outside. *)

NoOp == [kind |-> "none", step |-> "none", mp |-> NoMp, snap |-> {}]
Idle == [step |-> "idle", pid |-> 0, mp |-> NoMp, snap |-> {}]

Alive(p) == pc[p] \notin {"off", "gone"}

\* The dashboard's listener: from net.Listen to indexer.Shutdown.
HoldsPort(p) == pc[p] \in {"load", "resume", "bind", "spawn", "serve", "signalled", "stopping"}

\* Dial: the socket file belongs to a daemon that accepts.
Answers(p) == sock = p /\ pc[p] = "serve"
Running    == \E p \in Pids : Answers(p)

Attached(mp) == kernel[mp] # 0
Dead(mp)     == Attached(mp) /\ ~Alive(kernel[mp])

\* isMountpoint: compares device numbers, false when Lstat fails, as it does
\* with ENOTCONN on a dead mount (attributes are never cached, mount.go:123).
IsMountpoint(mp) == Attached(mp) /\ ~Dead(mp)

Fault == faults < MaxFaults /\ faults' = faults + 1
NoFault == UNCHANGED faults

\* unmountKernel with force: the ladder of commands succeeds, or all fail.
UnmountKernel(mp) ==
    \/ NoFault /\ kernel' = [kernel EXCEPT ![mp] = 0] /\ UNCHANGED failed
    \/ Fault /\ UNCHANGED kernel /\ failed' = failed \cup {mp}

-----------------------------------------------------------------------------
(* The registry: LoadMounts, then saveMounts, which truncates and writes.  *)
(* A writer is a daemon's request or the umount command.                   *)

InUpdate(w) == w.step \in {"trunc", "write"}
OthersUpdate(p) == InUpdate(cl) \/ \E q \in Pids \ {p} : InUpdate(op[q])

\* A direct unmount, and a request, that works on the mountpoint.
DirectOn(mp)  == cl.mp = mp /\ cl.step \notin {"wait", "cleanup", "refused"}
RequestOn(mp) == \E p \in Pids : op[p].mp = mp

LoadMounts(w) == [w EXCEPT !.step = "trunc", !.snap = registry]

Truncate == torn' = TRUE /\ registry' = {}

\* Writing into a file somebody else has written since our truncation leaves
\* the longer one's tail behind.
SaveMounts(records) ==
    \/ torn' = FALSE /\ registry' = records
    \/ ~torn /\ torn' = TRUE /\ registry' = {}

-----------------------------------------------------------------------------
Init ==
    /\ pc = [p \in Pids |-> "off"] /\ op = [p \in Pids |-> NoOp]
    /\ mounts = [p \in Pids |-> {}] /\ todo = [p \in Pids |-> {}]
    /\ sock = 0 /\ kernel = [mp \in Mps |-> 0] /\ pidfile = [mp \in Mps |-> 0]
    /\ registry = {} /\ torn = FALSE
    /\ wd = [p \in Pids |-> "none"] /\ sweep = [p \in Pids |-> {}]
    /\ cl = Idle /\ reqs = 0 /\ faults = 0
    /\ raced = FALSE /\ late = FALSE /\ apart = FALSE
    /\ failed = {} /\ stopped = {} /\ overtaken = {}

Goto(p, l) == pc' = [pc EXCEPT ![p] = l]

\* The process ends: its goroutines stop where they are, its mounts stay
\* attached without a server, and a rewrite it was in the middle of is lost.
Die(p) ==
    /\ Goto(p, "gone")
    /\ op' = [op EXCEPT ![p] = NoOp]
    /\ mounts' = [mounts EXCEPT ![p] = {}] /\ todo' = [todo EXCEPT ![p] = {}]
    /\ raced' = (raced \/ InUpdate(op[p]))

-----------------------------------------------------------------------------
(* runDaemon *)

Dial(p) ==
    /\ pc[p] = "off" /\ \A q \in Pids : q < p => pc[q] # "off"
    /\ Goto(p, IF Running THEN "gone" ELSE "remove")
    /\ UNCHANGED <<op, mounts, todo, sock, disk, wd, sweep, cl, reqs, faults, hist>>

RemoveSock(p) ==
    /\ pc[p] = "remove"
    /\ sock' = 0 /\ Goto(p, "listen")
    /\ UNCHANGED <<op, mounts, todo, disk, wd, sweep, cl, reqs, faults, hist>>

\* Faulty variant: a port that is taken only costs the dashboard.
ListenOrWarn(p) ==
    /\ pc[p] = "listen" /\ Goto(p, "load")
    /\ UNCHANGED <<op, mounts, todo, sock, disk, wd, sweep, cl, reqs, faults, hist>>

\* Its --ui-port is the one of a daemon that holds it, or a free one: a port
\* is only ever compared with those held at that moment.
Listen(p) ==
    /\ pc[p] = "listen"
    /\ LET up == \E q \in Pids : HoldsPort(q) IN
       \/ up /\ Goto(p, "gone") /\ UNCHANGED apart
       \/ Goto(p, "load") /\ apart' = (apart \/ up)
    /\ UNCHANGED <<op, mounts, todo, sock, disk, wd, sweep, cl, reqs, faults, raced, late, failed, stopped, overtaken>>

\* resume: LoadMounts, then the records one by one, then the socket.
Resume(p) ==
    /\ pc[p] = "load"
    /\ Goto(p, "resume")
    /\ todo' = [todo EXCEPT ![p] = IF torn THEN {} ELSE registry]
    /\ raced' = (raced \/ torn)
    /\ UNCHANGED <<op, mounts, sock, disk, wd, sweep, cl, reqs, faults, late, failed, stopped, ups>>

\* One record: its source is gone (a fault) and it is forgotten, or doMount.
ResumeOne(p, mp) ==
    /\ pc[p] = "resume" /\ op[p] = NoOp /\ mp \in todo[p]
    /\ todo' = [todo EXCEPT ![p] = @ \ {mp}]
    /\ \/ NoFault /\ op' = [op EXCEPT ![p] = [kind |-> "resume", step |-> "validate", mp |-> mp, snap |-> {}]]
       \/ Fault   /\ op' = [op EXCEPT ![p] = [kind |-> "forget", step |-> "pidfile", mp |-> mp, snap |-> {}]]
    /\ raced' = (raced \/ DirectOn(mp))
    /\ UNCHANGED <<pc, mounts, sock, disk, wd, sweep, cl, reqs, late, failed, stopped, ups>>

ResumeDone(p) ==
    /\ pc[p] = "resume" /\ op[p] = NoOp /\ todo[p] = {}
    /\ Goto(p, "bind")
    /\ UNCHANGED <<op, mounts, todo, sock, disk, wd, sweep, cl, reqs, faults, hist>>

\* Binding fails on a file that a daemon left since RemoveSock; that ends it.
Bind(p) ==
    /\ pc[p] = "bind"
    /\ \/ sock = 0 /\ sock' = p /\ Goto(p, "spawn") /\ UNCHANGED <<op, mounts, todo, raced>>
       \/ sock # 0 /\ Die(p) /\ UNCHANGED sock
    /\ UNCHANGED <<disk, wd, sweep, cl, reqs, faults, late, failed, stopped, ups>>

\* spawnWatchdog (a failure is not fatal), then acceptLoop and signal.Notify.
SpawnWatchdog(p) ==
    /\ pc[p] = "spawn" /\ Goto(p, "serve")
    /\ \/ NoFault /\ wd' = [wd EXCEPT ![p] = "spawned"]
       \/ Fault /\ UNCHANGED wd
    /\ UNCHANGED <<op, mounts, todo, sock, disk, sweep, cl, reqs, hist>>

-----------------------------------------------------------------------------
(* Requests.  opsMu admits one at a time; handlers accepted before the     *)
(* listener closed go on during the shutdown.                              *)

Serving(p) == pc[p] \in {"serve", "signalled", "stopping", "drain"} /\ op[p] = NoOp

BeginMount(p, mp) ==
    /\ Serving(p) /\ reqs < MaxReqs /\ reqs' = reqs + 1
    /\ op' = [op EXCEPT ![p] = [kind |-> "mount", step |-> "validate", mp |-> mp, snap |-> {}]]
    /\ stopped' = stopped \ {mp}
    /\ raced' = (raced \/ DirectOn(mp))
    /\ late' = (late \/ pc[p] # "serve")
    /\ UNCHANGED <<pc, mounts, todo, sock, disk, wd, sweep, cl, faults, failed, ups>>

\* Faulty variant: an error is not answered.
ReplyIfOK(ok) == cl' = IF cl.step = "wait" /\ ok THEN [cl EXCEPT !.step = "cleanup"] ELSE cl

\* The umount command is answered when its request ends.
Reply(ok) ==
    cl' = IF cl.step = "wait" THEN [cl EXCEPT !.step = IF ok THEN "cleanup" ELSE "refused"] ELSE cl

\* Faulty variant: a resume does not record what it mounts.
AddsNewOnly(w) == w.kind = "mount"

\* A request that ends in recordMount, not in forgetMount.
Adds(w) == w.kind \in {"mount", "resume"}

\* The request is over; a resume that failed goes on to forgetMount.
Fail(p) ==
    /\ IF op[p].kind = "resume"
       THEN op' = [op EXCEPT ![p].kind = "forget", ![p].step = "pidfile"] /\ UNCHANGED cl
       ELSE op' = [op EXCEPT ![p] = NoOp] /\ (IF op[p].kind = "mount" THEN UNCHANGED cl ELSE Reply(FALSE))

Step(p, s) == op' = [op EXCEPT ![p].step = s]

\* doMount up to startMount: the map, the mountpoint's directory, Validate.
\* A dead mount fails it with an error that is not ENXIO, a live one is not
\* empty; ENXIO (a fault) is answered with a forced unmount and a second try,
\* which may fail as well.
Valid(mp) == ~Attached(mp)

Validate(p) ==
    /\ op[p].step = "validate"
    /\ LET mp == op[p].mp IN
       \/ /\ NoFault /\ UNCHANGED <<kernel, failed>>
          /\ IF mp \notin mounts[p] /\ Valid(mp) THEN Step(p, "start") /\ UNCHANGED cl ELSE Fail(p)
       \/ /\ mp \notin mounts[p] /\ Fault /\ UNCHANGED failed
          /\ \/ kernel' = [kernel EXCEPT ![mp] = 0] /\ Step(p, "start") /\ UNCHANGED cl
             \/ UNCHANGED kernel /\ Fail(p)
    /\ UNCHANGED <<pc, mounts, todo, sock, pidfile, registry, torn, wd, sweep, reqs, raced, late, stopped, ups>>

\* startMount: returns when the mount is live, or stops what it had built.
StartMount(p) ==
    /\ op[p].step = "start"
    /\ \/ /\ NoFault /\ kernel' = [kernel EXCEPT ![op[p].mp] = p]
          /\ Step(p, "insert") /\ UNCHANGED cl
       \/ Fault /\ Fail(p) /\ UNCHANGED kernel
    /\ UNCHANGED <<pc, mounts, todo, sock, pidfile, registry, torn, wd, sweep, reqs, hist>>

Insert(p) ==
    /\ op[p].step = "insert"
    /\ mounts' = [mounts EXCEPT ![p] = @ \cup {op[p].mp}]
    /\ Step(p, "pidfile")
    /\ UNCHANGED <<pc, todo, sock, disk, wd, sweep, cl, reqs, faults, hist>>

\* recordMount writes the pidfile, forgetMount removes it.
Pidfile(p) ==
    /\ op[p].step = "pidfile"
    /\ pidfile' = [pidfile EXCEPT ![op[p].mp] = IF Adds(op[p]) THEN p ELSE 0]
    /\ Step(p, "load")
    /\ UNCHANGED <<pc, mounts, todo, sock, kernel, registry, torn, wd, sweep, cl, reqs, faults, hist>>

\* RecordMount and RemoveMount; an unreadable registry only costs a warning,
\* except in pruneStaleRegistry.
Load(p) ==
    /\ op[p].step = "load"
    /\ IF torn
       THEN op' = [op EXCEPT ![p] = NoOp] /\ (IF Adds(op[p]) THEN UNCHANGED cl ELSE Reply(op[p].kind # "prune"))
       ELSE op' = [op EXCEPT ![p] = LoadMounts(@)] /\ UNCHANGED cl
    /\ raced' = (raced \/ OthersUpdate(p))
    /\ UNCHANGED <<pc, mounts, todo, sock, disk, wd, sweep, reqs, faults, late, failed, stopped, ups>>

Trunc(p) ==
    /\ op[p].step = "trunc"
    /\ Truncate /\ Step(p, "write")
    /\ UNCHANGED <<pc, mounts, todo, sock, kernel, pidfile, wd, sweep, cl, reqs, faults, hist>>

\* What the user may rely on after an unmount that left nothing attached.
Stopped(mp) == IF Attached(mp) THEN stopped ELSE stopped \cup {mp}

\* Faulty variant: RemoveMount keeps the record.
NewRecordsKept(w) == IF Adds(w) THEN w.snap \cup {w.mp} ELSE w.snap

\* The upsert of RecordMount, the filter of RemoveMount.
NewRecords(w) == IF Adds(w) THEN w.snap \cup {w.mp} ELSE w.snap \ {w.mp}

Write(p) ==
    /\ op[p].step = "write"
    /\ LET w == op[p] IN
       /\ SaveMounts(NewRecords(w))
       /\ op' = [op EXCEPT ![p] = NoOp]
       /\ IF w.kind \in {"unmount", "prune"}
          THEN Reply(TRUE) /\ stopped' = Stopped(w.mp)
          ELSE UNCHANGED <<cl, stopped>>
    /\ UNCHANGED <<pc, mounts, todo, sock, kernel, pidfile, wd, sweep, reqs, faults, raced, late, failed, ups>>

\* doUnmount: take the runtime out of the map, or look for a stale record.
BeginUnmount(p) ==
    /\ Serving(p) /\ cl.step = "wait" /\ cl.pid = p
    /\ LET mp == cl.mp
           begin(kind, step) == op' = [op EXCEPT ![p] = [kind |-> kind, step |-> step, mp |-> mp, snap |-> {}]]
       IN \/ /\ mp \in mounts[p] /\ begin("unmount", "stop") /\ UNCHANGED cl
             /\ mounts' = [mounts EXCEPT ![p] = @ \ {mp}]
          \/ /\ mp \notin mounts[p] /\ UNCHANGED mounts
             /\ IF ~torn /\ mp \in registry
                THEN begin("prune", "load") /\ UNCHANGED cl
                ELSE Reply(FALSE) /\ UNCHANGED op
    /\ late' = (late \/ pc[p] # "serve")
    /\ UNCHANGED <<pc, todo, sock, disk, wd, sweep, reqs, faults, raced, failed, stopped, ups>>

\* rt.stop: the serve loop ends within the grace time or after the forced
\* unmount; when neither works, stop goes on all the same.
Stop(p) ==
    /\ op[p].step = "stop"
    /\ LET mp == op[p].mp IN
       IF kernel[mp] = p THEN UnmountKernel(mp) ELSE NoFault /\ UNCHANGED <<kernel, failed>>
    /\ Step(p, "pidfile")
    /\ UNCHANGED <<pc, mounts, todo, sock, pidfile, registry, torn, wd, sweep, cl, reqs, raced, late, stopped, ups>>

-----------------------------------------------------------------------------
(* Shutdown and death *)

\* SIGINT or SIGTERM: cancel the context, close the listener, remove the file.
Signal(p) ==
    /\ pc[p] = "serve"
    /\ Goto(p, "signalled") /\ sock' = 0
    /\ UNCHANGED <<op, mounts, todo, disk, wd, sweep, cl, reqs, faults, hist>>

\* The goroutine in Adapter.Mount unmounts when the context is cancelled.
CtxUnmount(p, mp) ==
    /\ pc[p] \in {"signalled", "stopping", "drain"} /\ kernel[mp] = p
    /\ kernel' = [kernel EXCEPT ![mp] = 0]
    /\ UNCHANGED <<procs, sock, pidfile, registry, torn, wd, sweep, cl, reqs, faults, hist>>

\* shutdown holds mu, not opsMu.
TakeMounts(p) ==
    /\ pc[p] = "signalled"
    /\ Goto(p, "stopping")
    /\ pidfile' = [mp \in Mps |-> IF mp \in mounts[p] THEN 0 ELSE pidfile[mp]]
    /\ todo' = [todo EXCEPT ![p] = mounts[p]] /\ mounts' = [mounts EXCEPT ![p] = {}]
    /\ late' = (late \/ op[p] # NoOp)
    /\ UNCHANGED <<op, sock, kernel, registry, torn, wd, sweep, cl, reqs, faults, raced, failed, stopped, ups>>

StopOne(p, mp) ==
    /\ pc[p] = "stopping" /\ mp \in todo[p]
    /\ todo' = [todo EXCEPT ![p] = @ \ {mp}]
    /\ IF kernel[mp] = p THEN UnmountKernel(mp) ELSE NoFault /\ UNCHANGED <<kernel, failed>>
    /\ UNCHANGED <<pc, op, mounts, sock, pidfile, registry, torn, wd, sweep, cl, reqs, raced, late, stopped, ups>>

\* stopWatchdog, then indexer.Shutdown gives the port back.
StopWatchdog(p) ==
    /\ pc[p] = "stopping" /\ todo[p] = {}
    /\ wd' = [wd EXCEPT ![p] = IF @ = "none" THEN @ ELSE "done"]
    /\ Goto(p, "drain") /\ late' = (late \/ op[p] # NoOp)
    /\ UNCHANGED <<op, mounts, todo, sock, disk, sweep, cl, reqs, faults, raced, failed, stopped, ups>>

Exit(p) ==
    /\ pc[p] = "drain" /\ Die(p)
    /\ UNCHANGED <<sock, disk, wd, sweep, cl, reqs, faults, late, failed, stopped, ups>>

Crash(p) ==
    /\ Alive(p) /\ pc[p] # "drain" /\ Die(p)
    /\ UNCHANGED <<sock, disk, wd, sweep, cl, reqs, faults, late, failed, stopped, ups>>

-----------------------------------------------------------------------------
(* runWatchdog *)

\* It refuses a daemon that is already gone.
WatchdogStart(p) ==
    /\ wd[p] = "spawned"
    /\ wd' = [wd EXCEPT ![p] = IF Alive(p) THEN "watching" ELSE "done"]
    /\ UNCHANGED <<procs, sock, disk, sweep, cl, reqs, faults, hist>>

\* sweepStaleMounts: LoadMounts, then the records one by one.
Sweep(p) ==
    /\ wd[p] = "watching" /\ ~Alive(p)
    /\ wd' = [wd EXCEPT ![p] = "sweeping"]
    /\ sweep' = [sweep EXCEPT ![p] = IF torn THEN {} ELSE registry]
    /\ raced' = (raced \/ torn)
    /\ UNCHANGED <<procs, sock, disk, cl, reqs, faults, late, failed, stopped, ups>>

SweepOne(p, mp) ==
    /\ wd[p] = "sweeping" /\ mp \in sweep[p]
    /\ sweep' = [sweep EXCEPT ![p] = @ \ {mp}]
    /\ IF IsMountpoint(mp) THEN UnmountKernel(mp) ELSE NoFault /\ UNCHANGED <<kernel, failed>>
    /\ UNCHANGED <<procs, sock, pidfile, registry, torn, wd, cl, reqs, raced, late, stopped, ups>>

SweepDone(p) ==
    /\ wd[p] = "sweeping" /\ sweep[p] = {}
    /\ wd' = [wd EXCEPT ![p] = "done"]
    /\ UNCHANGED <<procs, sock, disk, sweep, cl, reqs, faults, hist>>

-----------------------------------------------------------------------------
(* runUmount *)

RunUmount(mp) ==
    /\ cl.step = "idle" /\ reqs < MaxReqs /\ reqs' = reqs + 1
    /\ cl' = [step |-> IF Running THEN "wait" ELSE "direct", pid |-> sock, mp |-> mp, snap |-> {}]
    /\ raced' = (raced \/ (~Running /\ RequestOn(mp)))
    /\ UNCHANGED <<procs, sock, disk, wd, sweep, faults, late, failed, stopped, ups>>

\* The daemon went away with the request.
ConnReset ==
    /\ cl.step = "wait" /\ ~Alive(cl.pid)
    /\ cl' = Idle
    /\ UNCHANGED <<procs, sock, disk, wd, sweep, reqs, faults, hist>>

\* After OK: clear what is still mounted there.
Cleanup ==
    /\ cl.step = "cleanup" /\ cl' = Idle
    /\ IF IsMountpoint(cl.mp) THEN UnmountKernel(cl.mp) ELSE NoFault /\ UNCHANGED <<kernel, failed>>
    /\ UNCHANGED <<procs, sock, pidfile, registry, torn, wd, sweep, reqs, raced, late, stopped, ups>>

\* After an error: directUnmount if something is mounted there.
Refused ==
    /\ cl.step = "refused"
    /\ cl' = IF IsMountpoint(cl.mp) THEN [cl EXCEPT !.step = "direct"] ELSE Idle
    /\ raced' = (raced \/ (IsMountpoint(cl.mp) /\ RequestOn(cl.mp)))
    /\ UNCHANGED <<procs, sock, disk, wd, sweep, reqs, faults, late, failed, stopped, ups>>

DirectUnmount ==
    /\ cl.step = "direct" /\ cl' = [cl EXCEPT !.step = "signal"]
    /\ IF Attached(cl.mp) THEN UnmountKernel(cl.mp) ELSE NoFault /\ UNCHANGED <<kernel, failed>>
    /\ UNCHANGED <<procs, sock, pidfile, registry, torn, wd, sweep, reqs, raced, late, stopped, ups>>

\* SIGTERM to the pid in the pidfile: before signal.Notify it kills.
SignalOwner ==
    /\ cl.step = "signal" /\ cl' = [cl EXCEPT !.step = "load"]
    /\ pidfile' = [pidfile EXCEPT ![cl.mp] = 0]
    /\ LET p == pidfile[cl.mp]
           at == IF p = 0 THEN "gone" ELSE pc[p]
       IN \/ at = "serve" /\ Goto(p, "signalled") /\ sock' = 0 /\ UNCHANGED <<op, mounts, todo, raced>>
          \/ at \in {"resume", "bind", "spawn"} /\ Die(p) /\ UNCHANGED sock
          \/ at \notin {"resume", "bind", "spawn", "serve"} /\ UNCHANGED <<procs, sock, raced>>
    /\ UNCHANGED <<kernel, registry, torn, wd, sweep, reqs, faults, late, failed, stopped, ups>>

DirectLoad ==
    /\ cl.step = "load"
    /\ cl' = IF torn THEN Idle ELSE LoadMounts(cl)
    /\ raced' = (raced \/ \E p \in Pids : InUpdate(op[p]))
    /\ UNCHANGED <<procs, sock, disk, wd, sweep, reqs, faults, late, failed, stopped, ups>>

DirectTrunc ==
    /\ cl.step = "trunc" /\ cl' = [cl EXCEPT !.step = "write"]
    /\ Truncate
    /\ UNCHANGED <<procs, sock, kernel, pidfile, wd, sweep, reqs, faults, hist>>

DirectWrite ==
    /\ cl.step = "write" /\ cl' = Idle
    /\ SaveMounts(cl.snap \ {cl.mp})
    /\ stopped' = Stopped(cl.mp)
    /\ overtaken' = IF \E p \in Pids : pc[p] = "resume" /\ cl.mp \in todo[p] THEN overtaken \cup {cl.mp} ELSE overtaken
    /\ UNCHANGED <<procs, sock, kernel, pidfile, wd, sweep, reqs, faults, raced, late, apart, failed>>

-----------------------------------------------------------------------------
RunDaemon(p) ==
    Dial(p) \/ RemoveSock(p) \/ Listen(p) \/ Resume(p) \/ ResumeDone(p) \/ Bind(p) \/ SpawnWatchdog(p)
Request(p) ==
    \/ Validate(p) \/ StartMount(p) \/ Insert(p) \/ Pidfile(p) \/ Load(p) \/ Trunc(p) \/ Write(p)
    \/ BeginUnmount(p) \/ Stop(p)
Shutdown(p) == Signal(p) \/ TakeMounts(p) \/ StopWatchdog(p) \/ Exit(p) \/ Crash(p)
Watchdog(p) == WatchdogStart(p) \/ Sweep(p) \/ SweepDone(p)
Umount == ConnReset \/ Cleanup \/ Refused \/ DirectUnmount \/ SignalOwner \/ DirectLoad \/ DirectTrunc \/ DirectWrite

Next ==
    \/ \E p \in Pids : RunDaemon(p) \/ Request(p) \/ Shutdown(p) \/ Watchdog(p)
    \/ \E p \in Pids, mp \in Mps : ResumeOne(p, mp) \/ BeginMount(p, mp) \/ CtxUnmount(p, mp) \/ StopOne(p, mp) \/ SweepOne(p, mp)
    \/ \E mp \in Mps : RunUmount(mp)
    \/ Umount

Spec == Init /\ [][Next]_vars

\* Goroutines and processes are scheduled as long as they live; no request,
\* signal, crash or start is owed to anybody.
FairSpec ==
    /\ Spec
    /\ WF_vars(Umount)
    /\ \A p \in Pids :
        /\ WF_vars(Request(p)) /\ WF_vars(Watchdog(p)) /\ WF_vars(\E mp \in Mps : SweepOne(p, mp))
        /\ WF_vars(TakeMounts(p) \/ StopWatchdog(p) \/ Exit(p)) /\ WF_vars(\E mp \in Mps : StopOne(p, mp))

-----------------------------------------------------------------------------
(* Correctness *)

\* A mount a daemon serves can be listed, unmounted and resumed: outside the
\* request that is making or ending it, it is in d.mounts and in mounts.json.
\* (doMount inserts and records, doUnmount deletes and forgets, in that order.)
\* Not promised after an overlap of two processes' updates, after a shutdown
\* that overtook a request, once two daemons with different dashboard ports
\* were up together, and for a mount that rt.stop failed to unmount.
LiveRecorded ==
    \A p \in Pids, mp \in Mps :
        (pc[p] = "serve" /\ kernel[mp] = p /\ op[p].mp # mp /\ ~raced /\ ~late /\ ~apart /\ mp \notin failed)
            => mp \in mounts[p] /\ (torn \/ mp \in registry)

\* An unmounted tree stays unmounted until it is asked for again: no resume,
\* restart or late step of a request attaches or records it (RemoveMount:
\* "so resume doesn't bring back a mount the user chose to stop").  Broken by
\* a resume that had read the record before umount, which found no socket,
\* removed it: that tree comes back.  Not promised after overlapping updates or
\* a shutdown that overtook a request, nor with two dashboard ports in use.
StoppedStays ==
    (~raced /\ ~late /\ ~apart) => \A mp \in stopped \ overtaken : kernel[mp] = 0 /\ mp \notin registry

\* No daemon mounts over an attached mount, its own, another's or a dead one:
\* Validate and the map under opsMu, and between processes only the dashboard's
\* port, so that two daemons that pass the socket's check together and use
\* different ports are excepted, and what a late request of a shutdown does.
NeverStacked ==
    [][(~late /\ ~apart) => \A mp \in Mps : kernel'[mp] \in {0, kernel[mp]} \/ kernel[mp] = 0]_vars

\* What runWatchdog's comment promises: a recorded mount whose daemon died is
\* force-unmounted, unless the unmount commands fail, updates of the registry
\* or a shutdown and a request overlapped, or another daemon runs before the
\* sweep is over.  It does not hold: sweepStaleMounts leaves out what
\* isMountpoint denies, and isMountpoint denies a dead mount.
DeadSwept ==
    \A p \in Pids, mp \in Mps :
        (wd[p] = "watching" /\ ~Alive(p) /\ kernel[mp] = p /\ mp \in registry)
            ~> (kernel[mp] # p \/ mp \in failed \/ raced \/ late \/ \E q \in Pids \ {p} : Alive(q))

\* The umount command ends: whoever holds opsMu lets go, whichever process dies.
UmountReturns == cl.step # "idle" ~> cl.step = "idle"
=============================================================================
