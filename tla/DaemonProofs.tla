---------------------------- MODULE DaemonProofs ----------------------------
(***************************************************************************)
(* The safety properties of Daemon, for any number of daemons,             *)
(* mountpoints, requests and faults.                                       *)
(*                                                                         *)
(* The argument is in layers, each an invariant on top of the one before:  *)
(* the shape of the state and who holds the dashboard's port (Shape), what *)
(* a request that is about to mount knows of the kernel (Ready), that one  *)
(* update of mounts.json runs at a time unless raced (Updates), that the   *)
(* umount command works alone when it works directly (Alone), what an      *)
(* unmounted tree is kept out of (Kept), and what is recorded of a mount   *)
(* (Known).  The exceptions of the properties - raced, late, apart,        *)
(* overtaken - are those of the layers.                                    *)
(***************************************************************************)
EXTENDS Daemon, TLAPS

PcLabels == {"off", "remove", "listen", "load", "resume", "bind", "spawn", "serve", "signalled",
             "stopping", "drain", "gone"}
Early    == {"off", "remove", "listen", "load"}
Up       == {"resume", "bind", "spawn", "serve"}

OpRecs == [kind : {"none", "mount", "resume", "forget", "unmount", "prune"},
           step : {"none", "validate", "start", "insert", "stop", "pidfile", "load", "trunc", "write"},
           mp : Mps \cup {NoMp}, snap : SUBSET Mps]
ClRecs == [step : {"idle", "wait", "cleanup", "refused", "direct", "signal", "load", "trunc", "write"},
           pid : 0 .. Starts, mp : Mps \cup {NoMp}, snap : SUBSET Mps]

Types ==
    /\ pc \in [Pids -> PcLabels] /\ op \in [Pids -> OpRecs]
    /\ mounts \in [Pids -> SUBSET Mps] /\ todo \in [Pids -> SUBSET Mps]
    /\ sock \in 0 .. Starts /\ kernel \in [Mps -> 0 .. Starts] /\ pidfile \in [Mps -> 0 .. Starts]
    /\ registry \in SUBSET Mps /\ torn \in BOOLEAN
    /\ sweep \in [Pids -> SUBSET Mps] /\ cl \in ClRecs
    /\ raced \in BOOLEAN /\ late \in BOOLEAN /\ apart \in BOOLEAN
    /\ failed \in SUBSET Mps /\ stopped \in SUBSET Mps /\ overtaken \in SUBSET Mps

\* Which steps a request of each kind goes through, and where its daemon is.
Steps(kind) ==
    CASE kind \in {"mount", "resume"} -> {"validate", "start", "insert", "pidfile", "load", "trunc", "write"}
      [] kind = "forget"  -> {"pidfile", "load", "trunc", "write"}
      [] kind = "unmount" -> {"stop", "pidfile", "load", "trunc", "write"}
      [] kind = "prune"   -> {"load", "trunc", "write"}

OpOK(p) ==
    \/ op[p] = NoOp
    \/ /\ op[p].kind # "none" /\ op[p].mp \in Mps /\ op[p].step \in Steps(op[p].kind)
       /\ IF op[p].kind \in {"resume", "forget"}
          THEN pc[p] = "resume"
          ELSE pc[p] \in {"serve", "signalled", "stopping", "drain"}
       /\ pc[p] = "drain" => late

ClOK ==
    /\ cl.step # "idle" => cl.mp \in Mps
    /\ cl.step = "wait" => cl.pid \in Pids

\* As long as there is one dashboard port, it belongs to one daemon.
Port == ~apart => \A p, q \in Pids : HoldsPort(p) /\ HoldsPort(q) => p = q

Shape == Types /\ ClOK /\ Port /\ \A p \in Pids : OpOK(p)

\* A request about to mount has a free mountpoint.
Ready == ~late /\ ~apart => \A p \in Pids : op[p].step = "start" => kernel[op[p].mp] = 0

\* One update of mounts.json at a time, and the file is torn while it is
\* between its truncation and its write, only then.
Updates ==
    ~raced =>
        /\ \A p, q \in Pids : InUpdate(op[p]) /\ InUpdate(op[q]) => p = q
        /\ \A p \in Pids : ~(InUpdate(cl) /\ InUpdate(op[p]))
        /\ torn <=> cl.step = "write" \/ \E p \in Pids : op[p].step = "write"

\* The umount command that works without a daemon.
InDirect == cl.step \in {"direct", "signal", "load", "trunc", "write"}

Direct ==
    /\ InDirect => \A p \in Pids : op[p].mp # cl.mp
    /\ InDirect /\ cl.step # "direct" => kernel[cl.mp] = 0 \/ cl.mp \in failed

Alone == ~raced => Direct

\* Nothing in flight brings an unmounted tree back, but for a resume that read
\* its record before.
Left == stopped \ overtaken

KeptNow ==
    /\ \A mp \in Left : kernel[mp] = 0 /\ mp \notin registry
    /\ \A p \in Pids : Adds(op[p]) => op[p].mp \notin Left
    /\ \A p \in Pids : pc[p] = "resume" => todo[p] \cap Left = {}
    /\ \A p \in Pids : InUpdate(op[p]) => op[p].snap \cap Left = {}
    /\ InUpdate(cl) => cl.snap \cap Left = {}

Kept == ~raced /\ ~late /\ ~apart => KeptNow

\* The record of a mount is in mounts.json, and in what an update under way
\* will write there.
Recorded(mp) ==
    /\ torn \/ mp \in registry
    /\ \A p \in Pids : InUpdate(op[p]) => mp \in op[p].snap
    /\ InUpdate(cl) => mp \in cl.snap

Serves(p, mp) == kernel[mp] = p /\ mp \notin failed

\* A mount is recorded outside its request, or when its request has not
\* touched it yet.
Settled ==
    \A p \in Pids, mp \in Mps :
        pc[p] \in Up /\ Serves(p, mp) /\ (op[p].mp = mp => op[p].step = "validate")
            => mp \in mounts[p] /\ Recorded(mp)

\* A request that adds a record has mounted, one that removes it does not serve.
Asked ==
    \A p \in Pids :
        /\ Adds(op[p]) /\ op[p].step \in {"pidfile", "load", "trunc", "write"} => op[p].mp \in mounts[p]
        /\ op[p].kind = "resume" /\ op[p].step = "validate" => kernel[op[p].mp] # p
        /\ op[p].kind = "forget" => kernel[op[p].mp] # p
        /\ op[p].kind = "unmount" /\ op[p].step # "stop" => ~Serves(p, op[p].mp)
        /\ op[p].kind = "prune" => ~Serves(p, op[p].mp)

\* A daemon has mounted nothing before it resumes, and resumes no record twice.
Resuming ==
    \A p \in Pids, mp \in Mps :
        /\ pc[p] \in Early => kernel[mp] # p
        /\ pc[p] = "resume" /\ mp \in todo[p] => kernel[mp] # p /\ op[p].mp # mp

Known == ~raced /\ ~late /\ ~apart => Settled /\ Asked /\ Resuming

-----------------------------------------------------------------------------
(* Types *)

LEMMA Consts == NoOp \in OpRecs /\ Idle \in ClRecs /\ 0 \in 0 .. Starts /\ Pids \subseteq 0 .. Starts
BY DaemonAssumption DEF NoOp, Idle, OpRecs, ClRecs, Pids

\* The request of one daemon changes.
LEMMA SetOp ==
  ASSUME Types, NEW p \in Pids, NEW r \in OpRecs, op' = [op EXCEPT ![p] = r]
  PROVE  op' \in [Pids -> OpRecs] /\ op'[p] = r /\ \A q \in Pids \ {p} : op'[q] = op[q]
BY DEF Types

\* ... its step only.
LEMMA SetStep ==
  ASSUME Types, NEW p \in Pids, NEW s, Step(p, s),
         s \in {"validate", "start", "insert", "stop", "pidfile", "load", "trunc", "write"}
  PROVE  /\ op' \in [Pids -> OpRecs] /\ \A q \in Pids \ {p} : op'[q] = op[q]
         /\ op'[p].step = s /\ op'[p].kind = op[p].kind /\ op'[p].mp = op[p].mp /\ op'[p].snap = op[p].snap
BY ZenonT(60) DEF Types, Step, OpRecs

\* The umount command hears of the end of its request.
Heard ==
    /\ cl' \in ClRecs
    /\ cl' = cl \/ (cl.step = "wait" /\ cl'.step \in {"cleanup", "refused"} /\ cl'.mp = cl.mp)

LEMMA ReplyOK == ASSUME Types, NEW ok, Reply(ok) PROVE Heard
BY DEF Types, Reply, Heard, ClRecs

\* A request that failed is over, or goes on to forget the record.
LEMMA FailOK ==
  ASSUME Types, NEW p \in Pids, Fail(p)
  PROVE  /\ Heard /\ op' \in [Pids -> OpRecs] /\ \A q \in Pids \ {p} : op'[q] = op[q]
         /\ \/ op[p].kind # "resume" /\ op'[p] = NoOp
            \/ /\ op[p].kind = "resume" /\ op'[p].kind = "forget" /\ op'[p].step = "pidfile"
               /\ op'[p].mp = op[p].mp /\ op'[p].snap = op[p].snap
<1>1. CASE op[p].kind = "resume"
  BY <1>1 DEF Fail, Types, OpRecs, Heard
<1>2. CASE op[p].kind # "resume"
  <2>1. Heard
    BY <1>2, ReplyOK DEF Fail, Types, Heard
  <2> QED
    BY <1>2, <2>1, Consts, SetOp DEF Fail
<1> QED
  BY <1>1, <1>2

\* What an update writes is a set of mountpoints.
LEMMA SaveOK ==
  ASSUME NEW R \in SUBSET Mps, SaveMounts(R)
  PROVE  registry' \in SUBSET Mps /\ torn' \in BOOLEAN
BY DEF SaveMounts

LEMMA TypesStep == ASSUME Shape, [Next]_vars PROVE Types'
<1>. USE Consts DEF Types, Shape, ClOK, OpOK, procs, disk, hist, ups, NoFault, Fault, Goto, Step, Die,
     UnmountKernel, LoadMounts, Truncate
<1>1. ASSUME NEW p \in Pids, Dial(p) \/ RemoveSock(p) \/ Listen(p) \/ ResumeDone(p) \/ SpawnWatchdog(p)
                             \/ Signal(p) \/ StopWatchdog(p)
      PROVE  Types'
  BY <1>1 DEF Dial, RemoveSock, Listen, ResumeDone, SpawnWatchdog, Signal, StopWatchdog, PcLabels
<1>2. ASSUME NEW p \in Pids, Resume(p) PROVE Types'
  BY <1>2 DEF Resume, PcLabels
<1>3. ASSUME NEW p \in Pids, TakeMounts(p) PROVE Types'
  BY <1>3 DEF TakeMounts, PcLabels
<1>4. ASSUME NEW p \in Pids, Exit(p) PROVE Types'
  BY <1>4 DEF Exit, PcLabels
<1>5. ASSUME NEW p \in Pids, Crash(p) PROVE Types'
  BY <1>5 DEF Crash, PcLabels
<1>6. ASSUME NEW p \in Pids, WatchdogStart(p) \/ Sweep(p) \/ SweepDone(p) PROVE Types'
  BY <1>6 DEF WatchdogStart, Sweep, SweepDone
<1>7. ASSUME NEW p \in Pids, NEW mp \in Mps, CtxUnmount(p, mp) \/ StopOne(p, mp) \/ SweepOne(p, mp) PROVE Types'
  BY <1>7 DEF CtxUnmount, StopOne, SweepOne
<1>8. ASSUME NEW p \in Pids, NEW mp \in Mps, ResumeOne(p, mp) PROVE Types'
  BY <1>8 DEF ResumeOne, OpRecs
<1>9. ASSUME NEW p \in Pids, NEW mp \in Mps, BeginMount(p, mp) PROVE Types'
  BY <1>9 DEF BeginMount, OpRecs
<1>10. ASSUME NEW p \in Pids, Bind(p) PROVE Types'
  <2>1. CASE sock' = p /\ Goto(p, "spawn") /\ UNCHANGED <<op, mounts, todo, raced>>
    BY <1>10, <2>1 DEF Bind, PcLabels
  <2>2. CASE Die(p) /\ UNCHANGED sock
    BY <1>10, <2>2 DEF Bind, PcLabels
  <2> QED
    BY <1>10, <2>1, <2>2 DEF Bind
<1>11. ASSUME NEW p \in Pids, Validate(p) PROVE Types'
  <2>1. /\ op' \in [Pids -> OpRecs] /\ cl' \in ClRecs
    BY <1>11, SetStep, FailOK DEF Validate, Heard
  <2>2. kernel' \in [Mps -> 0 .. Starts] /\ failed' = failed
    BY <1>11 DEF Validate
  <2> QED
    BY <1>11, <2>1, <2>2 DEF Validate
<1>12. ASSUME NEW p \in Pids, StartMount(p) PROVE Types'
  <2>1. /\ op' \in [Pids -> OpRecs] /\ cl' \in ClRecs
    BY <1>12, SetStep, FailOK DEF StartMount, Heard
  <2>2. kernel' \in [Mps -> 0 .. Starts]
    BY <1>12 DEF StartMount
  <2> QED
    BY <1>12, <2>1, <2>2 DEF StartMount
<1>13. ASSUME NEW p \in Pids, Insert(p) PROVE Types'
  <2>1. op[p].mp \in Mps
    BY <1>13 DEF Insert, NoOp
  <2>2. op' \in [Pids -> OpRecs]
    BY <1>13, SetStep DEF Insert
  <2> QED
    BY <1>13, <2>1, <2>2 DEF Insert
<1>14. ASSUME NEW p \in Pids, Pidfile(p) PROVE Types'
  BY ZenonT(60), <1>14 DEF Pidfile, OpRecs, ClRecs
<1>15. ASSUME NEW p \in Pids, Load(p) PROVE Types'
  <2>1. CASE torn
    <3>1. op' \in [Pids -> OpRecs]
      BY <1>15, <2>1 DEF Load
    <3>2. Heard
      BY <1>15, <2>1, ReplyOK DEF Load, Heard
    <3> QED
      BY <1>15, <3>1, <3>2 DEF Load, Heard
  <2>2. CASE ~torn
    <3>0. LoadMounts(op[p]) \in OpRecs
      BY DEF OpRecs
    <3>1. op' \in [Pids -> OpRecs]
      BY <1>15, <2>2, <3>0 DEF Load
    <3> QED
      BY <1>15, <2>2, <3>1 DEF Load
  <2> QED
    BY <2>1, <2>2
<1>16. ASSUME NEW p \in Pids, Trunc(p) PROVE Types'
  <2>1. op' \in [Pids -> OpRecs]
    BY <1>16, SetStep DEF Trunc
  <2> QED
    BY <1>16, <2>1 DEF Trunc
<1>17. ASSUME NEW p \in Pids, Write(p) PROVE Types'
  <2>1. op[p].mp \in Mps /\ op[p].snap \in SUBSET Mps
    BY <1>17 DEF Write, NoOp, OpRecs
  <2>2. registry' \in SUBSET Mps /\ torn' \in BOOLEAN
    BY <1>17, <2>1, SaveOK DEF Write, NewRecords
  <2>3. op' \in [Pids -> OpRecs]
    BY <1>17 DEF Write
  <2>4. cl' \in ClRecs /\ stopped' \in SUBSET Mps
    <3>1. CASE op[p].kind \in {"unmount", "prune"}
      BY <1>17, <2>1, <3>1, ReplyOK DEF Write, Heard, Stopped
    <3>2. CASE op[p].kind \notin {"unmount", "prune"}
      BY <1>17, <3>2 DEF Write
    <3> QED
      BY <3>1, <3>2
  <2> QED
    BY <1>17, <2>2, <2>3, <2>4 DEF Write
<1>18. ASSUME NEW p \in Pids, BeginUnmount(p) PROVE Types'
  <2>1. cl.mp \in Mps
    BY <1>18 DEF BeginUnmount
  <2>2. CASE cl.mp \in mounts[p]
    <3>1. [kind |-> "unmount", step |-> "stop", mp |-> cl.mp, snap |-> {}] \in OpRecs
      BY <2>1 DEF OpRecs
    <3>2. op' \in [Pids -> OpRecs]
      BY <1>18, <2>2, <3>1 DEF BeginUnmount
    <3>3. UNCHANGED cl /\ mounts' = [mounts EXCEPT ![p] = @ \ {cl.mp}]
      BY <1>18, <2>2 DEF BeginUnmount
    <3> QED
      BY <1>18, <3>2, <3>3 DEF BeginUnmount
  <2>3. CASE cl.mp \notin mounts[p]
    <3>1. CASE Reply(FALSE) /\ UNCHANGED op
      BY <1>18, <2>3, <3>1, ReplyOK DEF BeginUnmount, Heard
    <3>2. CASE /\ op' = [op EXCEPT ![p] = [kind |-> "prune", step |-> "load", mp |-> cl.mp, snap |-> {}]]
               /\ UNCHANGED cl
      <4>1. [kind |-> "prune", step |-> "load", mp |-> cl.mp, snap |-> {}] \in OpRecs
        BY <2>1 DEF OpRecs
      <4>2. op' \in [Pids -> OpRecs]
        BY <3>2, <4>1
      <4> QED
        BY <1>18, <2>3, <3>2, <4>2 DEF BeginUnmount
    <3> QED
      BY <1>18, <2>3, <3>1, <3>2 DEF BeginUnmount
  <2> QED
    BY <2>2, <2>3
<1>19. ASSUME NEW p \in Pids, Stop(p) PROVE Types'
  <2>1. op[p].mp \in Mps
    BY <1>19 DEF Stop, NoOp
  <2>2. op' \in [Pids -> OpRecs]
    BY <1>19, SetStep DEF Stop
  <2>3. kernel' \in [Mps -> 0 .. Starts] /\ failed' \in SUBSET Mps
    BY <1>19, <2>1 DEF Stop
  <2> QED
    BY <1>19, <2>2, <2>3 DEF Stop
<1>20. ASSUME NEW mp \in Mps, RunUmount(mp) PROVE Types'
  BY <1>20 DEF RunUmount, Running, Answers, OpRecs, ClRecs
<1>21. CASE ConnReset
  BY <1>21 DEF ConnReset, OpRecs, ClRecs
<1>22. CASE Cleanup
  BY <1>22 DEF Cleanup, OpRecs, ClRecs
<1>23. CASE Refused
  BY <1>23 DEF Refused, OpRecs, ClRecs
<1>24. CASE DirectUnmount
  <2>1. cl' \in ClRecs
    BY <1>24 DEF DirectUnmount, ClRecs
  <2>2. kernel' \in [Mps -> 0 .. Starts] /\ failed' \in SUBSET Mps
    BY <1>24 DEF DirectUnmount
  <2> QED
    BY <1>24, <2>1, <2>2 DEF DirectUnmount
<1>25. CASE SignalOwner
  <2>0. cl' \in ClRecs /\ pidfile' \in [Mps -> 0 .. Starts]
    BY <1>25 DEF SignalOwner, ClRecs
  <2>1. CASE \E p \in Pids : Goto(p, "signalled") /\ sock' = 0 /\ UNCHANGED <<op, mounts, todo, raced>>
    BY <1>25, <2>0, <2>1 DEF SignalOwner, PcLabels
  <2>2. CASE \E p \in Pids : Die(p) /\ UNCHANGED sock
    BY <1>25, <2>0, <2>2 DEF SignalOwner, PcLabels
  <2>3. CASE UNCHANGED <<procs, sock, raced>>
    BY <1>25, <2>0, <2>3 DEF SignalOwner
  <2>4. cl.mp \in Mps
    BY <1>25 DEF SignalOwner
  <2>5. pidfile[cl.mp] \in Pids \cup {0}
    BY <2>4, DaemonAssumption DEF Pids
  <2> QED
    BY <1>25, <2>1, <2>2, <2>3, <2>5 DEF SignalOwner
<1>26. CASE DirectLoad
  BY <1>26 DEF DirectLoad, OpRecs, ClRecs
<1>27. CASE DirectTrunc
  BY <1>27 DEF DirectTrunc, OpRecs, ClRecs
<1>28. CASE DirectWrite
  <2>1. cl.mp \in Mps /\ cl.snap \in SUBSET Mps
    BY <1>28 DEF DirectWrite, ClRecs
  <2>2. registry' \in SUBSET Mps /\ torn' \in BOOLEAN
    BY <1>28, <2>1, SaveOK DEF DirectWrite
  <2>3. stopped' \in SUBSET Mps /\ overtaken' \in SUBSET Mps
    BY <1>28, <2>1 DEF DirectWrite, Stopped
  <2> QED
    BY <1>28, <2>2, <2>3 DEF DirectWrite
<1>. QED
  BY <1>1, <1>2, <1>3, <1>4, <1>5, <1>6, <1>7, <1>8, <1>9, <1>10, <1>11, <1>12, <1>13, <1>14, <1>15,
     <1>16, <1>17, <1>18, <1>19, <1>20, <1>21, <1>22, <1>23, <1>24, <1>25, <1>26, <1>27, <1>28
     DEF Next, RunDaemon, Request, Shutdown, Watchdog, Umount, vars

-----------------------------------------------------------------------------
(* What a step does to the daemons' places and to their requests. *)

\* A daemon moves along runDaemon and the shutdown, or dies.
PcMove(p) ==
    \/ pc'[p] = "gone" /\ op'[p] = NoOp
    \/ pc[p] = "off" /\ pc'[p] = "remove"
    \/ pc[p] = "remove" /\ pc'[p] = "listen"
    \/ pc[p] = "listen" /\ pc'[p] = "load" /\ (apart' \/ \A q \in Pids : ~HoldsPort(q))
    \/ pc[p] = "load" /\ pc'[p] = "resume" /\ Resume(p)
    \/ pc[p] = "resume" /\ pc'[p] = "bind" /\ op[p] = NoOp
    \/ pc[p] = "bind" /\ pc'[p] = "spawn"
    \/ pc[p] = "spawn" /\ pc'[p] = "serve"
    \/ pc[p] = "serve" /\ pc'[p] = "signalled"
    \/ pc[p] = "signalled" /\ pc'[p] = "stopping" /\ TakeMounts(p)
    \/ pc[p] = "stopping" /\ pc'[p] = "drain" /\ StopWatchdog(p)

LEMMA SetPc ==
  ASSUME Types, NEW p \in Pids, NEW l, Goto(p, l)
  PROVE  pc'[p] = l /\ \A q \in Pids \ {p} : pc'[q] = pc[q]
BY DEF Types, Goto

LEMMA DieOK ==
  ASSUME Types, NEW p \in Pids, Die(p)
  PROVE  /\ pc'[p] = "gone" /\ \A q \in Pids \ {p} : pc'[q] = pc[q]
         /\ op'[p] = NoOp /\ \A q \in Pids \ {p} : op'[q] = op[q]
         /\ raced' = (raced \/ InUpdate(op[p]))
BY DEF Types, Die, Goto

LEMMA PcStep ==
  ASSUME Shape, [Next]_vars
  PROVE  \/ pc' = pc
         \/ \E p \in Pids : PcMove(p) /\ \A q \in Pids \ {p} : pc'[q] = pc[q]
<1>. DEFINE One(p) == PcMove(p) /\ \A q \in Pids \ {p} : pc'[q] = pc[q]
<1>0. Types
  BY DEF Shape
<1>1. ASSUME NEW p \in Pids, Dial(p) \/ RemoveSock(p) \/ Listen(p) PROVE One(p)
  <2>1. op[p] = NoOp /\ op' = op
    BY <1>1 DEF Dial, RemoveSock, Listen, Shape, OpOK
  <2> QED
    BY <1>0, <1>1, <2>1, SetPc DEF Dial, RemoveSock, Listen, PcMove
<1>2. ASSUME NEW p \in Pids, Resume(p) \/ ResumeDone(p) PROVE One(p)
  BY <1>0, <1>2, SetPc DEF Resume, ResumeDone, PcMove
<1>3. ASSUME NEW p \in Pids, Bind(p) PROVE One(p)
  BY <1>0, <1>3, SetPc, DieOK DEF Bind, PcMove
<1>4. ASSUME NEW p \in Pids, SpawnWatchdog(p) \/ Signal(p) \/ TakeMounts(p) \/ StopWatchdog(p) PROVE One(p)
  BY <1>0, <1>4, SetPc DEF SpawnWatchdog, Signal, TakeMounts, StopWatchdog, PcMove
<1>5. ASSUME NEW p \in Pids, Exit(p) \/ Crash(p) PROVE One(p)
  BY <1>0, <1>5, DieOK DEF Exit, Crash, PcMove
<1>6. ASSUME SignalOwner PROVE pc' = pc \/ \E p \in Pids : One(p)
  <2>. DEFINE p == pidfile[cl.mp]
  <2>1. p \in Pids \cup {0}
    BY <1>0, <1>6, DaemonAssumption DEF SignalOwner, Shape, ClOK, Types, Pids
  <2>2. CASE p = 0
    BY <1>6, <2>2 DEF SignalOwner, procs
  <2>3. CASE p \in Pids
    <3>1. p # 0
      BY <2>3 DEF Pids
    <3>2. \/ pc[p] = "serve" /\ Goto(p, "signalled")
          \/ Die(p)
          \/ UNCHANGED procs
      BY <1>6, <3>1 DEF SignalOwner
    <3>. HIDE DEF p
    <3>3. pc' = pc \/ One(p)
      BY <1>0, <2>3, <3>2, SetPc, DieOK DEF procs, PcMove
    <3> QED
      BY <2>3, <3>3
  <2> QED
    BY <2>1, <2>2, <2>3
<1>7. ASSUME NEW p \in Pids, Request(p) \/ Watchdog(p) PROVE pc' = pc
  BY <1>7 DEF Request, Watchdog, Validate, StartMount, Insert, Pidfile, Load, Trunc, Write,
     BeginUnmount, Stop, WatchdogStart, Sweep, SweepDone, procs
<1>8. ASSUME NEW p \in Pids, NEW mp \in Mps,
             ResumeOne(p, mp) \/ BeginMount(p, mp) \/ CtxUnmount(p, mp) \/ StopOne(p, mp) \/ SweepOne(p, mp)
      PROVE  pc' = pc
  BY <1>8 DEF ResumeOne, BeginMount, CtxUnmount, StopOne, SweepOne, procs
<1>9. ASSUME NEW mp \in Mps, RunUmount(mp) PROVE pc' = pc
  BY <1>9 DEF RunUmount, procs
<1>10. ASSUME ConnReset \/ Cleanup \/ Refused \/ DirectUnmount \/ DirectLoad \/ DirectTrunc \/ DirectWrite
       PROVE  pc' = pc
  BY <1>10 DEF ConnReset, Cleanup, Refused, DirectUnmount, DirectLoad, DirectTrunc, DirectWrite, procs
<1> HIDE DEF One
<1>11. ASSUME NEW p \in Pids, RunDaemon(p) PROVE One(p)
  BY <1>1, <1>2, <1>3, <1>4, <1>11 DEF RunDaemon
<1>12. ASSUME NEW p \in Pids, Shutdown(p) PROVE One(p)
  BY <1>4, <1>5, <1>12 DEF Shutdown
<1>13. ASSUME Umount PROVE pc' = pc \/ \E p \in Pids : One(p)
  BY <1>6, <1>10, <1>13 DEF Umount
<1>14. ASSUME UNCHANGED vars PROVE pc' = pc
  BY <1>14 DEF vars, procs
<1>15. pc' = pc \/ \E p \in Pids : One(p)
  BY <1>7, <1>8, <1>9, <1>11, <1>12, <1>13, <1>14 DEF Next
<1> QED
  BY <1>15 DEF One

\* A request goes on, with the same mountpoint.
Goes(p, from, to) ==
    /\ op[p].step = from /\ op'[p].step = to
    /\ op'[p].kind = op[p].kind /\ op'[p].mp = op[p].mp

OpMove(p) ==
    \/ /\ \E mp \in Mps : ResumeOne(p, mp) /\ op'[p].mp = mp
       /\ op[p] = NoOp
       /\ \/ op'[p].kind = "resume" /\ op'[p].step = "validate"
          \/ op'[p].kind = "forget" /\ op'[p].step = "pidfile"
    \/ /\ \E mp \in Mps : BeginMount(p, mp) /\ op'[p].mp = mp
       /\ op[p] = NoOp /\ op'[p].kind = "mount" /\ op'[p].step = "validate"
    \/ /\ BeginUnmount(p) /\ op[p] = NoOp /\ op'[p].mp = cl.mp /\ cl.mp \in Mps
       /\ \/ op'[p].kind = "unmount" /\ op'[p].step = "stop"
          \/ op'[p].kind = "prune" /\ op'[p].step = "load" /\ cl.mp \notin mounts[p]
    \/ Validate(p) /\ Goes(p, "validate", "start")
    \/ StartMount(p) /\ Goes(p, "start", "insert")
    \/ /\ Validate(p) \/ StartMount(p)
       /\ op[p].kind = "resume" /\ op'[p].kind = "forget" /\ op'[p].mp = op[p].mp
       /\ op[p].step \in {"validate", "start"} /\ op'[p].step = "pidfile"
    \/ Insert(p) /\ Goes(p, "insert", "pidfile")
    \/ Stop(p) /\ Goes(p, "stop", "pidfile")
    \/ Pidfile(p) /\ Goes(p, "pidfile", "load")
    \/ Load(p) /\ Goes(p, "load", "trunc") /\ ~torn /\ op'[p].snap = registry
    \/ Trunc(p) /\ Goes(p, "trunc", "write") /\ op'[p].snap = op[p].snap

\* A request ends.
OpEnd(p) ==
    /\ op'[p] = NoOp
    /\ \/ pc'[p] = "gone" /\ raced' = (raced \/ InUpdate(op[p]))
       \/ /\ Validate(p) \/ StartMount(p)
          /\ op[p].kind # "resume"
       \/ Load(p) /\ torn
       \/ Write(p)

LEMMA OpStep ==
  ASSUME Shape, [Next]_vars
  PROVE  \/ op' = op
         \/ \E p \in Pids : (OpMove(p) \/ OpEnd(p)) /\ \A q \in Pids \ {p} : op'[q] = op[q]
<1>. DEFINE One(p) == (OpMove(p) \/ OpEnd(p)) /\ \A q \in Pids \ {p} : op'[q] = op[q]
<1>0. Types /\ ClOK
  BY DEF Shape
<1>1. ASSUME NEW p \in Pids, Bind(p) \/ Exit(p) \/ Crash(p) PROVE op' = op \/ One(p)
  BY <1>0, <1>1, DieOK DEF Bind, Exit, Crash, OpEnd
<1>2. ASSUME SignalOwner PROVE op' = op \/ \E p \in Pids : One(p)
  <2>. DEFINE p == pidfile[cl.mp]
  <2>1. p \in Pids \cup {0}
    BY <1>0, <1>2, DaemonAssumption DEF SignalOwner, ClOK, Types, Pids
  <2>2. CASE p = 0
    BY <1>2, <2>2 DEF SignalOwner, procs
  <2>3. CASE p \in Pids
    <3>1. p # 0
      BY <2>3 DEF Pids
    <3>2. Die(p) \/ UNCHANGED op
      BY <1>2, <3>1 DEF SignalOwner, procs
    <3>. HIDE DEF p
    <3>3. op' = op \/ One(p)
      BY <1>0, <2>3, <3>2, DieOK DEF OpEnd
    <3> QED
      BY <2>3, <3>3
  <2> QED
    BY <2>1, <2>2, <2>3
<1>3. ASSUME NEW p \in Pids, NEW mp \in Mps, ResumeOne(p, mp) PROVE One(p)
  <2>1. op[p] = NoOp
    BY <1>3 DEF ResumeOne
  <2>2. CASE op' = [op EXCEPT ![p] = [kind |-> "resume", step |-> "validate", mp |-> mp, snap |-> {}]]
    <3>1. [kind |-> "resume", step |-> "validate", mp |-> mp, snap |-> {}] \in OpRecs
      BY DEF OpRecs
    <3> QED
      BY <1>0, <1>3, <2>1, <2>2, <3>1, SetOp DEF OpMove
  <2>3. CASE op' = [op EXCEPT ![p] = [kind |-> "forget", step |-> "pidfile", mp |-> mp, snap |-> {}]]
    <3>1. [kind |-> "forget", step |-> "pidfile", mp |-> mp, snap |-> {}] \in OpRecs
      BY DEF OpRecs
    <3> QED
      BY <1>0, <1>3, <2>1, <2>3, <3>1, SetOp DEF OpMove
  <2> QED
    BY <1>3, <2>2, <2>3 DEF ResumeOne
<1>4. ASSUME NEW p \in Pids, NEW mp \in Mps, BeginMount(p, mp) PROVE One(p)
  <2>1. op[p] = NoOp /\ op' = [op EXCEPT ![p] = [kind |-> "mount", step |-> "validate", mp |-> mp, snap |-> {}]]
    BY <1>4 DEF BeginMount, Serving
  <2>2. [kind |-> "mount", step |-> "validate", mp |-> mp, snap |-> {}] \in OpRecs
    BY DEF OpRecs
  <2> QED
    BY <1>0, <1>4, <2>1, <2>2, SetOp DEF OpMove
<1>5. ASSUME NEW p \in Pids, BeginUnmount(p) PROVE op' = op \/ One(p)
  <2>1. op[p] = NoOp /\ cl.mp \in Mps
    BY <1>0, <1>5 DEF BeginUnmount, Serving, ClOK
  <2>2. CASE op' = [op EXCEPT ![p] = [kind |-> "unmount", step |-> "stop", mp |-> cl.mp, snap |-> {}]]
    <3>1. [kind |-> "unmount", step |-> "stop", mp |-> cl.mp, snap |-> {}] \in OpRecs
      BY <2>1 DEF OpRecs
    <3> QED
      BY <1>0, <1>5, <2>1, <2>2, <3>1, SetOp DEF OpMove
  <2>3. CASE /\ op' = [op EXCEPT ![p] = [kind |-> "prune", step |-> "load", mp |-> cl.mp, snap |-> {}]]
             /\ cl.mp \notin mounts[p]
    <3>1. [kind |-> "prune", step |-> "load", mp |-> cl.mp, snap |-> {}] \in OpRecs
      BY <2>1 DEF OpRecs
    <3> QED
      BY <1>0, <1>5, <2>1, <2>3, <3>1, SetOp DEF OpMove
  <2> QED
    BY <1>5, <2>2, <2>3 DEF BeginUnmount
<1>6. ASSUME NEW p \in Pids, Validate(p) PROVE One(p)
  <2>1. op[p].step = "validate" /\ (Step(p, "start") \/ Fail(p))
    BY <1>6 DEF Validate
  <2>2. CASE Step(p, "start")
    BY <1>0, <1>6, <2>1, <2>2, SetStep DEF OpMove, Goes
  <2>3. CASE Fail(p)
    BY <1>0, <1>6, <2>1, <2>3, FailOK DEF OpMove, OpEnd
  <2> QED
    BY <2>1, <2>2, <2>3
<1>7. ASSUME NEW p \in Pids, StartMount(p) PROVE One(p)
  <2>1. op[p].step = "start" /\ (Step(p, "insert") \/ Fail(p))
    BY <1>7 DEF StartMount
  <2>2. CASE Step(p, "insert")
    BY <1>0, <1>7, <2>1, <2>2, SetStep DEF OpMove, Goes
  <2>3. CASE Fail(p)
    BY <1>0, <1>7, <2>1, <2>3, FailOK DEF OpMove, OpEnd
  <2> QED
    BY <2>1, <2>2, <2>3
<1>8. ASSUME NEW p \in Pids, Insert(p) PROVE One(p)
  BY <1>0, <1>8, SetStep DEF Insert, OpMove, Goes
<1>9. ASSUME NEW p \in Pids, Stop(p) PROVE One(p)
  BY <1>0, <1>9, SetStep DEF Stop, OpMove, Goes
<1>10. ASSUME NEW p \in Pids, Pidfile(p) PROVE One(p)
  BY <1>0, <1>10, SetStep DEF Pidfile, OpMove, Goes
<1>11. ASSUME NEW p \in Pids, Trunc(p) PROVE One(p)
  BY <1>0, <1>11, SetStep DEF Trunc, OpMove, Goes
<1>12. ASSUME NEW p \in Pids, Load(p) PROVE One(p)
  <2>1. CASE torn
    <3>1. op' = [op EXCEPT ![p] = NoOp]
      BY <1>12, <2>1 DEF Load
    <3> QED
      BY <1>0, <1>12, <2>1, <3>1, Consts, SetOp DEF OpEnd
  <2>2. CASE ~torn
    <3>1. op' = [op EXCEPT ![p] = LoadMounts(op[p])] /\ op[p].step = "load"
      BY <1>12, <2>2 DEF Load
    <3>2. op[p] \in OpRecs /\ registry \in SUBSET Mps
      BY <1>0 DEF Types
    <3>3. LoadMounts(op[p]) \in OpRecs
      BY <3>2 DEF LoadMounts, OpRecs
    <3>4. /\ LoadMounts(op[p]).step = "trunc" /\ LoadMounts(op[p]).snap = registry
          /\ LoadMounts(op[p]).kind = op[p].kind /\ LoadMounts(op[p]).mp = op[p].mp
      BY <3>2 DEF LoadMounts, OpRecs
    <3> QED
      BY <1>0, <1>12, <2>2, <3>1, <3>3, <3>4, SetOp DEF OpMove, Goes
  <2> QED
    BY <2>1, <2>2
<1>13. ASSUME NEW p \in Pids, Write(p) PROVE One(p)
  BY <1>0, <1>13, Consts, SetOp DEF Write, OpEnd
<1>14. ASSUME NEW p \in Pids,
              \/ Dial(p) \/ RemoveSock(p) \/ Listen(p) \/ Resume(p) \/ ResumeDone(p) \/ SpawnWatchdog(p)
              \/ Signal(p) \/ TakeMounts(p) \/ StopWatchdog(p) \/ Watchdog(p)
       PROVE  op' = op
  BY <1>14 DEF Dial, RemoveSock, Listen, Resume, ResumeDone, SpawnWatchdog, Signal, TakeMounts,
     StopWatchdog, Watchdog, WatchdogStart, Sweep, SweepDone, procs
<1>15. ASSUME NEW p \in Pids, NEW mp \in Mps, CtxUnmount(p, mp) \/ StopOne(p, mp) \/ SweepOne(p, mp)
       PROVE  op' = op
  BY <1>15 DEF CtxUnmount, StopOne, SweepOne, procs
<1>16. ASSUME NEW mp \in Mps, RunUmount(mp) PROVE op' = op
  BY <1>16 DEF RunUmount, procs
<1>17. ASSUME ConnReset \/ Cleanup \/ Refused \/ DirectUnmount \/ DirectLoad \/ DirectTrunc \/ DirectWrite
       PROVE  op' = op
  BY <1>17 DEF ConnReset, Cleanup, Refused, DirectUnmount, DirectLoad, DirectTrunc, DirectWrite, procs
<1> HIDE DEF One
<1>18. ASSUME NEW p \in Pids, RunDaemon(p) PROVE op' = op \/ One(p)
  BY <1>1, <1>14, <1>18 DEF RunDaemon
<1>19. ASSUME NEW p \in Pids, Shutdown(p) PROVE op' = op \/ One(p)
  BY <1>1, <1>14, <1>19 DEF Shutdown
<1>20. ASSUME NEW p \in Pids, Request(p) PROVE op' = op \/ One(p)
  BY <1>5, <1>6, <1>7, <1>8, <1>9, <1>10, <1>11, <1>12, <1>13, <1>20 DEF Request
<1>21. ASSUME Umount PROVE op' = op \/ \E p \in Pids : One(p)
  BY <1>2, <1>17, <1>21 DEF Umount
<1>22. ASSUME UNCHANGED vars PROVE op' = op
  BY <1>22 DEF vars, procs
<1>23. op' = op \/ \E p \in Pids : One(p)
  BY <1>3, <1>4, <1>14, <1>15, <1>16, <1>18, <1>19, <1>20, <1>21, <1>22 DEF Next
<1> QED
  BY <1>23 DEF One

\* What is attached changes by a StartMount; or something is detached.
KernelMove ==
    \/ kernel' = kernel
    \/ \E mp \in Mps : kernel' = [kernel EXCEPT ![mp] = 0]
    \/ \E p \in Pids : StartMount(p) /\ kernel' = [kernel EXCEPT ![op[p].mp] = p] /\ Step(p, "insert")

LEMMA KernelStep ==
  ASSUME Shape, [Next]_vars
  PROVE  KernelMove
<1>1. ASSUME NEW p \in Pids,
             Dial(p) \/ RemoveSock(p) \/ Listen(p) \/ Resume(p) \/ ResumeDone(p) \/ Bind(p) \/
             SpawnWatchdog(p) \/ Insert(p) \/ Pidfile(p) \/ Load(p) \/ Trunc(p) \/ Write(p) \/
             BeginUnmount(p) \/ Signal(p) \/ TakeMounts(p) \/ StopWatchdog(p) \/ Exit(p) \/ Crash(p) \/
             WatchdogStart(p) \/ Sweep(p) \/ SweepDone(p)
      PROVE  kernel' = kernel
  BY <1>1
  DEF Dial, RemoveSock, Listen, Resume, ResumeDone, Bind, SpawnWatchdog, Insert, Pidfile, Load, Trunc,
  Write, BeginUnmount, Signal, TakeMounts, StopWatchdog, Exit, Crash, WatchdogStart, Sweep, SweepDone,
  procs, disk, hist
<1>2. ASSUME NEW p \in Pids, NEW mp \in Mps,
             ResumeOne(p, mp) \/ BeginMount(p, mp)
      PROVE  kernel' = kernel
  BY <1>2
  DEF ResumeOne, BeginMount, procs, disk, hist
<1>3. ASSUME NEW mp \in Mps, RunUmount(mp)
      PROVE  kernel' = kernel
  BY <1>3
  DEF RunUmount, procs, disk, hist
<1>4. ASSUME ConnReset \/ Refused \/ SignalOwner \/ DirectLoad \/ DirectTrunc \/ DirectWrite
      PROVE  kernel' = kernel
  BY <1>4
  DEF ConnReset, Refused, SignalOwner, DirectLoad, DirectTrunc, DirectWrite, procs, disk, hist
<1>5. ASSUME UNCHANGED vars PROVE kernel' = kernel
  BY <1>5 DEF vars, procs, disk, hist
<1>6. ASSUME NEW p \in Pids, Validate(p) PROVE KernelMove
  BY <1>6 DEF Validate, KernelMove, Shape, OpOK, NoOp
<1>7. ASSUME NEW p \in Pids, StartMount(p) PROVE KernelMove
  BY <1>7 DEF StartMount, KernelMove
<1>8. ASSUME NEW p \in Pids, Stop(p) PROVE KernelMove
  <2>1. op[p].mp \in Mps
    BY <1>8 DEF Stop, Shape, OpOK, NoOp
  <2> QED
    BY <1>8, <2>1 DEF Stop, KernelMove, UnmountKernel
<1>9. ASSUME NEW p \in Pids, NEW mp \in Mps, CtxUnmount(p, mp) PROVE KernelMove
  BY <1>9 DEF CtxUnmount, KernelMove
<1>10. ASSUME NEW p \in Pids, NEW mp \in Mps, StopOne(p, mp) PROVE KernelMove
  BY <1>10 DEF StopOne, KernelMove, UnmountKernel
<1>11. ASSUME NEW p \in Pids, NEW mp \in Mps, SweepOne(p, mp) PROVE KernelMove
  BY <1>11 DEF SweepOne, KernelMove, UnmountKernel
<1>12. ASSUME Cleanup PROVE KernelMove
  BY <1>12 DEF Cleanup, KernelMove, UnmountKernel, Shape, ClOK
<1>13. ASSUME DirectUnmount PROVE KernelMove
  BY <1>13 DEF DirectUnmount, KernelMove, UnmountKernel, Shape, ClOK
<1> QED
  BY <1>1, <1>2, <1>3, <1>4, <1>5, <1>6, <1>7, <1>8, <1>9, <1>10, <1>11, <1>12, <1>13
     DEF Next, RunDaemon, Request, Shutdown, Watchdog, Umount, KernelMove

\* mounts.json changes by a truncation or a write.
RegistryMove ==
    \/ torn' = torn /\ registry' = registry
    \/ DirectTrunc \/ DirectWrite \/ \E q \in Pids : Trunc(q) \/ Write(q)

LEMMA RegistryStep ==
  ASSUME [Next]_vars
  PROVE  RegistryMove
<1>1. ASSUME NEW p \in Pids,
             Dial(p) \/ RemoveSock(p) \/ Listen(p) \/ Resume(p) \/ ResumeDone(p) \/ Bind(p) \/
             SpawnWatchdog(p) \/ Validate(p) \/ StartMount(p) \/ Insert(p) \/ Pidfile(p) \/ Load(p) \/
             BeginUnmount(p) \/ Stop(p) \/ Signal(p) \/ TakeMounts(p) \/ StopWatchdog(p) \/ Exit(p) \/
             Crash(p) \/ WatchdogStart(p) \/ Sweep(p) \/ SweepDone(p)
      PROVE  torn' = torn /\ registry' = registry
  BY <1>1
  DEF Dial, RemoveSock, Listen, Resume, ResumeDone, Bind, SpawnWatchdog, Validate, StartMount, Insert,
  Pidfile, Load, BeginUnmount, Stop, Signal, TakeMounts, StopWatchdog, Exit, Crash, WatchdogStart, Sweep,
  SweepDone, procs, disk, hist
<1>2. ASSUME NEW p \in Pids, NEW mp \in Mps,
             ResumeOne(p, mp) \/ BeginMount(p, mp) \/ CtxUnmount(p, mp) \/ StopOne(p, mp) \/ SweepOne(p, mp)
      PROVE  torn' = torn /\ registry' = registry
  BY <1>2
  DEF ResumeOne, BeginMount, CtxUnmount, StopOne, SweepOne, procs, disk, hist
<1>3. ASSUME NEW mp \in Mps, RunUmount(mp)
      PROVE  torn' = torn /\ registry' = registry
  BY <1>3
  DEF RunUmount, procs, disk, hist
<1>4. ASSUME ConnReset \/ Cleanup \/ Refused \/ DirectUnmount \/ SignalOwner \/ DirectLoad
      PROVE  torn' = torn /\ registry' = registry
  BY <1>4
  DEF ConnReset, Cleanup, Refused, DirectUnmount, SignalOwner, DirectLoad, procs, disk, hist
<1>5. ASSUME UNCHANGED vars PROVE torn' = torn /\ registry' = registry
  BY <1>5 DEF vars, procs, disk, hist
<1>6. ASSUME NEW p \in Pids, Trunc(p) PROVE RegistryMove
  BY <1>6 DEF RegistryMove
<1>7. ASSUME NEW p \in Pids, Write(p) PROVE RegistryMove
  BY <1>7 DEF RegistryMove
<1>8. ASSUME DirectTrunc PROVE RegistryMove
  BY <1>8 DEF RegistryMove
<1>9. ASSUME DirectWrite PROVE RegistryMove
  BY <1>9 DEF RegistryMove
<1> QED
  BY <1>1, <1>2, <1>3, <1>4, <1>5, <1>6, <1>7, <1>8, <1>9
     DEF Next, RunDaemon, Request, Shutdown, Watchdog, Umount, RegistryMove

\* The umount command goes on.
ClMove ==
    \/ /\ cl' = Idle
       /\ \/ cl.step \in {"wait", "cleanup", "refused"}
          \/ DirectLoad /\ torn
          \/ DirectWrite
    \/ Heard
    \/ \E mp \in Mps :
         /\ RunUmount(mp) /\ cl'.mp = mp /\ cl'.step \in {"wait", "direct"}
         /\ cl'.step = "wait" => cl'.pid \in Pids
    \/ Refused /\ cl.step = "refused" /\ cl'.step = "direct" /\ cl'.mp = cl.mp
    \/ DirectUnmount /\ cl.step = "direct" /\ cl'.step = "signal" /\ cl'.mp = cl.mp
    \/ SignalOwner /\ cl.step = "signal" /\ cl'.step = "load" /\ cl'.mp = cl.mp
    \/ DirectLoad /\ ~torn /\ cl.step = "load" /\ cl'.step = "trunc" /\ cl'.mp = cl.mp /\ cl'.snap = registry
    \/ DirectTrunc /\ cl.step = "trunc" /\ cl'.step = "write" /\ cl'.mp = cl.mp /\ cl'.snap = cl.snap

LEMMA ClStep ==
  ASSUME Shape, [Next]_vars
  PROVE  cl' = cl \/ ClMove
<1>1. ASSUME NEW p \in Pids,
             Dial(p) \/ RemoveSock(p) \/ Listen(p) \/ Resume(p) \/ ResumeDone(p) \/ Bind(p) \/
             SpawnWatchdog(p) \/ Insert(p) \/ Pidfile(p) \/ Trunc(p) \/ Stop(p) \/ Signal(p) \/
             TakeMounts(p) \/ StopWatchdog(p) \/ Exit(p) \/ Crash(p) \/ WatchdogStart(p) \/ Sweep(p) \/
             SweepDone(p)
      PROVE  cl' = cl
  BY <1>1
  DEF Dial, RemoveSock, Listen, Resume, ResumeDone, Bind, SpawnWatchdog, Insert, Pidfile, Trunc, Stop,
  Signal, TakeMounts, StopWatchdog, Exit, Crash, WatchdogStart, Sweep, SweepDone, procs, disk, hist
<1>2. ASSUME NEW p \in Pids, NEW mp \in Mps,
             ResumeOne(p, mp) \/ BeginMount(p, mp) \/ CtxUnmount(p, mp) \/ StopOne(p, mp) \/ SweepOne(p, mp)
      PROVE  cl' = cl
  BY <1>2
  DEF ResumeOne, BeginMount, CtxUnmount, StopOne, SweepOne, procs, disk, hist
<1>3. ASSUME UNCHANGED vars PROVE cl' = cl
  BY <1>3 DEF vars, procs, disk, hist
<1>4. ASSUME NEW p \in Pids, Validate(p) PROVE cl' = cl \/ ClMove
  BY <1>4, FailOK DEF Validate, ClMove, Shape
<1>5. ASSUME NEW p \in Pids, StartMount(p) PROVE cl' = cl \/ ClMove
  BY <1>5, FailOK DEF StartMount, ClMove, Shape
<1>6. ASSUME NEW p \in Pids, Load(p) PROVE cl' = cl \/ ClMove
  BY <1>6, ReplyOK DEF Load, ClMove, Shape
<1>7. ASSUME NEW p \in Pids, Write(p) PROVE cl' = cl \/ ClMove
  BY <1>7, ReplyOK DEF Write, ClMove, Shape
<1>8. ASSUME NEW p \in Pids, BeginUnmount(p) PROVE cl' = cl \/ ClMove
  BY <1>8, ReplyOK DEF BeginUnmount, ClMove, Shape
<1>9. ASSUME NEW mp \in Mps, RunUmount(mp) PROVE cl' = cl \/ ClMove
  BY <1>9 DEF RunUmount, ClMove, Running, Answers
<1>10. ASSUME ConnReset PROVE cl' = cl \/ ClMove
  BY <1>10 DEF ConnReset, ClMove
<1>11. ASSUME Cleanup PROVE cl' = cl \/ ClMove
  BY <1>11 DEF Cleanup, ClMove
<1>12. ASSUME Refused PROVE cl' = cl \/ ClMove
  BY <1>12 DEF Refused, ClMove, Shape, Types, ClRecs
<1>13. ASSUME DirectUnmount PROVE cl' = cl \/ ClMove
  BY <1>13 DEF DirectUnmount, ClMove, Shape, Types, ClRecs
<1>14. ASSUME SignalOwner PROVE cl' = cl \/ ClMove
  BY <1>14 DEF SignalOwner, ClMove, Shape, Types, ClRecs
<1>15. ASSUME DirectLoad PROVE cl' = cl \/ ClMove
  BY <1>15 DEF DirectLoad, ClMove, LoadMounts, Shape, Types, ClRecs
<1>16. ASSUME DirectTrunc PROVE cl' = cl \/ ClMove
  BY <1>16 DEF DirectTrunc, ClMove, Shape, Types, ClRecs
<1>17. ASSUME DirectWrite PROVE cl' = cl \/ ClMove
  BY <1>17 DEF DirectWrite, ClMove
<1> QED
  BY <1>1, <1>2, <1>3, <1>4, <1>5, <1>6, <1>7, <1>8, <1>9, <1>10, <1>11, <1>12, <1>13, <1>14, <1>15, <1>16,
     <1>17
     DEF Next, RunDaemon, Request, Shutdown, Watchdog, Umount

\* What happened stays so.
Past ==
    /\ (raced => raced') /\ (late => late') /\ (apart => apart')
    /\ failed \subseteq failed' /\ overtaken \subseteq overtaken'

LEMMA HistoryStep ==
  ASSUME Shape, [Next]_vars
  PROVE  Past
<1>1. ASSUME NEW p \in Pids,
             Dial(p) \/ RemoveSock(p) \/ ResumeDone(p) \/ SpawnWatchdog(p) \/ Insert(p) \/
             Pidfile(p) \/ Trunc(p) \/ Write(p) \/ Signal(p) \/ WatchdogStart(p) \/ SweepDone(p)
      PROVE  raced' = raced /\ late' = late /\ failed' = failed /\ ups' = ups
  BY <1>1
  DEF Dial, RemoveSock, ResumeDone, SpawnWatchdog, Insert, Pidfile, Trunc, Write, Signal,
  WatchdogStart, SweepDone, procs, disk, hist, ups
<1>2. ASSUME NEW p \in Pids, NEW mp \in Mps,
             CtxUnmount(p, mp)
      PROVE  raced' = raced /\ late' = late /\ failed' = failed /\ ups' = ups
  BY <1>2
  DEF CtxUnmount, procs, disk, hist, ups
<1>3. ASSUME ConnReset \/ DirectTrunc
      PROVE  raced' = raced /\ late' = late /\ failed' = failed /\ ups' = ups
  BY <1>3
  DEF ConnReset, DirectTrunc, procs, disk, hist, ups
<1>4. ASSUME UNCHANGED vars PROVE raced' = raced /\ late' = late /\ failed' = failed /\ ups' = ups
  BY <1>4 DEF vars, procs, disk, hist, ups
<1>5. ASSUME NEW p \in Pids, Bind(p) PROVE Past
  BY <1>5 DEF Bind, Die, Past, ups, Shape, Types
<1>6. ASSUME NEW p \in Pids, Exit(p) PROVE Past
  BY <1>6 DEF Exit, Die, Past, ups, Shape, Types
<1>7. ASSUME NEW p \in Pids, Crash(p) PROVE Past
  BY <1>7 DEF Crash, Die, Past, ups, Shape, Types
<1>8. ASSUME NEW p \in Pids, Resume(p) PROVE Past
  BY <1>8 DEF Resume, Past, ups, Shape, Types
<1>9. ASSUME NEW p \in Pids, Load(p) PROVE Past
  BY <1>9 DEF Load, Past, ups, Shape, Types
<1>10. ASSUME NEW p \in Pids, Sweep(p) PROVE Past
  BY <1>10 DEF Sweep, Past, ups, Shape, Types
<1>11. ASSUME NEW p \in Pids, NEW mp \in Mps, ResumeOne(p, mp) PROVE Past
  BY <1>11 DEF ResumeOne, Past, ups, Shape, Types
<1>12. ASSUME NEW p \in Pids, NEW mp \in Mps, BeginMount(p, mp) PROVE Past
  BY <1>12 DEF BeginMount, Past, ups, Shape, Types
<1>13. ASSUME NEW p \in Pids, BeginUnmount(p) PROVE Past
  BY <1>13 DEF BeginUnmount, Past, ups, Shape, Types
<1>14. ASSUME NEW p \in Pids, TakeMounts(p) PROVE Past
  BY <1>14 DEF TakeMounts, Past, ups, Shape, Types
<1>15. ASSUME NEW p \in Pids, StopWatchdog(p) PROVE Past
  BY <1>15 DEF StopWatchdog, Past, ups, Shape, Types
<1>16. ASSUME NEW p \in Pids, Stop(p) PROVE Past
  BY <1>16 DEF Stop, UnmountKernel, Past, ups, Shape, Types
<1>17. ASSUME NEW p \in Pids, NEW mp \in Mps, StopOne(p, mp) PROVE Past
  BY <1>17 DEF StopOne, UnmountKernel, Past, ups, Shape, Types
<1>18. ASSUME NEW p \in Pids, NEW mp \in Mps, SweepOne(p, mp) PROVE Past
  BY <1>18 DEF SweepOne, UnmountKernel, Past, ups, Shape, Types
<1>19. ASSUME NEW mp \in Mps, RunUmount(mp) PROVE Past
  BY <1>19 DEF RunUmount, Past, ups, Shape, Types
<1>20. ASSUME Cleanup PROVE Past
  BY <1>20 DEF Cleanup, UnmountKernel, Past, ups, Shape, Types
<1>21. ASSUME Refused PROVE Past
  BY <1>21 DEF Refused, Past, ups, Shape, Types
<1>22. ASSUME DirectUnmount PROVE Past
  BY <1>22 DEF DirectUnmount, UnmountKernel, Past, ups, Shape, Types
<1>23. ASSUME SignalOwner PROVE Past
  BY <1>23 DEF SignalOwner, Die, Past, ups, Shape, Types
<1>24. ASSUME DirectLoad PROVE Past
  BY <1>24 DEF DirectLoad, Past, ups, Shape, Types
<1>25. ASSUME NEW p \in Pids, Validate(p) PROVE Past
  BY <1>25 DEF Validate, Past, ups
<1>26. ASSUME NEW p \in Pids, StartMount(p) PROVE Past
  BY <1>26 DEF StartMount, hist, Past, ups
<1>27. ASSUME NEW p \in Pids, Listen(p) PROVE Past
  BY <1>27 DEF Listen, Past, Shape, Types
<1>28. ASSUME DirectWrite PROVE Past
  BY <1>28 DEF DirectWrite, Past
<1> QED
  BY <1>1, <1>2, <1>3, <1>4, <1>5, <1>6, <1>7, <1>8, <1>9, <1>10, <1>11, <1>12, <1>13, <1>14, <1>15, <1>16,
     <1>17, <1>18, <1>19, <1>20, <1>21, <1>22, <1>23, <1>24, <1>25, <1>26, <1>27, <1>28
     DEF Next, RunDaemon, Request, Shutdown, Watchdog, Umount, Past, ups, Shape, Types

\* A daemon's map loses a mountpoint to a request, the shutdown or its death.
MountsMove(p) ==
    \/ mounts[p] \subseteq mounts'[p]
    \/ pc'[p] = "gone" /\ op'[p] = NoOp
    \/ BeginUnmount(p) /\ mounts'[p] = mounts[p] \ {cl.mp} /\ op'[p].mp = cl.mp /\ op'[p].step = "stop"
    \/ TakeMounts(p)

LEMMA MountsStep ==
  ASSUME Shape, [Next]_vars, NEW x \in Pids
  PROVE  MountsMove(x)
<1>1. ASSUME NEW p \in Pids,
             Dial(p) \/ RemoveSock(p) \/ Listen(p) \/ Resume(p) \/ ResumeDone(p) \/ SpawnWatchdog(p) \/
             Validate(p) \/ StartMount(p) \/ Pidfile(p) \/ Load(p) \/ Trunc(p) \/ Write(p) \/ Stop(p) \/
             Signal(p) \/ StopWatchdog(p) \/ WatchdogStart(p) \/ Sweep(p) \/ SweepDone(p)
      PROVE  mounts' = mounts
  BY <1>1
  DEF Dial, RemoveSock, Listen, Resume, ResumeDone, SpawnWatchdog, Validate, StartMount, Pidfile, Load,
  Trunc, Write, Stop, Signal, StopWatchdog, WatchdogStart, Sweep, SweepDone, procs, disk, hist
<1>2. ASSUME NEW p \in Pids, NEW mp \in Mps,
             ResumeOne(p, mp) \/ BeginMount(p, mp) \/ CtxUnmount(p, mp) \/ StopOne(p, mp) \/ SweepOne(p, mp)
      PROVE  mounts' = mounts
  BY <1>2
  DEF ResumeOne, BeginMount, CtxUnmount, StopOne, SweepOne, procs, disk, hist
<1>3. ASSUME NEW mp \in Mps, RunUmount(mp)
      PROVE  mounts' = mounts
  BY <1>3
  DEF RunUmount, procs, disk, hist
<1>4. ASSUME ConnReset \/ Cleanup \/ Refused \/ DirectUnmount \/ DirectLoad \/ DirectTrunc \/ DirectWrite
      PROVE  mounts' = mounts
  BY <1>4
  DEF ConnReset, Cleanup, Refused, DirectUnmount, DirectLoad, DirectTrunc, DirectWrite, procs, disk, hist
<1>5. ASSUME UNCHANGED vars PROVE mounts' = mounts
  BY <1>5 DEF vars, procs, disk, hist
<1>6. ASSUME NEW p \in Pids, Bind(p) PROVE MountsMove(x)
  BY <1>6, DieOK DEF Bind, Die, MountsMove, Shape, Types
<1>7. ASSUME NEW p \in Pids, Exit(p) PROVE MountsMove(x)
  BY ZenonT(60), <1>7, DieOK DEF Exit, Die, MountsMove, Shape, Types
<1>8. ASSUME NEW p \in Pids, Crash(p) PROVE MountsMove(x)
  BY <1>8, DieOK DEF Crash, Die, MountsMove, Shape, Types
<1>9. ASSUME NEW p \in Pids, Insert(p) PROVE MountsMove(x)
  BY <1>9 DEF Insert, MountsMove, Shape, Types
<1>10. ASSUME NEW p \in Pids, TakeMounts(p) PROVE MountsMove(x)
  BY <1>10 DEF TakeMounts, MountsMove, Shape, Types
<1>11. ASSUME NEW p \in Pids, BeginUnmount(p) PROVE MountsMove(x)
  <2>1. \/ UNCHANGED mounts
        \/ /\ mounts' = [mounts EXCEPT ![p] = @ \ {cl.mp}]
           /\ op' = [op EXCEPT ![p] = [kind |-> "unmount", step |-> "stop", mp |-> cl.mp, snap |-> {}]]
    BY <1>11 DEF BeginUnmount
  <2> QED
    BY <1>11, <2>1 DEF MountsMove, Shape, Types
<1>12. ASSUME SignalOwner PROVE MountsMove(x)
  <2>1. pidfile[cl.mp] \in Pids \cup {0}
    BY <1>12, DaemonAssumption DEF SignalOwner, Shape, ClOK, Types, Pids
  <2>2. UNCHANGED mounts \/ \E p \in Pids : Die(p)
    BY <1>12, <2>1 DEF SignalOwner, procs
  <2> QED
    BY <2>2, DieOK DEF Die, MountsMove, Shape, Types
<1> QED
  BY <1>1, <1>2, <1>3, <1>4, <1>5, <1>6, <1>7, <1>8, <1>9, <1>10, <1>11, <1>12
     DEF Next, RunDaemon, Request, Shutdown, Watchdog, Umount, MountsMove

\* What a daemon has still to mount was in mounts.json when it resumed.
LEMMA TodoStep ==
  ASSUME Shape, [Next]_vars, NEW x \in Pids
  PROVE  todo'[x] \subseteq todo[x] \/ Resume(x) \/ TakeMounts(x)
<1>1. ASSUME NEW p \in Pids,
             Dial(p) \/ RemoveSock(p) \/ Listen(p) \/ ResumeDone(p) \/ SpawnWatchdog(p) \/ Validate(p) \/
             StartMount(p) \/ Insert(p) \/ Pidfile(p) \/ Load(p) \/ Trunc(p) \/ Write(p) \/ BeginUnmount(p)
             \/ Stop(p) \/ Signal(p) \/ StopWatchdog(p) \/ WatchdogStart(p) \/ Sweep(p) \/ SweepDone(p)
      PROVE  todo' = todo
  BY <1>1
  DEF Dial, RemoveSock, Listen, ResumeDone, SpawnWatchdog, Validate, StartMount, Insert, Pidfile, Load,
  Trunc, Write, BeginUnmount, Stop, Signal, StopWatchdog, WatchdogStart, Sweep, SweepDone, procs, disk, hist
<1>2. ASSUME NEW p \in Pids, NEW mp \in Mps,
             BeginMount(p, mp) \/ CtxUnmount(p, mp) \/ SweepOne(p, mp)
      PROVE  todo' = todo
  BY <1>2
  DEF BeginMount, CtxUnmount, SweepOne, procs, disk, hist
<1>3. ASSUME NEW mp \in Mps, RunUmount(mp)
      PROVE  todo' = todo
  BY <1>3
  DEF RunUmount, procs, disk, hist
<1>4. ASSUME ConnReset \/ Cleanup \/ Refused \/ DirectUnmount \/ DirectLoad \/ DirectTrunc \/ DirectWrite
      PROVE  todo' = todo
  BY <1>4
  DEF ConnReset, Cleanup, Refused, DirectUnmount, DirectLoad, DirectTrunc, DirectWrite, procs, disk, hist
<1>5. ASSUME UNCHANGED vars PROVE todo' = todo
  BY <1>5 DEF vars, procs, disk, hist
<1>6. ASSUME NEW p \in Pids, Bind(p) PROVE todo'[x] \subseteq todo[x] \/ Resume(x) \/ TakeMounts(x)
  BY <1>6 DEF Bind, Die, Shape, Types
<1>7. ASSUME NEW p \in Pids, Exit(p) PROVE todo'[x] \subseteq todo[x] \/ Resume(x) \/ TakeMounts(x)
  BY <1>7 DEF Exit, Die, Shape, Types
<1>8. ASSUME NEW p \in Pids, Crash(p) PROVE todo'[x] \subseteq todo[x] \/ Resume(x) \/ TakeMounts(x)
  BY <1>8 DEF Crash, Die, Shape, Types
<1>9. ASSUME NEW p \in Pids, Resume(p) PROVE todo'[x] \subseteq todo[x] \/ Resume(x) \/ TakeMounts(x)
  BY <1>9 DEF Resume, Shape, Types
<1>10. ASSUME NEW p \in Pids, NEW mp \in Mps, ResumeOne(p, mp)
      PROVE  todo'[x] \subseteq todo[x] \/ Resume(x) \/ TakeMounts(x)
  BY <1>10 DEF ResumeOne, Shape, Types
<1>11. ASSUME NEW p \in Pids, NEW mp \in Mps, StopOne(p, mp)
      PROVE  todo'[x] \subseteq todo[x] \/ Resume(x) \/ TakeMounts(x)
  BY <1>11 DEF StopOne, Shape, Types
<1>12. ASSUME NEW p \in Pids, TakeMounts(p) PROVE todo'[x] \subseteq todo[x] \/ Resume(x) \/ TakeMounts(x)
  BY <1>12 DEF TakeMounts, Shape, Types
<1>13. ASSUME SignalOwner PROVE todo'[x] \subseteq todo[x] \/ Resume(x) \/ TakeMounts(x)
  BY <1>13 DEF SignalOwner, Die, procs, Shape, Types
<1> QED
  BY <1>1, <1>2, <1>3, <1>4, <1>5, <1>6, <1>7, <1>8, <1>9, <1>10, <1>11, <1>12, <1>13
     DEF Next, RunDaemon, Request, Shutdown, Watchdog, Umount

\* An unmount that ends well makes a tree an unmounted one.
StoppedMove ==
    \/ stopped' \subseteq stopped
    \/ DirectWrite
    \/ \E q \in Pids :
         Write(q) /\ op[q].kind \in {"unmount", "prune"} /\ stopped' = Stopped(op[q].mp)

LEMMA StoppedStep ==
  ASSUME [Next]_vars
  PROVE  StoppedMove
<1>1. ASSUME NEW p \in Pids,
             Dial(p) \/ RemoveSock(p) \/ Listen(p) \/ Resume(p) \/ ResumeDone(p) \/ Bind(p) \/
             SpawnWatchdog(p) \/ Validate(p) \/ StartMount(p) \/ Insert(p) \/ Pidfile(p) \/ Load(p) \/
             Trunc(p) \/ BeginUnmount(p) \/ Stop(p) \/ Signal(p) \/ TakeMounts(p) \/ StopWatchdog(p) \/
             Exit(p) \/ Crash(p) \/ WatchdogStart(p) \/ Sweep(p) \/ SweepDone(p)
      PROVE  stopped' = stopped
  BY <1>1
  DEF Dial, RemoveSock, Listen, Resume, ResumeDone, Bind, SpawnWatchdog, Validate, StartMount, Insert,
  Pidfile, Load, Trunc, BeginUnmount, Stop, Signal, TakeMounts, StopWatchdog, Exit, Crash, WatchdogStart,
  Sweep, SweepDone, procs, disk, hist
<1>2. ASSUME NEW p \in Pids, NEW mp \in Mps,
             ResumeOne(p, mp) \/ CtxUnmount(p, mp) \/ StopOne(p, mp) \/ SweepOne(p, mp)
      PROVE  stopped' = stopped
  BY <1>2
  DEF ResumeOne, CtxUnmount, StopOne, SweepOne, procs, disk, hist
<1>3. ASSUME NEW mp \in Mps, RunUmount(mp)
      PROVE  stopped' = stopped
  BY <1>3
  DEF RunUmount, procs, disk, hist
<1>4. ASSUME ConnReset \/ Cleanup \/ Refused \/ DirectUnmount \/ SignalOwner \/ DirectLoad \/ DirectTrunc
      PROVE  stopped' = stopped
  BY <1>4
  DEF ConnReset, Cleanup, Refused, DirectUnmount, SignalOwner, DirectLoad, DirectTrunc, procs, disk, hist
<1>5. ASSUME UNCHANGED vars PROVE stopped' = stopped
  BY <1>5 DEF vars, procs, disk, hist
<1>6. ASSUME NEW p \in Pids, NEW mp \in Mps, BeginMount(p, mp) PROVE StoppedMove
  BY <1>6 DEF BeginMount, StoppedMove
<1>7. ASSUME NEW p \in Pids, Write(p) PROVE StoppedMove
  BY <1>7 DEF Write, StoppedMove
<1>8. ASSUME DirectWrite PROVE StoppedMove
  BY <1>8 DEF StoppedMove
<1> QED
  BY <1>1, <1>2, <1>3, <1>4, <1>5, <1>6, <1>7, <1>8
     DEF Next, RunDaemon, Request, Shutdown, Watchdog, Umount, StoppedMove

-----------------------------------------------------------------------------
(* The shape of the state *)

\* A request goes on only where its daemon stays.
LEMMA Moving == ASSUME NEW p \in Pids, OpMove(p) PROVE pc' = pc
BY DEF OpMove, ResumeOne, BeginMount, BeginUnmount, Validate, StartMount, Insert, Stop, Pidfile,
   Load, Trunc, procs

LEMMA PortStep == ASSUME Shape, [Next]_vars PROVE Port'
<1>. SUFFICES ASSUME ~apart' PROVE \A p, q \in Pids : HoldsPort(p)' /\ HoldsPort(q)' => p = q
  BY DEF Port
<1>0. ~apart
  BY HistoryStep DEF Past
<1>1. CASE pc' = pc
  BY <1>0, <1>1 DEF Shape, Port, HoldsPort
<1>2. ASSUME NEW r \in Pids, PcMove(r), \A q \in Pids \ {r} : pc'[q] = pc[q]
      PROVE  \A p, q \in Pids : HoldsPort(p)' /\ HoldsPort(q)' => p = q
  <2>1. \A q \in Pids \ {r} : HoldsPort(q)' <=> HoldsPort(q)
    BY <1>2 DEF HoldsPort
  <2>2. HoldsPort(r)' => HoldsPort(r) \/ \A q \in Pids : ~HoldsPort(q)
    BY <1>2 DEF PcMove, HoldsPort
  <2> QED
    BY <1>0, <2>1, <2>2 DEF Shape, Port
<1> QED
  BY <1>1, <1>2, PcStep

LEMMA ClOKStep == ASSUME Shape, [Next]_vars PROVE ClOK'
<1>1. CASE cl' = cl
  BY <1>1 DEF Shape, ClOK
<1>2. CASE ClMove
  BY <1>2 DEF ClMove, Heard, Shape, ClOK, Idle
<1> QED
  BY <1>1, <1>2, ClStep

\* Of the requests of a daemon that is not serving any more, none is new
\* without being late.
LEMMA OpOKStep == ASSUME Shape, [Next]_vars, NEW p \in Pids PROVE OpOK(p)'
<1>0. Types /\ OpOK(p) /\ ClOK /\ Types'
  BY TypesStep DEF Shape
<1>1. CASE op'[p] = NoOp
  BY <1>1 DEF OpOK
<1>2. CASE op'[p] = op[p] /\ op[p] # NoOp
  <2>1. (late => late') /\ (pc'[p] = pc[p] \/ PcMove(p))
    BY HistoryStep, PcStep DEF Past
  <2>2. CASE pc'[p] = pc[p]
    BY <1>0, <1>2, <2>1, <2>2 DEF OpOK
  <2>3. CASE PcMove(p)
    <3>1. \/ pc[p] = "serve" /\ pc'[p] = "signalled"
          \/ pc[p] = "signalled" /\ pc'[p] = "stopping"
          \/ pc[p] = "stopping" /\ pc'[p] = "drain" /\ StopWatchdog(p)
      BY <1>0, <1>2, <2>3 DEF PcMove, OpOK
    <3>2. pc'[p] = "drain" => late'
      BY <1>2, <3>1 DEF StopWatchdog
    <3>3. pc[p] # "resume"
      BY <3>1
    <3> QED
      BY <1>0, <1>2, <3>1, <3>2, <3>3 DEF OpOK
  <2> QED
    BY <2>1, <2>2, <2>3
<1>3. CASE OpMove(p)
  <2>0. pc'[p] = pc[p] /\ (late => late')
    BY <1>3, Moving, HistoryStep DEF Past
  <2>1. CASE op[p] = NoOp
    <3>1. CASE /\ \E mp \in Mps : ResumeOne(p, mp) /\ op'[p].mp = mp
               /\ \/ op'[p].kind = "resume" /\ op'[p].step = "validate"
                  \/ op'[p].kind = "forget" /\ op'[p].step = "pidfile"
      <4>1. pc[p] = "resume" /\ op'[p].mp \in Mps
        BY <3>1 DEF ResumeOne
      <4> QED
        BY <2>0, <3>1, <4>1 DEF OpOK, Steps
    <3>2. CASE /\ \E mp \in Mps : BeginMount(p, mp) /\ op'[p].mp = mp
               /\ op'[p].kind = "mount" /\ op'[p].step = "validate"
      <4>1. /\ pc[p] \in {"serve", "signalled", "stopping", "drain"} /\ op'[p].mp \in Mps
            /\ late' = (late \/ pc[p] # "serve")
        BY <3>2 DEF BeginMount, Serving
      <4> QED
        BY <2>0, <3>2, <4>1 DEF OpOK, Steps
    <3>3. CASE /\ BeginUnmount(p) /\ op'[p].mp \in Mps
               /\ \/ op'[p].kind = "unmount" /\ op'[p].step = "stop"
                  \/ op'[p].kind = "prune" /\ op'[p].step = "load"
      <4>1. pc[p] \in {"serve", "signalled", "stopping", "drain"} /\ late' = (late \/ pc[p] # "serve")
        BY <3>3 DEF BeginUnmount, Serving
      <4> QED
        BY <2>0, <3>3, <4>1 DEF OpOK, Steps
    <3>4. op[p].step = "none" /\ op[p].kind = "none"
      BY <2>1 DEF NoOp
    <3> QED
      BY <1>3, <3>1, <3>2, <3>3, <3>4 DEF OpMove, Goes
  <2>2. CASE op[p] # NoOp
    <3>1. op[p].kind # "none" /\ op[p].mp \in Mps /\ op[p].step \in Steps(op[p].kind)
      BY <1>0, <2>2 DEF OpOK
    <3>2. /\ op'[p].mp = op[p].mp
          /\ \/ op'[p].kind = op[p].kind
             \/ op[p].kind = "resume" /\ op'[p].kind = "forget" /\ op'[p].step = "pidfile"
      BY <1>3, <2>2 DEF OpMove, Goes
    <3>3. CASE op[p].kind = "resume" /\ op'[p].kind = "forget" /\ op'[p].step = "pidfile"
      BY <1>0, <2>0, <2>2, <3>1, <3>2, <3>3 DEF OpOK, Steps
    <3>4. CASE op'[p].kind = op[p].kind
      <4>1. op[p].kind \in {"mount", "resume", "forget", "unmount", "prune"}
        BY <1>0, <3>1 DEF Types, OpRecs
      <4>2. \/ op[p].step = "validate" /\ op'[p].step = "start"
            \/ op[p].step = "start" /\ op'[p].step = "insert"
            \/ op[p].step = "insert" /\ op'[p].step = "pidfile"
            \/ op[p].step = "stop" /\ op'[p].step = "pidfile"
            \/ op[p].step = "pidfile" /\ op'[p].step = "load"
            \/ op[p].step = "load" /\ op'[p].step = "trunc"
            \/ op[p].step = "trunc" /\ op'[p].step = "write"
        BY <1>3, <2>2, <3>4 DEF OpMove, Goes
      <4>3. op'[p].step \in Steps(op[p].kind)
        BY <3>1, <4>1, <4>2 DEF Steps
      <4> QED
        BY <1>0, <2>0, <2>2, <3>1, <3>2, <3>4, <4>3 DEF OpOK
    <3> QED
      BY <3>2, <3>3, <3>4
  <2> QED
    BY <2>1, <2>2
<1> QED
  BY <1>1, <1>2, <1>3, OpStep DEF OpEnd

LEMMA ShapeStep == ASSUME Shape, [Next]_vars PROVE Shape'
BY TypesStep, PortStep, ClOKStep, OpOKStep DEF Shape

LEMMA ShapeInit == ASSUME Init PROVE Shape
<1>1. Types
  BY Consts, DaemonAssumption DEF Init, Types, PcLabels
<1> QED
  BY <1>1 DEF Init, Shape, ClOK, Idle, Port, HoldsPort, OpOK

-----------------------------------------------------------------------------
(* Nothing is mounted over a mount. *)

\* Unless late, a daemon with a request holds a port, and so it is one.
LEMMA OneRequest ==
  ASSUME Shape, ~late, ~apart
  PROVE  /\ \A p \in Pids : op[p] # NoOp => HoldsPort(p)
         /\ \A p, q \in Pids : op[p] # NoOp /\ op[q] # NoOp => p = q
<1>1. \A p \in Pids : op[p] # NoOp => HoldsPort(p)
  BY DEF Shape, OpOK, HoldsPort
<1> QED
  BY <1>1 DEF Shape, Port

\* A step attaches only what its own request mounts.
LEMMA Attaching ==
  ASSUME Shape, [Next]_vars, NEW mp \in Mps, kernel'[mp] # 0, kernel'[mp] # kernel[mp]
  PROVE  \E p \in Pids : /\ StartMount(p) /\ Step(p, "insert")
                         /\ op[p].step = "start" /\ op[p].mp = mp /\ kernel'[mp] = p
BY KernelStep DEF KernelMove, Shape, Types, StartMount

LEMMA Validated ==
  ASSUME Shape, NEW p \in Pids, Validate(p), op'[p].step = "start"
  PROVE  kernel'[op[p].mp] = 0 /\ op'[p].mp = op[p].mp
<1>0. Types /\ op[p].mp \in Mps
  BY DEF Validate, Shape, OpOK, NoOp
<1>1. ~Fail(p)
  BY <1>0, FailOK DEF NoOp
<1>2. Step(p, "start")
  BY <1>1 DEF Validate
<1> QED
  BY <1>0, <1>1, <1>2, SetStep DEF Validate, Valid, Attached, Types

LEMMA ReadyStep == ASSUME Shape, Ready, [Next]_vars PROVE Ready'
<1>. SUFFICES ASSUME ~late', ~apart', NEW p \in Pids, op'[p].step = "start" PROVE kernel'[op'[p].mp] = 0
  BY DEF Ready
<1>0. ~late /\ ~apart
  BY HistoryStep DEF Past
<1>1. CASE op'[p] = op[p]
  <2>1. kernel[op[p].mp] = 0 /\ op[p] # NoOp /\ op[p].mp \in Mps
    BY <1>0, <1>1 DEF Ready, Shape, OpOK, NoOp
  <2>2. ASSUME kernel'[op[p].mp] # 0 PROVE FALSE
    <3>1. PICK q \in Pids : StartMount(q) /\ Step(q, "insert") /\ op[q].step = "start"
      BY <2>1, <2>2, Attaching
    <3>2. q = p
      BY <1>0, <2>1, <3>1, OneRequest DEF NoOp
    <3>3. op'[p].step = "insert"
      BY <3>1, <3>2, SetStep DEF Shape
    <3> QED
      BY <3>3
  <2> QED
    BY <1>1, <2>2
<1>2. CASE OpMove(p)
  <2>1. Validate(p)
    BY <1>2 DEF OpMove, Goes
  <2> QED
    BY <2>1, Validated
<1> QED
  BY <1>1, <1>2, OpStep DEF OpEnd, NoOp

LEMMA ReadyInit == ASSUME Init PROVE Ready
<1>1. \A p \in Pids : op[p].step = "none"
  BY DEF Init, NoOp
<1> QED
  BY <1>1 DEF Ready

\* No daemon mounts over an attached mount, for any number of daemons and
\* mountpoints: it validates and mounts under the lock, and while all daemons
\* use one dashboard port, one of them gets as far as resume at a time.
THEOREM NothingOnTop == Spec => NeverStacked
<1>. DEFINE Inv == Shape /\ Ready
<1>1. Init => Inv
  BY ShapeInit, ReadyInit
<1>2. Inv /\ [Next]_vars => Inv'
  BY ShapeStep, ReadyStep
<1>3. Inv /\ [Next]_vars => [~late /\ ~apart => \A mp \in Mps : kernel'[mp] \in {0, kernel[mp]} \/ kernel[mp] = 0]_vars
  BY Attaching DEF Ready
<1>. QED
  BY <1>1, <1>2, <1>3, PTL DEF Spec, NeverStacked

-----------------------------------------------------------------------------
(* One update of mounts.json at a time *)

\* Who is in an update of the registry was, or has just loaded it.
LEMMA OpUpdate ==
  ASSUME Shape, [Next]_vars, NEW p \in Pids, InUpdate(op'[p])
  PROVE  \/ /\ InUpdate(op[p]) /\ op'[p].kind = op[p].kind /\ op'[p].mp = op[p].mp /\ op'[p].snap = op[p].snap
            /\ op'[p].step = "write" => op[p].step = "write" \/ Trunc(p)
         \/ Load(p) /\ ~torn /\ op[p].step = "load" /\ op'[p].step = "trunc" /\ op'[p].snap = registry
<1>1. CASE op'[p] = op[p]
  BY <1>1
<1>2. CASE OpMove(p)
  BY <1>2 DEF OpMove, Goes, InUpdate
<1>3. CASE OpEnd(p)
  BY <1>3 DEF OpEnd, InUpdate, NoOp
<1> QED
  BY <1>1, <1>2, <1>3, OpStep

LEMMA ClUpdate ==
  ASSUME Shape, [Next]_vars, InUpdate(cl')
  PROVE  \/ /\ InUpdate(cl) /\ cl'.mp = cl.mp /\ cl'.snap = cl.snap
            /\ cl'.step = "write" => cl.step = "write" \/ DirectTrunc
         \/ DirectLoad /\ ~torn /\ cl'.step = "trunc" /\ cl'.mp = cl.mp /\ cl'.snap = registry
<1>1. CASE cl' = cl
  BY <1>1
<1>2. CASE ClMove
  BY <1>2 DEF ClMove, Heard, InUpdate, Idle
<1> QED
  BY <1>1, <1>2, ClStep

\* A truncated file is written by who truncated it, or an update was cut.
LEMMA OpWrites ==
  ASSUME Shape, [Next]_vars, NEW p \in Pids, op[p].step = "write", op'[p].step # "write", ~raced'
  PROVE  Write(p)
<1>1. op'[p] # op[p] /\ ~OpMove(p)
  BY DEF OpMove, Goes, NoOp
<1>2. OpEnd(p)
  BY <1>1, OpStep
<1>3. ~Validate(p) /\ ~StartMount(p) /\ ~Load(p)
  BY DEF Validate, StartMount, Load
<1> QED
  BY <1>2, <1>3 DEF OpEnd, InUpdate

LEMMA ClWrites ==
  ASSUME Shape, [Next]_vars, cl.step = "write", cl'.step # "write"
  PROVE  DirectWrite
<1>1. ClMove
  BY ClStep
<1>2. ~DirectLoad /\ ~\E mp \in Mps : RunUmount(mp)
  BY DEF DirectLoad, RunUmount
<1> QED
  BY <1>1, <1>2 DEF ClMove, Heard

\* The changes of a request's record are its own.
LEMMA LoadAlone ==
  ASSUME Types, NEW p \in Pids, Load(p)
  PROVE  \A q \in Pids \ {p} : op'[q] = op[q]
BY DEF Load, Types

LEMMA UpdatesStep == ASSUME Shape, Updates, [Next]_vars PROVE Updates'
<1>. SUFFICES ASSUME ~raced' PROVE
        /\ \A p, q \in Pids : InUpdate(op'[p]) /\ InUpdate(op'[q]) => p = q
        /\ \A p \in Pids : ~(InUpdate(cl') /\ InUpdate(op'[p]))
        /\ torn' <=> cl'.step = "write" \/ \E p \in Pids : op'[p].step = "write"
  BY DEF Updates, InUpdate
<1>0. ~raced /\ Types
  BY HistoryStep DEF Past, Shape
<1>1. /\ \A p, q \in Pids : InUpdate(op[p]) /\ InUpdate(op[q]) => p = q
      /\ \A p \in Pids : ~(InUpdate(cl) /\ InUpdate(op[p]))
      /\ torn <=> cl.step = "write" \/ \E p \in Pids : op[p].step = "write"
  BY <1>0 DEF Updates
<1>2. ASSUME NEW p \in Pids, NEW q \in Pids, InUpdate(op'[p]), InUpdate(op'[q]), p # q PROVE FALSE
  <2>1. ASSUME NEW x \in Pids, NEW y \in Pids, x # y, InUpdate(op'[y]), Load(x) PROVE FALSE
    <3>1. ~InUpdate(op[y])
      BY <2>1 DEF Load, OthersUpdate
    <3>2. op'[y] = op[y]
      BY <1>0, <2>1, LoadAlone
    <3> QED
      BY <2>1, <3>1, <3>2
  <2>2. InUpdate(op[p]) /\ InUpdate(op[q])
    BY <1>2, <2>1, OpUpdate
  <2> QED
    BY <1>1, <1>2, <2>2
<1>3. ASSUME NEW p \in Pids, InUpdate(cl'), InUpdate(op'[p]) PROVE FALSE
  <2>1. CASE InUpdate(cl) /\ InUpdate(op[p])
    BY <1>1, <2>1
  <2>2. CASE DirectLoad
    <3>1. ~InUpdate(op[p]) /\ op' = op
      BY <2>2 DEF DirectLoad, procs
    <3> QED
      BY <1>3, <3>1
  <2>3. CASE Load(p) /\ ~torn
    <3>1. ~InUpdate(cl) /\ cl' = cl
      BY <2>3 DEF Load, OthersUpdate
    <3> QED
      BY <1>3, <3>1
  <2> QED
    BY <1>3, <2>1, <2>2, <2>3, OpUpdate, ClUpdate
<1>4. torn' <=> cl'.step = "write" \/ \E p \in Pids : op'[p].step = "write"
  <2>1. ASSUME NEW p \in Pids, Trunc(p) PROVE torn' /\ op'[p].step = "write"
    BY <1>0, <2>1, SetStep DEF Trunc, Truncate
  <2>2. CASE DirectTrunc
    BY <1>0, <2>2 DEF DirectTrunc, Truncate, Types, ClRecs
  <2>3. ASSUME NEW p \in Pids, Write(p)
        PROVE  ~torn' /\ cl'.step # "write" /\ \A q \in Pids : op'[q].step # "write"
    <3>1. torn /\ InUpdate(op[p])
      BY <1>1, <2>3 DEF Write, InUpdate
    <3>2. op'[p] = NoOp /\ \A q \in Pids \ {p} : op'[q] = op[q]
      BY <1>0, <2>3, SetOp, Consts DEF Write
    <3>3. cl.step # "write" /\ \A q \in Pids \ {p} : op[q].step # "write"
      BY <1>1, <3>1 DEF InUpdate
    <3>4. cl'.step # "write"
      BY <1>0, <2>3, <3>3, ReplyOK DEF Write, Heard
    <3> QED
      BY <2>3, <3>1, <3>2, <3>3, <3>4 DEF Write, SaveMounts, NoOp
  <2>4. CASE DirectWrite
    <3>1. torn /\ InUpdate(cl) /\ op' = op
      BY <1>1, <2>4 DEF DirectWrite, InUpdate, procs
    <3> QED
      BY <1>1, <2>4, <3>1 DEF DirectWrite, SaveMounts, InUpdate, Idle
  <2>5. CASE ~DirectTrunc /\ ~DirectWrite /\ \A p \in Pids : ~Trunc(p) /\ ~Write(p)
    <3>1. torn' = torn
      BY <2>5, RegistryStep DEF RegistryMove
    <3>2. \A p \in Pids : op'[p].step = "write" <=> op[p].step = "write"
      BY <2>5, OpUpdate, OpWrites DEF InUpdate
    <3>3. cl'.step = "write" <=> cl.step = "write"
      BY <2>5, ClUpdate, ClWrites DEF InUpdate
    <3> QED
      BY <1>1, <3>1, <3>2, <3>3
  <2> QED
    BY <2>1, <2>2, <2>3, <2>4, <2>5
<1> QED
  BY <1>2, <1>3, <1>4

LEMMA UpdatesInit == ASSUME Init PROVE Updates
<1>1. cl.step = "idle" /\ \A p \in Pids : op[p].step = "none"
  BY DEF Init, NoOp, Idle
<1> QED
  BY <1>1 DEF Init, Updates, InUpdate

-----------------------------------------------------------------------------
(* The umount command without a daemon *)

\* A request that starts, or the umount command that turns to working directly,
\* on the mountpoint of the other is a race.
LEMMA DirectStep == ASSUME Shape, Direct, ~raced', [Next]_vars PROVE Direct'
<1>. SUFFICES ASSUME InDirect'
     PROVE  /\ \A p \in Pids : op'[p].mp # cl'.mp
            /\ cl'.step # "direct" => kernel'[cl'.mp] = 0 \/ cl'.mp \in failed'
  BY DEF Direct, InDirect
<1>0. Types /\ ClOK /\ ClOK' /\ cl'.mp \in Mps
  BY ClOKStep DEF Shape, ClOK, InDirect
<1>1. CASE InDirect /\ cl'.mp = cl.mp /\ (cl'.step # "direct" => cl.step # "direct" \/ DirectUnmount)
  <2>1. \A p \in Pids : op[p].mp # cl.mp
    BY <1>1 DEF Direct
  <2>2. ASSUME NEW p \in Pids, op'[p].mp = cl.mp PROVE FALSE
    <3>1. ASSUME NEW m \in Mps, ResumeOne(p, m) \/ BeginMount(p, m), op'[p].mp = m PROVE FALSE
      BY <1>1, <2>2, <3>1 DEF ResumeOne, BeginMount, DirectOn, InDirect
    <3>2. ~BeginUnmount(p)
      BY <1>1 DEF BeginUnmount, InDirect
    <3> QED
      BY <1>0, <1>1, <2>1, <2>2, <3>1, <3>2, OpStep, DaemonAssumption DEF OpMove, OpEnd, Goes, NoOp
  <2>3. ASSUME cl'.step # "direct" PROVE kernel'[cl.mp] = 0 \/ cl.mp \in failed'
    <3>1. CASE DirectUnmount
      BY <1>0, <1>1, <3>1 DEF DirectUnmount, UnmountKernel, Attached, Types
    <3>2. CASE cl.step # "direct"
      <4>1. kernel[cl.mp] = 0 \/ cl.mp \in failed
        BY <1>1, <3>2 DEF Direct
      <4>2. kernel'[cl.mp] = kernel[cl.mp] \/ kernel'[cl.mp] = 0
        BY <1>0, <1>1, <2>1, Attaching
      <4> QED
        BY <4>1, <4>2, HistoryStep DEF Past
    <3> QED
      BY <1>1, <2>3, <3>1, <3>2
  <2> QED
    BY <1>1, <2>2, <2>3
<1>2. ASSUME NEW mp \in Mps, RunUmount(mp), cl'.mp = mp, cl'.step = "direct"
      PROVE  \A p \in Pids : op'[p].mp # mp
  BY <1>2 DEF RunUmount, RequestOn, procs
<1>3. ASSUME Refused, cl'.step = "direct", cl'.mp = cl.mp PROVE \A p \in Pids : op'[p].mp # cl.mp
  BY <1>3 DEF Refused, RequestOn, procs, Idle
<1>4. CASE cl' = cl
  BY <1>1, <1>4 DEF InDirect
<1>5. CASE ClMove
  BY <1>1, <1>2, <1>3, <1>5 DEF ClMove, InDirect, Idle, Heard
<1> QED
  BY <1>4, <1>5, ClStep

LEMMA AloneStep == ASSUME Shape, Alone, [Next]_vars PROVE Alone'
<1>1. ~raced' => ~raced
  BY HistoryStep DEF Past
<1> QED
  BY <1>1, DirectStep DEF Alone

LEMMA AloneInit == ASSUME Init PROVE Alone
BY DEF Init, Idle, Alone, Direct, InDirect

-----------------------------------------------------------------------------
(* What stays unmounted *)

\* A tree becomes an unmounted one by the last step of an update, when nothing
\* is attached; a request that adds it back makes it a wanted one.
LEMMA NewlyStopped ==
  ASSUME Shape, [Next]_vars, NEW mp \in Left', mp \notin Left
  PROVE  /\ kernel[mp] = 0
         /\ \/ DirectWrite /\ cl.mp = mp /\ \A p \in Pids : pc[p] = "resume" => mp \notin todo[p]
            \/ \E q \in Pids : Write(q) /\ op[q].kind \in {"unmount", "prune"} /\ op[q].mp = mp
<1>0. mp \in stopped' /\ mp \notin stopped /\ mp \notin overtaken'
  BY HistoryStep DEF Past, Left
<1>1. CASE DirectWrite
  BY <1>0, <1>1 DEF DirectWrite, Stopped, Attached
<1>2. ASSUME NEW q \in Pids, Write(q), op[q].kind \in {"unmount", "prune"}, stopped' = Stopped(op[q].mp)
      PROVE  kernel[mp] = 0 /\ op[q].mp = mp
  BY <1>0, <1>2 DEF Stopped, Attached
<1> QED
  BY <1>0, <1>1, <1>2, StoppedStep DEF StoppedMove

LEMMA KeptStep == ASSUME Shape, Updates, Alone, Kept, [Next]_vars PROVE Kept'
<1>. SUFFICES ASSUME ~raced', ~late', ~apart' PROVE KeptNow'
  BY DEF Kept, KeptNow
<1>0. ~raced /\ ~late /\ ~apart /\ Types /\ Types' /\ KeptNow /\ Direct
  BY HistoryStep, TypesStep DEF Past, Shape, Kept, KeptNow, Alone
<1>1. /\ \A p, q \in Pids : InUpdate(op[p]) /\ InUpdate(op[q]) => p = q
      /\ \A p \in Pids : ~(InUpdate(cl) /\ InUpdate(op[p]))
      /\ torn <=> cl.step = "write" \/ \E p \in Pids : op[p].step = "write"
  BY <1>0 DEF Updates
<1>2. ASSUME NEW mp \in Left' PROVE kernel'[mp] = 0
  <2>1. mp \in Mps /\ kernel[mp] = 0
    BY <1>0, <1>2, NewlyStopped DEF KeptNow, Left, Types
  <2>2. ASSUME kernel'[mp] # 0 PROVE FALSE
    <3>1. PICK p \in Pids : StartMount(p) /\ op[p].step = "start" /\ op[p].mp = mp
      BY <2>1, <2>2, Attaching
    <3>2. Adds(op[p])
      <4>1. op[p] \in OpRecs /\ OpOK(p) /\ op[p] # NoOp
        BY <3>1 DEF Shape, Types, NoOp
      <4>2. op[p].kind \in {"mount", "resume", "forget", "unmount", "prune"}
        BY <4>1 DEF OpOK, OpRecs
      <4> QED
        BY <3>1, <4>1, <4>2 DEF OpOK, Steps, Adds
    <3>3. Left' = Left
      BY <3>1 DEF StartMount, hist, Left
    <3> QED
      BY <1>0, <1>2, <3>1, <3>2, <3>3 DEF KeptNow
  <2> QED
    BY <2>2
<1>3. ASSUME NEW mp \in Left' PROVE mp \notin registry'
  <2>1. CASE registry' = registry /\ mp \in Left
    BY <1>0, <2>1 DEF KeptNow
  <2>2. ASSUME NEW p \in Pids, Write(p) PROVE mp \notin registry'
    <3>1. registry' = NewRecords(op[p]) \/ registry' = {}
      BY <2>2 DEF Write, SaveMounts
    <3>2. InUpdate(op[p])
      BY <2>2 DEF Write, InUpdate
    <3>3. CASE mp \in Left
      BY <1>0, <3>1, <3>2, <3>3 DEF KeptNow, NewRecords
    <3>4. CASE mp \notin Left
      <4>1. mp \in stopped' /\ mp \notin stopped
        BY <1>3, <3>4, HistoryStep DEF Past, Left
      <4>2. mp = op[p].mp /\ ~Adds(op[p])
        BY <2>2, <4>1 DEF Write, Stopped, Adds
      <4> QED
        BY <3>1, <4>2 DEF NewRecords
    <3> QED
      BY <3>3, <3>4
  <2>3. CASE DirectWrite
    <3>1. registry' = cl.snap \ {cl.mp} \/ registry' = {}
      BY <2>3 DEF DirectWrite, SaveMounts
    <3>2. InUpdate(cl)
      BY <2>3 DEF DirectWrite, InUpdate
    <3>3. mp \in Left \/ mp = cl.mp
      BY <1>3, <2>3, HistoryStep DEF DirectWrite, Stopped, Past, Left
    <3> QED
      BY <1>0, <3>1, <3>2, <3>3 DEF KeptNow
  <2>4. CASE DirectTrunc \/ \E p \in Pids : Trunc(p)
    BY <2>4 DEF DirectTrunc, Trunc, Truncate
  <2> QED
    BY <1>3, <2>1, <2>2, <2>3, <2>4, RegistryStep, NewlyStopped DEF RegistryMove
\* While a daemon has a request, or resumes, nobody else's request ends.
<1>4. ASSUME NEW p \in Pids, HoldsPort(p), op[p].kind \notin {"unmount", "prune"},
             NEW mp \in Left', mp \notin Left
      PROVE  DirectWrite /\ cl.mp = mp /\ \A q \in Pids : pc[q] = "resume" => mp \notin todo[q]
  <2>1. ASSUME NEW q \in Pids, Write(q), op[q].kind \in {"unmount", "prune"} PROVE FALSE
    <3>1. op[q] # NoOp
      BY <2>1 DEF NoOp
    <3>2. q = p
      BY <1>0, <1>4, <3>1, OneRequest DEF Shape, Port
    <3> QED
      BY <1>4, <2>1, <3>2
  <2> QED
    BY <1>4, <2>1, NewlyStopped
\* ... and the umount command that works directly works on another mountpoint.
<1>9. ASSUME NEW p \in Pids, Adds(op[p]), op[p].mp \in Left' PROVE FALSE
  <2>1. op[p].mp \notin Left /\ op[p] # NoOp /\ op[p].kind \notin {"unmount", "prune"}
    BY <1>0, <1>9 DEF KeptNow, Adds, NoOp
  <2>2. HoldsPort(p)
    BY <1>0, <2>1, OneRequest
  <2>3. DirectWrite /\ cl.mp = op[p].mp
    BY <1>4, <1>9, <2>1, <2>2
  <2> QED
    BY <1>0, <2>3 DEF DirectWrite, Direct, InDirect
<1>5. ASSUME NEW p \in Pids, Adds(op'[p]) PROVE op'[p].mp \notin Left'
  <2>1. CASE op'[p].kind = op[p].kind /\ op'[p].mp = op[p].mp
    BY <1>5, <1>9, <2>1 DEF Adds
  <2>2. CASE OpMove(p)
    <3>1. CASE \E mp \in Mps : ResumeOne(p, mp) /\ op'[p].mp = mp
      BY <1>0, <3>1 DEF ResumeOne, KeptNow, Left, ups
    <3>2. CASE \E mp \in Mps : BeginMount(p, mp) /\ op'[p].mp = mp
      BY <3>2 DEF BeginMount, Left
    <3> QED
      BY <1>5, <2>1, <2>2, <3>1, <3>2 DEF OpMove, Goes, Adds
  <2> QED
    BY <1>5, <2>1, <2>2, OpStep DEF OpEnd, Adds, NoOp
<1>6. ASSUME NEW p \in Pids, pc'[p] = "resume" PROVE todo'[p] \cap Left' = {}
  <2>1. CASE Resume(p)
    BY <1>0, <2>1 DEF Resume, KeptNow, Types, Left, ups
  <2>2. CASE ~Resume(p)
    <3>1. pc[p] = "resume"
      BY <1>6, <2>2, PcStep DEF PcMove
    <3>2. ~TakeMounts(p)
      BY <3>1 DEF TakeMounts
    <3>3. HoldsPort(p) /\ op[p].kind \notin {"unmount", "prune"}
      BY <3>1 DEF HoldsPort, Shape, OpOK, NoOp
    <3> QED
      BY <1>0, <1>4, <2>2, <3>1, <3>2, <3>3, TodoStep DEF KeptNow
  <2> QED
    BY <2>1, <2>2
<1>7. ASSUME NEW p \in Pids, InUpdate(op'[p]) PROVE op'[p].snap \cap Left' = {}
  <2>1. CASE Load(p) /\ op'[p].snap = registry
    <3>1. Left' = Left
      BY <2>1 DEF Load, Left, ups
    <3> QED
      BY <1>0, <2>1, <3>1 DEF KeptNow
  <2>2. CASE InUpdate(op[p]) /\ op'[p].snap = op[p].snap
    <3>1. ASSUME NEW mp \in Left', mp \notin Left PROVE FALSE
      <4>1. ~DirectWrite
        BY <1>1, <2>2 DEF DirectWrite, InUpdate
      <4>2. PICK q \in Pids : Write(q)
        BY <3>1, <4>1, NewlyStopped
      <4>3. q = p
        BY <1>1, <2>2, <4>2 DEF Write, InUpdate
      <4>4. op'[p] = NoOp
        BY <1>0, <4>2, <4>3 DEF Write, Types
      <4> QED
        BY <1>7, <4>4 DEF NoOp, InUpdate
    <3> QED
      BY <1>0, <2>2, <3>1 DEF KeptNow
  <2> QED
    BY <1>7, <2>1, <2>2, OpUpdate
<1>8. ASSUME InUpdate(cl') PROVE cl'.snap \cap Left' = {}
  <2>1. CASE DirectLoad /\ cl'.snap = registry
    <3>1. Left' = Left
      BY <2>1 DEF DirectLoad, Left, ups
    <3> QED
      BY <1>0, <2>1, <3>1 DEF KeptNow
  <2>2. CASE InUpdate(cl) /\ cl'.snap = cl.snap
    <3>1. ASSUME NEW mp \in Left', mp \notin Left PROVE FALSE
      <4>1. ~DirectWrite
        BY <1>8 DEF DirectWrite, InUpdate, Idle
      <4>2. PICK q \in Pids : Write(q)
        BY <3>1, <4>1, NewlyStopped
      <4> QED
        BY <1>1, <2>2, <4>2 DEF Write, InUpdate
    <3> QED
      BY <1>0, <2>2, <3>1 DEF KeptNow
  <2> QED
    BY <1>8, <2>1, <2>2, ClUpdate
<1> QED
  BY <1>2, <1>3, <1>5, <1>6, <1>7, <1>8 DEF KeptNow, Adds, InUpdate

LEMMA KeptInit == ASSUME Init PROVE Kept
<1>1. cl.step = "idle" /\ stopped = {} /\ \A p \in Pids : op[p].step = "none"
  BY DEF Init, NoOp, Idle
<1> QED
  BY <1>1 DEF Kept, KeptNow, Left, InUpdate

\* A tree the user unmounted is not mounted or recorded again by any daemon,
\* resume or request, unless a resume had read its record before a direct umount
\* removed it, updates raced, a shutdown overtook a request, or two daemons with
\* different dashboard ports were up together.
THEOREM StaysUnmounted == Spec => []StoppedStays
<1>. DEFINE Inv == Shape /\ Updates /\ Alone /\ Kept
<1>1. Init => Inv
  BY ShapeInit, UpdatesInit, AloneInit, KeptInit
<1>2. Inv /\ [Next]_vars => Inv'
  BY ShapeStep, UpdatesStep, AloneStep, KeptStep
<1>3. Inv => StoppedStays
  BY DEF Kept, KeptNow, Left, StoppedStays
<1>. QED
  BY <1>1, <1>2, <1>3, PTL DEF Spec

-----------------------------------------------------------------------------
(* What is recorded of a mount *)

\* A daemon comes to serve a mountpoint by mounting it.
LEMMA Mounting ==
  ASSUME Shape, [Next]_vars, NEW p \in Pids, NEW mp \in Mps, kernel'[mp] = p, kernel[mp] # p
  PROVE  StartMount(p) /\ op[p].mp = mp /\ op'[p].mp = mp /\ op'[p].step = "insert" /\ op'[p].kind = op[p].kind
<1>1. p # 0 /\ Types
  BY DEF Pids, Shape
<1>2. StartMount(p) /\ op[p].mp = mp /\ Step(p, "insert")
  BY <1>1, Attaching
<1> QED
  BY <1>1, <1>2, SetStep

LEMMA NewlyServed ==
  ASSUME Shape, [Next]_vars, NEW p \in Pids, NEW mp \in Mps, Serves(p, mp)', ~Serves(p, mp)
  PROVE  kernel[mp] # p
BY HistoryStep DEF Serves, Past

LEMMA ResumingStep == ASSUME Shape, Resuming, [Next]_vars PROVE Resuming'
<1>. SUFFICES ASSUME NEW p \in Pids, NEW mp \in Mps
     PROVE  /\ pc'[p] \in Early => kernel'[mp] # p
            /\ pc'[p] = "resume" /\ mp \in todo'[p] => kernel'[mp] # p /\ op'[p].mp # mp
  BY DEF Resuming
<1>0. Types /\ OpOK(p)
  BY DEF Shape
<1>1. ASSUME pc'[p] \in Early PROVE kernel'[mp] # p
  <2>1. pc[p] \in Early /\ op[p] = NoOp
    BY <1>0, <1>1, PcStep DEF PcMove, Early, OpOK
  <2>2. ~StartMount(p)
    BY <2>1 DEF StartMount, NoOp
  <2> QED
    BY <2>1, <2>2, Mounting DEF Resuming
<1>2. ASSUME pc'[p] = "resume", mp \in todo'[p] PROVE kernel'[mp] # p /\ op'[p].mp # mp
  <2>1. CASE Resume(p)
    <3>1. kernel[mp] # p /\ op[p] = NoOp /\ op'[p] = op[p] /\ ~StartMount(p)
      BY <1>0, <2>1 DEF Resume, Resuming, Early, OpOK, StartMount, NoOp
    <3> QED
      BY <3>1, Mounting, DaemonAssumption DEF NoOp
  <2>2. CASE ~Resume(p)
    <3>1. pc[p] = "resume" /\ mp \in todo[p]
      BY <1>2, <2>2, PcStep, TodoStep DEF PcMove, TakeMounts
    <3>2. kernel[mp] # p /\ op[p].mp # mp
      BY <3>1 DEF Resuming
    <3>3. kernel'[mp] # p
      BY <3>2, Mounting
    <3>4. op'[p].mp # mp
      <4>1. ASSUME NEW m \in Mps, ResumeOne(p, m), op'[p].mp = m PROVE m # mp
        BY <1>0, <1>2, <4>1 DEF ResumeOne, Types
      <4>2. ASSUME NEW m \in Mps, BeginMount(p, m) PROVE FALSE
        BY <3>1, <4>2 DEF BeginMount, Serving
      <4>3. ASSUME BeginUnmount(p) PROVE FALSE
        BY <3>1, <4>3 DEF BeginUnmount, Serving
      <4> QED
        BY <3>2, <4>1, <4>2, <4>3, OpStep, DaemonAssumption DEF OpMove, OpEnd, Goes, NoOp
    <3> QED
      BY <3>3, <3>4
  <2> QED
    BY <2>1, <2>2
<1> QED
  BY <1>1, <1>2

\* A request is about to unmount, or failed to mount, what it does not serve.
LEMMA Refusal ==
  ASSUME Shape, Ready, Asked, ~late, ~apart, NEW p \in Pids, Validate(p) \/ StartMount(p), Fail(p),
         op[p].kind = "resume"
  PROVE  kernel'[op[p].mp] # p
<1>0. op[p].mp \in Mps /\ op[p].step # "insert" /\ Types
  BY DEF Shape, OpOK, NoOp, Validate, StartMount
<1>1. op'[p].step = "pidfile"
  BY <1>0, FailOK
<1>2. ~Step(p, "start") /\ ~Step(p, "insert")
  BY <1>0, <1>1, SetStep
<1>3. kernel' = kernel
  BY <1>2 DEF Validate, StartMount
<1>4. CASE Validate(p)
  BY <1>3, <1>4 DEF Validate, Asked
<1>5. CASE StartMount(p)
  <2>1. kernel[op[p].mp] = 0
    BY <1>5 DEF StartMount, Ready
  <2> QED
    BY <1>3, <2>1 DEF Pids
<1> QED
  BY <1>4, <1>5

\* Serves(p, mp)', for a mountpoint of the next state.
ServesNext(p, mp) == kernel'[mp] = p /\ mp \notin failed'

LEMMA AskedStep ==
  ASSUME Shape, Ready, Settled, Asked, Resuming, ~late', ~apart', [Next]_vars
  PROVE  Asked'
<1>. SUFFICES ASSUME NEW p \in Pids, op'[p] # NoOp
     PROVE  /\ Adds(op'[p]) /\ op'[p].step \in {"pidfile", "load", "trunc", "write"} => op'[p].mp \in mounts'[p]
            /\ op'[p].kind = "resume" /\ op'[p].step = "validate" => kernel'[op'[p].mp] # p
            /\ op'[p].kind = "forget" => kernel'[op'[p].mp] # p
            /\ op'[p].kind = "unmount" /\ op'[p].step # "stop" => ~ServesNext(p, op'[p].mp)
            /\ op'[p].kind = "prune" => ~ServesNext(p, op'[p].mp)
  BY DEF Asked, Adds, NoOp, Serves, ServesNext
<1>0. Types /\ OpOK(p) /\ OpOK(p)' /\ ~late /\ ~apart
  BY HistoryStep, OpOKStep DEF Past, Shape
<1>1. op'[p].mp \in Mps /\ op'[p].kind # "none"
  BY <1>0 DEF OpOK
\* What holds of a request as long as it keeps its place.
<1>2. ASSUME op[p] # NoOp, Adds(op[p]), op[p].mp \in mounts[p] PROVE op[p].mp \in mounts'[p]
  <2>1. ~TakeMounts(p)
    BY <1>2 DEF TakeMounts
  <2>2. ~BeginUnmount(p)
    BY <1>2 DEF BeginUnmount, Serving
  <2> QED
    BY <1>2, <2>1, <2>2, MountsStep DEF MountsMove
<1>3. ASSUME NEW mp \in Mps, kernel[mp] # p, op'[p].step # "insert" PROVE kernel'[mp] # p
  BY <1>3, Mounting
<1>4. ASSUME NEW mp \in Mps, ~Serves(p, mp), op'[p].step # "insert" PROVE ~ServesNext(p, mp)
  BY <1>3, <1>4, NewlyServed DEF Serves, ServesNext
<1>5. CASE op'[p] = op[p]
  <2>1. op[p].kind \in {"forget", "unmount", "prune"} => op[p].step # "insert"
    BY <1>0, <1>5 DEF OpOK, Steps
  <2> QED
    BY <1>1, <1>2, <1>3, <1>4, <1>5, <2>1 DEF Asked, Adds
<1>6. CASE OpMove(p)
  <2>1. ASSUME NEW mp \in Mps, ResumeOne(p, mp), op'[p].mp = mp,
               \/ op'[p].kind = "resume" /\ op'[p].step = "validate"
               \/ op'[p].kind = "forget" /\ op'[p].step = "pidfile"
        PROVE  kernel'[op'[p].mp] # p
    <3>1. kernel[mp] # p
      BY <2>1 DEF ResumeOne, Resuming
    <3> QED
      BY <1>3, <2>1, <3>1
  <2>2. ASSUME BeginUnmount(p), op[p] = NoOp, cl.mp \notin mounts[p],
               op'[p].mp = cl.mp, op'[p].kind = "prune", op'[p].step = "load"
        PROVE  ~ServesNext(p, op'[p].mp)
    <3>0. op[p].mp # cl.mp
      BY <1>1, <2>2, DaemonAssumption DEF NoOp
    <3>1. pc[p] = "serve" /\ op[p].mp # cl.mp
      BY <2>2, <3>0 DEF BeginUnmount, Serving
    <3>2. ~Serves(p, cl.mp)
      BY <1>1, <2>2, <3>1 DEF Settled, Up
    <3> QED
      BY <1>1, <1>4, <2>2, <3>2
  <2>3. ASSUME Validate(p) \/ StartMount(p), op[p].kind = "resume",
               op'[p].kind = "forget", op'[p].mp = op[p].mp, op'[p].step = "pidfile"
        PROVE  kernel'[op'[p].mp] # p
    <3>1. ~Step(p, "start") /\ ~Step(p, "insert")
      BY <1>0, <2>3, SetStep
    <3>2. Fail(p)
      BY <2>3, <3>1 DEF Validate, StartMount
    <3> QED
      BY <1>0, <2>3, <3>2, Refusal
  <2>4. ASSUME Insert(p), Goes(p, "insert", "pidfile") PROVE op'[p].mp \in mounts'[p] /\ Adds(op'[p])
    <3>1. Adds(op'[p])
      BY <1>0, <2>4 DEF OpOK, Steps, Goes, Adds, Types, OpRecs, NoOp
    <3> QED
      BY <1>0, <2>4, <3>1 DEF Insert, Goes, Types
  <2>5. ASSUME Stop(p), Goes(p, "stop", "pidfile") PROVE op'[p].kind = "unmount" /\ ~ServesNext(p, op'[p].mp)
    <3>1. op'[p].kind = "unmount"
      BY <1>0, <2>5 DEF OpOK, Steps, Goes, Types, OpRecs, NoOp
    <3>2. kernel'[op[p].mp] # p \/ op[p].mp \in failed'
      BY <1>0, <1>1, <2>5 DEF Stop, Goes, UnmountKernel, Types, Pids
    <3> QED
      BY <2>5, <3>1, <3>2 DEF ServesNext, Goes
  <2>6. ASSUME \/ Goes(p, "pidfile", "load") \/ Goes(p, "load", "trunc") \/ Goes(p, "trunc", "write")
        PROVE  /\ Adds(op'[p]) => op'[p].mp \in mounts'[p]
               /\ op'[p].kind = "forget" => kernel'[op'[p].mp] # p
               /\ op'[p].kind = "unmount" => ~ServesNext(p, op'[p].mp)
               /\ op'[p].kind = "prune" => ~ServesNext(p, op'[p].mp)
    <3>1. /\ op'[p].mp = op[p].mp /\ op'[p].kind = op[p].kind /\ op'[p].step # "insert" /\ op[p] # NoOp
          /\ op[p].step \in {"pidfile", "load", "trunc"}
      BY <2>6 DEF Goes, NoOp
    <3>2. op[p].mp \in Mps
      BY <1>1, <3>1
    <3> QED
      BY <1>2, <1>3, <1>4, <3>1, <3>2 DEF Asked, Adds
  <2>7. ASSUME \/ Goes(p, "validate", "start") \/ Goes(p, "start", "insert")
        PROVE  Adds(op'[p]) /\ op'[p].step \in {"start", "insert"}
    BY <1>0, <2>7 DEF OpOK, Steps, Goes, Adds, Types, OpRecs, NoOp
  <2>8. op'[p].kind \in {"mount", "resume"} <=> Adds(op'[p])
    BY DEF Adds
  <2>9. ASSUME op'[p].kind = "mount", op'[p].step = "validate" PROVE Adds(op'[p])
    BY <2>9 DEF Adds
  <2>10. \/ /\ kernel'[op'[p].mp] # p
            /\ \/ op'[p].kind = "resume" /\ op'[p].step = "validate"
               \/ op'[p].kind = "forget" /\ op'[p].step = "pidfile"
         \/ op'[p].kind = "mount" /\ op'[p].step = "validate"
         \/ op'[p].kind = "unmount" /\ op'[p].step = "stop"
         \/ op'[p].kind = "prune" /\ ~ServesNext(p, op'[p].mp)
         \/ Adds(op'[p]) /\ op'[p].step \in {"start", "insert"}
         \/ Adds(op'[p]) /\ op'[p].step = "pidfile" /\ op'[p].mp \in mounts'[p]
         \/ op'[p].kind = "unmount" /\ ~ServesNext(p, op'[p].mp)
         \/ /\ Goes(p, "pidfile", "load") \/ Goes(p, "load", "trunc") \/ Goes(p, "trunc", "write")
            /\ op'[p].step \notin {"validate", "start", "insert", "stop"}
    <3>1. Goes(p, "insert", "pidfile") => op'[p].step = "pidfile"
      BY DEF Goes
    <3>2. Goes(p, "pidfile", "load") \/ Goes(p, "load", "trunc") \/ Goes(p, "trunc", "write")
             => op'[p].step \notin {"validate", "start", "insert", "stop"}
      BY DEF Goes
    <3> QED
      BY <1>6, <2>1, <2>2, <2>3, <2>4, <2>5, <2>7, <3>1, <3>2 DEF OpMove
  <2> QED
    BY <2>6, <2>8, <2>10 DEF Adds
<1> QED
  BY <1>5, <1>6, OpStep DEF OpEnd

\* Nobody but its own daemon removes a record of a mount it serves.
LEMMA SettledStep ==
  ASSUME Shape, Ready, Updates, Settled, Asked, Resuming, Direct, ~raced', ~late', ~apart', [Next]_vars
  PROVE  Settled'
<1>. SUFFICES ASSUME NEW p \in Pids, NEW mp \in Mps, pc'[p] \in Up, Serves(p, mp)',
                     op'[p].mp = mp => op'[p].step = "validate"
     PROVE  mp \in mounts'[p] /\ Recorded(mp)'
  BY DEF Settled
<1>0. Types /\ OpOK(p) /\ ~late /\ ~raced /\ ~apart
  BY HistoryStep DEF Past, Shape
<1>1. /\ \A x, y \in Pids : InUpdate(op[x]) /\ InUpdate(op[y]) => x = y
      /\ \A x \in Pids : ~(InUpdate(cl) /\ InUpdate(op[x]))
      /\ torn <=> cl.step = "write" \/ \E x \in Pids : op[x].step = "write"
  BY <1>0 DEF Updates
<1>2. Serves(p, mp)
  BY Mounting, NewlyServed DEF Serves
<1>3. pc[p] \in Up
  <2>1. pc[p] \notin Early
    BY <1>2 DEF Serves, Resuming
  <2> QED
    BY <2>1, PcStep DEF PcMove, Up, Early
<1>4. pc'[p] # "gone" /\ ~TakeMounts(p)
  BY <1>0, SetPc DEF Up, TakeMounts
<1>5. CASE op[p].mp = mp => op[p].step = "validate"
  <2>1. mp \in mounts[p] /\ Recorded(mp)
    BY <1>2, <1>3, <1>5 DEF Settled
  <2>2. mp \in mounts'[p]
    BY <1>4, <2>1, MountsStep DEF MountsMove
  <2>3. ASSUME NEW q \in Pids, InUpdate(op'[q]) PROVE mp \in op'[q].snap
    BY <2>1, <2>3, OpUpdate DEF Recorded
  <2>4. InUpdate(cl') => mp \in cl'.snap
    BY <2>1, ClUpdate DEF Recorded
  <2>5. torn' \/ mp \in registry'
    <3>1. ASSUME NEW q \in Pids, Write(q) PROVE mp \in registry'
      <4>1. torn /\ InUpdate(op[q]) /\ mp \in op[q].snap
        BY <1>1, <2>1, <3>1 DEF Write, InUpdate, Recorded
      <4>2. registry' = NewRecords(op[q])
        BY <3>1, <4>1 DEF Write, SaveMounts
      <4>3. ASSUME ~Adds(op[q]), op[q].mp = mp PROVE FALSE
        <5>1. op[q] # NoOp /\ HoldsPort(p)
          BY <1>3, <3>1 DEF Write, NoOp, Up, HoldsPort
        <5>2. q = p
          BY <1>0, <5>1, OneRequest DEF Shape, Port
        <5> QED
          BY <1>5, <3>1, <4>3, <5>2 DEF Write
      <4> QED
        BY <4>1, <4>2, <4>3 DEF NewRecords
    <3>2. CASE DirectWrite
      <4>1. torn /\ InUpdate(cl) /\ mp \in cl.snap
        BY <1>1, <2>1, <3>2 DEF DirectWrite, InUpdate, Recorded
      <4>2. registry' = cl.snap \ {cl.mp}
        BY <3>2, <4>1 DEF DirectWrite, SaveMounts
      <4>3. mp # cl.mp
        BY <1>2, <3>2 DEF DirectWrite, Direct, InDirect, Serves, Pids
      <4> QED
        BY <4>1, <4>2, <4>3
    <3>3. CASE DirectTrunc \/ \E q \in Pids : Trunc(q)
      BY <3>3 DEF DirectTrunc, Trunc, Truncate
    <3> QED
      BY <2>1, <3>1, <3>2, <3>3, RegistryStep DEF RegistryMove, Recorded
  <2> QED
    BY <2>2, <2>3, <2>4, <2>5 DEF Recorded, InUpdate
\* The request that was at work on the mountpoint ends: it has recorded it.
<1>6. CASE op[p].mp = mp /\ op[p].step # "validate"
  <2>1. op[p] # NoOp /\ op[p].kind # "none" /\ op[p].step \in Steps(op[p].kind)
    BY <1>0, <1>6, DaemonAssumption DEF NoOp, OpOK
  <2>2. OpEnd(p)
    <3>1. op'[p] # op[p]
      BY <1>6
    <3>2. ~OpMove(p)
      BY <1>6, <2>1 DEF OpMove, Goes, NoOp
    <3> QED
      BY <3>1, <3>2, OpStep
  <2>3. ~Validate(p)
    BY <1>6 DEF Validate
  <2>4. ~StartMount(p)
    BY <1>0, <1>2, <1>6 DEF StartMount, Ready, Serves, Pids
  <2>5. ~(Load(p) /\ torn)
    <3>1. ASSUME Load(p), torn PROVE OthersUpdate(p)
      BY <1>1, <3>1 DEF Load, OthersUpdate, InUpdate
    <3> QED
      BY <3>1 DEF Load
  <2>6. Write(p)
    BY <1>4, <2>2, <2>3, <2>4, <2>5 DEF OpEnd
  <2>7. torn /\ InUpdate(op[p]) /\ op[p].step = "write"
    BY <1>1, <2>6 DEF Write, InUpdate
  <2>8. Adds(op[p])
    <3>1. op[p].kind \in {"mount", "resume", "forget", "unmount", "prune"}
      BY <1>0, <2>1 DEF Types, OpRecs
    <3> QED
      BY <1>2, <1>6, <2>7, <3>1 DEF Asked, Serves, Adds
  <2>9. mp \in mounts'[p]
    BY <1>6, <2>6, <2>7, <2>8 DEF Asked, Write
  <2>10. mp \in registry'
    BY <1>6, <2>6, <2>7, <2>8 DEF Write, SaveMounts, NewRecords
  <2>11. \A q \in Pids : ~InUpdate(op'[q])
    <3>1. op'[p] = NoOp /\ \A q \in Pids \ {p} : op'[q] = op[q]
      BY <1>0, <2>6, Consts, SetOp DEF Write
    <3> QED
      BY <1>1, <2>7, <3>1 DEF NoOp, InUpdate
  <2>12. ~InUpdate(cl')
    <3>1. ~InUpdate(cl)
      BY <1>1, <2>7
    <3> QED
      BY <1>0, <2>6, <3>1, ReplyOK DEF Write, Heard, InUpdate
  <2> QED
    BY <2>9, <2>10, <2>11, <2>12 DEF Recorded, InUpdate
<1> QED
  BY <1>5, <1>6

LEMMA KnownStep == ASSUME Shape, Ready, Updates, Alone, Known, [Next]_vars PROVE Known'
<1>1. CASE raced' \/ late' \/ apart'
  BY <1>1 DEF Known
<1>2. CASE ~raced' /\ ~late' /\ ~apart'
  <2>1. ~raced /\ ~late /\ ~apart
    BY <1>2, HistoryStep DEF Past
  <2>2. Settled /\ Asked /\ Resuming /\ Direct
    BY <2>1 DEF Known, Alone
  <2>3. Settled' /\ Asked' /\ Resuming'
    BY <1>2, <2>2, SettledStep, AskedStep, ResumingStep
  <2> QED
    BY <1>2, <2>3 DEF Known
<1> QED
  BY <1>1, <1>2

LEMMA KnownInit == ASSUME Init PROVE Known
<1>1. /\ cl.step = "idle" /\ \A mp \in Mps : kernel[mp] = 0
      /\ \A p \in Pids : op[p].kind = "none" /\ op[p].step = "none" /\ pc[p] = "off" /\ p # 0
  BY DEF Init, NoOp, Idle, Pids
<1> QED
  BY <1>1 DEF Known, Settled, Asked, Resuming, Up, Adds, Serves

\* A mount a daemon serves is in its map and in mounts.json, so that it can be
\* listed, unmounted and resumed; whatever requests, crashes and restarts came
\* before, short of the races the property names.
THEOREM MountsRecorded == Spec => []LiveRecorded
<1>. DEFINE Inv == Shape /\ Ready /\ Updates /\ Alone /\ Known
<1>1. Init => Inv
  BY ShapeInit, ReadyInit, UpdatesInit, AloneInit, KnownInit
<1>2. Inv /\ [Next]_vars => Inv'
  BY ShapeStep, ReadyStep, UpdatesStep, AloneStep, KnownStep
<1>3. Inv => LiveRecorded
  <2>1. ASSUME Known, NEW p \in Pids, NEW mp \in Mps, pc[p] = "serve", kernel[mp] = p, op[p].mp # mp,
               ~raced, ~late, ~apart, mp \notin failed
        PROVE  mp \in mounts[p] /\ (torn \/ mp \in registry)
    BY <2>1 DEF Known, Settled, Up, Serves, Recorded
  <2> QED
    BY <2>1 DEF LiveRecorded
<1>. QED
  BY <1>1, <1>2, <1>3, PTL DEF Spec
=============================================================================
