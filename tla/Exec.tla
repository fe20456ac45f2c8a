-------------------------------- MODULE Exec --------------------------------
(***************************************************************************)
(* One run of `janusfs exec`: the launcher (exec.go, runner_linux.go),     *)
(* stage 2 inside the fresh namespaces (nsmount_linux.go) with its FUSE    *)
(* serve loop (mount.go), and the command they run.  Signals arrive at any *)
(* moment, at the launcher alone or at the whole process group; a process  *)
(* reacts to a pending one when it is next scheduled.                      *)
(*                                                                         *)
(* Exit codes are numbers, so that those of exec and of the command can    *)
(* coincide.  Inside the namespace the real tree is at the shadow path,    *)
(* which the command can open like any other; what the module is about is  *)
(* the source path, and the host.                                          *)
(*                                                                         *)
(* The context of both stages is never cancelled (main calls Execute       *)
(* without one).  The command is taken not to change the mount table.      *)
(***************************************************************************)
EXTENDS Naturals

CONSTANTS
    Sigs,       \* the kinds of signals that are forwarded: SIGINT, SIGTERM, SIGHUP
    OwnCodes,   \* the exit codes a command may end with
    MaxSignals  \* bound: signals sent from outside

ASSUME ExecAssumption == OwnCodes \subseteq 0 .. 255 /\ MaxSignals \in Nat

\* How a process ended when it did not exit: by a signal, or not at all yet.
Killed == 256
NoExit == 257

\* os.Exit(1) in main; wrapper failures, and startFailureExitCode.
UsageCode     == 1
WrapperCode   == 125
StartFailures == {125, 126, 127}

Procs == {"launcher", "stage2", "target"}

VARIABLES
    allowed,  \* history: --net, exec.net and the settings allow the host's network
    at,       \* [Procs -> where the process is]
    exit,     \* [Procs -> its exit code, Killed, or NoExit]
    net,      \* the network the namespace has: "host", "empty", "loopback"
    private,  \* is the mount tree of the namespace private?
    shadow,   \* is the real tree bound at the shadow path, in the namespace?
    host,     \* what the source path shows outside: "real" or "fuse"
    view,     \* and inside: "real", "fuse", "dead" (a mount without server)
    serve,    \* the goroutine in Adapter.Mount
    ready,    \* the ready channel: "none", "nil", "err"
    cancelled,\* mountCtx
    busy,     \* does a process hold something open below the mount?
    pend,     \* [Procs -> the signals pending at the kernel]
    queue,    \* [Procs -> what its sigChan holds: one signal or none]
    sent,     \* signals used of MaxSignals
    owed,     \* history: signals the launcher caught and the command has not got yet
    lost,     \* history: signals that found a sigChan full with another one
    early     \* history: a signal hit the launcher or stage 2 before its Notify

mnt  == <<private, shadow, host, view, serve, ready, cancelled>>
sigs == <<pend, queue, sent, owed, lost, early>>
vars == <<allowed, at, exit, net, mnt, busy, sigs>>

-----------------------------------------------------------------------------
Init ==
    /\ allowed = FALSE
    /\ at = [p \in Procs |-> IF p = "launcher" THEN "resolve" ELSE "off"]
    /\ exit = [p \in Procs |-> NoExit]
    /\ net = "host" /\ private = FALSE /\ shadow = FALSE /\ host = "real" /\ view = "real"
    /\ serve = "off" /\ ready = "none" /\ cancelled = FALSE /\ busy = FALSE
    /\ pend = [p \in Procs |-> {}] /\ queue = [p \in Procs |-> {}]
    /\ sent = 0 /\ owed = {} /\ lost = {} /\ early = FALSE

Goto(p, l) == at' = [at EXCEPT ![p] = l] /\ UNCHANGED exit

\* os.Exit, or death by a signal.  Stage 2 takes its serve loop with it.
End(p, code) ==
    /\ at' = [at EXCEPT ![p] = "gone"] /\ exit' = [exit EXCEPT ![p] = code]
    /\ IF p = "stage2"
         THEN /\ serve' = "off" /\ view' = IF view = "fuse" THEN "dead" ELSE view
              /\ UNCHANGED <<private, shadow, host, ready, cancelled>>
         ELSE UNCHANGED mnt

\* A step of stage 2 that fails: an error, and the wrapper's exit code.
Wrapper == End("stage2", WrapperCode)

-----------------------------------------------------------------------------
(* The launcher: launchInBoundary and Run. *)

\* What --net, exec.net and the settings may ask for.
Asks == [flag : {"", "host", "none", "bad"}, policy : {"", "host", "none"}, cfg : {"host", "none", "bad"}]

ResolveNetMode(a) ==
    IF a.flag # "" THEN a.flag ELSE IF a.policy = "none" THEN "none" ELSE a.cfg

\* The operator says so, or nobody says otherwise.
HostAllowed(a) == a.flag = "host" \/ (a.flag = "" /\ a.policy # "none" /\ a.cfg = "host")

\* Settings or discovery that fail, and an invalid mode, are errors of the
\* command line: main exits with 1.
Resolve ==
    /\ at["launcher"] = "resolve"
    /\ \E a \in Asks :
         /\ allowed' = HostAllowed(a)
         /\ \/ ResolveNetMode(a) \in {"host", "none"} /\ Goto("launcher", "clone")
               /\ net' = (IF ResolveNetMode(a) = "none" THEN "empty" ELSE "host") /\ UNCHANGED mnt
            \/ End("launcher", UsageCode) /\ UNCHANGED net
    /\ UNCHANGED <<busy, sigs>>

\* nsexec.Supported and cmd.Start, with the clone flags.
Clone ==
    /\ at["launcher"] = "clone"
    /\ \/ at' = [at EXCEPT !["launcher"] = "notify", !["stage2"] = "loopback"]
          /\ UNCHANGED <<exit, mnt>>
       \/ End("launcher", WrapperCode)
    /\ UNCHANGED <<allowed, net, busy, sigs>>

Notify(p) ==
    /\ at[p] = "notify" /\ Goto(p, "wait")
    /\ UNCHANGED <<allowed, net, mnt, busy, sigs>>

\* Faulty variant: a child that was killed counts as success.
ExitCodeKilledOK(child) == IF exit[child] = Killed THEN 0 ELSE exit[child]

\* ExitError.ExitCode: the child's own code, or -1 if a signal killed it, which
\* os.Exit makes 255.
ExitCode(child) == IF exit[child] = Killed THEN 255 ELSE exit[child]

\* cmd.Wait returns: signal.Stop, and the exit code of stage 2 is passed on.
LauncherWaited ==
    /\ at["launcher"] = "wait" /\ at["stage2"] = "gone"
    /\ Goto("launcher", "leave")
    /\ queue' = [queue EXCEPT !["launcher"] = {}]
    /\ UNCHANGED <<allowed, net, mnt, busy, pend, sent, owed, lost, early>>

Leave ==
    /\ at["launcher"] = "leave" /\ End("launcher", ExitCode("stage2"))
    /\ UNCHANGED <<allowed, net, busy, sigs>>

Launcher == Resolve \/ Clone \/ Notify("launcher") \/ LauncherWaited \/ Leave

-----------------------------------------------------------------------------
(* Stage 2: runNSMount. *)

\* bringLoopbackUp; failing is only a warning.
BringLoopbackUp ==
    /\ at["stage2"] = "loopback" /\ Goto("stage2", "private")
    /\ net' \in {net} \cup (IF net = "empty" THEN {"loopback"} ELSE {})
    /\ UNCHANGED <<allowed, mnt, busy, sigs>>

MakePrivate ==
    /\ at["stage2"] = "private"
    /\ \/ Goto("stage2", "bind")
          /\ private' = TRUE /\ UNCHANGED <<shadow, host, view, serve, ready, cancelled>>
       \/ Wrapper
    /\ UNCHANGED <<allowed, net, busy, sigs>>

\* MkdirTemp and the bind mount of the source at the shadow path, which stays
\* until the namespace goes with its last process.
BindShadow ==
    /\ at["stage2"] = "bind"
    /\ \/ Goto("stage2", "load")
          /\ shadow' = TRUE /\ UNCHANGED <<private, host, view, serve, ready, cancelled>>
       \/ Wrapper
    /\ UNCHANGED <<allowed, net, busy, sigs>>

\* Settings and policy; then the goroutine with Adapter.Mount is started.
Load ==
    /\ at["stage2"] = "load"
    /\ \/ Goto("stage2", "ready")
          /\ serve' = "mounting" /\ UNCHANGED <<private, shadow, host, view, ready, cancelled>>
       \/ Wrapper
    /\ UNCHANGED <<allowed, net, busy, sigs>>

\* Adapter.Mount up to OnMounted: a mount in a shared tree reaches the host.
ServeMount ==
    /\ serve = "mounting"
    /\ \/ serve' = "up" /\ view' = "fuse" /\ ready' = "nil"
          /\ host' = IF private THEN host ELSE "fuse"
       \/ serve' = "down" /\ ready' = "err" /\ UNCHANGED <<view, host>>
    /\ UNCHANGED <<allowed, at, exit, net, private, shadow, cancelled, busy, sigs>>

\* Faulty variant: the command is started while the mount comes up.
ReadyAtOnce ==
    /\ at["stage2"] = "ready" /\ Goto("stage2", "start") /\ UNCHANGED mnt
    /\ UNCHANGED <<allowed, net, busy, sigs>>

\* <-ready, then Getwd.
Ready ==
    /\ at["stage2"] = "ready" /\ ready # "none"
    /\ \/ ready = "nil" /\ Goto("stage2", "start") /\ UNCHANGED mnt
       \/ Wrapper
    /\ UNCHANGED <<allowed, net, busy, sigs>>

\* Faulty variant: a command that cannot be started is waited for all the same.
StartAndWait ==
    /\ at["stage2"] = "start" /\ UNCHANGED mnt /\ UNCHANGED exit
    /\ \/ at' = [at EXCEPT !["stage2"] = "notify", !["target"] = "run"]
       \/ at' = [at EXCEPT !["stage2"] = "drain"]
    /\ UNCHANGED <<allowed, net, busy, sigs>>

StartTarget ==
    /\ at["stage2"] = "start"
    /\ \/ at' = [at EXCEPT !["stage2"] = "notify", !["target"] = "run"]
          /\ UNCHANGED <<exit, mnt>>
       \/ \E code \in StartFailures : End("stage2", code)
    /\ UNCHANGED <<allowed, net, busy, sigs>>

\* Faulty variant: Wait also returns for a signal that stage 2 caught.
WaitedOrSignalled ==
    /\ at["stage2"] = "wait" /\ (at["target"] = "gone" \/ queue["stage2"] # {})
    /\ Goto("stage2", "cancel")
    /\ queue' = [queue EXCEPT !["stage2"] = {}]
    /\ UNCHANGED <<allowed, net, mnt, busy, pend, sent, owed, lost, early>>

\* targetCmd.Wait returns: signal.Stop.
Waited ==
    /\ at["stage2"] = "wait" /\ at["target"] = "gone"
    /\ Goto("stage2", "cancel")
    /\ queue' = [queue EXCEPT !["stage2"] = {}]
    /\ UNCHANGED <<allowed, net, mnt, busy, pend, sent, owed, lost, early>>

CancelMount ==
    /\ at["stage2"] = "cancel" /\ Goto("stage2", "drain")
    /\ cancelled' = TRUE /\ UNCHANGED <<private, shadow, host, view, serve, ready>>
    /\ UNCHANGED <<allowed, net, busy, sigs>>

\* Adapter.Mount's second goroutine: Unmount, which fails on a busy mount
\* after a few attempts and is not called again.
ServeUnmount ==
    /\ serve = "up" /\ cancelled
    /\ \/ ~busy /\ serve' = "down" /\ view' = "real"
       \/ busy /\ serve' = "stuck" /\ UNCHANGED view
    /\ UNCHANGED <<allowed, at, exit, net, private, shadow, host, ready, cancelled, busy, sigs>>

\* <-mountDone, then the command's exit code.
Drain ==
    /\ at["stage2"] = "drain" /\ serve = "down"
    /\ End("stage2", ExitCode("target"))
    /\ UNCHANGED <<allowed, net, busy, sigs>>

Stage2 ==
    \/ BringLoopbackUp \/ MakePrivate \/ BindShadow \/ Load \/ Ready \/ StartTarget
    \/ Notify("stage2") \/ Waited \/ CancelMount \/ Drain

-----------------------------------------------------------------------------
(* Signals. *)

\* From outside: to the launcher, or to the group (a key at the terminal).
Alive(p) == at[p] \notin {"off", "gone"}

Signal(group) ==
    /\ sent < MaxSignals /\ sent' = sent + 1
    /\ \E s \in Sigs : pend' = [p \in Procs |-> IF p \in group /\ Alive(p) THEN pend[p] \cup {s} ELSE pend[p]]
    /\ UNCHANGED <<allowed, at, exit, net, mnt, busy, queue, owed, lost, early>>

\* Faulty variant: an unbuffered channel, whose reader may be elsewhere.
EnqueueUnbuffered(q, s) == {q, {s}}

\* What a sigChan may hold after one more signal: it drops what does not fit.
Enqueue(q, s) == {IF q = {} THEN {s} ELSE q}

\* Between Notify and Stop the signal is queued; otherwise it kills.
Handle(p) ==
    /\ p \in {"launcher", "stage2"} /\ Alive(p)
    /\ \E s \in pend[p] :
         LET full == queue[p] \notin {{}, {s}} IN
         /\ pend' = [pend EXCEPT ![p] = @ \ {s}]
         /\ IF at[p] = "wait"
              THEN /\ \E q \in Enqueue(queue[p], s) : queue' = [queue EXCEPT ![p] = q]
                   /\ owed' = IF p = "launcher" /\ ~full THEN owed \cup {s} ELSE owed
                   /\ lost' = IF full THEN lost \cup {s} ELSE lost
                   /\ UNCHANGED <<at, exit, mnt, early>>
              ELSE /\ End(p, Killed) /\ UNCHANGED <<queue, owed, lost>>
                   /\ early' = (early \/ at[p] \notin {"leave", "cancel", "drain"})
    /\ UNCHANGED <<allowed, net, busy, sent>>

\* The goroutine that passes a caught signal on to the child.
Forward(p, child) ==
    /\ at[p] = "wait" /\ queue[p] # {}
    /\ queue' = [queue EXCEPT ![p] = {}]
    /\ pend' = IF Alive(child) THEN [pend EXCEPT ![child] = @ \cup queue[p]] ELSE pend
    /\ UNCHANGED <<allowed, at, exit, net, mnt, busy, sent, owed, lost, early>>

-----------------------------------------------------------------------------
(* The command: it gets a signal and may ignore it, ends as it likes, and  *)
(* it or what it leaves behind holds files below the mount open.           *)

TargetSignalled ==
    /\ at["target"] = "run"
    /\ \E s \in pend["target"] : pend' = [pend EXCEPT !["target"] = @ \ {s}] /\ owed' = owed \ {s}
    /\ \/ UNCHANGED <<at, exit, mnt>>
       \/ End("target", Killed)
    /\ UNCHANGED <<allowed, net, busy, queue, sent, lost, early>>

TargetEnds ==
    /\ at["target"] = "run"
    /\ \E code \in OwnCodes : End("target", code)
    /\ UNCHANGED <<allowed, net, busy, sigs>>

Hold ==
    /\ at["target"] = "run" \/ busy
    /\ busy' = ~busy
    /\ UNCHANGED <<allowed, at, exit, net, mnt, sigs>>

-----------------------------------------------------------------------------
Serve    == ServeMount \/ ServeUnmount
Handlers == \E p \in Procs : Handle(p)
Forwards == Forward("launcher", "stage2") \/ Forward("stage2", "target")

Next ==
    \/ Launcher \/ Stage2 \/ Serve
    \/ Signal({"launcher"}) \/ Signal(Procs) \/ Handlers \/ Forwards
    \/ TargetSignalled \/ TargetEnds \/ Hold

Spec == Init /\ [][Next]_vars

\* Processes and goroutines run and the kernel delivers signals; nobody owes
\* that the command ends, lets go of a file or that a signal is sent.
FairSpec ==
    /\ Spec
    /\ WF_vars(Launcher) /\ WF_vars(Stage2) /\ WF_vars(Serve)
    /\ WF_vars(Handle("launcher")) /\ WF_vars(Handle("stage2")) /\ WF_vars(TargetSignalled)
    /\ WF_vars(Forward("launcher", "stage2")) /\ WF_vars(Forward("stage2", "target"))

-----------------------------------------------------------------------------
(* Correctness *)

\* Outside, the source path always shows the real tree, whatever fails, and
\* nothing bound elsewhere is seen: every mount is made in a private tree.
\* Inside, while the command runs, the source path shows the filtered view, or
\* a mount whose server is gone, never the real tree; and the command has the
\* host's network only if the operator said so or nobody asked for none.
\* Nothing is said of the shadow path, where the command can read the real tree.
Confined ==
    /\ host = "real"
    /\ shadow \/ serve \in {"mounting", "up"} => private
    /\ at["target"] = "run" => view \in {"fuse", "dead"} /\ (net = "host" => allowed)

\* What the launcher's exit code tells: it is the code the command ended with;
\* or the command never ran, and it is that of a failure before; or it is 255
\* and the command or stage 2 was killed.  So 0 is the command's own success
\* and no failure looks like it.  The codes themselves do not tell which case
\* it is: a command may end with 1, 125, 126, 127 or 255 too.
ExitCodeFaithful ==
    LET code == exit["launcher"] IN
    code \notin {NoExit, Killed} =>
        \/ exit["target"] = code
        \/ at["target"] = "off" /\ code \in {UsageCode} \cup StartFailures
        \/ code = 255 /\ Killed \in {exit["target"], exit["stage2"]}

\* The command outlives the launcher only if a signal came before one of the
\* two Notify calls that follow Start.
NoOrphan == at["launcher"] = "gone" /\ at["target"] = "run" => early

\* A signal the launcher caught reaches the command, one of its kind at least,
\* or the command has ended by then, or the run stops before there is one.
\* Broken by a channel that holds another signal, which loses it, and by stage 2
\* being killed before its Notify, after which the command runs on unsignalled.
SignalArrives ==
    \A s \in Sigs :
        s \in owed ~> \/ s \notin owed \/ at["target"] = "gone"
                      \/ at["stage2"] = "gone" /\ at["target"] = "off"
                      \/ s \in lost \/ early

\* While no command runs, exec comes to its end or starts one; the exception
\* is an unmount that found the mount busy.
ExecReturns ==
    (Alive("launcher") /\ at["target"] # "run")
        ~> (~Alive("launcher") \/ at["target"] = "run" \/ serve = "stuck")
=============================================================================
