----------------------------- MODULE ExecProofs -----------------------------
(***************************************************************************)
(* The safety properties of Exec, for any number of signals.               *)
(***************************************************************************)
EXTENDS Exec, TLAPS

-----------------------------------------------------------------------------
(* The inductive invariant. *)

\* What a process may have ended with, and that it has not.
Codes == OwnCodes \cup StartFailures \cup {UsageCode, WrapperCode, 255, Killed, NoExit}

\* The types of what the steps read and write.
Types ==
    /\ at = [p \in Procs |-> at[p]] /\ exit \in [Procs -> Codes]
    /\ private \in BOOLEAN /\ shadow \in BOOLEAN /\ cancelled \in BOOLEAN /\ early \in BOOLEAN

\* The three processes are in step: who is where says where the others are.
Order ==
    /\ at["launcher"] \in {"resolve", "clone", "notify", "wait", "leave", "gone"}
    /\ at["target"] \in {"off", "run", "gone"}
    /\ at["stage2"] \in {"off", "loopback", "private", "bind", "load", "ready", "start",
                         "notify", "wait", "cancel", "drain", "gone"}
    /\ at["launcher"] \in {"resolve", "clone"} => at["stage2"] = "off"
    /\ at["launcher"] = "leave" => at["stage2"] = "gone"
    /\ at["target"] # "off" => at["stage2"] \in {"notify", "wait", "cancel", "drain", "gone"}
    /\ at["stage2"] \in {"cancel", "drain"} => at["target"] = "gone"

\* The mount: made in a private tree only, there before the command starts,
\* and taken away by nobody while stage 2 waits for the command.
Mounted ==
    /\ host = "real"
    /\ at["stage2"] \in {"bind", "load", "ready", "start", "notify", "wait"} => private
    /\ shadow \/ serve \in {"mounting", "up"} => private
    /\ at["stage2"] \in {"off", "loopback", "private", "bind", "load", "gone"} => serve = "off"
    /\ at["stage2"] = "ready" /\ ready = "nil" => serve = "up" /\ view = "fuse"
    /\ at["stage2"] \in {"start", "notify", "wait"} => serve = "up" /\ view = "fuse"
    /\ ready = "nil" => serve # "mounting"
    /\ at["stage2"] \in {"off", "loopback", "private", "bind", "load"} => ready = "none"
    /\ cancelled => at["stage2"] \in {"drain", "gone"}
    /\ at["stage2"] = "gone" /\ at["target"] = "run" => view = "dead"

\* The namespace was made with the host's network only if that is allowed.
Net == (at["launcher"] = "clone" \/ at["stage2"] # "off") => (net = "host" => allowed)

\* Who ended, and where its exit code comes from: its child, its own failure
\* before there was one, or a signal.
Ends ==
    /\ at["launcher"] = "gone" /\ ~early => at["stage2"] \in {"off", "gone"}
    /\ at["stage2"] = "gone" /\ at["target"] = "run" => early
    /\ \A p \in Procs : at[p] # "gone" => exit[p] = NoExit
    /\ at["target"] = "gone" => exit["target"] \in OwnCodes \cup {Killed}
    /\ at["stage2"] = "gone" =>
         \/ exit["stage2"] = Killed
         \/ at["target"] = "gone" /\ exit["stage2"] = ExitCode("target")
         \/ at["target"] = "off" /\ exit["stage2"] \in StartFailures
    /\ at["launcher"] = "gone" =>
         \/ exit["launcher"] = Killed
         \/ at["stage2"] = "gone" /\ exit["launcher"] = ExitCode("stage2")
         \/ at["stage2"] = "off" /\ exit["launcher"] \in {UsageCode, WrapperCode}

ExecInv == Types /\ Order /\ Mounted /\ Net /\ Ends

-----------------------------------------------------------------------------
\* The initial states satisfy ExecInv.
LEMMA InitInv == Init => ExecInv
<1> SUFFICES ASSUME Init PROVE ExecInv
  OBVIOUS
<1> USE DEF Init
<1>1. Types
  BY DEF Types, Procs, Codes
<1>3. Order
  BY DEF Order, Procs
<1>4. Mounted
  BY DEF Mounted, Procs
<1>2. Net /\ Ends
  BY DEF Net, Ends, Procs
<1> QED
  BY <1>1, <1>2, <1>3, <1>4 DEF ExecInv

\* The launcher's steps.
LEMMA LauncherInv == ExecInv /\ Launcher => ExecInv'
<1> SUFFICES ASSUME ExecInv, Launcher PROVE ExecInv'
  OBVIOUS
<1> USE DEF ExecInv, Types, Procs, Codes, mnt, sigs
<1>1. CASE Resolve
  <2>1. PICK a \in Asks : /\ allowed' = HostAllowed(a)
                          /\ \/ ResolveNetMode(a) \in {"host", "none"} /\ Goto("launcher", "clone")
                                /\ net' = (IF ResolveNetMode(a) = "none" THEN "empty" ELSE "host")
                                /\ UNCHANGED mnt
                             \/ End("launcher", UsageCode) /\ UNCHANGED net
    BY <1>1 DEF Resolve
  <2>2. at["launcher"] = "resolve" /\ at["stage2"] = "off" /\ at["target"] = "off"
        /\ UNCHANGED <<busy, sigs>>
    BY <1>1 DEF Resolve, Order
  <2>3. CASE End("launcher", UsageCode) /\ UNCHANGED net
    <3> USE <2>2, <2>3 DEF End
    <3>1. Types'
      BY <2>1 DEF HostAllowed
    <3>2. Order'
      BY DEF Order
    <3>3. Mounted'
      BY DEF Order, Mounted
    <3>4. Net'
      BY DEF Order, Net
    <3>5. Ends'
      BY DEF Order, Ends, ExitCode
    <3> QED
      BY <3>1, <3>2, <3>3, <3>4, <3>5
  <2>4. CASE /\ ResolveNetMode(a) \in {"host", "none"} /\ Goto("launcher", "clone")
             /\ net' = (IF ResolveNetMode(a) = "none" THEN "empty" ELSE "host")
             /\ UNCHANGED mnt
    <3> USE <2>2, <2>4 DEF Goto
    <3>1. Types'
      OBVIOUS
    <3>2. Order'
      BY DEF Order
    <3>3. Mounted'
      BY DEF Order, Mounted
    <3>4. Net'
      BY <2>1 DEF Order, Net, ResolveNetMode, HostAllowed
    <3>5. Ends'
      BY DEF Order, Ends, ExitCode
    <3> QED
      BY <3>1, <3>2, <3>3, <3>4, <3>5
  <2> QED
    BY <2>1, <2>3, <2>4
<1>2. CASE Clone
  <2> USE <1>2 DEF Clone, End
  <2>1. Types'
    OBVIOUS
  <2>2. Order'
    BY DEF Order
  <2>3. Mounted'
    BY DEF Order, Mounted
  <2>4. Net'
    BY DEF Order, Net
  <2>5. Ends'
    BY DEF Order, Ends, ExitCode, StartFailures, WrapperCode
  <2> QED
    BY <2>1, <2>2, <2>3, <2>4, <2>5
<1>3. CASE Notify("launcher")
  <2> USE <1>3 DEF Notify, Goto
  <2>1. Types'
    OBVIOUS
  <2>2. Order'
    BY DEF Order
  <2>3. Mounted'
    BY DEF Order, Mounted
  <2>4. Net'
    BY DEF Order, Net
  <2>5. Ends'
    BY DEF Order, Ends, ExitCode, StartFailures, WrapperCode
  <2> QED
    BY <2>1, <2>2, <2>3, <2>4, <2>5
<1>4. CASE LauncherWaited
  <2> USE <1>4 DEF LauncherWaited, Goto
  <2>1. Types'
    OBVIOUS
  <2>2. Order'
    BY DEF Order
  <2>3. Mounted'
    BY DEF Order, Mounted
  <2>4. Net'
    BY DEF Order, Net
  <2>5. Ends'
    BY DEF Order, Ends, ExitCode, StartFailures, WrapperCode
  <2> QED
    BY <2>1, <2>2, <2>3, <2>4, <2>5
<1>5. CASE Leave
  <2> USE <1>5 DEF Leave, End, ExitCode
  <2>1. Types'
    OBVIOUS
  <2>2. Order'
    BY DEF Order
  <2>3. Mounted'
    BY DEF Order, Mounted
  <2>4. Net'
    BY DEF Order, Net
  <2>5. Ends'
    BY DEF Order, Ends, ExitCode, StartFailures, WrapperCode
  <2> QED
    BY <2>1, <2>2, <2>3, <2>4, <2>5
<1> QED
  BY <1>1, <1>2, <1>3, <1>4, <1>5 DEF Launcher

\* Stage 2 gives up before there is a command.
LEMMA Stage2Fails ==
    ASSUME ExecInv, at["stage2"] \in {"private", "bind", "load", "ready", "start"},
           NEW code \in StartFailures, End("stage2", code), UNCHANGED <<allowed, net, busy, sigs>>
    PROVE  ExecInv'
<1> USE DEF ExecInv, Types, Procs, mnt, sigs, End
<1>1. Types'
  BY DEF Codes
<1>2. Order'
  BY DEF Order
<1>3. Mounted'
  BY DEF Order, Mounted
<1>4. Net'
  BY DEF Order, Net
<1>5. Ends'
  <2>1. at["target"] = "off" /\ at'["target"] = "off" /\ at'["launcher"] = at["launcher"]
    BY DEF Order
  <2>2. at'["stage2"] = "gone" /\ exit'["stage2"] = code
    OBVIOUS
  <2>3. at["launcher"] = "gone" => exit["launcher"] = Killed
    BY DEF Ends
  <2> QED
    BY <2>1, <2>2, <2>3 DEF Ends, ExitCode
<1> QED
  BY <1>1, <1>2, <1>3, <1>4, <1>5

\* The steps of stage 2, in their order.
LEMMA Stage2Inv == ExecInv /\ Stage2 => ExecInv'
<1> SUFFICES ASSUME ExecInv, Stage2 PROVE ExecInv'
  OBVIOUS
<1> USE DEF ExecInv, Types, Procs, Codes, mnt, sigs
<1>1. CASE BringLoopbackUp
  <2> USE <1>1 DEF BringLoopbackUp, Goto
  <2>1. Types'
    OBVIOUS
  <2>2. Order'
    BY DEF Order
  <2>3. Mounted'
    BY DEF Order, Mounted
  <2>4. Net'
    BY DEF Order, Net
  <2>5. Ends'
    BY DEF Order, Ends, ExitCode, StartFailures, WrapperCode
  <2> QED
    BY <2>1, <2>2, <2>3, <2>4, <2>5
<1>2. CASE MakePrivate
  <2>1. /\ at["stage2"] \in {"private", "bind", "load", "ready", "start"}
        /\ UNCHANGED <<allowed, net, busy, sigs>>
    BY <1>2 DEF MakePrivate
  <2>2. CASE End("stage2", WrapperCode)
    BY <2>1, <2>2, Stage2Fails DEF StartFailures, WrapperCode
  <2>3. CASE at["stage2"] = "private" /\ Goto("stage2", "bind")
             /\ private' = TRUE /\ UNCHANGED <<shadow, host, view, serve, ready, cancelled>>
    <3> USE <2>1, <2>3 DEF Goto
    <3>1. Types'
      OBVIOUS
    <3>2. Order'
      BY DEF Order
    <3>3. Mounted'
      BY DEF Order, Mounted
    <3>4. Net'
      BY DEF Order, Net
    <3>5. Ends'
      BY DEF Order, Ends, ExitCode
    <3> QED
      BY <3>1, <3>2, <3>3, <3>4, <3>5
  <2> QED
    BY <1>2, <2>2, <2>3 DEF MakePrivate, Wrapper
<1>3. CASE BindShadow
  <2>1. /\ at["stage2"] \in {"private", "bind", "load", "ready", "start"}
        /\ UNCHANGED <<allowed, net, busy, sigs>>
    BY <1>3 DEF BindShadow
  <2>2. CASE End("stage2", WrapperCode)
    BY <2>1, <2>2, Stage2Fails DEF StartFailures, WrapperCode
  <2>3. CASE at["stage2"] = "bind" /\ Goto("stage2", "load")
             /\ shadow' = TRUE /\ UNCHANGED <<private, host, view, serve, ready, cancelled>>
    <3> USE <2>1, <2>3 DEF Goto
    <3>1. Types'
      OBVIOUS
    <3>2. Order'
      BY DEF Order
    <3>3. Mounted'
      BY DEF Order, Mounted
    <3>4. Net'
      BY DEF Order, Net
    <3>5. Ends'
      BY DEF Order, Ends, ExitCode
    <3> QED
      BY <3>1, <3>2, <3>3, <3>4, <3>5
  <2> QED
    BY <1>3, <2>2, <2>3 DEF BindShadow, Wrapper
<1>4. CASE Load
  <2>1. /\ at["stage2"] \in {"private", "bind", "load", "ready", "start"}
        /\ UNCHANGED <<allowed, net, busy, sigs>>
    BY <1>4 DEF Load
  <2>2. CASE End("stage2", WrapperCode)
    BY <2>1, <2>2, Stage2Fails DEF StartFailures, WrapperCode
  <2>3. CASE at["stage2"] = "load" /\ Goto("stage2", "ready")
             /\ serve' = "mounting" /\ UNCHANGED <<private, shadow, host, view, ready, cancelled>>
    <3> USE <2>1, <2>3 DEF Goto
    <3>1. Types'
      OBVIOUS
    <3>2. Order'
      BY DEF Order
    <3>3. Mounted'
      BY DEF Order, Mounted
    <3>4. Net'
      BY DEF Order, Net
    <3>5. Ends'
      BY DEF Order, Ends, ExitCode
    <3> QED
      BY <3>1, <3>2, <3>3, <3>4, <3>5
  <2> QED
    BY <1>4, <2>2, <2>3 DEF Load, Wrapper
<1>5. CASE Ready
  <2>1. /\ at["stage2"] \in {"private", "bind", "load", "ready", "start"}
        /\ UNCHANGED <<allowed, net, busy, sigs>>
    BY <1>5 DEF Ready
  <2>2. CASE End("stage2", WrapperCode)
    BY <2>1, <2>2, Stage2Fails DEF StartFailures, WrapperCode
  <2>3. CASE at["stage2"] = "ready" /\ Goto("stage2", "start")
             /\ ready = "nil" /\ UNCHANGED mnt
    <3> USE <2>1, <2>3 DEF Goto
    <3>1. Types'
      OBVIOUS
    <3>2. Order'
      BY DEF Order
    <3>3. Mounted'
      BY DEF Order, Mounted
    <3>4. Net'
      BY DEF Order, Net
    <3>5. Ends'
      BY DEF Order, Ends, ExitCode
    <3> QED
      BY <3>1, <3>2, <3>3, <3>4, <3>5
  <2> QED
    BY <1>5, <2>2, <2>3 DEF Ready, Wrapper
<1>6. CASE StartTarget
  <2>1. at["stage2"] = "start" /\ UNCHANGED <<allowed, net, busy, sigs>>
    BY <1>6 DEF StartTarget
  <2>2. ASSUME NEW code \in StartFailures, End("stage2", code) PROVE ExecInv'
    BY <2>1, <2>2, Stage2Fails
  <2>3. CASE /\ at' = [at EXCEPT !["stage2"] = "notify", !["target"] = "run"]
             /\ UNCHANGED <<exit, mnt>>
    <3> USE <2>1, <2>3
    <3>1. Types'
      OBVIOUS
    <3>2. Order'
      BY DEF Order
    <3>3. Mounted'
      BY DEF Order, Mounted
    <3>4. Net'
      BY DEF Order, Net
    <3>5. Ends'
      BY DEF Order, Ends, ExitCode
    <3> QED
      BY <3>1, <3>2, <3>3, <3>4, <3>5
  <2> QED
    BY <1>6, <2>2, <2>3 DEF StartTarget
<1>7. CASE Notify("stage2")
  <2> USE <1>7 DEF Notify, Goto
  <2>1. Types'
    OBVIOUS
  <2>2. Order'
    BY DEF Order
  <2>3. Mounted'
    BY DEF Order, Mounted
  <2>4. Net'
    BY DEF Order, Net
  <2>5. Ends'
    BY DEF Order, Ends, ExitCode, StartFailures, WrapperCode
  <2> QED
    BY <2>1, <2>2, <2>3, <2>4, <2>5
<1>8. CASE Waited
  <2> USE <1>8 DEF Waited, Goto
  <2>1. Types'
    OBVIOUS
  <2>2. Order'
    BY DEF Order
  <2>3. Mounted'
    BY DEF Order, Mounted
  <2>4. Net'
    BY DEF Order, Net
  <2>5. Ends'
    BY DEF Order, Ends, ExitCode, StartFailures, WrapperCode
  <2> QED
    BY <2>1, <2>2, <2>3, <2>4, <2>5
<1>9. CASE CancelMount
  <2> USE <1>9 DEF CancelMount, Goto
  <2>1. Types'
    OBVIOUS
  <2>2. Order'
    BY DEF Order
  <2>3. Mounted'
    BY DEF Order, Mounted
  <2>4. Net'
    BY DEF Order, Net
  <2>5. Ends'
    BY DEF Order, Ends, ExitCode, StartFailures, WrapperCode
  <2> QED
    BY <2>1, <2>2, <2>3, <2>4, <2>5
<1>10. CASE Drain
  <2> USE <1>10 DEF Drain, ExitCode, End
  <2>1. Types'
    OBVIOUS
  <2>2. Order'
    BY DEF Order
  <2>3. Mounted'
    BY DEF Order, Mounted
  <2>4. Net'
    BY DEF Order, Net
  <2>5. Ends'
    BY DEF Order, Ends, ExitCode, StartFailures, WrapperCode
  <2> QED
    BY <2>1, <2>2, <2>3, <2>4, <2>5
<1> QED
  BY <1>1, <1>2, <1>3, <1>4, <1>5, <1>6, <1>7, <1>8, <1>9, <1>10 DEF Stage2

\* The serve loop.
LEMMA ServeInv == ExecInv /\ Serve => ExecInv'
<1> SUFFICES ASSUME ExecInv, Serve PROVE ExecInv'
  OBVIOUS
<1> USE DEF ExecInv, Types, Procs, Codes, mnt, sigs
<1>1. CASE ServeMount
  <2> USE <1>1 DEF ServeMount
  <2>1. Types'
    OBVIOUS
  <2>2. Order'
    BY DEF Order
  <2>3. Mounted'
    <3>1. private /\ host = "real"
      BY DEF Mounted
    <3>2. host' = "real"
      BY <3>1
    <3> QED
      BY <3>1, <3>2 DEF Order, Mounted
  <2>4. Net'
    BY DEF Order, Net
  <2>5. Ends'
    BY DEF Order, Ends, ExitCode, StartFailures, WrapperCode
  <2> QED
    BY <2>1, <2>2, <2>3, <2>4, <2>5
<1>2. CASE ServeUnmount
  <2> USE <1>2 DEF ServeUnmount
  <2>1. Types'
    OBVIOUS
  <2>2. Order'
    BY DEF Order
  <2>3. Mounted'
    BY DEF Order, Mounted
  <2>4. Net'
    BY DEF Order, Net
  <2>5. Ends'
    BY DEF Order, Ends, ExitCode, StartFailures, WrapperCode
  <2> QED
    BY <2>1, <2>2, <2>3, <2>4, <2>5
<1> QED
  BY <1>1, <1>2 DEF Serve

\* Signals passed on.
LEMMA ForwardInv == ExecInv /\ Forwards => ExecInv'
<1> SUFFICES ASSUME ExecInv, Forwards PROVE ExecInv'
  OBVIOUS
<1> USE DEF ExecInv, Types, Procs, Codes, mnt, sigs
<1>1. CASE Forward("launcher", "stage2")
  <2> USE <1>1 DEF Forward, Alive
  <2>1. Types'
    OBVIOUS
  <2>2. Order'
    BY DEF Order
  <2>3. Mounted'
    BY DEF Order, Mounted
  <2>4. Net'
    BY DEF Order, Net
  <2>5. Ends'
    BY DEF Order, Ends, ExitCode, StartFailures, WrapperCode
  <2> QED
    BY <2>1, <2>2, <2>3, <2>4, <2>5
<1>2. CASE Forward("stage2", "target")
  <2> USE <1>2 DEF Forward, Alive
  <2>1. Types'
    OBVIOUS
  <2>2. Order'
    BY DEF Order
  <2>3. Mounted'
    BY DEF Order, Mounted
  <2>4. Net'
    BY DEF Order, Net
  <2>5. Ends'
    BY DEF Order, Ends, ExitCode, StartFailures, WrapperCode
  <2> QED
    BY <2>1, <2>2, <2>3, <2>4, <2>5
<1> QED
  BY <1>1, <1>2 DEF Forwards

\* Signals that reach the launcher or stage 2.
LEMMA HandlersInv == ExecInv /\ Handlers => ExecInv'
<1> SUFFICES ASSUME ExecInv, Handlers PROVE ExecInv'
  OBVIOUS
<1> USE DEF ExecInv, Types, Procs, Codes, mnt, sigs
<1>1. CASE Handle("launcher")
  <2>1. Alive("launcher") /\ UNCHANGED <<allowed, net, busy, sent>>
    BY <1>1 DEF Handle
  <2>2. CASE at["launcher"] = "wait"
    <3> UNCHANGED <<at, exit, mnt, early>>
      BY <1>1, <2>2 DEF Handle
    <3> USE <2>1
    <3>1. Types'
      OBVIOUS
    <3>2. Order'
      BY DEF Order
    <3>3. Mounted'
      BY DEF Order, Mounted
    <3>4. Net'
      BY DEF Order, Net
    <3>5. Ends'
      BY DEF Order, Ends, ExitCode
    <3> QED
      BY <3>1, <3>2, <3>3, <3>4, <3>5
  <2>3. CASE at["launcher"] # "wait"
    <3> /\ End("launcher", Killed)
        /\ early' = (early \/ at["launcher"] \notin {"leave", "cancel", "drain"})
      BY <1>1, <2>3 DEF Handle
    <3> USE <2>1, <2>3 DEF End, Alive
    <3>1. Types'
      OBVIOUS
    <3>2. Order'
      BY DEF Order
    <3>3. Mounted'
      BY DEF Order, Mounted
    <3>4. Net'
      BY DEF Order, Net
    <3>5. Ends'
      <4>1. at'["launcher"] = "gone" /\ exit'["launcher"] = Killed
        OBVIOUS
      <4>2. \A p \in {"stage2", "target"} : at'[p] = at[p] /\ exit'[p] = exit[p]
        OBVIOUS
      <4>3. ~early' => at["stage2"] \in {"off", "gone"}
        BY DEF Order
      <4> QED
        BY <4>1, <4>2, <4>3 DEF Ends, ExitCode
    <3> QED
      BY <3>1, <3>2, <3>3, <3>4, <3>5
  <2> QED
    BY <2>2, <2>3
<1>2. CASE Handle("stage2")
  <2>1. Alive("stage2") /\ UNCHANGED <<allowed, net, busy, sent>>
    BY <1>2 DEF Handle
  <2>2. CASE at["stage2"] = "wait"
    <3> UNCHANGED <<at, exit, mnt, early>>
      BY <1>2, <2>2 DEF Handle
    <3> USE <2>1
    <3>1. Types'
      OBVIOUS
    <3>2. Order'
      BY DEF Order
    <3>3. Mounted'
      BY DEF Order, Mounted
    <3>4. Net'
      BY DEF Order, Net
    <3>5. Ends'
      BY DEF Order, Ends, ExitCode
    <3> QED
      BY <3>1, <3>2, <3>3, <3>4, <3>5
  <2>3. CASE at["stage2"] # "wait"
    <3> /\ End("stage2", Killed)
        /\ early' = (early \/ at["stage2"] \notin {"leave", "cancel", "drain"})
      BY <1>2, <2>3 DEF Handle
    <3> USE <2>1, <2>3 DEF End, Alive
    <3>1. Types'
      OBVIOUS
    <3>2. Order'
      BY DEF Order
    <3>3. Mounted'
      BY DEF Order, Mounted
    <3>4. Net'
      BY DEF Order, Net
    <3>5. Ends'
      <4>1. at'["stage2"] = "gone" /\ exit'["stage2"] = Killed
        OBVIOUS
      <4>2. \A p \in {"launcher", "target"} : at'[p] = at[p] /\ exit'[p] = exit[p]
        OBVIOUS
      <4>3. at["target"] = "run" => early'
        BY DEF Order
      <4>4. at["launcher"] = "gone" => exit["launcher"] = Killed
        BY DEF Ends
      <4> QED
        BY <4>1, <4>2, <4>3, <4>4 DEF Ends, ExitCode
    <3> QED
      BY <3>1, <3>2, <3>3, <3>4, <3>5
  <2> QED
    BY <2>2, <2>3
<1>3. ~Handle("target")
  BY DEF Handle
<1> QED
  BY <1>1, <1>2, <1>3 DEF Handlers

\* Everything else: what the world does, and the steps above.
LEMMA StepInv == ExecInv /\ [Next]_vars => ExecInv'
<1> SUFFICES ASSUME ExecInv, [Next]_vars PROVE ExecInv'
  OBVIOUS
<1> USE DEF ExecInv, Types, Procs, Codes, mnt, sigs
<1>1. CASE Signal({"launcher"}) \/ Signal(Procs)
  <2> USE <1>1 DEF Signal, Alive
  <2>1. Types'
    OBVIOUS
  <2>2. Order'
    BY DEF Order
  <2>3. Mounted'
    BY DEF Order, Mounted
  <2>4. Net'
    BY DEF Order, Net
  <2>5. Ends'
    BY DEF Order, Ends, ExitCode, StartFailures, WrapperCode
  <2> QED
    BY <2>1, <2>2, <2>3, <2>4, <2>5
<1>2. CASE TargetSignalled
  <2> USE <1>2 DEF TargetSignalled, End
  <2>1. Types'
    OBVIOUS
  <2>2. Order'
    BY DEF Order
  <2>3. Mounted'
    BY DEF Order, Mounted
  <2>4. Net'
    BY DEF Order, Net
  <2>5. Ends'
    BY DEF Order, Ends, ExitCode, StartFailures, WrapperCode
  <2> QED
    BY <2>1, <2>2, <2>3, <2>4, <2>5
<1>3. CASE TargetEnds
  <2> USE <1>3 DEF TargetEnds, End
  <2>1. Types'
    <3>1. PICK code \in OwnCodes : End("target", code)
      OBVIOUS
    <3> QED
      BY <3>1
  <2>2. Order'
    BY DEF Order
  <2>3. Mounted'
    BY DEF Order, Mounted
  <2>4. Net'
    BY DEF Order, Net
  <2>5. Ends'
    BY DEF Order, Ends, ExitCode, StartFailures, WrapperCode
  <2> QED
    BY <2>1, <2>2, <2>3, <2>4, <2>5
<1>4. CASE Hold
  <2> USE <1>4 DEF Hold
  <2>1. Types'
    OBVIOUS
  <2>2. Order'
    BY DEF Order
  <2>3. Mounted'
    BY DEF Order, Mounted
  <2>4. Net'
    BY DEF Order, Net
  <2>5. Ends'
    BY DEF Order, Ends, ExitCode, StartFailures, WrapperCode
  <2> QED
    BY <2>1, <2>2, <2>3, <2>4, <2>5
<1>5. CASE UNCHANGED vars
  <2> USE <1>5 DEF vars
  <2>1. Types'
    OBVIOUS
  <2>2. Order'
    BY DEF Order
  <2>3. Mounted'
    BY DEF Order, Mounted
  <2>4. Net'
    BY DEF Order, Net
  <2>5. Ends'
    BY DEF Order, Ends, ExitCode, StartFailures, WrapperCode
  <2> QED
    BY <2>1, <2>2, <2>3, <2>4, <2>5
<1> QED
  BY <1>1, <1>2, <1>3, <1>4, <1>5, LauncherInv, Stage2Inv, ServeInv, ForwardInv, HandlersInv DEF Next

\* ExecInv holds in every reachable state of Spec.
LEMMA Invariance == Spec => []ExecInv
<1> QED
  BY InitInv, StepInv, PTL DEF Spec

-----------------------------------------------------------------------------
(* The theorems. *)

\* The source path always shows the real tree outside, and the filtered or a
\* dead view to the running command, on the network that was asked for
\* (runNSMount, resolveNetMode), however many signals there are.
THEOREM Boundary == Spec => []Confined
<1>1. ExecInv => Confined
  BY DEF ExecInv, Order, Mounted, Net, Confined
<1> QED
  BY <1>1, Invariance, PTL

\* What the launcher's exit code says of the command is true (Run, runNSMount,
\* startFailureExitCode).
THEOREM ExitCodes == Spec => []ExitCodeFaithful
<1>1. ExecInv => ExitCodeFaithful
  BY DEF ExecInv, Types, Codes, Order, Ends, ExitCode, StartFailures, UsageCode, WrapperCode, Killed, NoExit, Procs, ExitCodeFaithful
<1> QED
  BY <1>1, Invariance, PTL

\* The command outlives the launcher only after a signal that came before one
\* of the two calls of signal.Notify.
THEOREM Orphans == Spec => []NoOrphan
<1>1. ExecInv => NoOrphan
  BY DEF ExecInv, Order, Ends, NoOrphan
<1> QED
  BY <1>1, Invariance, PTL
=============================================================================
