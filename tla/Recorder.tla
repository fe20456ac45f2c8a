------------------------------ MODULE Recorder ------------------------------
(***************************************************************************)
(* The path of an operation's event from the FUSE handler to the history   *)
(* database, and the end of a mount that closes it: Emit and drainHistory  *)
(* (recorder.go), Record, batchedWriter and flush (store.go), and          *)
(* mountRuntime.stop (runtime.go), which waits for the serve loop only so  *)
(* long.  Events are numbered in the order of Emit.                        *)
(***************************************************************************)
EXTENDS Integers, Sequences, FiniteSets, Functions

CONSTANTS
    Handlers,   \* FUSE requests served at the same time
    ChanCap,    \* capacity of historyCh
    BatchMax,   \* events that make Record flush by itself
    MaxEvents,  \* bound: events emitted
    MaxTicks    \* bound: flushes begun by the ticker

ASSUME RecorderAssumption ==
    ChanCap \in Nat \ {0} /\ BatchMax \in Nat \ {0} /\ MaxEvents \in Nat /\ MaxTicks \in Nat

VARIABLES
    conn,      \* the kernel's side of the mount: "up", "lazy" (detached, files still open), "gone"
    busy,      \* handlers at work
    stop,      \* where mountRuntime.stop is
    gaveUp,    \* stop went on although the serve loop was not done
    ch, chClosed,   \* historyCh
    drain,     \* drainHistory: what it does and with which events
    buf,       \* Store.buf
    closeCh,   \* Store.closeCh is closed
    writer,    \* batchedWriter: what it does and with which events
    db,        \* rows committed
    totalOps,  \* Store.totalOps
    session,   \* total_ops of the session's row, -1: not written yet
    emitted, lost, ticks,
    panicked   \* the process died of a send on a closed channel

queue == <<ch, chClosed, drain>>
store == <<buf, closeCh, writer, db, totalOps, session>>
vars == <<conn, busy, stop, gaveUp, queue, store, emitted, lost, ticks, panicked>>

At(l, s) == [at |-> l, evs |-> s]

Init ==
    /\ conn = "up" /\ busy = {} /\ stop = "run" /\ gaveUp = FALSE
    /\ ch = <<>> /\ chClosed = FALSE /\ drain = At("recv", <<>>)
    /\ buf = <<>> /\ closeCh = FALSE /\ writer = At("select", <<>>)
    /\ db = {} /\ totalOps = 0 /\ session = -1
    /\ emitted = 0 /\ lost = {} /\ ticks = 0 /\ panicked = FALSE

-----------------------------------------------------------------------------
(* Handlers and Emit *)

\* The serve loop hands out requests as long as the connection lives.
Begin(h) ==
    /\ conn # "gone" /\ h \notin busy
    /\ busy' = busy \cup {h}
    /\ UNCHANGED <<conn, stop, gaveUp, queue, store, emitted, lost, ticks, panicked>>

\* The handler's last act.  The send does not block, and does not look
\* whether the channel is closed.
Emit(h) ==
    /\ h \in busy /\ emitted < MaxEvents
    /\ busy' = busy \ {h}
    /\ \/ chClosed /\ panicked' = TRUE /\ UNCHANGED <<ch, emitted, lost>>
       \/ /\ ~chClosed /\ Len(ch) < ChanCap /\ emitted' = emitted + 1
          /\ ch' = Append(ch, emitted') /\ UNCHANGED <<lost, panicked>>
       \/ /\ ~chClosed /\ Len(ch) = ChanCap /\ emitted' = emitted + 1
          /\ lost' = lost \cup {emitted'} /\ UNCHANGED <<ch, panicked>>
    /\ UNCHANGED <<conn, stop, gaveUp, chClosed, drain, store, ticks>>

\* The unmount asked for by the context, or the last file closed.
ConnGone ==
    /\ conn = "lazy" \/ (conn = "up" /\ stop # "run")
    /\ conn' = "gone"
    /\ UNCHANGED <<busy, stop, gaveUp, queue, store, emitted, lost, ticks, panicked>>

\* Faulty variant: the loop does not wait for its handlers.
DoneWhenGone == conn = "gone"

\* rt.done: the loops end when the connection is gone and they are idle.
Done == conn = "gone" /\ busy = {}

-----------------------------------------------------------------------------
(* drainHistory and Record *)

Receive ==
    /\ drain.at = "recv" /\ ch # <<>>
    /\ ch' = Tail(ch) /\ drain' = At("record", <<Head(ch)>>)
    /\ UNCHANGED <<conn, busy, stop, gaveUp, chClosed, store, emitted, lost, ticks, panicked>>

DrainEnds ==
    /\ drain.at = "recv" /\ ch = <<>> /\ chClosed
    /\ drain' = At("done", <<>>)
    /\ UNCHANGED <<conn, busy, stop, gaveUp, ch, chClosed, store, emitted, lost, ticks, panicked>>

\* Faulty variant: off by one in the batch size.
RecordLate ==
    /\ drain.at = "record"
    /\ LET all == buf \o drain.evs IN
       IF Len(all) > BatchMax
       THEN buf' = <<>> /\ drain' = At("flush", all)
       ELSE buf' = all /\ drain' = At("recv", <<>>)
    /\ UNCHANGED <<conn, busy, stop, gaveUp, ch, chClosed, closeCh, writer, db, totalOps, session,
                   emitted, lost, ticks, panicked>>

Record ==
    /\ drain.at = "record"
    /\ LET all == buf \o drain.evs IN
       IF Len(all) >= BatchMax
       THEN buf' = <<>> /\ drain' = At("flush", all)
       ELSE buf' = all /\ drain' = At("recv", <<>>)
    /\ UNCHANGED <<conn, busy, stop, gaveUp, ch, chClosed, closeCh, writer, db, totalOps, session,
                   emitted, lost, ticks, panicked>>

\* flush: the transaction commits or is rolled back; totalOps follows in a
\* step of its own.
Flush(evs, commits) ==
    IF commits THEN db' = db \cup Range(evs) /\ UNCHANGED lost
               ELSE lost' = lost \cup Range(evs) /\ UNCHANGED db

\* Faulty variant: a batch that was rolled back is counted.
RecordFlushCounted(commits) ==
    /\ drain.at = "flush" /\ Flush(drain.evs, commits)
    /\ drain' = At("count", drain.evs)
    /\ UNCHANGED <<conn, busy, stop, gaveUp, ch, chClosed, buf, closeCh, writer, totalOps, session,
                   emitted, ticks, panicked>>

RecordFlush(commits) ==
    /\ drain.at = "flush" /\ Flush(drain.evs, commits)
    /\ drain' = IF commits THEN At("count", drain.evs) ELSE At("recv", <<>>)
    /\ UNCHANGED <<conn, busy, stop, gaveUp, ch, chClosed, buf, closeCh, writer, totalOps, session,
                   emitted, ticks, panicked>>

RecordCount ==
    /\ drain.at = "count"
    /\ totalOps' = totalOps + Len(drain.evs) /\ drain' = At("recv", <<>>)
    /\ UNCHANGED <<conn, busy, stop, gaveUp, ch, chClosed, buf, closeCh, writer, db, session,
                   emitted, lost, ticks, panicked>>

-----------------------------------------------------------------------------
(* batchedWriter *)

\* Faulty variant: the batch is copied and the buffer kept.
KeepBuf == UNCHANGED buf

\* What both branches do first: take the buffer under the lock.
TakeBuf == buf' = <<>>

Tick ==
    /\ writer.at = "select" /\ ticks < MaxTicks
    /\ ticks' = ticks + 1 /\ TakeBuf
    /\ writer' = IF buf = <<>> THEN writer ELSE At("flush", buf)
    /\ UNCHANGED <<conn, busy, stop, gaveUp, queue, closeCh, db, totalOps, session, emitted, lost, panicked>>

Closing ==
    /\ writer.at = "select" /\ closeCh
    /\ TakeBuf
    /\ writer' = IF buf = <<>> THEN At("end", <<>>) ELSE At("flushLast", buf)
    /\ UNCHANGED <<conn, busy, stop, gaveUp, queue, closeCh, db, totalOps, session, emitted, lost, ticks, panicked>>

After(l) == IF l \in {"flush", "count"} THEN "select" ELSE "end"

WriterFlush(commits) ==
    /\ writer.at \in {"flush", "flushLast"} /\ Flush(writer.evs, commits)
    /\ writer' = IF commits THEN At(IF writer.at = "flush" THEN "count" ELSE "countLast", writer.evs)
                            ELSE At(After(writer.at), <<>>)
    /\ UNCHANGED <<conn, busy, stop, gaveUp, queue, buf, closeCh, totalOps, session, emitted, ticks, panicked>>

WriterCount ==
    /\ writer.at \in {"count", "countLast"}
    /\ totalOps' = totalOps + Len(writer.evs) /\ writer' = At(After(writer.at), <<>>)
    /\ UNCHANGED <<conn, busy, stop, gaveUp, queue, buf, closeCh, db, session, emitted, lost, ticks, panicked>>

\* endSession reads totalOps without the lock.
EndSession ==
    /\ writer.at = "end"
    /\ session' = totalOps /\ writer' = At("done", <<>>)
    /\ UNCHANGED <<conn, busy, stop, gaveUp, queue, buf, closeCh, db, totalOps, emitted, lost, ticks, panicked>>

-----------------------------------------------------------------------------
(* mountRuntime.stop *)

Cancel ==
    /\ stop = "run" /\ stop' = "grace"
    /\ UNCHANGED <<conn, busy, gaveUp, queue, store, emitted, lost, ticks, panicked>>

\* The serve loop is done, in the grace time or in the settle time.
StopDone ==
    /\ stop \in {"grace", "settle"} /\ Done
    /\ stop' = "closeRec"
    /\ UNCHANGED <<conn, busy, gaveUp, queue, store, emitted, lost, ticks, panicked>>

\* The forced unmount fails, or detaches at once, or lazily.
ForceUnmount ==
    /\ stop = "grace" /\ ~Done /\ stop' = "settle"
    /\ conn' \in IF conn = "up" THEN {"up", "lazy", "gone"} ELSE {conn}
    /\ UNCHANGED <<busy, gaveUp, queue, store, emitted, lost, ticks, panicked>>

\* Faulty variant: stop waits for the serve loop without a limit.
WaitForLoop ==
    /\ stop = "settle" /\ Done /\ stop' = "closeRec"
    /\ UNCHANGED <<conn, busy, gaveUp, queue, store, emitted, lost, ticks, panicked>>

GiveUp ==
    /\ stop = "settle" /\ ~Done
    /\ stop' = "closeRec" /\ gaveUp' = TRUE
    /\ UNCHANGED <<conn, busy, queue, store, emitted, lost, ticks, panicked>>

\* recorder.Close: closes the channel, waits for drainHistory.
CloseRecorder ==
    /\ stop = "closeRec" /\ stop' = "waitDrain" /\ chClosed' = TRUE
    /\ UNCHANGED <<conn, busy, gaveUp, ch, drain, store, emitted, lost, ticks, panicked>>

\* hist.Close: closes closeCh, waits for the writer, closes the database.
CloseHistory ==
    /\ stop = "waitDrain" /\ drain.at = "done"
    /\ stop' = "waitWriter" /\ closeCh' = TRUE
    /\ UNCHANGED <<conn, busy, gaveUp, queue, buf, writer, db, totalOps, session, emitted, lost, ticks, panicked>>

Closed ==
    /\ stop = "waitWriter" /\ writer.at = "done"
    /\ stop' = "closed"
    /\ UNCHANGED <<conn, busy, gaveUp, queue, store, emitted, lost, ticks, panicked>>

-----------------------------------------------------------------------------
Drain  == Receive \/ DrainEnds \/ Record \/ RecordCount \/ \E c \in BOOLEAN : RecordFlush(c)
Writer == Tick \/ Closing \/ WriterCount \/ EndSession \/ \E c \in BOOLEAN : WriterFlush(c)
Stop   == StopDone \/ ForceUnmount \/ GiveUp \/ CloseRecorder \/ CloseHistory \/ Closed

Next ==
    /\ ~panicked
    /\ \/ \E h \in Handlers : Begin(h) \/ Emit(h)
       \/ ConnGone \/ Cancel \/ Drain \/ Writer \/ Stop

Spec == Init /\ [][Next]_vars

\* Goroutines run and timers fire; the ticker, the handlers and the kernel owe
\* nothing.
FairSpec ==
    Spec /\ WF_vars(~panicked /\ Drain) /\ WF_vars(~panicked /\ Stop)
         /\ WF_vars(~panicked /\ (Closing \/ WriterCount \/ EndSession \/ \E c \in BOOLEAN : WriterFlush(c)))

-----------------------------------------------------------------------------
(* Correctness *)

\* Types, and that neither the queue nor the buffer between two batches
\* outgrows its limit.
TypeOK ==
    /\ emitted \in Nat /\ conn \in {"up", "lazy", "gone"} /\ busy \subseteq Handlers
    /\ stop \in {"run", "grace", "settle", "closeRec", "waitDrain", "waitWriter", "closed"}
    /\ ch \in Seq(1 .. emitted) /\ Len(ch) <= ChanCap
    /\ buf \in Seq(1 .. emitted) /\ Len(buf) < BatchMax
    /\ drain.at \in {"recv", "record", "flush", "count", "done"} /\ drain.evs \in Seq(1 .. emitted)
    /\ writer.at \in {"select", "flush", "flushLast", "count", "countLast", "end", "done"}
    /\ writer.evs \in Seq(1 .. emitted)
    /\ db \subseteq 1 .. emitted /\ lost \subseteq 1 .. emitted
    /\ totalOps \in Nat /\ session \in Nat \cup {-1}

\* No handler emits into a closed recorder, unless stop went on without the
\* serve loop: closing waits for the loop, and the loop for its handlers.
PanicOnlyAfterGiveUp == panicked => gaveUp

\* The session's row counts exactly the rows that were committed: endSession
\* reads totalOps without the lock, after every flush has been counted.
SessionCounts == session # -1 => session = Cardinality(db)

\* Events on their way: queued, in a goroutine's hand, buffered, in a batch
\* whose transaction is open.
InHand(g) == IF g.at \in {"record", "flush", "flushLast"} THEN Range(g.evs) ELSE {}
Pending == Range(ch) \cup InHand(drain) \cup Range(buf) \cup InHand(writer)

Log == INSTANCE LossyLog WITH pending <- Pending, written <- db, closed <- (stop = "closed")

\* The recorder and the store implement the lossy log.
ImplementsLog == Log!LogSpec

\* stop always comes to an end, however long handlers hang.
StopReturns == stop = "grace" ~> (stop = "closed" \/ panicked)
=============================================================================
