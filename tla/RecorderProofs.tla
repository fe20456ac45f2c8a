--------------------------- MODULE RecorderProofs ---------------------------
(***************************************************************************)
(* The safety properties of Recorder, and that it implements LossyLog, for *)
(* any number of handlers and events and any capacity of queue and batch.  *)
(*                                                                         *)
(* None of them is inductive.  PanicOnlyAfterGiveUp needs what stop has    *)
(* done by the time it closes the channel (Shutdown).  The refinement and  *)
(* SessionCounts need that an event is in one place at a time (Apart,      *)
(* NoTwice): moving one batch must not take away, or count again, an event *)
(* that is somewhere else as well.                                         *)
(***************************************************************************)
EXTENDS Recorder, FiniteSetTheorems, TLAPS

-----------------------------------------------------------------------------
(* The inductive invariant. *)

\* What stop has closed, and what it knows by then.
Leaving  == {"closeRec", "waitDrain", "waitWriter", "closed"}
Shutdown ==
    /\ stop \in Leaving => gaveUp \/ Done
    /\ chClosed <=> stop \in Leaving \ {"closeRec"}
    /\ closeCh <=> stop \in {"waitWriter", "closed"}
    /\ closeCh => drain.at = "done"
    /\ stop = "closed" => writer.at = "done"
    /\ panicked => gaveUp

\* What the two goroutines hold, and what is left when they have ended.
Goroutines ==
    /\ drain.at \in {"recv", "done"} => drain.evs = <<>>
    /\ drain.at = "done" => ch = <<>> /\ chClosed
    /\ writer.at \in {"select", "end", "done"} => writer.evs = <<>>
    /\ writer.at \in {"flushLast", "countLast", "end", "done"} => closeCh /\ buf = <<>>

\* No sequence of events holds one twice.
NoTwice ==
    IsInjective(ch) /\ IsInjective(drain.evs) /\ IsInjective(buf) /\ IsInjective(writer.evs)

\* An event is in one place.
Apart ==
    /\ Range(ch) \cap (InHand(drain) \cup Range(buf) \cup InHand(writer) \cup db \cup lost) = {}
    /\ InHand(drain) \cap (Range(buf) \cup InHand(writer) \cup db \cup lost) = {}
    /\ Range(buf) \cap (InHand(writer) \cup db \cup lost) = {}
    /\ InHand(writer) \cap (db \cup lost) = {}
    /\ db \cap lost = {}

\* Rows committed and not yet counted.
Uncounted(g) == IF g.at \in {"count", "countLast"} THEN Len(g.evs) ELSE 0
Counted ==
    /\ Cardinality(db) = totalOps + Uncounted(drain) + Uncounted(writer)
    /\ session # -1 => writer.at = "done" /\ session = totalOps

IInv == TypeOK /\ Shutdown /\ Goroutines /\ NoTwice /\ Apart /\ Counted

-----------------------------------------------------------------------------
(* Sequences of events as sets. *)

\* What it is to be among the events of a sequence.
LEMMA InRange == \A f, x : x \in Range(f) <=> \E i \in DOMAIN f : x = f[i]
  BY DEF Range

LEMMA RangeOf == \A S : \A s \in Seq(S) : Range(s) \subseteq S
  <1>. SUFFICES ASSUME NEW S, NEW s \in Seq(S), NEW i \in DOMAIN s PROVE s[i] \in S
    BY InRange
  <1>. QED
    OBVIOUS

LEMMA EmptyRange == Range(<<>>) = {} /\ IsInjective(<<>>)
  BY DEF Range, IsInjective

LEMMA SingleRange == \A e : Range(<<e>>) = {e} /\ IsInjective(<<e>>) /\ Len(<<e>>) = 1
  BY DEF Range, IsInjective

\* Range and IsInjective when events are queued, taken or joined.
LEMMA AppendRange ==
    ASSUME NEW S, NEW s \in Seq(S), NEW e
    PROVE  /\ Range(Append(s, e)) = Range(s) \cup {e}
           /\ IsInjective(s) /\ e \notin Range(s) => IsInjective(Append(s, e))
  <1>. DEFINE t == Append(s, e)
  <1>1. /\ DOMAIN t = 1 .. Len(s) + 1 /\ DOMAIN s = 1 .. Len(s) /\ Len(s) \in Nat
        /\ \A i \in 1 .. Len(s) : t[i] = s[i]
        /\ t[Len(s) + 1] = e
    OBVIOUS
  <1>2. Range(t) = Range(s) \cup {e}
    BY <1>1 DEF Range
  <1>3. ASSUME IsInjective(s), e \notin Range(s) PROVE IsInjective(t)
    BY <1>1, <1>3 DEF Range, IsInjective
  <1>. QED
    BY <1>2, <1>3

LEMMA ConcatRange ==
    ASSUME NEW S, NEW s \in Seq(S), NEW t \in Seq(S)
    PROVE  /\ Range(s \o t) = Range(s) \cup Range(t)
           /\ IsInjective(s) /\ IsInjective(t) /\ Range(s) \cap Range(t) = {} => IsInjective(s \o t)
  <1>. DEFINE u == s \o t
  <1>1. /\ DOMAIN u = 1 .. Len(s) + Len(t) /\ DOMAIN s = 1 .. Len(s) /\ DOMAIN t = 1 .. Len(t)
        /\ Len(s) \in Nat /\ Len(t) \in Nat
        /\ \A i \in DOMAIN s : i \in DOMAIN u /\ u[i] = s[i]
        /\ \A i \in DOMAIN u : i \in DOMAIN s \/ (i - Len(s) \in DOMAIN t /\ u[i] = t[i - Len(s)])
    OBVIOUS
  <1>2. \A i \in DOMAIN t : i + Len(s) \in DOMAIN u /\ u[i + Len(s)] = t[i]
    <2>1. \A i \in DOMAIN t :
            i \in Nat /\ i + Len(s) \in DOMAIN u /\ i + Len(s) \notin DOMAIN s /\ (i + Len(s)) - Len(s) = i
      BY <1>1
    <2>. QED
      BY <1>1, <2>1
  <1>. HIDE DEF u
  <1>3. Range(u) = Range(s) \cup Range(t)
    <2>1. ASSUME NEW x \in Range(u) PROVE x \in Range(s) \/ x \in Range(t)
      <3>1. PICK i \in DOMAIN u : x = u[i]
        BY InRange
      <3>2. x \in Range(s) \/ (i - Len(s) \in DOMAIN t /\ x = t[i - Len(s)])
        BY <1>1, <3>1, InRange
      <3>. QED
        BY <3>2, InRange
    <2>2. ASSUME NEW x \in Range(s) PROVE x \in Range(u)
      BY <1>1, InRange
    <2>3. ASSUME NEW x \in Range(t) PROVE x \in Range(u)
      <3>1. PICK i \in DOMAIN t : x = t[i]
        BY InRange
      <3>. QED
        BY <1>2, <3>1, InRange
    <2>. QED
      BY <2>1, <2>2, <2>3
  <1>4. ASSUME IsInjective(s), IsInjective(t), Range(s) \cap Range(t) = {}
        PROVE  IsInjective(u)
    <2>. SUFFICES ASSUME NEW i \in DOMAIN u, NEW j \in DOMAIN u, u[i] = u[j]
                  PROVE  i = j
      BY DEF IsInjective
    <2>. i \in Int /\ j \in Int
      BY <1>1
    <2>1. CASE i \in DOMAIN s /\ j \in DOMAIN s
      BY <1>1, <1>4, <2>1 DEF IsInjective
    <2>2. CASE i \notin DOMAIN s /\ j \notin DOMAIN s
      <3>1. i - Len(s) = j - Len(s)
        BY <1>1, <1>4, <2>2 DEF IsInjective
      <3>. QED
        BY <1>1, <3>1
    <2>3. CASE i \in DOMAIN s /\ j \notin DOMAIN s
      <3>1. u[i] \in Range(s) /\ u[j] \in Range(t)
        BY <1>1, <2>3, InRange
      <3>. QED
        BY <1>4, <3>1
    <2>4. CASE i \notin DOMAIN s /\ j \in DOMAIN s
      <3>1. u[i] \in Range(t) /\ u[j] \in Range(s)
        BY <1>1, <2>4, InRange
      <3>. QED
        BY <1>4, <3>1
    <2>. QED
      BY <2>1, <2>2, <2>3, <2>4
  <1>. QED
    BY <1>3, <1>4 DEF u

LEMMA TailRange ==
    ASSUME NEW S, NEW s \in Seq(S), s # <<>>
    PROVE  /\ Head(s) \in S /\ Tail(s) \in Seq(S) /\ Len(Tail(s)) = Len(s) - 1
           /\ Range(s) = {Head(s)} \cup Range(Tail(s))
           /\ IsInjective(s) => IsInjective(Tail(s)) /\ Head(s) \notin Range(Tail(s))
  <1>. DEFINE t == Tail(s)
  <1>1. /\ DOMAIN s = 1 .. Len(s) /\ Len(s) \in Nat \ {0} /\ Head(s) = s[1] /\ s[1] \in S
        /\ t \in Seq(S) /\ Len(t) = Len(s) - 1 /\ DOMAIN t = 1 .. Len(s) - 1
        /\ \A i \in DOMAIN t : i + 1 \in DOMAIN s /\ t[i] = s[i + 1] /\ i \in Nat \ {0}
    <2>1. /\ DOMAIN s = 1 .. Len(s) /\ Len(s) \in Nat \ {0} /\ Head(s) = s[1] /\ s[1] \in S
          /\ t \in Seq(S) /\ Len(t) = Len(s) - 1 /\ DOMAIN t = 1 .. Len(s) - 1
      OBVIOUS
    <2>2. \A i \in 1 .. Len(s) - 1 : t[i] = s[i + 1]
      OBVIOUS
    <2>3. \A i \in 1 .. Len(s) - 1 : i + 1 \in 1 .. Len(s) /\ i \in Nat \ {0}
      BY <2>1
    <2>. QED
      BY <2>1, <2>2, <2>3
  <1>2. \A i \in DOMAIN s : i = 1 \/ (i - 1 \in DOMAIN t /\ s[i] = t[i - 1])
    <2>1. \A i \in DOMAIN s : i = 1 \/ (i - 1 \in DOMAIN t /\ (i - 1) + 1 = i)
      BY <1>1
    <2>. QED
      BY <1>1, <2>1
  <1>3. 1 \in DOMAIN s
    BY <1>1
  <1>. HIDE DEF t
  <1>4. Range(s) = {s[1]} \cup Range(t)
    <2>1. ASSUME NEW x \in Range(s) PROVE x = s[1] \/ x \in Range(t)
      <3>1. PICK i \in DOMAIN s : x = s[i]
        BY InRange
      <3>2. x = s[1] \/ (i - 1 \in DOMAIN t /\ x = t[i - 1])
        BY <1>2, <3>1
      <3>. QED
        BY <3>2, InRange
    <2>2. ASSUME NEW x \in Range(t) PROVE x \in Range(s)
      <3>1. PICK i \in DOMAIN t : x = t[i]
        BY InRange
      <3>. QED
        BY <1>1, <3>1, InRange
    <2>3. s[1] \in Range(s)
      BY <1>3, InRange
    <2>. QED
      BY <2>1, <2>2, <2>3
  <1>5. ASSUME IsInjective(s) PROVE IsInjective(t) /\ s[1] \notin Range(t)
    <2>1. \A i, j \in DOMAIN t : t[i] = t[j] => i + 1 = j + 1
      BY <1>1, <1>5 DEF IsInjective
    <2>2. \A i \in DOMAIN t : t[i] = s[1] => i + 1 = 1
      BY <1>1, <1>3, <1>5 DEF IsInjective
    <2>. QED
      BY <1>1, <2>1, <2>2, InRange DEF IsInjective
  <1>. QED
    BY <1>1, <1>4, <1>5 DEF t

\* A batch without a repetition has as many events as places.
LEMMA BatchSize ==
    ASSUME NEW S, NEW s \in Seq(S), IsInjective(s)
    PROVE  IsFiniteSet(Range(s)) /\ Cardinality(Range(s)) = Len(s)
  <1>. DEFINE n == Len(s)
  <1>1. IsFiniteSet(1 .. n) /\ Cardinality(1 .. n) = n
    <2>1. n \in Nat
      OBVIOUS
    <2>. QED
      BY <2>1, FS_Interval
  <1>2. s \in Bijection(1 .. n, Range(s))
    BY DEF Bijection, Injection, Surjection, IsInjective, Range
  <1>. QED
    BY <1>1, <1>2, FS_Bijection DEF ExistsBijection

-----------------------------------------------------------------------------
(* One lemma for each part of the invariant. *)

\* Batches of earlier events are batches of events.
LEMMA SeqGrows == \A S, T : S \subseteq T => Seq(S) \subseteq Seq(T)
  <1>. SUFFICES ASSUME NEW S, NEW T, S \subseteq T, NEW s \in Seq(S) PROVE s \in Seq(T)
    OBVIOUS
  <1>. QED
    OBVIOUS

LEMMA EmptySeq == Len(<<>>) = 0 /\ \A S : <<>> \in Seq(S)
  <1>1. ASSUME NEW S PROVE <<>> \in Seq(S)
    OBVIOUS
  <1>. QED
    BY <1>1

LEMMA TypeInit == Init => TypeOK
  BY RecorderAssumption DEF Init, TypeOK, At

\* The types, and that neither queue nor buffer outgrows its limit.
LEMMA TypeStep == TypeOK /\ Goroutines /\ [Next]_vars => TypeOK'
  <1>. SUFFICES ASSUME TypeOK, Goroutines, [Next]_vars PROVE TypeOK'
    OBVIOUS
  <1>. USE RecorderAssumption
  <1>1. ASSUME NEW h \in Handlers, Begin(h) \/ Emit(h) PROVE TypeOK'
    <2>1. CASE Begin(h)
      BY <2>1 DEF Begin, TypeOK, queue, store
    <2>2. CASE Emit(h) /\ ~chClosed
      <3>1. /\ emitted' = emitted + 1 /\ <<drain, buf, writer, db>>' = <<drain, buf, writer, db>>
            /\ 1 .. emitted \subseteq 1 .. emitted' /\ emitted' \in 1 .. emitted'
        BY <2>2 DEF Emit, TypeOK, store
      <3>2. \A S : S \in {ch, buf, drain.evs, writer.evs} => S \in Seq(1 .. emitted')
        BY <3>1, SeqGrows DEF TypeOK
      <3>3. CASE Len(ch) < ChanCap /\ ch' = Append(ch, emitted') /\ lost' = lost
        <4>1. ch' \in Seq(1 .. emitted') /\ Len(ch') <= ChanCap
          BY <3>1, <3>2, <3>3 DEF TypeOK
        <4>2. db' \subseteq 1 .. emitted' /\ lost' \subseteq 1 .. emitted'
          BY <3>1, <3>3 DEF TypeOK
        <4>. QED
          BY <2>2, <3>1, <3>2, <4>1, <4>2 DEF Emit, TypeOK, store
      <3>4. CASE ch' = ch /\ lost' = lost \cup {emitted'}
        <4>1. db' \subseteq 1 .. emitted' /\ lost' \subseteq 1 .. emitted'
          BY <3>1, <3>4 DEF TypeOK
        <4>. QED
          BY <2>2, <3>1, <3>2, <3>4, <4>1 DEF Emit, TypeOK, store
      <3>. QED
        BY <2>2, <3>3, <3>4 DEF Emit
    <2>3. CASE Emit(h) /\ UNCHANGED <<ch, emitted, lost>>
      BY <2>3 DEF Emit, TypeOK, store
    <2>. QED
      BY <1>1, <2>1, <2>2, <2>3 DEF Emit
  <1>2. CASE ConnGone \/ Cancel
    BY <1>2 DEF ConnGone, Cancel, TypeOK, queue, store
  <1>3. CASE Drain
    <2>1. CASE Receive
      <3>1. Head(ch) \in 1 .. emitted /\ Tail(ch) \in Seq(1 .. emitted) /\ Len(Tail(ch)) <= ChanCap
        BY <2>1, TailRange DEF Receive, TypeOK
      <3>. QED
        BY <2>1, <3>1 DEF Receive, At, TypeOK, store
    <2>2. CASE DrainEnds
      BY <2>2 DEF DrainEnds, At, TypeOK, store
    <2>3. CASE RecordCount
      BY <2>3 DEF RecordCount, At, TypeOK, store
    <2>4. CASE Record
      <3>. DEFINE all == buf \o drain.evs
      <3>1. all \in Seq(1 .. emitted) /\ Len(all) \in Nat
        BY DEF TypeOK
      <3>. HIDE DEF all
      <3>5. UNCHANGED <<emitted, conn, busy, stop, ch, writer, db, lost, totalOps, session>>
        BY <2>4 DEF Record
      <3>2. CASE Len(all) >= BatchMax
        <4>1. buf' = <<>> /\ drain' = At("flush", all)
          BY <2>4, <3>2 DEF Record, all
        <4>. QED
          BY <3>1, <3>5, <4>1 DEF At, TypeOK
      <3>3. CASE ~(Len(all) >= BatchMax)
        <4>1. buf' = all /\ Len(all) < BatchMax /\ drain' = At("recv", <<>>)
          BY <2>4, <3>1, <3>3 DEF Record, all
        <4>. QED
          BY <3>1, <3>5, <4>1 DEF At, TypeOK
      <3>. QED
        BY <3>2, <3>3
    <2>5. ASSUME NEW c \in BOOLEAN, RecordFlush(c) PROVE TypeOK'
      <3>1. Range(drain.evs) \subseteq 1 .. emitted
        BY InRange DEF TypeOK
      <3>2. db' \subseteq 1 .. emitted /\ lost' \subseteq 1 .. emitted
        BY <2>5, <3>1 DEF RecordFlush, Flush, TypeOK
      <3>3. drain'.at \in {"count", "recv"} /\ drain'.evs \in Seq(1 .. emitted)
        BY <2>5, EmptySeq DEF RecordFlush, At, TypeOK
      <3>4. UNCHANGED <<emitted, conn, busy, stop, ch, buf, writer, totalOps, session>>
        BY <2>5 DEF RecordFlush
      <3>. QED
        BY <3>2, <3>3, <3>4 DEF TypeOK
    <2>. QED
      BY <1>3, <2>1, <2>2, <2>3, <2>4, <2>5 DEF Drain
  <1>4. CASE Writer
    <2>1. CASE Tick
      <3>1. CASE buf = <<>>
        BY <2>1, <3>1 DEF Tick, TakeBuf, TypeOK, queue
      <3>2. CASE buf # <<>>
        BY <2>1, <3>2 DEF Tick, TakeBuf, At, TypeOK, queue
      <3>. QED
        BY <3>1, <3>2
    <2>2. CASE Closing
      <3>1. CASE buf = <<>>
        BY <2>2, <3>1 DEF Closing, TakeBuf, At, TypeOK, queue
      <3>2. CASE buf # <<>>
        BY <2>2, <3>2 DEF Closing, TakeBuf, At, TypeOK, queue
      <3>. QED
        BY <3>1, <3>2
    <2>3. CASE WriterCount
      BY <2>3 DEF WriterCount, After, At, TypeOK, queue
    <2>4. CASE EndSession
      BY <2>4 DEF EndSession, At, TypeOK, queue
    <2>5. ASSUME NEW c \in BOOLEAN, WriterFlush(c) PROVE TypeOK'
      <3>1. Range(writer.evs) \subseteq 1 .. emitted
        BY InRange DEF TypeOK
      <3>2. db' \subseteq 1 .. emitted /\ lost' \subseteq 1 .. emitted
        BY <2>5, <3>1 DEF WriterFlush, Flush, TypeOK
      <3>3. writer'.at \in {"count", "countLast", "select", "end"} /\ writer'.evs \in Seq(1 .. emitted)
        BY <2>5, EmptySeq DEF WriterFlush, After, At, TypeOK
      <3>4. UNCHANGED <<emitted, conn, busy, stop, ch, buf, drain, totalOps, session>>
        BY <2>5 DEF WriterFlush, queue
      <3>. QED
        BY <3>2, <3>3, <3>4 DEF TypeOK
    <2>. QED
      BY <1>4, <2>1, <2>2, <2>3, <2>4, <2>5 DEF Writer
  <1>5. CASE Stop
    <2>1. /\ stop' \in {"run", "grace", "settle", "closeRec", "waitDrain", "waitWriter", "closed"}
          /\ conn' \in {"up", "lazy", "gone"}
      BY <1>5 DEF Stop, StopDone, ForceUnmount, GiveUp, CloseRecorder, CloseHistory, Closed, TypeOK
    <2>2. UNCHANGED <<emitted, busy, ch, buf, drain, writer, db, lost, totalOps, session>>
      BY <1>5 DEF Stop, StopDone, ForceUnmount, GiveUp, CloseRecorder, CloseHistory, Closed, queue, store
    <2>. QED
      BY <2>1, <2>2 DEF TypeOK
  <1>6. CASE UNCHANGED vars
    BY <1>6 DEF vars, queue, store, TypeOK
  <1>. QED
    BY <1>1, <1>2, <1>3, <1>4, <1>5, <1>6 DEF Next

\* What stop has closed, and what the goroutines hold when they are done.
LEMMA ShutdownInit == Init => Shutdown /\ Goroutines
  BY DEF Init, Shutdown, Goroutines, Leaving, At

LEMMA ShutdownStep ==
    TypeOK /\ Shutdown /\ Goroutines /\ [Next]_vars => Shutdown' /\ Goroutines'
  <1>. SUFFICES ASSUME TypeOK, Shutdown, Goroutines, [Next]_vars
                PROVE  Shutdown' /\ Goroutines'
    OBVIOUS
  <1>. USE DEF Leaving, Done
  <1>1. ASSUME NEW h \in Handlers, Begin(h) \/ Emit(h) PROVE Shutdown' /\ Goroutines'
    BY SMTT(30), <1>1 DEF Begin, Emit, Shutdown, Goroutines, queue, store, TypeOK
  <1>2. CASE ConnGone \/ Cancel
    BY <1>2 DEF ConnGone, Cancel, Shutdown, Goroutines, queue, store
  <1>3. CASE Drain
    <2>1. CASE Receive
      BY <2>1 DEF Receive, At, Shutdown, Goroutines, store
    <2>2. CASE DrainEnds \/ RecordCount
      BY <2>2 DEF DrainEnds, RecordCount, At, Shutdown, Goroutines, store
    <2>3. CASE Record
      BY <2>3 DEF Record, At, Shutdown, Goroutines
    <2>4. ASSUME NEW c \in BOOLEAN, RecordFlush(c) PROVE Shutdown' /\ Goroutines'
      BY <2>4 DEF RecordFlush, At, Shutdown, Goroutines
    <2>. QED
      BY <1>3, <2>1, <2>2, <2>3, <2>4 DEF Drain
  <1>4. CASE Writer
    <2>1. CASE Tick \/ Closing
      BY <2>1 DEF Tick, Closing, TakeBuf, At, Shutdown, Goroutines, queue
    <2>2. CASE WriterCount \/ EndSession
      BY <2>2 DEF WriterCount, EndSession, After, At, Shutdown, Goroutines, queue
    <2>3. ASSUME NEW c \in BOOLEAN, WriterFlush(c) PROVE Shutdown' /\ Goroutines'
      BY <2>3 DEF WriterFlush, After, At, Shutdown, Goroutines, queue
    <2>. QED
      BY <1>4, <2>1, <2>2, <2>3 DEF Writer
  <1>5. CASE Stop
    BY <1>5 DEF Stop, StopDone, ForceUnmount, GiveUp, CloseRecorder, CloseHistory, Closed, Shutdown, Goroutines, queue, store, TypeOK
  <1>6. CASE UNCHANGED vars
    BY <1>6 DEF vars, queue, store, Shutdown, Goroutines
  <1>. QED
    BY <1>1, <1>2, <1>3, <1>4, <1>5, <1>6 DEF Next

-----------------------------------------------------------------------------
(* What a step does to the places an event can be in. *)

Queued   == Range(ch)
Drained  == InHand(drain)
Buffered == Range(buf)
InBatch  == InHand(writer)

\* A new event is queued, or dropped.
Accepts ==
    /\ ~chClosed /\ emitted' = emitted + 1 /\ Queued' = Queued \cup {emitted + 1}
    /\ UNCHANGED <<Drained, Buffered, InBatch, db, lost, stop>>
Drops ==
    /\ ~chClosed /\ emitted' = emitted + 1 /\ lost' = lost \cup {emitted + 1}
    /\ UNCHANGED <<Queued, Drained, Buffered, InBatch, db, stop>>

\* Events go from one hand to the next.
Passes ==
    /\ \/ /\ \E e : Queued = {e} \cup Queued' /\ e \notin Queued' /\ Drained' = {e}
          /\ Drained = {} /\ UNCHANGED <<Buffered, InBatch>>
       \/ /\ Buffered' = Buffered \cup Drained /\ Drained' = {}
          /\ UNCHANGED <<Queued, InBatch>>
       \/ /\ Drained' = Buffered \cup Drained /\ Buffered' = {}
          /\ UNCHANGED <<Queued, InBatch>>
       \/ /\ InBatch = {} /\ InBatch' = Buffered /\ Buffered' = {}
          /\ UNCHANGED <<Queued, Drained>>
    /\ UNCHANGED <<db, lost, emitted, stop>>

\* A batch is written, or rolled back.
Ends(es) ==
    /\ \/ db' = db \cup es /\ UNCHANGED lost
       \/ lost' = lost \cup es /\ UNCHANGED db
    /\ UNCHANGED <<Queued, Buffered, emitted, stop>>
Flushes ==
    \/ Ends(Drained) /\ Drained' = {} /\ UNCHANGED InBatch
    \/ Ends(InBatch) /\ InBatch' = {} /\ UNCHANGED Drained

\* Nothing happens to any event.
Rests == UNCHANGED <<Queued, Drained, Buffered, InBatch, db, lost, emitted>>

\* Every step does one of these.
LEMMA Moves ==
    TypeOK /\ Goroutines /\ NoTwice /\ [Next]_vars
        => Accepts \/ Drops \/ Passes \/ Flushes \/ Rests
  <1>. SUFFICES ASSUME TypeOK, Goroutines, NoTwice, [Next]_vars
                PROVE  Accepts \/ Drops \/ Passes \/ Flushes \/ Rests
    OBVIOUS
  <1>. USE DEF Queued, Drained, Buffered, InBatch
  <1>1. ASSUME NEW h \in Handlers, Begin(h) PROVE Rests
    BY <1>1 DEF Begin, Rests, queue, store
  <1>2. ASSUME NEW h \in Handlers, Emit(h) PROVE Accepts \/ Drops \/ Rests
    <2>1. CASE ch' = Append(ch, emitted') /\ emitted' = emitted + 1 /\ ~chClosed /\ lost' = lost
      <3>1. Range(ch') = Range(ch) \cup {emitted + 1}
        BY <2>1, AppendRange DEF TypeOK
      <3>. QED
        BY <1>2, <2>1, <3>1 DEF Emit, Accepts, store
    <2>2. CASE lost' = lost \cup {emitted'} /\ emitted' = emitted + 1 /\ ~chClosed /\ ch' = ch
      BY <1>2, <2>2 DEF Emit, Drops, store
    <2>3. CASE UNCHANGED <<ch, emitted, lost>>
      BY <1>2, <2>3 DEF Emit, Rests, store
    <2>. QED
      BY <1>2, <2>1, <2>2, <2>3 DEF Emit
  <1>3. CASE ConnGone \/ Cancel \/ Stop
    BY <1>3 DEF ConnGone, Cancel, Stop, StopDone, ForceUnmount, GiveUp, CloseRecorder, CloseHistory,
                Closed, Rests, queue, store
  <1>4. CASE Receive
    <2>1. /\ Range(ch) = {Head(ch)} \cup Range(ch') /\ Head(ch) \notin Range(ch')
      BY <1>4, TailRange DEF Receive, TypeOK, NoTwice
    <2>2. InHand(drain) = {} /\ InHand(drain') = {Head(ch)}
      BY <1>4, SingleRange DEF Receive, InHand, At
    <2>. QED
      BY <1>4, <2>1, <2>2 DEF Receive, Passes, store
  <1>5. CASE DrainEnds \/ RecordCount
    <2>1. InHand(drain) = {} /\ InHand(drain') = {}
      BY <1>5 DEF DrainEnds, RecordCount, InHand, At
    <2>. QED
      BY <1>5, <2>1 DEF DrainEnds, RecordCount, Rests, store
  <1>6. CASE Record
    <2>1. Range(buf \o drain.evs) = Range(buf) \cup InHand(drain)
      BY <1>6, ConcatRange DEF Record, TypeOK, InHand
    <2>2. \/ Range(buf') = Range(buf \o drain.evs) /\ InHand(drain') = {}
          \/ Range(buf') = {} /\ InHand(drain') = Range(buf \o drain.evs)
      <3>1. CASE buf' = buf \o drain.evs /\ drain' = At("recv", <<>>)
        BY <3>1 DEF InHand, At
      <3>2. CASE buf' = <<>> /\ drain' = At("flush", buf \o drain.evs)
        BY <3>2, EmptyRange DEF InHand, At
      <3>. QED
        BY <1>6, <3>1, <3>2 DEF Record
    <2>. QED
      BY <1>6, <2>1, <2>2 DEF Record, Passes
  <1>7. ASSUME NEW c \in BOOLEAN, RecordFlush(c) PROVE Flushes
    <2>1. InHand(drain) = Range(drain.evs) /\ InHand(drain') = {}
      BY <1>7 DEF RecordFlush, InHand, At
    <2>2. \/ db' = db \cup Range(drain.evs) /\ UNCHANGED lost
          \/ lost' = lost \cup Range(drain.evs) /\ UNCHANGED db
      BY <1>7, Zenon DEF RecordFlush, Flush
    <2>3. UNCHANGED <<ch, buf, writer, emitted, stop>>
      BY <1>7 DEF RecordFlush
    <2>. QED
      BY <1>7, <2>1, <2>2, <2>3 DEF Flushes, Ends
  <1>8. CASE Tick \/ Closing
    <2>1. InHand(writer) = {} /\ InHand(writer') = Range(buf) /\ Range(buf') = {}
      BY <1>8, EmptyRange DEF Tick, Closing, TakeBuf, InHand, At
    <2>. QED
      BY <1>8, <2>1 DEF Tick, Closing, Passes, queue
  <1>9. CASE WriterCount \/ EndSession
    <2>1. InHand(writer) = {} /\ InHand(writer') = {}
      BY <1>9 DEF WriterCount, EndSession, After, InHand, At
    <2>. QED
      BY <1>9, <2>1 DEF WriterCount, EndSession, Rests, queue
  <1>10. ASSUME NEW c \in BOOLEAN, WriterFlush(c) PROVE Flushes
    <2>1. InHand(writer) = Range(writer.evs) /\ InHand(writer') = {}
      BY <1>10 DEF WriterFlush, After, InHand, At
    <2>2. \/ db' = db \cup Range(writer.evs) /\ UNCHANGED lost
          \/ lost' = lost \cup Range(writer.evs) /\ UNCHANGED db
      BY <1>10, Zenon DEF WriterFlush, Flush
    <2>3. UNCHANGED <<ch, buf, drain, emitted, stop>>
      BY <1>10 DEF WriterFlush, queue
    <2>. QED
      BY <1>10, <2>1, <2>2, <2>3 DEF Flushes, Ends
  <1>11. CASE UNCHANGED vars
    BY <1>11 DEF vars, Rests, queue, store
  <1>. QED
    BY <1>1, <1>2, <1>3, <1>4, <1>5, <1>6, <1>7, <1>8, <1>9, <1>10, <1>11 DEF Next, Drain, Writer

\* Every event that is anywhere has been emitted.
LEMMA Known == TypeOK => Queued \cup Drained \cup Buffered \cup InBatch \cup db \cup lost \subseteq 1 .. emitted
  <1>1. \A s \in Seq(1 .. emitted) : Range(s) \subseteq 1 .. emitted
    BY RangeOf
  <1>. QED
    BY <1>1 DEF TypeOK, Queued, Drained, Buffered, InBatch, InHand

LEMMA ApartInit == Init => Apart
  BY EmptyRange DEF Init, Apart, InHand, At

\* Moving an event does not copy it.
LEMMA ApartStep ==
    TypeOK /\ Goroutines /\ NoTwice /\ Apart /\ [Next]_vars => Apart'
  <1>. SUFFICES ASSUME TypeOK, Goroutines, NoTwice, Apart, [Next]_vars PROVE Apart'
    OBVIOUS
  <1>. DEFINE Disjoint(q, d, b, w, r, l) ==
         /\ q \cap (d \cup b \cup w \cup r \cup l) = {}
         /\ d \cap (b \cup w \cup r \cup l) = {}
         /\ b \cap (w \cup r \cup l) = {}
         /\ w \cap (r \cup l) = {}
         /\ r \cap l = {}
  <1>1. Apart <=> Disjoint(Queued, Drained, Buffered, InBatch, db, lost)
    BY DEF Apart, Queued, Drained, Buffered, InBatch
  <1>2. Apart' <=> Disjoint(Queued', Drained', Buffered', InBatch', db', lost')
    BY DEF Apart, Queued, Drained, Buffered, InBatch
  <1>3. emitted + 1 \notin Queued \cup Drained \cup Buffered \cup InBatch \cup db \cup lost
    BY Known DEF TypeOK
  <1>4. CASE Accepts
    BY <1>1, <1>2, <1>3, <1>4 DEF Accepts
  <1>5. CASE Drops
    BY <1>1, <1>2, <1>3, <1>5 DEF Drops
  <1>6. CASE Passes
    BY <1>1, <1>2, <1>6 DEF Passes
  <1>7. CASE Flushes
    BY <1>1, <1>2, <1>7 DEF Flushes, Ends
  <1>8. CASE Rests
    BY <1>1, <1>2, <1>8 DEF Rests
  <1>. QED
    BY <1>4, <1>5, <1>6, <1>7, <1>8, Moves

-----------------------------------------------------------------------------
(* Batches hold no event twice, and every row is counted. *)

LEMMA NoTwiceInit == Init => NoTwice
  BY EmptyRange DEF Init, NoTwice, At

LEMMA NoTwiceStep ==
    TypeOK /\ Goroutines /\ NoTwice /\ Apart /\ [Next]_vars => NoTwice'
  <1>. SUFFICES ASSUME TypeOK, Goroutines, NoTwice, Apart, [Next]_vars PROVE NoTwice'
    OBVIOUS
  <1>1. ASSUME NEW h \in Handlers, Begin(h) \/ Emit(h) PROVE NoTwice'
    <2>1. CASE ch' = Append(ch, emitted') /\ emitted' = emitted + 1 /\ UNCHANGED <<drain, buf, writer>>
      <3>1. emitted + 1 \notin Range(ch)
        BY Known DEF Queued, TypeOK
      <3>. QED
        BY <2>1, <3>1, AppendRange DEF NoTwice, TypeOK
    <2>2. CASE UNCHANGED <<ch, drain, buf, writer>>
      BY <2>2 DEF NoTwice
    <2>. QED
      BY <1>1, <2>1, <2>2 DEF Begin, Emit, queue, store
  <1>2. CASE ConnGone \/ Cancel \/ Stop
    <2>1. UNCHANGED <<ch, drain, buf, writer>>
      BY <1>2 DEF ConnGone, Cancel, Stop, StopDone, ForceUnmount, GiveUp, CloseRecorder, CloseHistory,
                  Closed, queue, store
    <2>. QED
      BY <2>1 DEF NoTwice
  <1>3. CASE Receive
    <2>1. IsInjective(ch')
      BY <1>3, TailRange DEF Receive, NoTwice, TypeOK
    <2>2. IsInjective(drain'.evs)
      BY <1>3, SingleRange DEF Receive, At
    <2>. QED
      BY <1>3, <2>1, <2>2 DEF Receive, NoTwice, store
  <1>4. CASE Record
    <2>1. IsInjective(buf \o drain.evs)
      BY <1>4, ConcatRange DEF Record, NoTwice, Apart, InHand, TypeOK
    <2>2. CASE buf' = buf \o drain.evs /\ drain' = At("recv", <<>>)
      BY <1>4, <2>1, <2>2, EmptyRange DEF Record, NoTwice, At
    <2>3. CASE buf' = <<>> /\ drain' = At("flush", buf \o drain.evs)
      BY <1>4, <2>1, <2>3, EmptyRange DEF Record, NoTwice, At
    <2>. QED
      BY <1>4, <2>2, <2>3 DEF Record
  <1>5. CASE DrainEnds \/ RecordCount \/ \E c \in BOOLEAN : RecordFlush(c)
    <2>1. UNCHANGED <<ch, buf, writer>>
      BY <1>5 DEF DrainEnds, RecordCount, RecordFlush, store
    <2>2. drain'.evs = drain.evs \/ drain'.evs = <<>>
      BY <1>5 DEF DrainEnds, RecordCount, RecordFlush, At
    <2>. QED
      BY <2>1, <2>2, EmptyRange DEF NoTwice
  <1>6. CASE Writer
    <2>1. UNCHANGED <<ch, drain>>
      BY <1>6 DEF Writer, Tick, Closing, WriterCount, EndSession, WriterFlush, queue
    <2>2. buf' = buf \/ buf' = <<>>
      BY <1>6 DEF Writer, Tick, Closing, WriterCount, EndSession, WriterFlush, TakeBuf
    <2>3. writer'.evs \in {writer.evs, buf, <<>>}
      BY <1>6 DEF Writer, Tick, Closing, WriterCount, EndSession, WriterFlush, At
    <2>. QED
      BY <2>1, <2>2, <2>3, EmptyRange DEF NoTwice
  <1>7. CASE UNCHANGED vars
    BY <1>7 DEF vars, NoTwice, queue, store
  <1>. QED
    BY <1>1, <1>2, <1>3, <1>4, <1>5, <1>6, <1>7 DEF Next, Drain

LEMMA CountedInit == Init => Counted
  BY FS_EmptySet DEF Init, Counted, Uncounted, At

\* The rows are finitely many, and a batch adds as many as it has events.
LEMMA Rows == TypeOK => IsFiniteSet(db)
  <1>. SUFFICES ASSUME TypeOK PROVE IsFiniteSet(db)
    OBVIOUS
  <1>1. IsFiniteSet(1 .. emitted)
    BY FS_Interval DEF TypeOK
  <1>. QED
    BY <1>1, FS_Subset DEF TypeOK

LEMMA Commit ==
    ASSUME TypeOK, NEW es \in Seq(1 .. emitted), IsInjective(es), Range(es) \cap db = {}
    PROVE  Cardinality(db \cup Range(es)) = Cardinality(db) + Len(es)
  <1>1. IsFiniteSet(Range(es)) /\ Cardinality(Range(es)) = Len(es)
    BY BatchSize
  <1>2. IsFiniteSet(db) /\ Cardinality(db) \in Nat
    BY Rows, FS_CardinalityType
  <1>3. Cardinality(db \cap Range(es)) = 0
    BY FS_EmptySet
  <1>4. Len(es) \in Nat
    OBVIOUS
  <1>5. Cardinality(db \cup Range(es))
          = Cardinality(db) + Cardinality(Range(es)) - Cardinality(db \cap Range(es))
    BY <1>1, <1>2, FS_Union
  <1>. QED
    BY <1>1, <1>2, <1>3, <1>4, <1>5

LEMMA CountedStep ==
    TypeOK /\ Shutdown /\ Goroutines /\ NoTwice /\ Apart /\ Counted /\ [Next]_vars => Counted'
  <1>. SUFFICES ASSUME TypeOK, Shutdown, Goroutines, NoTwice, Apart, Counted, [Next]_vars PROVE Counted'
    OBVIOUS
  <1>0. /\ totalOps \in Nat /\ Len(drain.evs) \in Nat /\ Len(writer.evs) \in Nat
        /\ Cardinality(db) \in Nat
        /\ Uncounted(drain) \in Nat /\ Uncounted(writer) \in Nat
    BY Rows, FS_CardinalityType DEF TypeOK, Uncounted
  <1>1. ASSUME NEW h \in Handlers, Begin(h) \/ Emit(h) PROVE Counted'
    <2>1. UNCHANGED <<drain, writer, db, totalOps, session>>
      BY <1>1 DEF Begin, Emit, queue, store
    <2>. QED
      BY <2>1 DEF Counted, Uncounted
  <1>2. CASE ConnGone \/ Cancel \/ Stop
    <2>1. UNCHANGED <<drain, writer, db, totalOps, session>>
      BY <1>2 DEF ConnGone, Cancel, Stop, StopDone, ForceUnmount, GiveUp, CloseRecorder, CloseHistory,
                  Closed, queue, store
    <2>. QED
      BY <2>1 DEF Counted, Uncounted
  <1>3. CASE Receive \/ DrainEnds \/ Record
    <2>1. UNCHANGED <<writer, db, totalOps, session>>
      BY <1>3 DEF Receive, DrainEnds, Record, store
    <2>2. Uncounted(drain) = 0 /\ Uncounted(drain') = 0
      BY <1>3 DEF Receive, DrainEnds, Record, At, Uncounted
    <2>. QED
      BY <2>1, <2>2 DEF Counted, Uncounted
  <1>4. ASSUME NEW c \in BOOLEAN, RecordFlush(c) PROVE Counted'
    <2>1. /\ UNCHANGED <<writer, totalOps, session>>
          /\ drain.at = "flush" /\ Uncounted(drain) = 0
      BY <1>4 DEF RecordFlush, Uncounted
    <2>2. CASE c
      <3>1. db' = db \cup Range(drain.evs) /\ Uncounted(drain') = Len(drain.evs)
        BY <1>4, <2>2 DEF RecordFlush, Flush, Uncounted, At
      <3>2. Cardinality(db') = Cardinality(db) + Len(drain.evs)
        BY <2>1, <3>1, Commit DEF NoTwice, Apart, InHand, TypeOK
      <3>. QED
        BY <1>0, <2>1, <3>1, <3>2 DEF Counted
    <2>3. CASE ~c
      <3>1. db' = db /\ Uncounted(drain') = 0
        BY <1>4, <2>3 DEF RecordFlush, Flush, Uncounted, At
      <3>. QED
        BY <1>0, <2>1, <3>1 DEF Counted, Uncounted
    <2>. QED
      BY <2>2, <2>3
  <1>5. CASE RecordCount
    <2>1. /\ UNCHANGED <<writer, db, session>> /\ totalOps' = totalOps + Len(drain.evs)
          /\ Uncounted(drain) = Len(drain.evs) /\ Uncounted(drain') = 0
      BY <1>5 DEF RecordCount, Uncounted, At
    <2>2. session = -1
      BY <1>5 DEF RecordCount, Counted, Shutdown, Goroutines
    <2>. QED
      BY <1>0, <2>1, <2>2 DEF Counted
  <1>6. CASE Tick \/ Closing
    <2>1. UNCHANGED <<drain, db, totalOps, session>>
      BY <1>6 DEF Tick, Closing, queue
    <2>2. /\ Uncounted(writer) = 0 /\ Uncounted(writer') = 0
          /\ writer.at # "done"
      BY <1>6 DEF Tick, Closing, At, Uncounted
    <2>. QED
      BY <2>1, <2>2 DEF Counted, Uncounted
  <1>7. ASSUME NEW c \in BOOLEAN, WriterFlush(c) PROVE Counted'
    <2>1. /\ UNCHANGED <<drain, totalOps, session>> /\ session = -1
          /\ writer.at \in {"flush", "flushLast"} /\ Uncounted(writer) = 0
      BY <1>7 DEF WriterFlush, Uncounted, Counted, queue
    <2>2. CASE c
      <3>1. db' = db \cup Range(writer.evs) /\ Uncounted(writer') = Len(writer.evs)
        BY <1>7, <2>2 DEF WriterFlush, Flush, Uncounted, At
      <3>2. Cardinality(db') = Cardinality(db) + Len(writer.evs)
        BY <2>1, <3>1, Commit DEF NoTwice, Apart, InHand, TypeOK
      <3>. QED
        BY <1>0, <2>1, <3>1, <3>2 DEF Counted
    <2>3. CASE ~c
      <3>1. db' = db /\ Uncounted(writer') = 0
        BY <1>7, <2>3 DEF WriterFlush, Flush, After, Uncounted, At
      <3>. QED
        BY <1>0, <2>1, <3>1 DEF Counted, Uncounted
    <2>. QED
      BY <2>2, <2>3
  <1>8. CASE WriterCount
    <2>1. /\ UNCHANGED <<drain, db, session>> /\ totalOps' = totalOps + Len(writer.evs)
          /\ Uncounted(writer) = Len(writer.evs) /\ Uncounted(writer') = 0
      BY <1>8 DEF WriterCount, After, Uncounted, At, queue
    <2>2. session = -1
      BY <1>8 DEF WriterCount, Counted
    <2>. QED
      BY <1>0, <2>1, <2>2 DEF Counted
  <1>9. CASE EndSession
    <2>1. /\ UNCHANGED <<drain, db, totalOps>> /\ session' = totalOps /\ writer'.at = "done"
          /\ Uncounted(writer) = 0 /\ Uncounted(writer') = 0
      BY <1>9 DEF EndSession, Uncounted, At, queue
    <2>. QED
      BY <1>0, <2>1 DEF Counted, Uncounted
  <1>10. CASE UNCHANGED vars
    BY <1>10 DEF vars, Counted, Uncounted, queue, store
  <1>. QED
    BY <1>1, <1>2, <1>3, <1>4, <1>5, <1>6, <1>7, <1>8, <1>9, <1>10 DEF Next, Drain, Writer

-----------------------------------------------------------------------------
(* The theorems. *)

\* IInv holds in every reachable state of Spec.
LEMMA Invariance == Spec => []IInv
  <1>1. Init => IInv
    BY TypeInit, ShutdownInit, ApartInit, NoTwiceInit, CountedInit DEF IInv
  <1>2. IInv /\ [Next]_vars => IInv'
    BY TypeStep, ShutdownStep, ApartStep, NoTwiceStep, CountedStep DEF IInv
  <1>. QED
    BY <1>1, <1>2, PTL DEF Spec

\* Queue and buffer stay within their limits and hold emitted events only.
THEOREM RecorderTypes == Spec => []TypeOK
  <1>1. IInv => TypeOK
    BY DEF IInv
  <1>. QED
    BY <1>1, Invariance, PTL

\* A handler that emits into a closed recorder brings the process down only
\* when stop went on without the serve loop (Emit, mountRuntime.stop).
THEOREM NoPanic == Spec => []PanicOnlyAfterGiveUp
  <1>1. IInv => PanicOnlyAfterGiveUp
    BY DEF IInv, Shutdown, PanicOnlyAfterGiveUp
  <1>. QED
    BY <1>1, Invariance, PTL

\* The session's row counts exactly the rows of the database (flush,
\* endSession), whatever was rolled back or dropped before.
THEOREM SessionRow == Spec => []SessionCounts
  <1>1. ASSUME IInv PROVE SessionCounts
    <2>1. totalOps \in Nat
      BY <1>1 DEF IInv, TypeOK
    <2>2. CASE session # -1
      <3>1. Uncounted(drain) = 0 /\ Uncounted(writer) = 0
        BY <1>1, <2>2 DEF IInv, Counted, Shutdown, Goroutines, Uncounted
      <3>. QED
        BY <1>1, <2>1, <2>2, <3>1 DEF IInv, Counted, SessionCounts
    <2>3. CASE session = -1
      BY <2>3 DEF SessionCounts
    <2>. QED
      BY <2>2, <2>3
  <1>. QED
    BY <1>1, Invariance, PTL

\* The recorder and the store implement LossyLog: whatever the order of
\* handlers, queue, buffer, two flushing goroutines and stop, no event is
\* written twice or both written and lost, and none is left behind when the
\* history is closed.
THEOREM Refinement == Spec => ImplementsLog
  <1>. USE DEF Pending, Queued, Drained, Buffered, InBatch
  <1>1. Init => Log!LogInit
    BY EmptyRange DEF Init, Log!LogInit, InHand, At
  <1>2. IInv /\ [Next]_vars => [Log!LogEmit \/ Log!LogMove \/ Log!LogClose]_(Log!logVars)
    <2>. SUFFICES ASSUME IInv, [Next]_vars
                  PROVE  Log!LogEmit \/ Log!LogMove \/ Log!LogClose \/ UNCHANGED Log!logVars
      OBVIOUS
    <2>1. Accepts \/ Drops \/ Passes \/ Flushes \/ Rests
      BY Moves DEF IInv
    <2>2. ~chClosed => stop # "closed"
      BY DEF IInv, Shutdown, Leaving
    <2>3. CASE Accepts
      BY <2>2, <2>3 DEF Accepts, Log!LogEmit
    <2>4. CASE Drops
      BY <2>2, <2>4 DEF Drops, Log!LogEmit
    <2>5. CASE Passes
      BY <2>5 DEF Passes, Log!logVars
    <2>6. CASE Flushes
      BY <2>6 DEF Flushes, Ends, Log!LogMove, IInv, Apart
    <2>7. CASE Rests /\ (stop' = "closed" <=> stop = "closed")
      BY <2>7 DEF Rests, Log!logVars
    <2>8. CASE Rests /\ ~(stop' = "closed" <=> stop = "closed")
      <3>1. Closed
        BY <2>8 DEF IInv, Shutdown, Leaving, Next, Begin, Emit, ConnGone, Cancel, Drain, Receive, DrainEnds,
                    Record, RecordCount, RecordFlush, Writer, Tick, Closing, WriterCount, EndSession,
                    WriterFlush, Stop, StopDone, ForceUnmount, GiveUp, CloseRecorder, CloseHistory, vars
      <3>2. Pending = {}
        BY <3>1, EmptyRange DEF Closed, IInv, Shutdown, Goroutines, Leaving, InHand
      <3>. QED
        BY <2>8, <3>1, <3>2 DEF Rests, Closed, Log!LogClose
    <2>. QED
      BY <2>1, <2>3, <2>4, <2>5, <2>6, <2>7, <2>8
  <1>. QED
    BY <1>1, <1>2, Invariance, PTL DEF Spec, ImplementsLog, Log!LogSpec

\* What the log promises then holds of the code's queue, batches and database:
\* every event emitted is on its way, a row, or counted as lost, and only one
\* of these (Emit's drop, flush's rollback, the batches of the two flushers).
THEOREM NothingForgotten == Spec => []Log!Accounted
  <1>. USE DEF Log!Accounted
  <1>1. Log!LogInit => Log!Accounted
    BY DEF Log!LogInit
  <1>2. Log!Accounted /\ [Log!LogEmit \/ Log!LogMove \/ Log!LogClose]_(Log!logVars) => Log!Accounted'
    <2>. SUFFICES ASSUME Log!Accounted,
                         Log!LogEmit \/ Log!LogMove \/ Log!LogClose \/ UNCHANGED Log!logVars
                  PROVE  Log!Accounted'
      OBVIOUS
    <2>. DEFINE Whole(e, p, w, l) ==
           /\ e \in Nat /\ p \cup w \cup l = 1 .. e
           /\ p \cap w = {} /\ p \cap l = {} /\ w \cap l = {}
    <2>1. Whole(emitted, Pending, db, lost)
      OBVIOUS
    <2>2. SUFFICES Whole(emitted', Pending', db', lost')
      OBVIOUS
    <2>3. CASE Log!LogEmit
      <3>1. /\ 1 .. emitted + 1 = (1 .. emitted) \cup {emitted + 1}
            /\ emitted + 1 \notin 1 .. emitted /\ emitted + 1 \in Nat
        BY <2>1
      <3>. HIDE DEF Log!Accounted
      <3>2. CASE Pending' = Pending \cup {emitted + 1} /\ lost' = lost
        BY <2>1, <2>3, <3>1, <3>2 DEF Log!LogEmit
      <3>3. CASE lost' = lost \cup {emitted + 1} /\ Pending' = Pending
        BY <2>1, <2>3, <3>1, <3>3 DEF Log!LogEmit
      <3>. QED
        BY <2>3, <3>2, <3>3 DEF Log!LogEmit
    <2>4. CASE Log!LogMove
      <3>1. PICK es \in SUBSET Pending :
              /\ Pending' = Pending \ es
              /\ \/ db' = db \cup es /\ UNCHANGED lost
                 \/ lost' = lost \cup es /\ UNCHANGED db
              /\ UNCHANGED emitted
        BY <2>4 DEF Log!LogMove
      <3>. QED
        BY <2>1, <3>1
    <2>5. CASE Log!LogClose \/ UNCHANGED Log!logVars
      BY <2>1, <2>5 DEF Log!LogClose, Log!logVars
    <2>. QED
      BY <2>3, <2>4, <2>5
  <1>. QED
    BY <1>1, <1>2, Refinement, PTL DEF ImplementsLog, Log!LogSpec
=============================================================================
