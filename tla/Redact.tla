------------------------------- MODULE Redact -------------------------------
(***************************************************************************)
(* Redaction (internal/redact) and the uncached read built on it           *)
(* (RamCache.readOversize): a masked file too large for the cache is       *)
(* streamed from its first byte to the end of the range that was asked     *)
(* for, chunk by chunk, and the range is cut out of the result.            *)
(*                                                                         *)
(* Bytes are "k" (what announces a secret), "v" (what a secret is made of) *)
(* and "n", the newline.  A pattern is one of the shapes the library has:  *)
(*   key   - "kvv", masked as a whole; a builtin with a bounded match      *)
(*   env   - a line "k" "v"..., the "v"s masked; a builtin                 *)
(*   line  - the same as a custom (?m) regexp                              *)
(*   next  - "k", a newline and "v", which is masked; a builtin that lets  *)
(*           white space stand before the value                            *)
(*   block - from one "k" to the next one; private-key, or a custom regexp *)
(*   whole - the whole-file sentinel                                       *)
(***************************************************************************)
EXTENDS Integers, Sequences, SequencesExt, FiniteSets

CONSTANTS
    PatternSets,  \* the sets of patterns a file may be masked with
    MaxLen,       \* bound: bytes in the file
    Requests,     \* the reads: [off, len]
    ChunkSize, CarryLen, MaxBuffer

\* The shapes, in some order; the spans of a set are sorted anyway.
Shapes == <<"block", "env", "key", "line", "next", "whole">>

ASSUME RedactAssumption ==
    /\ MaxLen \in Nat /\ ChunkSize \in Nat \ {0} /\ CarryLen \in Nat /\ MaxBuffer \in Nat
    /\ PatternSets \subseteq SUBSET ToSet(Shapes)
    /\ \A r \in Requests : r.off \in Nat /\ r.len \in Nat

Bytes == {"k", "v", "n"}
Masked == "*"

VARIABLES
    file, pats, req,
    mode,    \* how classify has the set streamed, "start" before
    pos,     \* bytes read from the file
    buf,     \* the backlog
    out,     \* what was written
    state,   \* "reading", "done" or "failed"
    cuts     \* history: where a flush ended

vars == <<file, pats, req, mode, pos, buf, out, state, cuts>>

-----------------------------------------------------------------------------
(* FindSpans, mergeSpans, Redact *)

\* The length of p's match at i, 0 without one.
MatchAt(p, s, i) ==
    LET Vs == {r \in 1 .. Len(s) - i : \A j \in i + 1 .. i + r : s[j] = "v"}
        lineStart == i = 1 \/ s[i - 1] = "n"
        LineEnd(r) == i + r = Len(s) \/ s[i + r + 1] = "n"
        Ends == {j \in i + 1 .. Len(s) : s[j] = "k"}
    IN IF s[i] # "k" THEN 0
       ELSE IF p = "key" THEN (IF 2 \in Vs THEN 3 ELSE 0)
       ELSE IF p = "next" THEN (IF i + 2 <= Len(s) /\ s[i + 1] = "n" /\ s[i + 2] = "v" THEN 3 ELSE 0)
       ELSE IF p = "block" THEN (IF Ends = {} THEN 0 ELSE (CHOOSE j \in Ends : \A k \in Ends : j <= k) - i + 1)
       ELSE IF lineStart /\ \E r \in Vs : LineEnd(r) THEN 1 + (CHOOSE r \in Vs : LineEnd(r)) ELSE 0

\* The bytes of the match the capture group leaves out.
GroupSkip(p) == IF p = "next" THEN 2 ELSE IF p \in {"env", "line"} THEN 1 ELSE 0

\* The scan at byte i, after the bytes before it.
Scan(p, s, before, i) ==
    LET m == MatchAt(p, s, i)
    IN IF i < before.free \/ m = 0 THEN before
       ELSE [found |-> Append(before.found, [off |-> i, len |-> m]), free |-> i + m]

\* Regex.FindAllIndex: the matches from left to right, none overlapping; free
\* is where the next one may begin.
FindAll(p, s) ==
    LET scan[i \in 0 .. Len(s)] ==
          IF i = 0 THEN [found |-> <<>>, free |-> 1] ELSE Scan(p, s, scan[i - 1], i)
    IN scan[Len(s)].found

\* The prefilter of a builtin: no match without what it looks for.
PreFilter(p, s) == p \in {"key", "env", "next"} => Contains(s, "k")

PatternSpans(p, s) ==
    LET m == IF PreFilter(p, s) THEN FindAll(p, s) ELSE <<>>
    IN [i \in 1 .. Len(m) |-> [off |-> m[i].off + GroupSkip(p), len |-> m[i].len - GroupSkip(p)]]

End(a) == a.off + a.len

Coalesce(acc, next) ==
    IF acc # <<>> /\ next.off <= End(Last(acc))
    THEN IF End(next) > End(Last(acc))
         THEN Append(Front(acc), [off |-> Last(acc).off, len |-> End(next) - Last(acc).off])
         ELSE acc
    ELSE Append(acc, next)

\* slices.SortFunc, by offset.
Insert(t, a) ==
    LET k == CHOOSE k \in 0 .. Len(t) : \A i \in 1 .. Len(t) : i <= k <=> t[i].off <= a.off
    IN SubSeq(t, 1, k) \o <<a>> \o SubSeq(t, k + 1, Len(t))
Sorted(spans) ==
    LET sorted[k \in 0 .. Len(spans)] == IF k = 0 THEN <<>> ELSE Insert(sorted[k - 1], spans[k])
    IN sorted[Len(spans)]

Coalesced(spans) ==
    LET merged[k \in 0 .. Len(spans)] == IF k = 0 THEN <<>> ELSE Coalesce(merged[k - 1], spans[k])
    IN merged[Len(spans)]

MergeSpans(spans) == Coalesced(Sorted(spans))

FindSpans(s, ps) ==
    IF "whole" \in ps THEN << [off |-> 1, len |-> Len(s)] >>
    ELSE MergeSpans(FlattenSeq([i \in 1 .. Len(Shapes) |->
            IF Shapes[i] \in ps THEN PatternSpans(Shapes[i], s) ELSE <<>>]))

RedactBytes(s, ps) ==
    [i \in 1 .. Len(s) |-> IF \E a \in ToSet(FindSpans(s, ps)) : a.off <= i /\ i < End(a) THEN Masked ELSE s[i]]

-----------------------------------------------------------------------------
(* Stream *)

\* Faulty variant: a custom regexp that is not line-anchored is streamed by lines.
ClassifyCustomByLine(ps) ==
    IF "whole" \in ps THEN "wholeFile" ELSE IF ps \cap {"line", "block"} # {} THEN "line" ELSE "chunked"

Classify(ps) ==
    IF ps \cap {"whole", "block"} # {} THEN "wholeFile" ELSE IF "line" \in ps THEN "line" ELSE "chunked"

\* What the limited reader has: the file up to the end of the range.
Need == req.off + req.len
Src  == SubSeq(file, 1, IF Need < Len(file) THEN Need ELSE Len(file))

Init ==
    /\ file \in UNION {[1 .. n -> Bytes] : n \in 0 .. MaxLen}
    /\ pats \in PatternSets /\ req \in Requests
    /\ mode = "start" /\ pos = 0 /\ buf = <<>> /\ out = <<>> /\ state = "reading" /\ cuts = {}

Start ==
    /\ mode = "start" /\ mode' = Classify(pats)
    /\ UNCHANGED <<file, pats, req, pos, buf, out, state, cuts>>

\* streamWholeFile
StreamWholeFile ==
    /\ mode = "wholeFile" /\ state = "reading"
    /\ IF Len(Src) > MaxBuffer
       THEN state' = "failed" /\ UNCHANGED out
       ELSE state' = "done" /\ out' = RedactBytes(Src, pats)
    /\ UNCHANGED <<file, pats, req, mode, pos, buf, cuts>>

\* The backlog after one Read of n bytes, n as the reader likes.
Filled(n) == buf \o SubSeq(Src, pos + 1, pos + n)

\* flushCompleteLines: everything up to the last newline.
LastNL(s) == Len(s) - (IF Contains(s, "n") THEN CHOOSE k \in 0 .. Len(s) - 1 :
                 s[Len(s) - k] = "n" /\ \A j \in Len(s) - k + 1 .. Len(s) : s[j] # "n" ELSE Len(s))
FlushCompleteLines(data) ==
    LET cut == LastNL(data)
    IN /\ out' = out \o RedactBytes(SubSeq(data, 1, cut), pats)
       /\ buf' = SubSeq(data, cut + 1, Len(data))
       /\ cuts' = IF cut = 0 THEN cuts ELSE cuts \cup {Len(out) + cut}

\* Faulty variant: the tail that waits is the redacted one.
FlushRedactedTail(data) ==
    LET cut == IF Len(data) <= CarryLen THEN 0 ELSE Len(data) - CarryLen
    IN /\ out' = out \o SubSeq(RedactBytes(data, pats), 1, cut)
       /\ buf' = SubSeq(IF cut = 0 THEN data ELSE RedactBytes(data, pats), cut + 1, Len(data))
       /\ cuts' = IF cut = 0 THEN cuts ELSE cuts \cup {Len(out) + cut}

\* flushExceptTail: the last CarryLen bytes wait, as they are.
FlushExceptTail(data) ==
    LET cut == IF Len(data) <= CarryLen THEN 0 ELSE Len(data) - CarryLen
    IN /\ out' = out \o SubSeq(RedactBytes(data, pats), 1, cut)
       /\ buf' = SubSeq(data, cut + 1, Len(data))
       /\ cuts' = IF cut = 0 THEN cuts ELSE cuts \cup {Len(out) + cut}

\* Faulty variant: the backlog is not measured.
StreamLinesUnbounded(n) ==
    /\ mode = "line" /\ state = "reading" /\ n <= Len(Src) - pos
    /\ pos' = pos + n /\ FlushCompleteLines(Filled(n))
    /\ UNCHANGED <<file, pats, req, mode, state>>

\* streamLines and streamChunked: one Read that returned bytes.
StreamLines(n) ==
    /\ mode = "line" /\ state = "reading" /\ n <= Len(Src) - pos
    /\ pos' = pos + n
    /\ IF Len(Filled(n)) > MaxBuffer
       THEN state' = "failed" /\ buf' = Filled(n) /\ UNCHANGED <<out, cuts>>
       ELSE FlushCompleteLines(Filled(n)) /\ UNCHANGED state
    /\ UNCHANGED <<file, pats, req, mode>>

StreamChunked(n) ==
    /\ mode = "chunked" /\ state = "reading" /\ n <= Len(Src) - pos
    /\ pos' = pos + n /\ FlushExceptTail(Filled(n))
    /\ UNCHANGED <<file, pats, req, mode, state>>

\* A Read that fails; the caller hands out nothing of what was written.
ReadFails ==
    /\ mode # "start" /\ state = "reading" /\ state' = "failed"
    /\ UNCHANGED <<file, pats, req, mode, pos, buf, out, cuts>>

\* Faulty variant: the backlog is dropped at the end of the file.
AtEOFDropping ==
    /\ mode \in {"line", "chunked"} /\ state = "reading" /\ pos = Len(Src)
    /\ state' = "done" /\ buf' = <<>>
    /\ UNCHANGED <<file, pats, req, mode, pos, cuts, out>>

\* Both at io.EOF: what is left is redacted and written.
AtEOF ==
    /\ mode \in {"line", "chunked"} /\ state = "reading" /\ pos = Len(Src)
    /\ out' = out \o RedactBytes(buf, pats) /\ state' = "done" /\ buf' = <<>>
    /\ UNCHANGED <<file, pats, req, mode, pos, cuts>>

Next == Start \/ StreamWholeFile \/ AtEOF \/ ReadFails \/ \E n \in 1 .. ChunkSize : StreamLines(n) \/ StreamChunked(n)

Spec == Init /\ [][Next]_vars

-----------------------------------------------------------------------------
(* Correctness *)

\* A flush ended within the match.
Straddled(a) == \E c \in cuts : a.off <= c /\ c < End(a) - 1

\* The output is the input with some bytes masked, and as long: nothing is
\* lost, repeated or moved between a backlog and the next.
SamePlaces ==
    /\ \A i \in 1 .. Len(out) : out[i] \in {Src[i], Masked}
    /\ state = "done" => Len(out) = Len(Src)

\* Whatever the chunks and short reads, a read masks every byte that masking
\* the whole file masks, but for matches that go on past the end of the range
\* and matches that the end of a flush goes through.
ReadsMaskAll ==
    state = "done" => \A p \in pats \ {"whole"} : \A a \in ToSet(FindAll(p, file)) :
        (End(a) - 1 <= Len(Src) /\ ~Straddled(a)) =>
            \A i \in a.off + GroupSkip(p) .. End(a) - 1 : out[i] = Masked

\* A set that has to be seen as a whole, or by lines, is masked exactly as
\* if it were read at once, unless a builtin that is streamed by lines, for
\* the sake of the others, matches over the end of a line where a flush ended.
BufferedExact ==
    LET over == "next" \in pats /\ \E a \in ToSet(FindAll("next", Src)) : Straddled(a)
    IN (state = "done" /\ mode # "chunked" /\ ~over) => out = RedactBytes(Src, pats)

\* What Stream keeps in memory between two reads is a carried tail, or at
\* most the buffer it was allowed.
BacklogBounded == state = "reading" => Len(buf) <= IF mode = "chunked" THEN CarryLen ELSE MaxBuffer
=============================================================================
