------------------------------ MODULE LossyLog ------------------------------
(***************************************************************************)
(* What the recorder and the history store promise together: a log that    *)
(* may lose events but never writes one twice, never writes a lost one,    *)
(* and is not closed while an event is still on its way.                   *)
(***************************************************************************)
EXTENDS Naturals

VARIABLES
    emitted,   \* how many events there were; they are numbered from 1
    pending,   \* accepted, on their way to the database
    written,   \* rows of the database
    lost,      \* dropped from a full queue, or rolled back
    closed

logVars == <<emitted, pending, written, lost, closed>>

LogInit == emitted = 0 /\ pending = {} /\ written = {} /\ lost = {} /\ closed = FALSE

LogEmit ==
    /\ emitted' = emitted + 1
    /\ \/ pending' = pending \cup {emitted + 1} /\ UNCHANGED lost
       \/ lost' = lost \cup {emitted + 1} /\ UNCHANGED pending
    /\ ~closed /\ UNCHANGED <<written, closed>>

LogMove ==
    \E es \in SUBSET pending :
        /\ pending' = pending \ es
        /\ \/ written' = written \cup es /\ UNCHANGED lost
           \/ lost' = lost \cup es /\ UNCHANGED written
        /\ UNCHANGED <<emitted, closed>>

LogClose == pending = {} /\ closed' = TRUE /\ UNCHANGED <<emitted, pending, written, lost>>

LogSpec == LogInit /\ [][LogEmit \/ LogMove \/ LogClose]_logVars

\* No event is forgotten, and none is in two places.
Accounted ==
    /\ emitted \in Nat /\ pending \cup written \cup lost = 1 .. emitted
    /\ pending \cap written = {} /\ pending \cap lost = {} /\ written \cap lost = {}
=============================================================================
