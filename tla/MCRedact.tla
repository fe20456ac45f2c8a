------------------------------ MODULE MCRedact ------------------------------
(* Instance of Redact for TLC: short files, chunks a little longer than a   *)
(* bounded match, a carried tail as long as one.                            *)
EXTENDS Redact

MCPatternSets == {{"key"}, {"env", "next"}, {"key", "env"}, {"line", "key", "next"}, {"block", "env"}, {"whole"}}
MCRequests == {[off |-> 0, len |-> 3], [off |-> 2, len |-> 5]}
=============================================================================
