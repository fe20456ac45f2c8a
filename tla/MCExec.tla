------------------------------- MODULE MCExec -------------------------------
(* Instance of Exec for TLC: two of the three kinds of signals show all that *)
(* a full channel does; the codes are those with a meaning of their own.     *)
EXTENDS Exec

Ints  == {"SIGINT", "SIGTERM"}
Codes == {0, 1, 127, 255}
=============================================================================
