--------------------------------- MODULE MCDcc ---------------------------------
(* Two sessions: one may follow, precede or outlive the other in the list.  *)
EXTENDS Dcc

=============================================================================
