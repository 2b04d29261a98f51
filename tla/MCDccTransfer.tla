---------------------------- MODULE MCDccTransfer ----------------------------
(* A file of a full buffer and a half: the last chunk is short, the first   *)
(* one may arrive in two pieces.                                            *)
EXTENDS DccTransfer

=============================================================================
