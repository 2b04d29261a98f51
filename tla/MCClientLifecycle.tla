------------------------- MODULE MCClientLifecycle -------------------------
(* One client, for TLC: what two clients that share a heap block do to each *)
(* other is in the proofs, which hold for any number of them.               *)
EXTENDS ClientLifecycle

=============================================================================
