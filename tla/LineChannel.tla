----------------------------- MODULE LineChannel -----------------------------
(***************************************************************************)
(* What irc_send_raw promises of one connection: the lines it accepts      *)
(* reach the server whole, in the order they were accepted, each ended by  *)
(* CR LF, while TCP may take the bytes in pieces of any size.  A           *)
(* connection that ends keeps what was sent and loses the rest.            *)
(***************************************************************************)
EXTENDS Naturals, Sequences

CONSTANTS Line,       \* the lines a caller may send, without their CR LF
          CR, LF      \* the two bytes that end a line

VARIABLES sent,       \* the bytes given to the connection so far
          pending     \* the bytes accepted and not yet sent

Init == sent = <<>> /\ pending = <<>>

Accept(l) ==
  /\ pending' = pending \o l \o <<CR, LF>>
  /\ UNCHANGED sent

Transmit(n) ==
  /\ sent' = sent \o SubSeq(pending, 1, n)
  /\ pending' = SubSeq(pending, n + 1, Len(pending))

Next ==
  \/ \E l \in Line : Accept(l)
  \/ \E n \in 1..Len(pending) : Transmit(n)

Spec == Init /\ [][Next]_<<sent, pending>>

=============================================================================
