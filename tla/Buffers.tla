-------------------------------- MODULE Buffers --------------------------------
(***************************************************************************)
(* What the two sides of a connected irc_session_t share: the bytes and    *)
(* the lines, the size of either buffer, and the state that irc_run and    *)
(* irc_disconnect end.  IncomingBuffer and OutgoingBuffer are the sides.   *)
(***************************************************************************)
EXTENDS Naturals, Sequences

CONSTANTS Byte,       \* what lines are made of
          Line,       \* the lines that are said, without their CR LF
          CR, LF,     \* the two bytes that end a line
          Capacity,   \* LIBIRC_BUFFER_SIZE
          MaxLines    \* bound: lines that are said

ASSUME CapacityAssumption == Capacity \in Nat \ {0}
ASSUME LineAssumption == Line \subseteq Seq(Byte) /\ CR \in Byte /\ LF \in Byte

VARIABLE connected    \* session->state is CONNECTED

=============================================================================
