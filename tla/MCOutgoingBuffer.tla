-------------------------- MODULE MCOutgoingBuffer --------------------------
(* Two threads send lines of one and two bytes; three lines do not fit in   *)
(* the buffer together.                                                     *)
EXTENDS OutgoingBuffer, TLC

CONSTANTS a, b, s1, s2

MCLine == {<<a>>, <<b, b>>}
MCByte == {a, b, CR, LF}
MCSender == {s1, s2}

=============================================================================
