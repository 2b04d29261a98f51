------------------------------- MODULE FileCopy -------------------------------
(***************************************************************************)
(* What a DCC file transfer promises the two applications: bytes arrive in *)
(* order, each side is told how it ended at most once, and is told that it *)
(* succeeded only when all of the file has arrived.                        *)
(***************************************************************************)
EXTENDS Naturals

CONSTANT Size         \* the length of the file

VARIABLES copied,     \* how much of the file the receiver was given
          sender,     \* how it ended for the sender: "none", "ok", "error"
          receiver    \* how it ended for the receiver

Init == copied = 0 /\ sender = "none" /\ receiver = "none"

Deliver(n) ==
  /\ receiver = "none"
  /\ copied' = n
  /\ UNCHANGED <<sender, receiver>>

SenderSucceeds ==
  /\ sender = "none" /\ copied = Size
  /\ sender' = "ok"
  /\ UNCHANGED <<copied, receiver>>

ReceiverSucceeds ==
  /\ receiver = "none" /\ copied = Size
  /\ receiver' = "ok"
  /\ UNCHANGED <<copied, sender>>

SenderFails == sender = "none" /\ sender' = "error" /\ UNCHANGED <<copied, receiver>>

ReceiverFails == receiver = "none" /\ receiver' = "error" /\ UNCHANGED <<copied, sender>>

Next ==
  \/ \E n \in (copied + 1)..Size : Deliver(n)
  \/ SenderSucceeds \/ ReceiverSucceeds \/ SenderFails \/ ReceiverFails

Spec == Init /\ [][Next]_<<copied, sender, receiver>>

=============================================================================
