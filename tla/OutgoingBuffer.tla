---------------------------- MODULE OutgoingBuffer ----------------------------
(***************************************************************************)
(* The outgoing side of a connected irc_session_t.  Any thread may call    *)
(* irc_send_raw (the main thread in a command handler, the ping thread,    *)
(* the worker itself to answer PING); the worker alone runs irc_run, which *)
(* sends what outgoing_buf holds.  mutex_session guards the buffer, while  *)
(* the test of the session's state is made before it is taken.             *)
(*                                                                         *)
(* A line is a sequence of bytes, ended by CR LF in the buffer; the buffer *)
(* is the sequence of its outgoing_offset first bytes.                     *)
(***************************************************************************)
EXTENDS Buffers

CONSTANTS Sender,     \* threads that call irc_send_raw
          Free,       \* mutex_session is not held
          Worker      \* mutex_session is held by irc_run

ASSUME LockAssumption == Free \notin Sender /\ Worker \notin Sender /\ Free # Worker

VARIABLES
  buf,        \* outgoing_buf up to outgoing_offset
  lock,       \* who holds mutex_session
  pc,         \* where each sender is in irc_send_raw
  line,       \* the line each sender has formatted
  flush,      \* where irc_run is: "select", "ready", "send", "shift", "returned"
  length,     \* what socket_send returned
  wire,       \* the bytes socket_send took
  calls       \* calls of irc_send_raw so far

vars == <<connected, buf, lock, pc, line, flush, length, wire, calls>>

(* Mutant: the search ends one byte early. *)
HasLineEarly(b) == \E i \in 1..(Len(b) - 2) : b[i] = CR /\ b[i + 1] = LF

(* libirc_findcrlf: is there a complete line? *)
HasLine(b) == \E i \in 1..(Len(b) - 1) : b[i] = CR /\ b[i + 1] = LF

Init ==
  /\ connected = TRUE
  /\ buf = <<>> /\ wire = <<>>
  /\ lock = Free
  /\ pc = [s \in Sender |-> "idle"]
  /\ line = [s \in Sender |-> <<>>]
  /\ flush = "select" /\ length = 0
  /\ calls = 0

-----------------------------------------------------------------------------
(* irc_send_raw.  A call that finds the session not CONNECTED returns       *)
(* LIBIRC_ERR_STATE and changes nothing.                                    *)

Format(s, l) ==
  /\ pc[s] = "idle" /\ connected /\ calls < MaxLines
  /\ calls' = calls + 1
  /\ line' = [line EXCEPT ![s] = l]
  /\ pc' = [pc EXCEPT ![s] = "formatted"]
  /\ UNCHANGED <<connected, buf, lock, flush, length, wire>>

Lock(s) ==
  /\ pc[s] = "formatted" /\ lock = Free
  /\ lock' = s
  /\ pc' = [pc EXCEPT ![s] = "locked"]
  /\ UNCHANGED <<connected, buf, line, flush, length, wire, calls>>

NoRoom(s) == Len(line[s]) + 2 >= Capacity - Len(buf)

Refuse(s) ==
  /\ pc[s] = "locked" /\ NoRoom(s)
  /\ lock' = Free
  /\ pc' = [pc EXCEPT ![s] = "idle"]
  /\ UNCHANGED <<connected, buf, line, flush, length, wire, calls>>

(* Mutant: the room for CR LF is not counted. *)
CopyTextTooMuch(s) ==
  /\ pc[s] = "locked" /\ ~(Len(line[s]) >= Capacity - Len(buf))
  /\ buf' = buf \o line[s]
  /\ pc' = [pc EXCEPT ![s] = "text"]
  /\ UNCHANGED <<connected, lock, line, flush, length, wire, calls>>

CopyText(s) ==
  /\ pc[s] = "locked" /\ ~NoRoom(s)
  /\ buf' = buf \o line[s]
  /\ pc' = [pc EXCEPT ![s] = "text"]
  /\ UNCHANGED <<connected, lock, line, flush, length, wire, calls>>

EndLine(s) ==
  /\ pc[s] = "text"
  /\ buf' = buf \o <<CR, LF>>
  /\ lock' = Free
  /\ pc' = [pc EXCEPT ![s] = "idle"]
  /\ UNCHANGED <<connected, line, flush, length, wire, calls>>

-----------------------------------------------------------------------------
(* irc_run: the socket is watched for writing only while the buffer holds a *)
(* complete line.                                                           *)

Select ==
  /\ flush = "select" /\ connected /\ lock = Free
  /\ HasLine(buf)
  /\ flush' = "ready"
  /\ UNCHANGED <<connected, buf, lock, pc, line, length, wire, calls>>

(* The state is tested again before the sockets are used. *)
LockToSend ==
  /\ flush = "ready" /\ connected /\ lock = Free
  /\ lock' = Worker
  /\ flush' = "send"
  /\ UNCHANGED <<connected, buf, pc, line, length, wire, calls>>

Send(n) ==
  /\ flush = "send" /\ connected /\ n \in 1..Len(buf)
  /\ wire' = wire \o SubSeq(buf, 1, n)
  /\ length' = n
  /\ flush' = "shift"
  /\ UNCHANGED <<connected, buf, lock, pc, line, calls>>

(* The peer reset the connection, or irc_disconnect has closed the socket.  *)
SendFails ==
  /\ flush = "send"
  /\ connected' = FALSE
  /\ lock' = Free
  /\ flush' = "returned"
  /\ UNCHANGED <<buf, pc, line, length, wire, calls>>

(* Mutant: a partial send is taken for a complete one. *)
ShiftAll ==
  /\ flush = "shift"
  /\ buf' = <<>>
  /\ lock' = Free
  /\ flush' = "select"
  /\ UNCHANGED <<connected, pc, line, length, wire, calls>>

Shift ==
  /\ flush = "shift"
  /\ buf' = SubSeq(buf, length + 1, Len(buf))
  /\ lock' = Free
  /\ flush' = "select"
  /\ UNCHANGED <<connected, pc, line, length, wire, calls>>

(* irc_disconnect by another thread, or the server closes: the state leaves *)
(* CONNECTED without the mutex, and irc_run returns.                        *)
Disconnect ==
  /\ connected
  /\ connected' = FALSE
  /\ UNCHANGED <<buf, lock, pc, line, flush, length, wire, calls>>

Return ==
  /\ ~connected /\ flush \in {"select", "ready"}
  /\ flush' = "returned"
  /\ UNCHANGED <<connected, buf, lock, pc, line, length, wire, calls>>

SendRaw(s) ==
  \/ \E l \in Line : Format(s, l)
  \/ Lock(s) \/ Refuse(s) \/ CopyText(s) \/ EndLine(s)

Run ==
  \/ Select \/ LockToSend
  \/ \E n \in 1..Len(buf) : Send(n)
  \/ SendFails \/ Shift \/ Return

Next == (\E s \in Sender : SendRaw(s)) \/ Run \/ Disconnect

Spec == Init /\ [][Next]_vars

(* The server reads, so that a socket watched for writing becomes writable; *)
(* mutex_session is handed to a thread that waits for it.                   *)
Fairness ==
  /\ WF_vars(Select) /\ SF_vars(LockToSend) /\ WF_vars(Shift) /\ WF_vars(Return)
  /\ WF_vars(\E n \in 1..Len(buf) : Send(n))
  /\ WF_vars(~connected /\ SendFails)
  /\ \A s \in Sender :
       SF_vars(Lock(s)) /\ WF_vars(Refuse(s) \/ CopyText(s) \/ EndLine(s))

FairSpec == Spec /\ Fairness

-----------------------------------------------------------------------------
(* Properties. *)

TypeOK ==
  /\ connected \in BOOLEAN
  /\ buf \in Seq(Byte) /\ wire \in Seq(Byte)
  /\ lock \in Sender \cup {Free, Worker}
  /\ pc \in [Sender -> {"idle", "formatted", "locked", "text"}]
  /\ line \in [Sender -> Line \cup {<<>>}]
  /\ flush \in {"select", "ready", "send", "shift", "returned"}
  /\ length \in Nat /\ calls \in Nat

(* strcpy and the two bytes after it stay inside outgoing_buf, its final    *)
(* NUL included, whatever other threads and irc_run did to the offset       *)
(* between the test of the state and the copy.                              *)
NoOverflow ==
  /\ Len(buf) < Capacity
  /\ \A s \in Sender : pc[s] = "text" => Len(buf) + 2 < Capacity

(* What irc_run is about to remove from the buffer is what it sent: nobody  *)
(* changes the buffer between socket_send and memmove.                      *)
SentIsFront ==
  flush = "shift" =>
    /\ length <= Len(buf)
    /\ SubSeq(wire, Len(wire) - length + 1, Len(wire)) = SubSeq(buf, 1, length)

(* The bytes accepted and unsent, as a caller may think of them: a line     *)
(* half copied is not accepted yet, what was sent is no longer there.       *)
Halfway == lock \in Sender /\ pc[lock] = "text"
Unsent ==
  SubSeq(buf, IF flush = "shift" THEN length + 1 ELSE 1,
              IF Halfway THEN Len(buf) - Len(line[lock]) ELSE Len(buf))

Channel == INSTANCE LineChannel WITH sent <- wire, pending <- Unsent

(* However the senders and irc_run interleave, and wherever TCP cuts the    *)
(* data, the server sees whole lines in the order they were accepted.       *)
ImplementsChannel == Channel!Spec

(* Once a line is in the buffer, all of it except perhaps its last byte is  *)
(* sent, unless the connection ends.  (The last byte may stay: a line feed  *)
(* alone is no complete line, and is sent only when another line follows.)  *)
LinesAreSent ==
  \A k \in 1..(Capacity * MaxLines) :
    Len(wire) + Len(Unsent) = k ~> Len(wire) + 1 >= k \/ ~connected

=============================================================================
