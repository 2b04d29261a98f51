---------------------------- MODULE IncomingBuffer ----------------------------
(***************************************************************************)
(* The incoming side of a connected irc_session_t, all of it run by the    *)
(* worker in irc_run: bytes arrive in pieces of any size, recv puts them   *)
(* behind those left in incoming_buf, and every complete line is given to  *)
(* libirc_process_incoming_data and taken off the front.                   *)
(*                                                                         *)
(* The server and TCP are the environment: net holds what the server has   *)
(* said and recv has not returned yet; the connection may be closed at its *)
(* end (recv returns 0 once net is empty) or be reset (recv returns -1).   *)
(***************************************************************************)
EXTENDS Buffers

(* A line of the server ends where it says so. *)
ASSUME EndAssumption ==
  CR # LF /\ \A l \in Line : ~ \E i \in 1..(Len(l) - 1) : l[i] = CR /\ l[i + 1] = LF

VARIABLES
  incoming,    \* incoming_buf up to incoming_offset
  run,         \* where irc_run is: "select", "recv", "parse", "returned"
  dispatched,  \* the lines given to libirc_process_incoming_data
  parsed,      \* the bytes taken off the front of the buffer
  net,         \* bytes in flight
  said,        \* the lines the server has said
  peer         \* the connection at its other end: "open", "closed", "reset"

readVars == <<connected, incoming, run, dispatched, parsed, net, said, peer>>

ReadInit ==
  /\ connected = TRUE
  /\ incoming = <<>> /\ parsed = <<>> /\ dispatched = <<>>
  /\ run = "select"
  /\ net = <<>> /\ said = <<>> /\ peer = "open"

(* libirc_findcrlf: the length of the first line with its end, 0 if there   *)
(* is no complete line.                                                     *)
EndsAt(b, i) == i + 1 \in 1..Len(b) /\ i \in 1..Len(b) /\ b[i] = CR /\ b[i + 1] = LF
FindCrLf(b) ==
  IF \E i \in 1..Len(b) : EndsAt(b, i)
  THEN 1 + CHOOSE i \in 1..Len(b) : EndsAt(b, i) /\ \A j \in 1..(i - 1) : ~EndsAt(b, j)
  ELSE 0

-----------------------------------------------------------------------------
(* The server. *)

Say(l) ==
  /\ peer = "open" /\ Len(said) < MaxLines
  /\ said' = Append(said, l)
  /\ net' = net \o l \o <<CR, LF>>
  /\ UNCHANGED <<connected, incoming, run, dispatched, parsed, peer>>

HangUp(how) ==
  /\ peer = "open" /\ how \in {"closed", "reset"}
  /\ peer' = how
  /\ UNCHANGED <<connected, incoming, run, dispatched, parsed, net, said>>

-----------------------------------------------------------------------------
(* irc_run. *)

Room == Len(incoming) < Capacity - 1

(* Mutant: the socket is watched although the buffer is full. *)
SelectReadAlways ==
  /\ run = "select" /\ connected
  /\ net # <<>> \/ peer # "open"
  /\ run' = "recv"
  /\ UNCHANGED <<connected, incoming, dispatched, parsed, net, said, peer>>

(* The socket is watched for reading only while the buffer has room. *)
SelectRead ==
  /\ run = "select" /\ connected
  /\ Room
  /\ net # <<>> \/ peer # "open"
  /\ run' = "recv"
  /\ UNCHANGED <<connected, incoming, dispatched, parsed, net, said, peer>>

Recv(n) ==
  /\ run = "recv"
  /\ n \in 1..Len(net) /\ n <= Capacity - 1 - Len(incoming)
  /\ incoming' = incoming \o SubSeq(net, 1, n)
  /\ net' = SubSeq(net, n + 1, Len(net))
  /\ run' = "parse"
  /\ UNCHANGED <<connected, dispatched, parsed, said, peer>>

(* recv returns 0 at the end of the stream, and also when it is asked for   *)
(* no byte at all.                                                          *)
RecvNothing ==
  /\ run = "recv"
  /\ (net = <<>> /\ peer = "closed") \/ Len(incoming) = Capacity - 1
  /\ connected' = FALSE
  /\ run' = "returned"
  /\ UNCHANGED <<incoming, dispatched, parsed, net, said, peer>>

RecvFails ==
  /\ run = "recv"
  /\ peer = "reset"
  /\ connected' = FALSE
  /\ run' = "returned"
  /\ UNCHANGED <<incoming, dispatched, parsed, net, said, peer>>

(* Mutant: one line is processed for each recv. *)
ProcessOne ==
  /\ run = "parse" /\ FindCrLf(incoming) > 0
  /\ LET offset == FindCrLf(incoming) IN
       /\ dispatched' = Append(dispatched, SubSeq(incoming, 1, offset - 2))
       /\ parsed' = parsed \o SubSeq(incoming, 1, offset)
       /\ incoming' = SubSeq(incoming, offset + 1, Len(incoming))
  /\ run' = "select"
  /\ UNCHANGED <<connected, net, said, peer>>

(* Mutant: the line's CR is taken for its last byte. *)
ProcessWithCr ==
  /\ run = "parse" /\ FindCrLf(incoming) > 0
  /\ LET offset == FindCrLf(incoming) IN
       /\ dispatched' = Append(dispatched, SubSeq(incoming, 1, offset - 1))
       /\ parsed' = parsed \o SubSeq(incoming, 1, offset)
       /\ incoming' = SubSeq(incoming, offset + 1, Len(incoming))
  /\ UNCHANGED <<connected, run, net, said, peer>>

Process ==
  /\ run = "parse" /\ FindCrLf(incoming) > 0
  /\ LET offset == FindCrLf(incoming) IN
       /\ dispatched' = Append(dispatched, SubSeq(incoming, 1, offset - 2))
       /\ parsed' = parsed \o SubSeq(incoming, 1, offset)
       /\ incoming' = SubSeq(incoming, offset + 1, Len(incoming))
  /\ UNCHANGED <<connected, run, net, said, peer>>

Parsed ==
  /\ run = "parse" /\ FindCrLf(incoming) = 0
  /\ run' = "select"
  /\ UNCHANGED <<connected, incoming, dispatched, parsed, net, said, peer>>

ReadNext ==
  \/ \E l \in Line : Say(l)
  \/ \E how \in {"closed", "reset"} : HangUp(how)
  \/ SelectRead
  \/ \E n \in 1..Len(net) : Recv(n)
  \/ RecvNothing \/ RecvFails \/ Process \/ Parsed

ReadSpec == ReadInit /\ [][ReadNext]_readVars

(* The worker runs when it can; recv returns when select says so. *)
FairReadSpec ==
  /\ ReadSpec
  /\ WF_readVars(SelectRead) /\ WF_readVars(\E n \in 1..Len(net) : Recv(n))
  /\ WF_readVars(RecvNothing \/ RecvFails) /\ WF_readVars(Process) /\ WF_readVars(Parsed)

-----------------------------------------------------------------------------
(* Properties. *)

ReadTypeOK ==
  /\ connected \in BOOLEAN /\ peer \in {"open", "closed", "reset"}
  /\ incoming \in Seq(Byte) /\ parsed \in Seq(Byte) /\ net \in Seq(Byte)
  /\ run \in {"select", "recv", "parse", "returned"}
  /\ said \in Seq(Line) /\ dispatched \in Seq(Seq(Byte))
  /\ connected <=> run # "returned"

(* libircclient.c:399-400, "abort(); // should be impossible": the line     *)
(* given to libirc_process_incoming_data and the NUL put behind it fit its  *)
(* buffer, because recv is never asked for more than the rest of            *)
(* incoming_buf.                                                            *)
ProcessLengthFits ==
  /\ Len(incoming) <= Capacity - 1
  /\ FindCrLf(incoming) < Capacity

(* However TCP cuts the stream, the lines processed are the lines the       *)
(* server said, in order, none twice, none merged with another.             *)
InOrder ==
  /\ Len(dispatched) <= Len(said)
  /\ \A i \in 1..Len(dispatched) : dispatched[i] = said[i]

(* irc_run takes the connection for closed only when it is: recv is not     *)
(* called with no room, where its 0 would look like the end of the stream,  *)
(* and after an orderly close everything the server said has been read.     *)
ClosedByServer ==
  ~connected => peer = "reset" \/ (peer = "closed" /\ net = <<>>)

(* Every line is processed, whatever is said behind it and however it is    *)
(* cut, unless the connection is reset or a line before it is too long for  *)
(* the buffer: such a line is never complete, never read past and never     *)
(* reported.                                                                *)
Fits(l) == Len(l) + 2 <= Capacity - 1
EveryLineProcessed ==
  \A k \in 1..MaxLines :
     (Len(said) >= k /\ \A i \in 1..k : Fits(said[i]))
       ~> (Len(dispatched) >= k \/ peer = "reset")

=============================================================================
