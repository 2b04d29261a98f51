------------------------------- MODULE PingPong -------------------------------
(***************************************************************************)
(* client->ping_mutex, used as a binary semaphore: whoever takes it (the   *)
(* ping thread every five seconds, the main loop for the command "ping")   *)
(* stamps client->ping and sends a PING; the worker, in the handler of the *)
(* PONG, reports the time since the stamp and gives the mutex back.  So a  *)
(* PING is sent only when the last one was answered, and the stamp is of   *)
(* the PING that is answered.                                              *)
(*                                                                         *)
(* The server is the environment, and keeps the protocol: it answers each  *)
(* PING at most once, and says PONG only to answer one.  Between two       *)
(* threads the mutex is the plain one of glibc, which any thread unlocks.  *)
(***************************************************************************)
EXTENDS Naturals, Sequences

CONSTANTS Sender,   \* the threads that send PINGs
          Pinger,   \* the one of them started by the connect event
          Time      \* what ftime returns

ASSUME PingerAssumption == Pinger \in Sender

VARIABLES
  session,    \* "connecting", "connected" (the ping thread runs), "ended"
  mutex,      \* ping_mutex is locked
  stamp,      \* client->ping
  pc,         \* of each sender: "idle", "stamp", "send", "sleep"
  pings,      \* the PINGs the server has not answered, by their stamps
  pongs,      \* the PONGs the worker has not handled, by their PINGs' stamps
  handled,    \* the stamp of the PONG being handled, <<>> if there is none
  lost        \* a PING was not sent, or the server refused it

pingVars == <<session, mutex, stamp, pc, pings, pongs, handled, lost>>

PingInit ==
  /\ session = "connecting" /\ mutex = FALSE
  /\ stamp \in Time
  /\ pc = [s \in Sender |-> "idle"]
  /\ pings = <<>> /\ pongs = <<>> /\ handled = <<>>
  /\ lost = FALSE

(* The connect event. *)
Connect ==
  /\ session = "connecting"
  /\ session' = "connected"
  /\ UNCHANGED <<mutex, stamp, pc, pings, pongs, handled, lost>>

(* The connection ends, with what is on its way; the worker leaves irc_run  *)
(* once it has done with a line it is at.                                   *)
End ==
  /\ session = "connected" /\ handled = <<>>
  /\ session' = "ended"
  /\ pings' = <<>> /\ pongs' = <<>>
  /\ lost' = (lost \/ pings # <<>> \/ pongs # <<>>)
  /\ UNCHANGED <<mutex, stamp, pc, handled>>

-----------------------------------------------------------------------------
(* ping_server's loop, and the ping_ case of process_command.  The main     *)
(* loop's client may ask for a ping before there is a connection.           *)

MayPing(s) == pc[s] = "idle" /\ (s = Pinger => session # "connecting")

(* Mutant: the answer of trylock is not looked at. *)
TryLockUnchecked(s) ==
  /\ MayPing(s)
  /\ mutex' = TRUE
  /\ pc' = [pc EXCEPT ![s] = "stamp"]
  /\ UNCHANGED <<session, stamp, pings, pongs, handled, lost>>

(* A sender that finds the mutex locked sends nothing this time. *)
TryLock(s) ==
  /\ MayPing(s) /\ ~mutex
  /\ mutex' = TRUE
  /\ pc' = [pc EXCEPT ![s] = "stamp"]
  /\ UNCHANGED <<session, stamp, pings, pongs, handled, lost>>

(* The main loop answers that it sent none, the ping thread sleeps. *)
Busy(s) ==
  /\ MayPing(s) /\ mutex
  /\ pc' = [pc EXCEPT ![s] = IF s = Pinger THEN "sleep" ELSE "idle"]
  /\ UNCHANGED <<session, mutex, stamp, pings, pongs, handled, lost>>

Wake ==
  /\ pc[Pinger] = "sleep"
  /\ pc' = [pc EXCEPT ![Pinger] = "idle"]
  /\ UNCHANGED <<session, mutex, stamp, pings, pongs, handled, lost>>

Stamp(s) ==
  /\ pc[s] = "stamp"
  /\ stamp' \in Time
  /\ pc' = [pc EXCEPT ![s] = "send"]
  /\ UNCHANGED <<session, mutex, pings, pongs, handled, lost>>

Sent(s) == pc' = [pc EXCEPT ![s] = IF s = Pinger THEN "sleep" ELSE "idle"]

Send(s) ==
  /\ pc[s] = "send" /\ session = "connected"
  /\ pings' = Append(pings, stamp)
  /\ Sent(s)
  /\ UNCHANGED <<session, mutex, stamp, pongs, handled, lost>>

(* irc_send_raw refuses: there is no connection, or no room.  Neither       *)
(* sender looks at what it returns, and the mutex stays locked.             *)
SendFails(s) ==
  /\ pc[s] = "send"
  /\ lost' = TRUE
  /\ Sent(s)
  /\ UNCHANGED <<session, mutex, stamp, pings, pongs, handled>>

-----------------------------------------------------------------------------
(* The server. *)

Answer ==
  /\ pings # <<>>
  /\ pings' = Tail(pings) /\ pongs' = Append(pongs, Head(pings))
  /\ UNCHANGED <<session, mutex, stamp, pc, handled, lost>>

(* An error numeric instead of a PONG: no such server, no origin. *)
Refuse ==
  /\ pings # <<>>
  /\ pings' = Tail(pings) /\ lost' = TRUE
  /\ UNCHANGED <<session, mutex, stamp, pc, pongs, handled>>

-----------------------------------------------------------------------------
(* handle_event_unknown, for a PONG. *)

(* Mutant: the mutex is given back before the stamp has been used. *)
PongUnlocksFirst ==
  /\ session = "connected" /\ handled = <<>> /\ pongs # <<>>
  /\ handled' = <<Head(pongs)>> /\ pongs' = Tail(pongs)
  /\ mutex' = FALSE
  /\ UNCHANGED <<session, stamp, pc, pings, lost>>

Pong ==
  /\ session = "connected" /\ handled = <<>> /\ pongs # <<>>
  /\ handled' = <<Head(pongs)>> /\ pongs' = Tail(pongs)
  /\ UNCHANGED <<session, mutex, stamp, pc, pings, lost>>

(* Mutant: the mutex is given back only to a subscriber of auto_ping. *)
ReportKeepsLock ==
  /\ handled # <<>>
  /\ handled' = <<>>
  /\ mutex' \in {mutex, FALSE}
  /\ UNCHANGED <<session, stamp, pc, pings, pongs, lost>>

(* The time since the stamp is reported; then the mutex is unlocked. *)
Report ==
  /\ handled # <<>>
  /\ handled' = <<>> /\ mutex' = FALSE
  /\ UNCHANGED <<session, stamp, pc, pings, pongs, lost>>

-----------------------------------------------------------------------------
Ping(s) == TryLock(s) \/ Busy(s) \/ Stamp(s) \/ Send(s) \/ SendFails(s)

PingNext ==
  \/ Connect \/ End
  \/ \E s \in Sender : Ping(s)
  \/ Wake
  \/ Answer \/ Refuse
  \/ Pong \/ Report

PingSpec == PingInit /\ [][PingNext]_pingVars

(* A sender that has the mutex goes on, and the ping thread comes back for  *)
(* it; the server answers or refuses; the worker handles what is answered.  *)
FairPingSpec ==
  /\ PingSpec
  /\ WF_pingVars(Connect)
  /\ \A s \in Sender : WF_pingVars(Stamp(s)) /\ WF_pingVars(Send(s) \/ SendFails(s))
  /\ WF_pingVars(TryLock(Pinger) \/ Busy(Pinger)) /\ WF_pingVars(Wake)
  /\ WF_pingVars(Answer \/ Refuse) /\ WF_pingVars(Pong) /\ WF_pingVars(Report)

-----------------------------------------------------------------------------
(* Properties. *)

PingTypeOK ==
  /\ session \in {"connecting", "connected", "ended"}
  /\ mutex \in BOOLEAN /\ lost \in BOOLEAN
  /\ stamp \in Time
  /\ pc \in [Sender -> {"idle", "stamp", "send", "sleep"}]
  /\ pings \in Seq(Time) /\ pongs \in Seq(Time) /\ handled \in Seq(Time)
  /\ Len(handled) <= 1
  /\ session # "connected" => pings = <<>> /\ pongs = <<>>

(* Who has the semaphore: a sender on its way, a PING, a PONG, its handler, *)
(* or a PING that will never be answered.                                   *)
Owners ==
  {<<"sender", s>> : s \in {r \in Sender : pc[r] \in {"stamp", "send"}}}
    \cup {<<"ping", i>> : i \in 1..Len(pings)}
    \cup {<<"pong", i>> : i \in 1..Len(pongs)}
    \cup {<<"handler", i>> : i \in 1..Len(handled)}
    \cup (IF lost THEN {<<"lost", 1>>} ELSE {})

(* The mutex is locked for exactly one reason: never are two PINGs out at a *)
(* time, never is the mutex unlocked under another sender's feet, and an    *)
(* unlock always finds it locked.  A lost PING is that reason for ever.     *)
OneReason ==
  IF mutex THEN \E o \in Owners : Owners = {o} ELSE Owners = {}

(* The time reported is the time of the PING that was answered: its stamp   *)
(* is still there when the handler reads it.                                *)
StampIsOwn ==
  /\ \A i \in 1..Len(pings) : pings[i] = stamp
  /\ \A i \in 1..Len(pongs) : pongs[i] = stamp
  /\ \A i \in 1..Len(handled) : handled[i] = stamp

(* As long as the connection lasts and no PING is lost, PINGs go on being   *)
(* sent.                                                                    *)
KeepAlive == <>(lost \/ session = "ended") \/ []<>(\E s \in Sender : pc[s] = "send")

=============================================================================
