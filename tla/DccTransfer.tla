----------------------------- MODULE DccTransfer -----------------------------
(***************************************************************************)
(* One file sent with irc_dcc_sendfile and received with irc_dcc_accept,   *)
(* both by this library, over one TCP connection.  The sender reads a      *)
(* buffer full, sends it and waits for four bytes that say how much was    *)
(* received so far; the receiver sends these four bytes after each recv.   *)
(* TCP may cut and join what is sent.                                      *)
(*                                                                         *)
(* A file is its length, since TCP keeps its bytes in order.  The four     *)
(* bytes of an acknowledgement travel as two halves, so that one can be    *)
(* cut.  "REMOVED" stands for a session that is destroyed, its socket      *)
(* closed.  The mutex and the list of sessions are those of module Dcc.    *)
(***************************************************************************)
EXTENDS Naturals, Sequences

CONSTANTS Size,       \* the length of the file
          Buffer      \* LIBIRC_DCC_BUFFER_SIZE

ASSUME SizeAssumption == Size \in Nat
ASSUME BufferAssumption == Buffer \in Nat \ {0}

VARIABLES
  sState,     \* state of the sender's session
  read,       \* how far the sender has read the file
  chunk,      \* the sender's outgoing_offset
  sConfirm,   \* the sender's file_confirm_offset: how much it has sent
  sIn,        \* the halves in the sender's incoming_buf
  rState,     \* state of the receiver's session
  rConfirm,   \* the receiver's file_confirm_offset: how much it has received
  rOut,       \* the halves in the receiver's outgoing_buf
  acks,       \* the halves on their way
  linked,     \* the kernels have connected the two sockets
  broken,     \* the connection was reset
  sTold,      \* the last word of the sender's callback: "none", "ok", "error"
  rTold,      \* the last word of the receiver's callback
  readFailed, \* fread failed in the middle of the file
  aborted     \* abort() was called

sVars == <<sState, read, chunk, sConfirm, sIn, sTold, readFailed>>
rVars == <<rState, rConfirm, rOut, rTold>>
vars == <<sVars, rVars, acks, linked, broken, aborted>>

Init ==
  /\ sState = "LISTENING" /\ read = 0 /\ chunk = 0 /\ sConfirm = 0 /\ sIn = <<>>
  /\ rState = "INIT" /\ rConfirm = 0 /\ rOut = <<>>
  /\ acks = <<>> /\ linked = FALSE /\ broken = FALSE
  /\ sTold = "none" /\ rTold = "none" /\ readFailed = FALSE /\ aborted = FALSE

Smaller(m, n) == IF m < n THEN m ELSE n
Front(s, n) == SubSeq(s, 1, n)
Rest(s, n) == SubSeq(s, n + 1, Len(s))

-----------------------------------------------------------------------------
(* The network. *)

KernelConnects ==
  /\ rState = "CONNECTING" /\ sState = "LISTENING" /\ ~linked
  /\ linked' = TRUE
  /\ UNCHANGED <<sVars, rVars, acks, broken, aborted>>

Break ==
  /\ linked /\ ~broken
  /\ broken' = TRUE
  /\ UNCHANGED <<sVars, rVars, acks, linked, aborted>>

-----------------------------------------------------------------------------
(* The sender. *)

SEnds(word) ==
  /\ sState' = "REMOVED" /\ sTold' = word
  /\ UNCHANGED <<read, chunk, sConfirm, sIn, readFailed, rVars, acks, linked, broken, aborted>>

(* A failed accept of a file transfer is not told. *)
SAccept ==
  /\ sState = "LISTENING" /\ linked
  /\ sState' = "CONNECTED"
  /\ UNCHANGED <<read, chunk, sConfirm, sIn, sTold, readFailed, rVars, acks, linked, broken, aborted>>

SAcceptFails == sState = "LISTENING" /\ linked /\ SEnds("none")

STimeout == sState = "LISTENING" /\ SEnds("error")

(* libirc_dcc_add_descriptors asks the file for data before each select. *)
SRead ==
  /\ sState = "CONNECTED" /\ chunk = 0 /\ read < Size
  /\ chunk' = Smaller(Buffer, Size - read)
  /\ read' = read + chunk'
  /\ UNCHANGED <<sState, sConfirm, sIn, sTold, readFailed, rVars, acks, linked, broken, aborted>>

SReadEnd == sState = "CONNECTED" /\ chunk = 0 /\ read = Size /\ SEnds("ok")

(* fread returns a size_t, so that a failure looks like the end of the file. *)
SReadFails ==
  /\ sState = "CONNECTED" /\ chunk = 0 /\ read < Size
  /\ sState' = "REMOVED" /\ sTold' = "ok" /\ readFailed' = TRUE
  /\ UNCHANGED <<read, chunk, sConfirm, sIn, rVars, acks, linked, broken, aborted>>

(* The socket that accept returned blocks: a send takes all of the chunk. *)
SSend ==
  /\ sState = "CONNECTED" /\ chunk > 0 /\ ~broken
  /\ sConfirm' = sConfirm + chunk /\ chunk' = 0
  /\ sState' = "CONFIRM_SIZE"
  /\ UNCHANGED <<read, sIn, sTold, readFailed, rVars, acks, linked, broken, aborted>>

SSendFails ==
  /\ sState = "CONNECTED" /\ chunk > 0 /\ (broken \/ rState = "REMOVED")
  /\ SEnds("error")

(* When select watches the sender's socket for input. *)
SWatched ==
  \/ sState = "CONNECTED" /\ chunk > 0
  \/ sState = "CONFIRM_SIZE" /\ Len(sIn) < 2

(* Mutant: any acknowledgement will do. *)
SRecvUnchecked(n) ==
  /\ SWatched /\ ~broken /\ n \in 1..Len(acks)
  /\ acks' = Rest(acks, n)
  /\ sIn' = IF sState = "CONFIRM_SIZE" /\ Len(sIn) + n = 2 THEN <<>> ELSE sIn \o Front(acks, n)
  /\ sState' = IF sState = "CONFIRM_SIZE" /\ Len(sIn) + n = 2 THEN "CONNECTED" ELSE sState
  /\ aborted' = (aborted \/ sState = "CONNECTED")
  /\ UNCHANGED <<read, chunk, sConfirm, sTold, readFailed, rVars, linked, broken>>

(* Only a recv that completes exactly four bytes is compared; with more in  *)
(* the buffer the session waits, unwatched and without a timeout.           *)
SRecv(n) ==
  LET in == sIn \o Front(acks, n)
      whole == sState = "CONFIRM_SIZE" /\ Len(in) = 2
      match == whole /\ in[1] = sConfirm
  IN
  /\ SWatched /\ ~broken /\ n \in 1..Len(acks)
  /\ acks' = Rest(acks, n)
  /\ sIn' = IF match THEN <<>> ELSE in
  /\ sState' = IF match THEN "CONNECTED" ELSE IF whole THEN "REMOVED" ELSE sState
  /\ sTold' = IF whole /\ ~match THEN "error" ELSE sTold
  /\ aborted' = (aborted \/ sState = "CONNECTED")
  /\ UNCHANGED <<read, chunk, sConfirm, readFailed, rVars, linked, broken>>

(* recv returns 0 or -1. *)
SRecvFails ==
  /\ SWatched /\ (broken \/ (rState = "REMOVED" /\ acks = <<>>))
  /\ SEnds("error")

(* irc_dcc_destroy by the application, from any thread or callback. *)
SDestroy == sState # "REMOVED" /\ SEnds(sTold)

-----------------------------------------------------------------------------
(* The receiver. *)

REnds(word) ==
  /\ rState' = "REMOVED" /\ rTold' = word
  /\ UNCHANGED <<sVars, rConfirm, rOut, acks, linked, broken, aborted>>

RState(s) ==
  /\ rState' = s
  /\ UNCHANGED <<sVars, rConfirm, rOut, rTold, acks, linked, broken, aborted>>

RAccept == rState = "INIT" /\ RState("CONNECTING")

RAcceptFails == rState = "INIT" /\ REnds("none")

(* A request nobody answered is dropped in silence. *)
RTimeout ==
  \/ rState = "INIT" /\ REnds("none")
  \/ rState = "CONNECTING" /\ REnds("error")

RConnected == rState = "CONNECTING" /\ linked /\ RState("CONNECTED")

(* A failed connect of a file transfer is not told. *)
RConnectFails ==
  /\ rState = "CONNECTING" /\ (broken \/ (sState = "REMOVED" /\ ~linked))
  /\ REnds("none")

RRecv(n) ==
  /\ rState = "CONNECTED" /\ ~broken /\ n \in 1..Smaller(Buffer, sConfirm - rConfirm)
  /\ rConfirm' = rConfirm + n
  /\ rOut' = <<rConfirm', rConfirm'>>
  /\ rState' = "CONFIRM_SIZE"
  /\ UNCHANGED <<sVars, rTold, acks, linked, broken, aborted>>

(* After the sender's close the rest may still come, or be lost. *)
RRecvFails ==
  /\ rState = "CONNECTED" /\ (broken \/ sState = "REMOVED")
  /\ REnds("error")

(* Mutant: the size is compared before all of the acknowledgement is sent,  *)
(* and the state does not go back.                                          *)
RSendStays(n) ==
  /\ rState = "CONFIRM_SIZE" /\ ~broken /\ n \in 1..Len(rOut)
  /\ acks' = acks \o Front(rOut, n)
  /\ rOut' = Rest(rOut, n)
  /\ rState' = IF rOut' = <<>> /\ rConfirm = Size THEN "REMOVED" ELSE rState
  /\ rTold' = IF rOut' = <<>> /\ rConfirm = Size THEN "ok" ELSE rTold
  /\ UNCHANGED <<sVars, rConfirm, linked, broken, aborted>>

(* Once the four bytes are sent the file is complete or more is awaited. *)
RSend(n) ==
  /\ rState = "CONFIRM_SIZE" /\ ~broken /\ n \in 1..Len(rOut)
  /\ acks' = acks \o Front(rOut, n)
  /\ rOut' = Rest(rOut, n)
  /\ rState' = IF rOut' # <<>> THEN rState
               ELSE IF rConfirm = Size THEN "REMOVED" ELSE "CONNECTED"
  /\ rTold' = IF rOut' = <<>> /\ rConfirm = Size THEN "ok" ELSE rTold
  /\ UNCHANGED <<sVars, rConfirm, linked, broken, aborted>>

RSendFails ==
  /\ rState = "CONFIRM_SIZE" /\ rOut # <<>> /\ (broken \/ sState = "REMOVED")
  /\ REnds("error")

RDestroy == rState # "REMOVED" /\ REnds(rTold)

-----------------------------------------------------------------------------

Sender ==
  \/ SAccept \/ SAcceptFails \/ STimeout \/ SRead \/ SReadEnd \/ SReadFails
  \/ SSend \/ SSendFails \/ SRecvFails \/ SDestroy
  \/ \E n \in 1..Len(acks) : SRecv(n)

Receiver ==
  \/ RAccept \/ RAcceptFails \/ RTimeout \/ RConnected \/ RConnectFails
  \/ RRecvFails \/ RSendFails \/ RDestroy
  \/ \E n \in 1..Buffer : RRecv(n)
  \/ \E n \in 1..Len(rOut) : RSend(n)

Next == Sender \/ Receiver \/ KernelConnects \/ Break

Spec == Init /\ [][Next]_vars

(* Both loops go round, the network delivers, and a session that waits for  *)
(* its connection is timed out in the end.                                  *)
Fairness ==
  /\ WF_vars(KernelConnects)
  /\ WF_vars(SAccept) /\ WF_vars(STimeout) /\ WF_vars(SRead \/ SReadEnd)
  /\ WF_vars(SSend \/ SSendFails) /\ WF_vars(SRecvFails)
  /\ WF_vars(\E n \in 1..Len(acks) : SRecv(n))
  /\ WF_vars(RTimeout) /\ WF_vars(RConnected \/ RConnectFails) /\ WF_vars(RRecvFails)
  /\ WF_vars(\E n \in 1..Buffer : RRecv(n))
  /\ WF_vars(RSendFails \/ \E n \in 1..Len(rOut) : RSend(n))

FairSpec == Spec /\ Fairness

-----------------------------------------------------------------------------
(* Properties. *)

States == {"INIT", "LISTENING", "CONNECTING", "CONNECTED", "CONFIRM_SIZE", "REMOVED"}

TypeOK ==
  /\ sState \in States /\ rState \in States
  /\ read \in 0..Size /\ chunk \in 0..Buffer /\ sConfirm \in 0..Size /\ rConfirm \in 0..Size
  /\ sIn \in Seq(0..Size) /\ rOut \in Seq(0..Size) /\ acks \in Seq(0..Size)
  /\ sTold \in {"none", "ok", "error"} /\ rTold \in {"none", "ok", "error"}
  /\ linked \in BOOLEAN /\ broken \in BOOLEAN /\ readFailed \in BOOLEAN /\ aborted \in BOOLEAN

(* What the transfer is for: an application is told of a success only when  *)
(* the whole file has arrived, wherever TCP cuts the data and the           *)
(* acknowledgements and whenever a side gives up.  A failure to read the    *)
(* file counts as the failure it is, though the sender is told of success.  *)
Copy == INSTANCE FileCopy
          WITH copied <- rConfirm,
               sender <- IF readFailed THEN "error" ELSE sTold,
               receiver <- rTold

ImplementsCopy == Copy!Spec

(* The abort of libirc_dcc_process_descriptors on data that the sender does *)
(* not expect: between two libraries of this kind no acknowledgement ever   *)
(* comes when the sender is not waiting for one.                            *)
NoAbort == ~aborted

(* Each transfer comes to its end on both sides, except that a sender that  *)
(* got two acknowledgements in one recv waits for good, and with it a       *)
(* receiver that still lacks data.                                          *)
Stuck == sState = "CONFIRM_SIZE" /\ Len(sIn) > 2

TransferEnds == <>[](sState = "REMOVED" /\ rState = "REMOVED") \/ <>[]Stuck

=============================================================================
