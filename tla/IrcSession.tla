------------------------------ MODULE IrcSession ------------------------------
(***************************************************************************)
(* One irc_session_t from irc_create_session to irc_destroy_session: the   *)
(* worker that connects it and runs it (irc_connect, irc_run and what they *)
(* call) against irc_disconnect, which the main loop calls on the same     *)
(* session for the command "disconnect" and which takes no lock.  state    *)
(* and sock are plain shared fields, so every step here is one access to   *)
(* them, or one system call.                                               *)
(*                                                                         *)
(* The bytes in the buffers are IncomingBuffer's and OutgoingBuffer's; of  *)
(* them only whether a complete line waits to go out, and whether there is *)
(* room for what comes in, decide anything here.  The memory of the        *)
(* session is ClientLifecycle's: the model ends when the session is        *)
(* destroyed, whatever the main loop was doing with it.                    *)
(***************************************************************************)
EXTENDS Naturals, FiniteSets

CONSTANT MaxUnread   \* bound: reads' worth of text that the kernel holds

ASSUME UnreadAssumption == MaxUnread \in Nat

VARIABLES
  state,    \* session->state
  sock,     \* session->sock >= 0
  fd,       \* the descriptor that was put there: "none", "open", "closed"
  tcp,      \* its connection: "none", "connecting", "up", "refused", "ended"
  unread,   \* what the server has said and recv has not yet returned
  full,     \* session->incoming_offset is sizeof (incoming_buf) - 1
  queued,   \* the outgoing buffer holds a complete line
  worker,   \* where the worker is
  watch,    \* the descriptors' sets given to select: {}, {"out"}, ...
  ready,    \* what select made of them
  main,     \* where the main loop is in irc_disconnect, or "idle"
  greeted   \* how often NICK and USER were sent (at most 2 counted)

incoming == <<unread, full>>
engineVars == <<state, sock, fd, tcp, incoming, queued, worker, watch, ready, main, greeted>>

States == {"INIT", "CONNECTING", "CONNECTED", "DISCONNECTED"}
WorkerSteps == {"create", "connect", "mark", "gap", "loop", "add", "set", "select",
                "process", "branch", "settle", "register", "recv", "send",
                "returned", "destroyed"}

EngineInit ==
  /\ state = "INIT" /\ sock = FALSE /\ fd = "none" /\ tcp = "none"
  /\ unread = 0 /\ full = FALSE
  /\ queued = FALSE /\ watch = {} /\ ready = {}
  /\ worker = "create" /\ main = "idle"
  /\ greeted = 0

Leave == worker' = "returned"
GiveUp == state' = "DISCONNECTED" /\ Leave

-----------------------------------------------------------------------------
(* The network. *)

TcpAnswers(how) ==
  /\ tcp = "connecting" /\ fd = "open" /\ how \in {"up", "refused"}
  /\ tcp' = how
  /\ UNCHANGED <<state, sock, fd, incoming, queued, worker, watch, ready, main, greeted>>

ServerSpeaks ==
  /\ tcp = "up" /\ fd = "open" /\ unread < MaxUnread
  /\ unread' = unread + 1
  /\ UNCHANGED <<state, sock, fd, tcp, full, queued, worker, watch, ready, main, greeted>>

TcpEnds ==
  /\ tcp = "up" /\ fd = "open"
  /\ tcp' = "ended"
  /\ UNCHANGED <<state, sock, fd, incoming, queued, worker, watch, ready, main, greeted>>

-----------------------------------------------------------------------------
(* irc_connect.  client_run goes on to irc_run whatever it returns.         *)

ConnectFails ==
  /\ worker = "create"
  /\ worker' = "gap"
  /\ UNCHANGED <<state, sock, fd, tcp, incoming, queued, watch, ready, main, greeted>>

CreateSocket ==
  /\ worker = "create"
  /\ sock' = TRUE /\ fd' = "open"
  /\ worker' = "connect"
  /\ UNCHANGED <<state, tcp, incoming, queued, watch, ready, main, greeted>>

(* connect on a descriptor that is closed, or on -1, fails at once. *)
Connect ==
  /\ worker = "connect"
  /\ \/ sock /\ fd = "open" /\ tcp' = "connecting" /\ worker' = "mark"
     \/ worker' = "gap" /\ UNCHANGED tcp
  /\ UNCHANGED <<state, sock, fd, incoming, queued, watch, ready, main, greeted>>

Mark ==
  /\ worker = "mark"
  /\ state' = "CONNECTING"
  /\ worker' = "gap"
  /\ UNCHANGED <<sock, fd, tcp, incoming, queued, watch, ready, main, greeted>>

-----------------------------------------------------------------------------
(* irc_run. *)

Enter ==
  /\ worker = "gap"
  /\ worker' = IF state = "CONNECTING" THEN "loop" ELSE "returned"
  /\ UNCHANGED <<state, sock, fd, tcp, incoming, queued, watch, ready, main, greeted>>

Loop ==
  /\ worker = "loop"
  /\ worker' = IF state \in {"CONNECTING", "CONNECTED"} THEN "add" ELSE "returned"
  /\ UNCHANGED <<state, sock, fd, tcp, incoming, queued, watch, ready, main, greeted>>

(* irc_add_select_descriptors: its guard, then its switch on the state.     *)
(* irc_run does not look at what it returns.                                *)
AddGuard ==
  /\ worker = "add"
  /\ watch' = {}
  /\ worker' = IF sock /\ state \in {"CONNECTING", "CONNECTED"} THEN "set" ELSE "select"
  /\ UNCHANGED <<state, sock, fd, tcp, incoming, queued, ready, main, greeted>>

AddSet ==
  /\ worker = "set"
  /\ watch' = {d \in {"in", "out"} :
                 /\ sock
                 /\ \/ state = "CONNECTING" /\ d = "out"
                    \/ state = "CONNECTED" /\ (IF d = "in" THEN ~full ELSE queued)}
  /\ worker' = "select"
  /\ UNCHANGED <<state, sock, fd, tcp, incoming, queued, ready, main, greeted>>

(* What the kernel reports of the watched descriptor. *)
Reported == {d \in watch : \/ d = "out" /\ tcp # "connecting"
                           \/ d = "in" /\ (unread > 0 \/ tcp = "ended")}

(* select returns with an answer or at its timeout; with a closed           *)
(* descriptor in its sets it fails, and irc_run returns.                    *)
Select ==
  /\ worker = "select"
  /\ IF watch # {} /\ fd = "closed"
     THEN Leave /\ UNCHANGED ready
     ELSE ready' = Reported /\ worker' = "process"
  /\ UNCHANGED <<state, sock, fd, tcp, incoming, queued, watch, main, greeted>>

-----------------------------------------------------------------------------
(* irc_process_select_descriptors. *)

(* Mutant: the test of sock is dropped. *)
ProcessGuardNoSock ==
  /\ worker = "process"
  /\ worker' = IF state \in {"CONNECTING", "CONNECTED"} THEN "branch" ELSE "returned"
  /\ UNCHANGED <<state, sock, fd, tcp, incoming, queued, watch, ready, main, greeted>>

ProcessGuard ==
  /\ worker = "process"
  /\ worker' = IF sock /\ state \in {"CONNECTING", "CONNECTED"} THEN "branch" ELSE "returned"
  /\ UNCHANGED <<state, sock, fd, tcp, incoming, queued, watch, ready, main, greeted>>

(* FD_ISSET(-1, ...) reads outside of the set: it may find anything.        *)
Isset(d) == {r \in BOOLEAN : sock => r = (d \in ready)}

(* Mutant: the peer's name is not asked for. *)
BranchTrustsSelect ==
  /\ worker = "branch"
  /\ \E set \in Isset("out") :
       IF state = "CONNECTING" /\ set
       THEN worker' = "settle"
       ELSE worker' = IF state # "CONNECTED" THEN "returned" ELSE "recv"
  /\ UNCHANGED <<state, sock, fd, tcp, incoming, queued, watch, ready, main, greeted>>

(* Mutant: select's timeout while connecting is waited out again. *)
BranchKeepsWaiting ==
  /\ worker = "branch"
  /\ \E set \in Isset("out") :
       IF state = "CONNECTING" /\ set
       THEN IF sock /\ fd = "open" /\ tcp \in {"up", "ended"}
            THEN worker' = "settle" /\ UNCHANGED state
            ELSE GiveUp
       ELSE /\ worker' = IF state # "CONNECTED" THEN "loop" ELSE "recv"
            /\ UNCHANGED state
  /\ UNCHANGED <<sock, fd, tcp, incoming, queued, watch, ready, main, greeted>>

(* The connection is there, or failed; or select timed out before it was    *)
(* decided, and the state is still not CONNECTED.                           *)
Branch ==
  /\ worker = "branch"
  /\ \E set \in Isset("out") :
       IF state = "CONNECTING" /\ set
       THEN IF sock /\ fd = "open" /\ tcp \in {"up", "ended"}
            THEN worker' = "settle" /\ UNCHANGED state
            ELSE GiveUp
       ELSE /\ worker' = IF state # "CONNECTED" THEN "returned" ELSE "recv"
            /\ UNCHANGED state
  /\ UNCHANGED <<sock, fd, tcp, incoming, queued, watch, ready, main, greeted>>

Settle ==
  /\ worker = "settle"
  /\ state' = "CONNECTED"
  /\ worker' = "register"
  /\ UNCHANGED <<sock, fd, tcp, incoming, queued, watch, ready, main, greeted>>

(* NICK and USER, which irc_send_raw takes only while CONNECTED. *)
Register ==
  /\ worker = "register"
  /\ IF state = "CONNECTED"
     THEN queued' = TRUE /\ greeted' = IF greeted < 2 THEN greeted + 1 ELSE 2
     ELSE UNCHANGED <<queued, greeted>>
  /\ worker' = "loop"
  /\ UNCHANGED <<state, sock, fd, tcp, incoming, watch, ready, main>>

(* One read.  It may fill the buffer with text that has no CR LF; otherwise *)
(* the lines in it are taken out, and a PING among them is answered.        *)
Read ==
  /\ sock /\ fd = "open" /\ unread > 0
  /\ unread' = unread - 1
  /\ full' \in BOOLEAN
  /\ queued' \in {queued, queued \/ state = "CONNECTED"}

(* Mutant: an end of stream is taken for no data. *)
RecvIgnoresEnd ==
  /\ worker = "recv"
  /\ worker' = "send"
  /\ IF unread > 0 THEN Read ELSE UNCHANGED <<incoming, queued>>
  /\ UNCHANGED <<state, sock, fd, tcp, watch, ready, main, greeted>>

(* What the server said before the end is read first, unless the end was a  *)
(* reset.                                                                   *)
Recv ==
  /\ worker = "recv"
  /\ \E set \in Isset("in") :
       \/ set /\ Read /\ worker' = "send" /\ UNCHANGED state
       \/ /\ set /\ ~(sock /\ fd = "open" /\ unread > 0 /\ tcp = "up")
          /\ GiveUp /\ UNCHANGED <<incoming, queued>>
       \/ ~set /\ worker' = "send" /\ UNCHANGED <<state, incoming, queued>>
  /\ UNCHANGED <<sock, fd, tcp, watch, ready, main, greeted>>

(* socket_send takes all of the buffer or a part of it; after the server's  *)
(* end it takes all of it, once more, or fails.                             *)
Send ==
  /\ worker = "send"
  /\ \E set \in Isset("out") :
       \/ ~set /\ worker' = "loop" /\ UNCHANGED <<state, queued>>
       \/ /\ set /\ sock /\ fd = "open" /\ tcp \in {"up", "ended"}
          /\ queued' \in (IF tcp = "up" THEN {FALSE, queued} ELSE {FALSE})
          /\ worker' = "loop" /\ UNCHANGED state
       \/ set /\ ~(sock /\ fd = "open" /\ tcp = "up") /\ GiveUp /\ UNCHANGED queued
  /\ UNCHANGED <<sock, fd, tcp, incoming, watch, ready, main, greeted>>

(* irc_destroy_session, by client_run. *)
Destroy ==
  /\ worker = "returned"
  /\ worker' = "destroyed"
  /\ IF sock THEN sock' = FALSE /\ fd' = "closed" ELSE UNCHANGED <<sock, fd>>
  /\ UNCHANGED <<state, tcp, incoming, queued, watch, ready, main, greeted>>

-----------------------------------------------------------------------------
(* The main loop: lines for the server, and irc_disconnect. *)

MainSends ==
  /\ worker # "destroyed" /\ main = "idle"
  /\ state = "CONNECTED"
  /\ queued' = TRUE
  /\ UNCHANGED <<state, sock, fd, tcp, incoming, worker, watch, ready, main, greeted>>

DisconnectTest ==
  /\ worker # "destroyed" /\ main = "idle"
  /\ main' = IF sock THEN "close" ELSE "forget"
  /\ UNCHANGED <<state, sock, fd, tcp, incoming, queued, worker, watch, ready, greeted>>

DisconnectClose ==
  /\ worker # "destroyed" /\ main = "close"
  /\ fd' = "closed"
  /\ main' = "forget"
  /\ UNCHANGED <<state, sock, tcp, incoming, queued, worker, watch, ready, greeted>>

DisconnectForget ==
  /\ worker # "destroyed" /\ main = "forget"
  /\ sock' = FALSE
  /\ main' = "state"
  /\ UNCHANGED <<state, fd, tcp, incoming, queued, worker, watch, ready, greeted>>

DisconnectState ==
  /\ worker # "destroyed" /\ main = "state"
  /\ state' = "INIT"
  /\ main' = "idle"
  /\ UNCHANGED <<sock, fd, tcp, incoming, queued, worker, watch, ready, greeted>>

-----------------------------------------------------------------------------
Connecting == ConnectFails \/ CreateSocket \/ Connect \/ Mark
Running == Enter \/ Loop \/ AddGuard \/ AddSet \/ Select \/ ProcessGuard \/ Branch
           \/ Settle \/ Register \/ Recv \/ Send
Worker == Connecting \/ Running \/ Destroy
Disconnecting == DisconnectClose \/ DisconnectForget \/ DisconnectState

EngineNext ==
  \/ \E how \in {"up", "refused"} : TcpAnswers(how)
  \/ ServerSpeaks \/ TcpEnds
  \/ Worker
  \/ MainSends \/ DisconnectTest \/ Disconnecting

EngineSpec == EngineInit /\ [][EngineNext]_engineVars

(* The worker's thread runs, and the main loop finishes a disconnect it has *)
(* begun.  Nothing is assumed of the network.                               *)
FairEngineSpec == EngineSpec /\ WF_engineVars(Worker) /\ WF_engineVars(Disconnecting)

-----------------------------------------------------------------------------
(* Properties. *)

EngineTypeOK ==
  /\ state \in States /\ sock \in BOOLEAN /\ queued \in BOOLEAN
  /\ unread \in 0..MaxUnread /\ full \in BOOLEAN
  /\ fd \in {"none", "open", "closed"}
  /\ tcp \in {"none", "connecting", "up", "refused", "ended"}
  /\ worker \in WorkerSteps
  /\ watch \subseteq {"in", "out"} /\ ready \subseteq {"in", "out"}
  /\ main \in {"idle", "close", "forget", "state"}
  /\ greeted \in 0..2
  /\ worker \in {"connect", "mark"} => fd # "none"

(* NICK and USER are sent at most once, and only over a connection that was *)
(* made, although a disconnect may put the state back in between.           *)
RegisteredOnce ==
  /\ greeted <= 1
  /\ greeted = 1 => tcp \in {"up", "ended"}

Left == worker \in {"returned", "destroyed"}

(* "After that connection is closed, libircclient automatically leaves      *)
(* irc_run loop": closing the socket ends irc_run, wherever the worker is,  *)
(* even when it then overwrites the state the disconnect has set.           *)
DisconnectLeaves == fd = "closed" ~> Left

(* A connection refused, or ended by the server, ends irc_run: what the     *)
(* server said before the end is read, and then recv finds the end.  Not so *)
(* when a text without CR LF has filled the buffer: the socket is not       *)
(* watched for input any more, and with nothing queued nobody looks at it.  *)
EndLeaves == tcp \in {"refused", "ended"} ~> (Left \/ (full /\ ~queued))

(* Every irc_run comes to a registration or to an end: it never waits for   *)
(* ever for a connection.  (It does not wait for the network to decide it   *)
(* either: it returns when select times out.)                               *)
ConnectDecided == worker = "loop" ~> (greeted > 0 \/ Left)

(* irc_destroy_session is "to destroy an IRC session, close the connection  *)
(* to the IRC server, and free all the used resources": no descriptor is    *)
(* left open behind it when no disconnect is under way.  Not kept: the      *)
(* socket that irc_connect stores between DisconnectTest and                *)
(* DisconnectForget is forgotten.                                           *)
NothingLeftOpen == worker = "destroyed" /\ main = "idle" => fd # "open"

=============================================================================
