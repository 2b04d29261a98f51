------------------------------- MODULE Dispatch -------------------------------
(***************************************************************************)
(* What libirc_process_incoming_data makes of the lines it is given, in    *)
(* the order the server said them: the event each one becomes, the answer  *)
(* to PING, the connect event, and session->nick, the library's own idea   *)
(* of who we are, by which it tells what is meant for us.                  *)
(*                                                                         *)
(* A line is what parsing leaves of it: command, prefix, first parameter,  *)
(* and what matters of the rest.  Its field mine is not part of the text:  *)
(* it is the nick the server knew us by when it said the line.             *)
(*                                                                         *)
(* The server, with one other user, is the environment.  Names compare as  *)
(* strncmp and strncasecmp compare them over the length of the second one: *)
(* Starts and StartsFold say which nicks begin with which.                 *)
(***************************************************************************)
EXTENDS Naturals, Sequences

CONSTANTS Nick, Channel, Server,
          Starts,      \* {<<long, nick>> : strncmp(long, nick, strlen(nick)) = 0}
          StartsFold,  \* the same by strncasecmp
          Plain,       \* QUIT, JOIN, PART, TOPIC, KICK, INVITE and what is unknown:
                       \* the commands whose event says no more than the command
          First,       \* the nick given to irc_connect
          MaxSaid,     \* bound: lines the server says of its own accord
          MaxAsked     \* bound: nicks asked for by client_cmd_nick

ASSUME NameAssumption ==
  /\ First \in Nick
  /\ Channel \notin Nick /\ Server \notin Nick \cup {Channel}
  /\ Starts \subseteq StartsFold /\ StartsFold \subseteq Nick \X Nick
  /\ \A n \in Nick : <<n, n>> \in Starts
  /\ Plain \cap {"001", "376", "422", "433", "PING", "NICK", "MODE",
                   "PRIVMSG", "NOTICE", "KILL", "none"} = {}
  /\ MaxSaid \in Nat /\ MaxAsked \in Nat

VARIABLES
  nick,           \* session->nick
  motd_received,  \* session->motd_received
  connects,       \* how often event_connect was called (at most 2 counted)
  last,           \* what the last line that gave an event was, with the event
  toServer,       \* what we said and the server has not read
  toClient,       \* what the server said and we have not handled
  registered,     \* the server has accepted a nick
  mine,           \* the nick it knows us by; First as long as there is none
  theirs,         \* the other user's nick
  renamed,        \* the nick it accepted first was not First
  owed,           \* the PINGs it has had no answer to
  dropped,        \* a PONG found no room in the outgoing buffer
  said, asked     \* for the bounds

session == <<nick, motd_received, connects, last>>
server == <<registered, mine, theirs, renamed>>
vars == <<session, toServer, toClient, server, owed, dropped, said, asked>>

SameNick(a, b) == <<a, b>> \in StartsFold /\ <<b, a>> \in StartsFold

Codes == {"001", "376", "422", "433"}
Bodies == {"text", "action", "request", "dcc"}
Tokens == 0..MaxSaid

Line(cmd, from, target, body) ==
  [cmd |-> cmd, mine |-> mine, from |-> from, target |-> target, body |-> body,
   token |-> said]

(* What we say to it. *)
Ask(n) == [cmd |-> "NICK", nick |-> n, token |-> 0]
Pong(t) == [cmd |-> "PONG", nick |-> First, token |-> t]

None == [cmd |-> "none", target |-> Channel, body |-> "text", event |-> "none"]

(* Registration has asked for First: see IrcSession.  The other user may    *)
(* have it already.                                                         *)
Init ==
  /\ nick = First /\ motd_received = FALSE /\ connects = 0 /\ last = None
  /\ toServer = <<Ask(First)>> /\ toClient = <<>>
  /\ registered = FALSE /\ mine = First /\ theirs \in Nick /\ renamed = FALSE
  /\ owed = {} /\ dropped = FALSE
  /\ said = 0 /\ asked = 0

-----------------------------------------------------------------------------
(* The handling of one line. *)

This == Head(toClient)

(* The line is done with; event is what it gave. *)
Gives(event) ==
  /\ toClient' = Tail(toClient)
  /\ last' = [cmd |-> This.cmd, target |-> This.target, body |-> This.body, event |-> event]

Is(cmds) == toClient # <<>> /\ This.cmd \in cmds

(* Mutant: the PONG carries no token. *)
HandlePingBlindly ==
  /\ Is({"PING"})
  /\ toServer' = Append(toServer, Pong(0)) /\ UNCHANGED dropped
  /\ toClient' = Tail(toClient)
  /\ UNCHANGED <<session, server, owed, said, asked>>

(* Mutant: PING is left to the subscribers, as every other command is. *)
HandlePingAsEvent ==
  /\ Is({"PING"})
  /\ Gives("unknown")
  /\ UNCHANGED <<nick, motd_received, connects, toServer, server, owed, dropped, said, asked>>

(* The answer of irc_send_raw is not looked at. *)
HandlePing ==
  /\ Is({"PING"})
  /\ \/ toServer' = Append(toServer, Pong(This.token)) /\ UNCHANGED dropped
     \/ dropped' = TRUE /\ UNCHANGED toServer
  /\ toClient' = Tail(toClient)
  /\ UNCHANGED <<session, server, owed, said, asked>>

HandleNumeric ==
  /\ Is(Codes)
  /\ IF This.cmd \in {"376", "422"} /\ ~motd_received
     THEN motd_received' = TRUE /\ connects' = IF connects < 2 THEN connects + 1 ELSE 2
     ELSE UNCHANGED <<motd_received, connects>>
  /\ Gives("numeric")
  /\ UNCHANGED <<nick, toServer, server, owed, dropped, said, asked>>

(* Mutant: whoever changes nick, it is taken for ours. *)
HandleNickOfAnyone ==
  /\ Is({"NICK"})
  /\ nick' = This.target
  /\ Gives("nick")
  /\ UNCHANGED <<motd_received, connects, toServer, server, owed, dropped, said, asked>>

HandleNick ==
  /\ Is({"NICK"})
  /\ nick' = IF <<This.from, nick>> \in Starts THEN This.target ELSE nick
  /\ Gives("nick")
  /\ UNCHANGED <<motd_received, connects, toServer, server, owed, dropped, said, asked>>

HandleMode ==
  /\ Is({"MODE"})
  /\ Gives(IF <<This.target, nick>> \in Starts THEN "umode" ELSE "mode")
  /\ UNCHANGED <<nick, motd_received, connects, toServer, server, owed, dropped, said, asked>>

(* A DCC request goes to dcc.c, which has no callback in this daemon. *)
Ctcp == [dcc |-> "none", action |-> "ctcp_action", request |-> "ctcp_req"]

(* Mutant: the target is compared as it is written, as MODE's is. *)
HandlePrivmsgExactly ==
  /\ Is({"PRIVMSG"})
  /\ Gives(IF This.body # "text" THEN Ctcp[This.body]
           ELSE IF <<This.target, nick>> \in Starts THEN "privmsg" ELSE "channel")
  /\ UNCHANGED <<nick, motd_received, connects, toServer, server, owed, dropped, said, asked>>

HandlePrivmsg ==
  /\ Is({"PRIVMSG"})
  /\ Gives(IF This.body # "text" THEN Ctcp[This.body]
           ELSE IF <<This.target, nick>> \in StartsFold THEN "privmsg" ELSE "channel")
  /\ UNCHANGED <<nick, motd_received, connects, toServer, server, owed, dropped, said, asked>>

HandleNotice ==
  /\ Is({"NOTICE"})
  /\ Gives(IF This.body # "text" THEN "ctcp_rep"
           ELSE IF <<This.target, nick>> \in StartsFold THEN "notice" ELSE "channel_notice")
  /\ UNCHANGED <<nick, motd_received, connects, toServer, server, owed, dropped, said, asked>>

(* KILL alone gives no event. *)
HandlePlain ==
  /\ Is(Plain \cup {"KILL"})
  /\ Gives(IF This.cmd = "KILL" THEN "none" ELSE This.cmd)
  /\ UNCHANGED <<nick, motd_received, connects, toServer, server, owed, dropped, said, asked>>

Handle ==
  \/ HandlePing \/ HandleNumeric \/ HandleNick \/ HandleMode
  \/ HandlePrivmsg \/ HandleNotice \/ HandlePlain

-----------------------------------------------------------------------------
(* client_cmd_nick, by way of irc_cmd_nick: the nick is only asked for. *)
AskNick(n) ==
  /\ asked < MaxAsked /\ asked' = asked + 1
  /\ toServer' = Append(toServer, Ask(n))
  /\ UNCHANGED <<session, toClient, server, owed, dropped, said>>

-----------------------------------------------------------------------------
(* The server reads what we said. *)

Reads(cmd) ==
  /\ toServer # <<>> /\ Head(toServer).cmd = cmd
  /\ toServer' = Tail(toServer)
  /\ UNCHANGED <<session, said, asked, dropped>>

Asked == Head(toServer).nick

ReadPong ==
  /\ Reads("PONG")
  /\ owed' = owed \ {Head(toServer).token}
  /\ UNCHANGED <<toClient, server>>

NickInUse ==
  /\ Reads("NICK") /\ SameNick(Asked, theirs)
  /\ toClient' = Append(toClient, Line("433", Server, Channel, "text"))
  /\ UNCHANGED <<server, owed>>

(* The first nick accepted is told in a numeric: there is no NICK line.     *)
Welcome ==
  /\ Reads("NICK") /\ ~SameNick(Asked, theirs) /\ ~registered
  /\ registered' = TRUE /\ mine' = Asked /\ renamed' = (Asked # First)
  /\ toClient' = toClient \o
       <<[Line("001", Server, Channel, "text") EXCEPT !.mine = Asked],
         [Line("376", Server, Channel, "text") EXCEPT !.mine = Asked]>>
  /\ UNCHANGED <<theirs, owed>>

Rename ==
  /\ Reads("NICK") /\ ~SameNick(Asked, theirs) /\ registered
  /\ mine' = Asked
  /\ toClient' = IF Asked = mine THEN toClient
                 ELSE Append(toClient, Line("NICK", mine, Asked, "text"))
  /\ UNCHANGED <<registered, theirs, renamed, owed>>

-----------------------------------------------------------------------------
(* The server speaks, for itself or for the other user. *)

Says(cmd, from, target, body) ==
  /\ registered /\ said < MaxSaid /\ said' = said + 1
  /\ toClient' = Append(toClient, Line(cmd, from, target, body))
  /\ UNCHANGED <<session, toServer, registered, mine, renamed, dropped, asked>>

SayPing ==
  /\ Says("PING", Server, Channel, "text")
  /\ owed' = owed \cup {said}
  /\ UNCHANGED theirs

(* The other user writes our nick in the case it likes. *)
SaySpeech(cmd, target, body) ==
  /\ target = Channel \/ SameNick(target, mine)
  /\ Says(cmd, theirs, target, body)
  /\ UNCHANGED <<theirs, owed>>

SayMode(target) ==
  /\ target \in {mine, Channel}
  /\ Says("MODE", theirs, target, "text")
  /\ UNCHANGED <<theirs, owed>>

SayOther(cmd) ==
  /\ Says(cmd, theirs, Channel, "text")
  /\ UNCHANGED <<theirs, owed>>

SayNick(n) ==
  /\ ~SameNick(n, mine) /\ n # theirs
  /\ Says("NICK", theirs, n, "text")
  /\ theirs' = n
  /\ UNCHANGED owed

ServerReads == ReadPong \/ NickInUse \/ Welcome \/ Rename
ServerSays ==
  \/ SayPing
  \/ \E t \in Nick \cup {Channel} :
       \/ \E b \in Bodies : SaySpeech("PRIVMSG", t, b)
       \/ \E b \in {"text", "request"} : SaySpeech("NOTICE", t, b)
       \/ SayMode(t)
  \/ \E cmd \in Plain \cup {"KILL", "422"} : SayOther(cmd)
  \/ \E n \in Nick : SayNick(n)

Next == Handle \/ (\E n \in Nick : AskNick(n)) \/ ServerReads \/ ServerSays

Spec == Init /\ [][Next]_vars

(* irc_run handles what it has received, and the server reads what it is    *)
(* sent.                                                                    *)
FairSpec == Spec /\ WF_vars(Handle) /\ WF_vars(ServerReads)

-----------------------------------------------------------------------------
(* Properties. *)

Cmds == Codes \cup Plain \cup {"PING", "NICK", "MODE", "PRIVMSG", "NOTICE", "KILL", "none"}
Lines == [cmd : Cmds, mine : Nick, from : Nick \cup {Server},
          target : Nick \cup {Channel}, body : Bodies,
          token : Tokens]
Ours == [cmd : {"NICK", "PONG"}, nick : Nick, token : Tokens]
Events == Plain \cup {"none", "numeric", "nick", "umode", "mode", "ctcp_action", "ctcp_req",
                      "ctcp_rep", "privmsg", "channel", "notice", "channel_notice"}

TypeOK ==
  /\ nick \in Nick /\ mine \in Nick /\ theirs \in Nick
  /\ motd_received \in BOOLEAN /\ registered \in BOOLEAN
  /\ renamed \in BOOLEAN /\ dropped \in BOOLEAN
  /\ connects \in 0..2
  /\ last \in [cmd : Cmds, target : Nick \cup {Channel}, body : Bodies, event : Events]
  /\ toServer \in Seq(Ours)
  /\ toClient \in Seq(Lines)
  /\ owed \subseteq Tokens
  /\ said \in 0..MaxSaid /\ asked \in 0..MaxAsked

(* No nick in use begins with another one. *)
Distinct == \A n, m \in Nick : <<n, m>> \in Starts => n = m

(* The nick by which the server knew us at the line to be handled next. *)
Followed == IF toClient = <<>> THEN mine ELSE This.mine

(* session->nick is, at every point of the stream of lines, the nick the    *)
(* server knew us by at that point, through every renaming of ours and of   *)
(* others: provided that we got the nick we asked for first, and that no    *)
(* nick begins with another one.                                            *)
NickFollows == Distinct /\ ~renamed => nick = Followed

(* "The privmsg event is triggered upon receipt of a PRIVMSG message which  *)
(* is addressed to one or more clients", the channel event of one "to an    *)
(* entire channel", and so on: the event a line gives is the one of its     *)
(* addressee, however the sender wrote our nick.                            *)
Addressed(private, public) ==
  last.event = IF last.target = Channel THEN public ELSE private
RightEvent ==
  Distinct /\ ~renamed =>
    /\ last.cmd = "MODE" => Addressed("umode", "mode")
    /\ last.cmd = "PRIVMSG" /\ last.body = "text" => Addressed("privmsg", "channel")
    /\ last.cmd = "NOTICE" /\ last.body = "text" =>
         Addressed("notice", "channel_notice")

(* The connect event, which starts the ping thread, comes once in a         *)
(* session, however often the server sends its message of the day.          *)
ConnectOnce == connects <= 1

TokensOf(lines, cmd) ==
  {lines[i].token : i \in {j \in 1..Len(lines) : lines[j].cmd = cmd}}

(* Every PING unanswered is one that is still to be handled or whose PONG,  *)
(* with its token, is on its way: none is answered wrongly or forgotten,    *)
(* unless the outgoing buffer was full.                                     *)
PongsOwed ==
  ~dropped => owed = TokensOf(toClient, "PING") \cup TokensOf(toServer, "PONG")

(* The server gets an answer to every PING, and does not time us out. *)
PingsAnswered == \A t \in Tokens : t \in owed ~> t \notin owed \/ dropped

(* "If we're changed our nick, we should save it": the same for any nicks.  *)
(* Not kept when a nick begins with ours (MCDispatch's LongStarts): its new *)
(* one is saved for ours.                                                   *)
NickSaved == ~renamed /\ toClient = <<>> => nick = mine

(* A private message is a private message even to one who had to take       *)
(* another nick than the first one asked for.  Not kept: the nick the       *)
(* server gave is not saved, and the channel event is given.                *)
PrivateIsPrivate ==
  last.cmd = "PRIVMSG" /\ last.body = "text" => Addressed("privmsg", "channel")

=============================================================================
