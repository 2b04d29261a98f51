------------------------------- MODULE Commands -------------------------------
(***************************************************************************)
(* The commands of an application: what process_command reads from the     *)
(* call, the irc_cmd_ function it calls, the line this formats and the     *)
(* reply.  What the commands do to the client and to its mutex and buffer  *)
(* is in ClientLifecycle, PingPong and OutgoingBuffer: here the mutex is   *)
(* free or not, and the session takes a line or does not.                  *)
(***************************************************************************)
EXTENDS Lines, Integers

Fields == {"nch", "text", "channel", "key", "nick", "topic", "reason", "mode",
           "server", "command"}

-----------------------------------------------------------------------------
(* The irc_cmd_ functions: the line they format, or Refused when a          *)
(* parameter is missing.                                                    *)

Refused == <<>>

More(w) == <<Space>> \o w
Trailing(w) == <<Space, Colon>> \o w
Given(w) == w # NULL

(* Mutant: the colon is missing. *)
MsgUnmarked(nch, text) ==
  IF Given(nch) THEN <<"PRIVMSG">> \o More(nch) \o More(text) ELSE Refused

irc_cmd_msg(nch, text) ==
  IF Given(nch) /\ Given(text) THEN <<"PRIVMSG">> \o More(nch) \o Trailing(text) ELSE Refused

irc_cmd_me(nch, text) ==
  IF Given(nch) /\ Given(text)
  THEN <<"PRIVMSG">> \o More(nch) \o Trailing(<<Soh, Action>>) \o text \o <<Soh>> ELSE Refused

irc_cmd_notice(nch, text) ==
  IF Given(nch) /\ Given(text) THEN <<"NOTICE">> \o More(nch) \o Trailing(text) ELSE Refused

irc_cmd_join(channel, key) ==
  IF ~Given(channel) THEN Refused
  ELSE <<"JOIN">> \o More(channel) \o IF Given(key) THEN Trailing(key) ELSE <<>>

irc_cmd_part(channel) == IF Given(channel) THEN <<"PART">> \o More(channel) ELSE Refused

irc_cmd_invite(nick, channel) ==
  IF Given(channel) /\ Given(nick) THEN <<"INVITE">> \o More(nick) \o More(channel)
  ELSE Refused

irc_cmd_names(channel) == IF Given(channel) THEN <<"NAMES">> \o More(channel) ELSE Refused

irc_cmd_list(channel) == <<"LIST">> \o IF Given(channel) THEN More(channel) ELSE <<>>

irc_cmd_topic(channel, topic) ==
  IF ~Given(channel) THEN Refused
  ELSE <<"TOPIC">> \o More(channel) \o IF Given(topic) THEN Trailing(topic) ELSE <<>>

irc_cmd_channel_mode(channel, mode) ==
  IF ~Given(channel) THEN Refused
  ELSE <<"MODE">> \o More(channel) \o IF Given(mode) THEN More(mode) ELSE <<>>

irc_cmd_kick(nick, channel, comment) ==
  IF ~Given(channel) \/ ~Given(nick) THEN Refused
  ELSE <<"KICK">> \o More(channel) \o More(nick)
       \o IF Given(comment) THEN Trailing(comment) ELSE <<>>

irc_cmd_nick(newnick) == IF Given(newnick) THEN <<"NICK">> \o More(newnick) ELSE Refused

irc_cmd_quit(reason) ==
  <<"QUIT">> \o Trailing(IF Given(reason) THEN reason ELSE <<"quit">>)

irc_cmd_whois(nick) ==
  IF Given(nick) THEN <<"WHOIS">> \o More(nick) \o More(nick) ELSE Refused

irc_cmd_user_mode(nick, mode) ==
  <<"MODE">> \o More(nick) \o IF Given(mode) THEN More(mode) ELSE <<>>

irc_custom_cmd_away(reason) ==
  <<"AWAY">> \o IF Given(reason) THEN Trailing(reason) ELSE <<>>

-----------------------------------------------------------------------------

(* The parameter command is read into server, and command stays null. *)
ReadFields(f) == [f EXCEPT !["server"] = IF Given(f["command"]) THEN f["command"] ELSE @,
                           !["command"] = NULL]

(* The text is an array, empty when there is none: it is never null. *)
ReadText(f) == IF Given(f["text"]) THEN Unescaped(f["text"]) ELSE <<>>

(* The line that a command makes for a client known to its server as nick. *)
Format(cmd, g, nick) ==
  LET f == ReadFields(g)
      text == ReadText(g)
  IN CASE cmd = "msg" -> irc_cmd_msg(f["nch"], text)
       [] cmd = "me" -> irc_cmd_me(f["nch"], text)
       [] cmd = "notice" -> irc_cmd_notice(f["nch"], text)
       [] cmd = "join" -> irc_cmd_join(f["channel"], f["key"])
       [] cmd = "part" -> irc_cmd_part(f["channel"])
       [] cmd = "invite" -> irc_cmd_invite(f["nick"], f["channel"])
       [] cmd = "names" -> irc_cmd_names(f["channel"])
       [] cmd = "list" -> irc_cmd_list(f["channel"])
       [] cmd = "topic" -> irc_cmd_topic(f["channel"], f["topic"])
       [] cmd = "channel_mode" -> irc_cmd_channel_mode(f["channel"], f["mode"])
       [] cmd = "kick" -> irc_cmd_kick(f["nick"], f["channel"], f["reason"])
       [] cmd = "nick" -> irc_cmd_nick(f["nick"])
       [] cmd = "quit" -> irc_cmd_quit(f["reason"])
       [] cmd = "whois" -> irc_cmd_whois(f["nick"])
       [] cmd = "user_mode" -> irc_cmd_user_mode(nick, f["mode"])
       [] cmd = "ping" -> <<"PING">> \o More(f["server"])
       [] cmd = "away" -> irc_custom_cmd_away(f["reason"])
       [] cmd = "raw" -> f["command"]

(* irc_send_raw: 0 for a line that was taken, 1 for one that was not. *)
SendRaw(line, taken) ==
  [line |-> IF taken THEN line ELSE Refused, reply |-> IF taken /\ line # Refused THEN 0 ELSE 1]

(* The answers without a client: an error, or none at all without a         *)
(* sessionToken.                                                            *)
NoReply == 2
Unknown == [line |-> Refused, reply |-> -1]
Untold == [line |-> Refused, reply |-> NoReply]

(* process_command.  disconnect sends nothing, and leaves the -1 it began   *)
(* with; ping does not look whether its line was taken.                     *)
Command(cmd, f, nick, taken, unlocked) ==
  CASE cmd = "disconnect" -> [line |-> Refused, reply |-> -1]
    [] cmd = "ping" /\ ~unlocked -> [line |-> Refused, reply |-> 1]
    [] cmd = "ping" /\ unlocked -> [SendRaw(Format(cmd, f, nick), taken) EXCEPT !.reply = 0]
    [] OTHER -> SendRaw(Format(cmd, f, nick), taken)

=============================================================================
