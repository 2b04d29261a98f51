----------------------------- MODULE Conversation -----------------------------
(***************************************************************************)
(* Two applications talk through two daemons and a server.  The first      *)
(* calls a command, its daemon (Commands) sends a line, the server passes  *)
(* the line on with the sender in front, and the second daemon (Lines)     *)
(* parses it and replies to a subscription.  The server has lines of its   *)
(* own too.  The applications and the server are the environment; both     *)
(* applications write and read JSON as it is defined.                      *)
(***************************************************************************)
EXTENDS Commands

CONSTANTS Chars,     \* what texts are made of
          OwnWords,  \* the words after the first of the server's own lines
          MaxText,   \* bound: characters of a text
          MaxOwn     \* bound: characters of a text of the server's own lines

ASSUME TextAssumption == MaxText \in Nat /\ MaxOwn \in Nat /\ MaxOwn <= MaxText

(* A text is a parameter in the middle of a line if the protocol says so. *)
IsMiddle(w) == w # <<>> /\ w[1] # Colon /\ ~Contains(w, Space)

ASSUME WordAssumption ==
  OwnWords \in Seq(Seq(Chars)) /\ \A i \in DOMAIN OwnWords : IsMiddle(OwnWords[i])

VARIABLES
  asked,    \* what the first application called: command and fields, before JSON
  sent,     \* the line its daemon queued, and the reply to the application
  said,     \* what the server means by the line it says
  wire,     \* the line
  heard,    \* what the second application was told
  welcome,  \* the server has ended its message of the day on this connection
  motd      \* session->motd_received of the second daemon

lines == <<asked, sent, said, wire, heard>>
conversation == <<lines, welcome, motd>>

Texts == BoundedSeq(Chars, MaxText)
OwnTexts == BoundedSeq(Chars, MaxOwn)

Us == <<"us">>          \* the first user
You == <<"you">>        \* the nick of the second
Channel == <<"#c">>
Sender == <<Colon>> \o Us

(* The fields of each command that are one word, and the one of any text.   *)
Words == [msg |-> {"nch"}, me |-> {"nch"}, notice |-> {"nch"}, join |-> {"channel"},
          part |-> {"channel"}, invite |-> {"nick", "channel"}, names |-> {"channel"},
          list |-> {"channel"}, topic |-> {"channel"}, channel_mode |-> {"channel", "mode"},
          kick |-> {"nick", "channel"}, nick |-> {"nick"}, quit |-> {}, whois |-> {"nick"},
          user_mode |-> {"mode"}, ping |-> {"server", "command"}, away |-> {},
          raw |-> {"command"}, disconnect |-> {}]
TextField == [msg |-> "text", me |-> "text", notice |-> "text", join |-> "key",
              topic |-> "topic", kick |-> "reason", quit |-> "reason", away |-> "reason"]
CommandNames == DOMAIN Words
WithText == DOMAIN TextField

NoFields == [x \in Fields |-> NULL]
Unasked == [cmd |-> "none", f |-> NoFields]
Unsent == [line |-> Refused, reply |-> 0]
Unsaid == [prefix |-> NULL, command |-> <<>>, params |-> <<>>, own |-> FALSE,
           first |-> FALSE]
Unheard == [connect |-> FALSE, event |-> <<>>, origin |-> <<>>, json |-> <<>>]

Silence == asked = Unasked /\ said = Unsaid

ConversationInit ==
  /\ asked = Unasked /\ sent = Unsent /\ said = Unsaid /\ wire = <<>>
  /\ heard = Unheard
  /\ welcome = FALSE /\ motd = FALSE

-----------------------------------------------------------------------------
(* The first application and its daemon. *)

(* A string of a JSON document, as json_get_string leaves it. *)
JsonString(t) ==
  IF t = NULL THEN NULL
  ELSE FlattenSeq([i \in DOMAIN t |->
         IF t[i] \in {Quote, Backslash} THEN <<Backslash, t[i]>> ELSE <<t[i]>>])

Ask(cmd, f) ==
  /\ \/ \E taken, unlocked \in BOOLEAN :
          sent' = Command(cmd, [x \in Fields |-> JsonString(f[x])], Us, taken, unlocked)
     \/ sent' \in {Unknown, Untold}
  /\ asked' = [cmd |-> cmd, f |-> f]
  /\ UNCHANGED <<said, wire, heard, welcome, motd>>

AskWords(cmd) ==
  Silence /\ \E given \in SUBSET Words[cmd] :
    Ask(cmd, [x \in Fields |-> IF x \in given THEN <<x>> ELSE NULL])

AskText(cmd) ==
  Silence /\ \E given \in SUBSET Words[cmd], t \in Texts :
    Ask(cmd, [x \in Fields |-> CASE x \in given -> <<x>> [] x = TextField[cmd] -> t
                                 [] OTHER -> NULL])

-----------------------------------------------------------------------------
(* The server. *)

Relayed == {"msg", "me", "notice", "join", "part", "invite", "topic", "channel_mode",
            "kick", "nick", "quit"}

Relay ==
  /\ asked.cmd \in Relayed /\ sent.line # Refused /\ said = Unsaid
  /\ wire' = Sender \o <<Space>> \o sent.line
  /\ said' = [Unsaid EXCEPT !.prefix = Us]
  /\ UNCHANGED <<asked, sent, heard, welcome, motd>>

Middles(ws) == FlattenSeq([i \in DOMAIN ws |-> More(ws[i])])

(* A line of the server's own: at least one space between words, perhaps    *)
(* two in one place, any text at the end or none.  first: it is the first   *)
(* to end the message of the day.                                           *)
Say(prefix, command, words, texts, gap) ==
  /\ said' = [prefix |-> prefix, command |-> command, params |-> words \o texts,
              own |-> ~gap, first |-> command \in EndOfMotd /\ ~welcome]
  /\ welcome' = (welcome \/ command \in EndOfMotd)
  /\ wire' = (IF prefix = NULL THEN <<>> ELSE <<Colon>> \o prefix \o <<Space>>)
             \o command \o (IF gap THEN <<Space>> ELSE <<>>) \o Middles(words)
             \o (IF texts = <<>> THEN <<>> ELSE Trailing(texts[1]))
  /\ UNCHANGED <<asked, sent, heard, motd>>

Servers == <<"server">>
OwnCommands == {<<"001">>, <<"376">>, <<"422">>, <<"MODE">>, <<"NOTICE">>, <<"PRIVMSG">>,
                <<"PING">>, <<"KILL">>, <<"NICK">>}
OwnSpeech == OwnTexts \cup {<<Soh, Dcc, "x", Soh>>, <<Soh, Action, "x", Soh>>}

SayOwn ==
  Silence /\ \E prefix \in {NULL, Servers}, command \in OwnCommands, n \in 0..(Len(OwnWords) + 1),
     target \in {You, Channel}, gap \in BOOLEAN,
     texts \in {<<>>} \cup {<<t>> : t \in OwnSpeech} :
    Say(prefix, command, [i \in 1..n |-> IF i = 1 THEN target ELSE OwnWords[i - 1]],
        texts, gap)

-----------------------------------------------------------------------------
(* The second daemon and its application. *)

(* What a parser that steps over the end of a line finds there: nothing, or *)
(* what an earlier line left on the stack.                                  *)
Stack == {<<>>, <<"old">>}

(* connect: CONNECT was told first, with the same origin and parameters.    *)
Handle ==
  /\ said # Unsaid /\ heard = Unheard
  /\ \E found \in Stack :
       LET p == Parse(wire, found)
           e == Told(p, You, motd)
       IN /\ heard' = [connect |-> Connects(p, motd) /\ p.prefix # NULL,
                       event |-> e.event,
                       origin |-> IF p.prefix = NULL THEN <<>> ELSE p.prefix,
                       json |-> ToJson(e.params)]
          /\ motd' = (motd \/ p.command \in EndOfMotd)
  /\ UNCHANGED <<asked, sent, said, wire, welcome>>

(* The line is over, and perhaps the connection: it is after a crash, when  *)
(* upstart starts the daemon anew.  irc_connect begins without a message of *)
(* the day.                                                                 *)
Settle ==
  /\ asked # Unasked \/ said # Unsaid
  /\ said # Unsaid => heard # Unheard
  /\ asked' = Unasked /\ sent' = Unsent /\ said' = Unsaid /\ wire' = <<>>
  /\ heard' = Unheard
  /\ \/ welcome' = FALSE /\ motd' = FALSE
     \/ heard.event # Crash.event /\ UNCHANGED <<welcome, motd>>

ConversationNext ==
  \/ \E cmd \in CommandNames : AskWords(cmd)
  \/ \E cmd \in WithText : AskText(cmd)
  \/ Relay
  \/ SayOwn
  \/ Handle
  \/ Settle

-----------------------------------------------------------------------------
(* What the documents promise, told without the code's operators. *)

(* The lines that mean a command with these parameters: each a word, and    *)
(* the last one a word or, behind a colon, anything.                        *)
Spellings(command, ps) ==
  LET lead == SubSeq(ps, 1, Len(ps) - 1)
      AllMiddle(ws) == \A i \in DOMAIN ws : IsMiddle(ws[i])
  IN (IF AllMiddle(ps) THEN {command \o Middles(ps)} ELSE {})
     \cup (IF ps # <<>> /\ AllMiddle(lead)
           THEN {command \o Middles(lead) \o <<Space, Colon>> \o Last(ps)} ELSE {})

(* A JSON reader of a list of strings: Garbled if it is not one. *)
Garbled == <<<<"garbled">>>>

ReadChar(s, c) ==
  CASE s.at = "out" /\ c = Quote -> [at |-> "in", list |-> Append(s.list, <<>>)]
    [] s.at = "out" /\ c = Comma -> s
    [] s.at = "in" /\ c = Quote -> [s EXCEPT !.at = "out"]
    [] s.at = "in" /\ c = Backslash -> [s EXCEPT !.at = "escape"]
    [] s.at = IF c \in {Quote, Backslash} THEN "escape" ELSE "in" ->
         [at |-> "in", list |-> Front(s.list) \o <<Append(Last(s.list), c)>>]
    [] OTHER -> [s EXCEPT !.at = "wrong"]

ReadingJson(json) ==
  LET read[n \in 0..Len(json)] ==
        IF n = 0 THEN [at |-> "out", list |-> <<>>] ELSE ReadChar(read[n - 1], json[n])
  IN read

ReadJson(json) ==
  LET end == ReadingJson(json)[Len(json)]
  IN IF end.at = "out" THEN end.list ELSE Garbled

(* The protocol's command and, in its order, the fields a command is about; *)
(* the first so many of them must be given.                                 *)
Protocol == [
  msg |-> [command |-> <<"PRIVMSG">>, fields |-> <<"nch", "text">>, needs |-> 2],
  me |-> [command |-> <<"PRIVMSG">>, fields |-> <<"nch", "text">>, needs |-> 2],
  notice |-> [command |-> <<"NOTICE">>, fields |-> <<"nch", "text">>, needs |-> 2],
  join |-> [command |-> <<"JOIN">>, fields |-> <<"channel", "key">>, needs |-> 1],
  part |-> [command |-> <<"PART">>, fields |-> <<"channel">>, needs |-> 1],
  invite |-> [command |-> <<"INVITE">>, fields |-> <<"nick", "channel">>, needs |-> 2],
  names |-> [command |-> <<"NAMES">>, fields |-> <<"channel">>, needs |-> 1],
  list |-> [command |-> <<"LIST">>, fields |-> <<"channel">>, needs |-> 0],
  topic |-> [command |-> <<"TOPIC">>, fields |-> <<"channel", "topic">>, needs |-> 1],
  channel_mode |-> [command |-> <<"MODE">>, fields |-> <<"channel", "mode">>, needs |-> 1],
  kick |-> [command |-> <<"KICK">>, fields |-> <<"channel", "nick", "reason">>, needs |-> 2],
  nick |-> [command |-> <<"NICK">>, fields |-> <<"nick">>, needs |-> 1],
  quit |-> [command |-> <<"QUIT">>, fields |-> <<"reason">>, needs |-> 0],
  whois |-> [command |-> <<"WHOIS">>, fields |-> <<"nick", "nick">>, needs |-> 2],
  user_mode |-> [command |-> <<"MODE">>, fields |-> <<"mode">>, needs |-> 0],
  ping |-> [command |-> <<"PING">>, fields |-> <<"server">>, needs |-> 1],
  away |-> [command |-> <<"AWAY">>, fields |-> <<"reason">>, needs |-> 0]]

(* What wIRCd makes up: a text that is missing is empty, a reason to quit   *)
(* is "quit", a mode is our own.                                            *)
MadeUp(cmd, x, w) ==
  IF w # NULL THEN <<w>>
  ELSE IF x = "text" THEN <<<<>>>> ELSE IF cmd = "quit" THEN <<<<"quit">>>> ELSE <<>>

Meant(cmd, f) ==
  LET fields == Protocol[cmd].fields
  IN (IF cmd = "user_mode" THEN <<Us>> ELSE <<>>)
     \o FlattenSeq([i \in DOMAIN fields |-> MadeUp(cmd, fields[i], f[fields[i]])])

Text(a) == IF a.cmd \in WithText THEN a.f[TextField[a.cmd]] ELSE NULL
Lacks(t, c) == ~Contains(t, c)

(* An action in its frame. *)
MeantLine(a) ==
  LET ps == Meant(a.cmd, a.f)
  IN IF a.cmd = "me" THEN <<ps[1], <<Soh, Action>> \o ps[2] \o <<Soh>>>> ELSE ps

(* An application is told of success exactly when one line was queued, and  *)
(* the line says to the server what the application asked: nothing missing, *)
(* nothing added, wherever spaces, colons and quotes are in the text.  Not  *)
(* so: the replies to ping and disconnect; raw, whose parameter is lost; a  *)
(* ping with the parameter command or without server; quotes in a field     *)
(* other than text, and backslashes in any, which keep what JSON put before *)
(* them.                                                                    *)
SentAsAsked ==
  LET cmd == asked.cmd
      fields == Protocol[cmd].fields
      misread == cmd = "ping" /\ (asked.f["command"] # NULL \/ asked.f["server"] = NULL)
      kept == Lacks(Text(asked), Backslash)
              /\ (cmd \in {"msg", "me", "notice"} \/ Lacks(Text(asked), Quote))
  IN asked # Unasked =>
       /\ cmd \notin {"ping", "disconnect"} => (sent.reply = 0 <=> sent.line # Refused)
       /\ sent.line # Refused /\ cmd # "raw" /\ ~misread =>
            /\ \A i \in 1..Protocol[cmd].needs : fields[i] = "text" \/ asked.f[fields[i]] # NULL
            /\ kept => sent.line \in Spellings(Protocol[cmd].command, MeantLine(asked))

(* The second application is told what the first one asked, whatever quotes *)
(* and backslashes are in a message: what one daemon fails to take out, the *)
(* other fails to put in.  An action is cut where ctcp_buf ends, which may  *)
(* be between the two backslashes of one.                                   *)
RelayedAsAsked ==
  LET t == Text(asked)
      now == ReadJson(heard.json)
      to == asked.f["nch"]
  IN heard # Unheard /\ asked # Unasked =>
       /\ heard.origin = Us
       /\ asked.cmd = "me" /\ t # NULL =>
            /\ heard.event = <<"ACTION">>
            /\ 2 * Len(t) < MaxCtcp => now = <<to, t>>
            /\ Lacks(t, Backslash) => now = <<to, First(t, MaxCtcp - 1)>>
       /\ asked.cmd # "me" /\ (IF asked.cmd \in {"msg", "notice"}
                               THEN t = NULL \/ ~(t # <<>> /\ t[1] = Soh /\ Last(t) = Soh)
                               ELSE Lacks(t, Quote)) =>
            /\ heard.event = Protocol[asked.cmd].command
            /\ now = Meant(asked.cmd, asked.f)

(* A line of the server's own is told as it was meant: its origin, its      *)
(* command and its first MaxParams parameters, spaces and colons in the     *)
(* last one included; and CONNECT is told with the line that ends the       *)
(* message of the day for the first time on a connection, and with no other.*)
(* This is for lines that servers send (a NICK names its user, the first    *)
(* end of the message of the day its server, a NOTICE has a text, a MODE of *)
(* ours a mode; the daemon crashes on others), with parameters, one space   *)
(* between any two, and no backslash, which wIRCd does not escape.  CTCP is *)
(* not meant for the user, and numerics lose the zeros they begin with.     *)
ToldAsSaid ==
  LET ps == said.params
      c == said.command
      proper == /\ c \in {<<"NOTICE">>, <<"PRIVMSG">>, <<"MODE">>} => Len(ps) >= 2
                /\ c = <<"NICK">> \/ said.first => said.prefix # NULL
      plain == /\ \A i \in DOMAIN ps : Lacks(ps[i], Backslash)
               /\ c \in {<<"NOTICE">>, <<"PRIVMSG">>} =>
                    ~(ps[2] # <<>> /\ ps[2][1] = Soh /\ Last(ps[2]) = Soh)
  IN heard # Unheard /\ said.own /\ ps # <<>> /\ proper /\ plain =>
       /\ heard.connect = said.first
       /\ IF c \in {<<"PING">>, <<"KILL">>} THEN heard.event = Nothing.event
          ELSE
            /\ heard.event = c \/ c = <<"001">>
            /\ said.prefix # NULL => heard.origin = said.prefix
            /\ ReadJson(heard.json) = IF c = <<"MODE">> /\ ps[1] = You THEN <<ps[2]>>
                                      ELSE First(ps, MaxParams)

=============================================================================
