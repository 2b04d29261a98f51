--------------------------------- MODULE Lines ---------------------------------
(***************************************************************************)
(* The texts that pass through the daemon: how libircclient cuts a line of *)
(* the server into prefix, command and parameters and takes a CTCP message *)
(* out of its frame, and how wIRCd turns the text of a command into what   *)
(* it sends and the parameters of a line into the JSON of an event.        *)
(*                                                                         *)
(* A text is a sequence of characters, a character a string.  What is      *)
(* never taken apart (a command, a name, "ACTION ") is one character.      *)
(***************************************************************************)
EXTENDS Naturals, Sequences, SequencesExt

CONSTANTS MaxParams,   \* MAX_PARAMS_ALLOWED
          MaxCtcp      \* sizeof(ctcp_buf) - 1 of a PRIVMSG

(* A line of three parameters, the most a command has, is taken whole. *)
ASSUME LimitAssumption == MaxParams \in Nat /\ MaxParams >= 3 /\ MaxCtcp \in Nat \ {0}

Space == " "
Colon == ":"
Quote == "\""
Backslash == "\\"
Comma == ","
Soh == "^A"
Action == "ACTION "
Dcc == "DCC "

(* A null pointer, which vsnprintf prints as glibc does. *)
NULL == <<"(null)">>

-----------------------------------------------------------------------------
(* The parser: libirc_process_incoming_data up to the dispatch. *)

Word(t) == SubSeq(t, 1, SelectInSeq(t \o <<Space>>, LAMBDA c : c = Space) - 1)

(* What is behind the first word and the space that ends it. *)
Rest(t) == SubSeq(t, Len(Word(t)) + 2, Len(t))

(* A word at the end of the line has its terminator stepped over, and the   *)
(* parser goes on in what the stack holds there.                            *)
Beyond(t, stack) == IF Contains(t, Space) THEN Rest(t) ELSE stack

(* Mutant: only the first parameter may be the trailing one. *)
TakeParamFirst(s) ==
  CASE s.rest = <<>> -> s
    [] s.params = <<>> /\ s.rest # <<>> /\ Head(s.rest) = Colon ->
         [params |-> <<Tail(s.rest)>>, rest |-> <<>>]
    [] OTHER -> [params |-> Append(s.params, Word(s.rest)), rest |-> Rest(s.rest)]

(* One round of the loop over the parameters. *)
TakeParam(s) ==
  CASE s.rest = <<>> -> s
    [] s.rest # <<>> /\ Head(s.rest) = Colon ->
         [params |-> Append(s.params, Tail(s.rest)), rest |-> <<>>]
    [] OTHER -> [params |-> Append(s.params, Word(s.rest)), rest |-> Rest(s.rest)]

(* The loop, round after round. *)
Taking(t) ==
  LET after[n \in 0..MaxParams] ==
        IF n = 0 THEN [params |-> <<>>, rest |-> t] ELSE TakeParam(after[n - 1])
  IN after

Params(t) == Taking(t)[MaxParams].params

(* LIBIRC_OPTION_STRIPNICKS is never set here: the prefix stays whole. *)
Parse(t, stack) ==
  LET prefixed == t # <<>> /\ Head(t) = Colon
      body == IF prefixed THEN Beyond(t, stack) ELSE t
  IN [prefix  |-> IF prefixed THEN Tail(Word(t)) ELSE NULL,
      command |-> Word(body),
      params  |-> Params(Beyond(body, stack))]

-----------------------------------------------------------------------------
(* What the dispatch makes of the parameters.  Which event a line gives is  *)
(* in Dispatch; here it is what the event says.                             *)

IsCtcp(t) == t # <<>> /\ Head(t) = Soh /\ Last(t) = Soh

First(t, n) == SubSeq(t, 1, IF Len(t) < n THEN Len(t) ELSE n)

(* The text without its frame; of a lone SOH, whose length minus two wraps  *)
(* around, nothing is left but the terminator.  wIRCd registers no DCC      *)
(* callback: a DCC request is told to nobody (see Dcc).                     *)
Unframed(t) == First(SubSeq(t, 2, Len(t) - 1), MaxCtcp)

Nothing == [event |-> <<"nothing">>, params |-> <<>>]
Crash == [event |-> <<"crash">>, params |-> <<>>]
Event(event, params) == [event |-> event, params |-> params]

Privmsg(ps) ==
  IF Len(ps) < 2 THEN Nothing
  ELSE IF ~IsCtcp(ps[2]) THEN Event(<<"PRIVMSG">>, ps)
  ELSE LET text == Unframed(ps[2])
       IN IF text # <<>> /\ Head(text) = Action
          THEN Event(<<"ACTION">>, <<ps[1], Tail(text)>>)
          ELSE IF text # <<>> /\ Head(text) = Dcc THEN Nothing
          ELSE Event(<<"CTCP">>, <<text>>)

(* strlen of a parameter that is not there comes before the test of their   *)
(* number.  The buffer of a NOTICE holds any line.                          *)
Notice(ps) ==
  IF Len(ps) < 2 THEN Crash
  ELSE IF IsCtcp(ps[2]) THEN Event(<<"CTCP">>, <<SubSeq(ps[2], 2, Len(ps[2]) - 1)>>)
  ELSE Event(<<"NOTICE">>, ps)

(* A MODE of ours keeps its second parameter only, there or not. *)
Mode(ps, nick) ==
  IF ps # <<>> /\ ps[1] = nick
  THEN IF Len(ps) < 2 THEN Crash ELSE Event(<<"MODE">>, <<ps[2]>>)
  ELSE Event(<<"MODE">>, ps)

(* The prefix of a NICK is searched for the end of the nick in it. *)
Nick(prefix, ps) == IF prefix = NULL THEN Crash ELSE Event(<<"NICK">>, ps)

(* The first numeric of a session to end the message of the day is told as  *)
(* CONNECT, too, before it is told as itself.                               *)
EndOfMotd == {<<"376">>, <<"422">>}
Connects(p, motd_received) == p.command \in EndOfMotd /\ ~motd_received

(* handle_event_connect copies the prefix, there or not.  A numeric is read *)
(* as an integer and printed as one.                                        *)
Numeric(p, motd_received) ==
  IF Connects(p, motd_received) /\ p.prefix = NULL THEN Crash
  ELSE Event(IF p.command = <<"001">> THEN <<"1">> ELSE p.command, p.params)

Told(p, nick, motd_received) ==
  LET command == p.command
  IN CASE command = <<"PRIVMSG">> -> Privmsg(p.params)
       [] command = <<"NOTICE">> -> Notice(p.params)
       [] command = <<"MODE">> -> Mode(p.params, nick)
       [] command = <<"NICK">> -> Nick(p.prefix, p.params)
       [] command = <<"001">> \/ command \in EndOfMotd -> Numeric(p, motd_received)
       [] command = <<"KILL">> \/ (command = <<"PING">> /\ p.params # <<>>) -> Nothing
       [] OTHER -> Event(command, p.params)

-----------------------------------------------------------------------------
(* The two ends of wIRCd. *)

(* Mutant: quotes are copied as they are. *)
EscapedAsIs(t) == t

(* process_event writes a backslash before each quote, and nothing before a *)
(* backslash.                                                               *)
Escaped(t) == FlattenSeq([i \in DOMAIN t |->
                            IF t[i] = Quote THEN <<Backslash, Quote>> ELSE <<t[i]>>])

(* The "params" of the reply. *)
ToJson(params) ==
  FlattenSeq([i \in DOMAIN params |->
    (IF i = 1 THEN <<>> ELSE <<Comma>>) \o <<Quote>> \o Escaped(params[i]) \o <<Quote>>])

(* process_command takes out a backslash before a quote, from left to right. *)
Unescaped(t) ==
  FlattenSeq([i \in DOMAIN t |->
    IF t[i] = Backslash /\ i < Len(t) /\ t[i + 1] = Quote THEN <<>> ELSE <<t[i]>>])

=============================================================================
