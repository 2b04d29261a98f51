----------------------------- MODULE SessionProofs -----------------------------
(***************************************************************************)
(* Proofs about a session of libircclient.c: what its lines do (Dispatch), *)
(* and the engine that connects and runs it (IrcSession).                  *)
(*                                                                         *)
(* Of the lines, for any nicks and any number of lines.  At the centre is  *)
(* Chain: the lines still to be handled carry, one after the other, the    *)
(* nicks the server knew us by, each being what the line before it left;   *)
(* session->nick follows them, one line at a time.                         *)
(***************************************************************************)
EXTENDS Dispatch, IrcSession, TLAPS

USE NameAssumption

LEMMA AppendFacts ==
  ASSUME NEW S, NEW s \in Seq(S), NEW e \in S
  PROVE  /\ Append(s, e) \in Seq(S) /\ Append(s, e) # <<>>
         /\ Len(Append(s, e)) = Len(s) + 1
         /\ \A i \in 1..Len(s) : Append(s, e)[i] = s[i]
         /\ Append(s, e)[Len(s) + 1] = e
OBVIOUS

LEMMA TailFacts ==
  ASSUME NEW S, NEW s \in Seq(S), s # <<>>
  PROVE  /\ Tail(s) \in Seq(S) /\ Head(s) \in S /\ Head(s) = s[1]
         /\ Len(s) \in Nat \ {0}
         /\ Len(Tail(s)) = Len(s) - 1
         /\ \A i \in 1..(Len(s) - 1) : Tail(s)[i] = s[i + 1]
OBVIOUS

-----------------------------------------------------------------------------
(* Which nicks, codes and so on there are: the type invariant. *)

LEMMA NoneTyped ==
  None \in [cmd : Cmds, target : Nick \cup {Channel}, body : Bodies, event : Events]
BY DEF None, Cmds, Bodies, Events

LEMMA LineTyped ==
  ASSUME TypeOK, NEW cmd \in Cmds, NEW from \in Nick \cup {Server},
         NEW target \in Nick \cup {Channel}, NEW body \in Bodies
  PROVE  Line(cmd, from, target, body) \in Lines
BY DEF TypeOK, Line, Lines, Tokens

(* What every handled line does, but for the answer to PING. *)
LEMMA GivesTyped ==
  ASSUME TypeOK, toClient # <<>>, NEW event \in Events, Gives(event)
  PROVE  /\ toClient' \in Seq(Lines)
         /\ last' \in [cmd : Cmds, target : Nick \cup {Channel}, body : Bodies, event : Events]
<1>1. This \in Lines /\ toClient' \in Seq(Lines)
  BY TailFacts DEF TypeOK, Gives, This
<1> QED
  BY <1>1 DEF Gives, Lines

(* Only a nick is ever renamed to. *)
NickLines == \A i \in 1..Len(toClient) : toClient[i].cmd = "NICK" => toClient[i].target \in Nick

Typed == TypeOK /\ NickLines

LEMMA NickLinesTail ==
  ASSUME Typed, toClient # <<>>, toClient' = Tail(toClient)
  PROVE  NickLines'
BY TailFacts DEF Typed, TypeOK, NickLines

LEMMA NickLinesAppend ==
  ASSUME Typed, NEW l \in Lines, toClient' = Append(toClient, l),
         l.cmd = "NICK" => l.target \in Nick
  PROVE  NickLines' /\ toClient' \in Seq(Lines)
<1>1. /\ toClient' \in Seq(Lines)
      /\ Len(toClient') = Len(toClient) + 1
      /\ \A i \in 1..Len(toClient) : toClient'[i] = toClient[i]
      /\ toClient'[Len(toClient) + 1] = l
  BY AppendFacts DEF Typed, TypeOK
<1>2. Len(toClient) \in Nat
  BY DEF Typed, TypeOK
<1>3. \A i \in 1..Len(toClient') : i \in 1..Len(toClient) \/ i = Len(toClient) + 1
  BY <1>1, <1>2
<1> QED
  BY <1>1, <1>3 DEF Typed, NickLines

LEMMA TypedInit == Init => Typed
<1> SUFFICES ASSUME Init PROVE Typed
  OBVIOUS
<1>1. Ask(First) \in Ours /\ <<Ask(First)>> \in Seq(Ours)
  BY DEF Ask, Ours, Tokens
<1>2. toClient \in Seq(Lines) /\ NickLines
  BY DEF Init, NickLines
<1>3. nick \in Nick /\ mine \in Nick /\ theirs \in Nick
  BY DEF Init
<1>4. /\ motd_received \in BOOLEAN /\ registered \in BOOLEAN
      /\ renamed \in BOOLEAN /\ dropped \in BOOLEAN
  BY DEF Init
<1>5. connects \in 0..2 /\ said \in 0..MaxSaid /\ asked \in 0..MaxAsked /\ owed \subseteq Tokens
  BY DEF Init
<1>6. last = None /\ toServer = <<Ask(First)>>
  BY DEF Init
<1> QED
  BY <1>1, <1>2, <1>3, <1>4, <1>5, <1>6, NoneTyped DEF Typed, TypeOK

LEMMA TypedHandle == Typed /\ Handle => Typed'
<1> SUFFICES ASSUME Typed, Handle PROVE Typed'
  OBVIOUS
<1>1. toClient # <<>> /\ toClient' = Tail(toClient)
  BY DEF Handle, HandlePing, HandleNumeric, HandleNick, HandleMode, HandlePrivmsg,
         HandleNotice, HandlePlain, Is, Gives
<1>2. This \in Lines /\ This = toClient[1] /\ 1 \in 1..Len(toClient) /\ toClient' \in Seq(Lines)
  BY <1>1, TailFacts DEF Typed, TypeOK, This
<1>3. NickLines'
  BY <1>1, NickLinesTail
<1>4. CASE HandlePing
  <2>1. Pong(This.token) \in Ours
    BY <1>2 DEF Pong, Lines, Ours
  <2>2. toServer' \in Seq(Ours)
    <3>1. toServer \in Seq(Ours)
      BY DEF Typed, TypeOK
    <3>2. toServer' = toServer \/ toServer' = Append(toServer, Pong(This.token))
      BY <1>4 DEF HandlePing
    <3> QED
      BY <2>1, <3>1, <3>2, AppendFacts
  <2> QED
    BY <1>2, <1>3, <1>4, <2>2 DEF HandlePing, Typed, TypeOK, Ours, session, server
<1>5. CASE HandleNumeric
  <2>1. Gives("numeric") /\ "numeric" \in Events
    BY <1>5 DEF HandleNumeric, Events
  <2>2. motd_received' \in BOOLEAN /\ connects' \in 0..2
    <3>1. motd_received \in BOOLEAN /\ connects \in 0..2
      BY DEF Typed, TypeOK
    <3>2. motd_received' \in BOOLEAN
      BY <1>5, <3>1, Zenon DEF HandleNumeric
    <3>3. connects' = connects \/ connects' = IF connects < 2 THEN connects + 1 ELSE 2
      BY <1>5 DEF HandleNumeric
    <3> QED
      BY <3>1, <3>2, <3>3
  <2> QED
    BY <1>1, <1>3, <1>5, <2>1, <2>2, GivesTyped DEF HandleNumeric, Typed, TypeOK, server
<1>6. CASE HandleNick
  <2>1. Gives("nick") /\ "nick" \in Events
    BY <1>6 DEF HandleNick, Events
  <2>2. nick' \in Nick
    BY <1>2, <1>6 DEF HandleNick, Is, Typed, NickLines, TypeOK
  <2> QED
    BY <1>1, <1>3, <1>6, <2>1, <2>2, GivesTyped DEF HandleNick, Typed, TypeOK, server
<1>7. CASE HandleMode
  <2>1. \E e \in Events : Gives(e)
    BY <1>7 DEF HandleMode, Events
  <2> QED
    BY <1>1, <1>3, <1>7, <2>1, GivesTyped DEF HandleMode, Typed, TypeOK, server
<1>8. CASE HandlePrivmsg
  <2>1. \E e \in Events : Gives(e)
    BY <1>2, <1>8 DEF HandlePrivmsg, Events, Ctcp, Lines, Bodies
  <2> QED
    BY <1>1, <1>3, <1>8, <2>1, GivesTyped DEF HandlePrivmsg, Typed, TypeOK, server
<1>9. CASE HandleNotice
  <2>1. \E e \in Events : Gives(e)
    BY <1>9 DEF HandleNotice, Events
  <2> QED
    BY <1>1, <1>3, <1>9, <2>1, GivesTyped DEF HandleNotice, Typed, TypeOK, server
<1>10. CASE HandlePlain
  <2>1. \E e \in Events : Gives(e)
    BY <1>10 DEF HandlePlain, Is, Events
  <2> QED
    BY <1>1, <1>3, <1>10, <2>1, GivesTyped DEF HandlePlain, Typed, TypeOK, server
<1> QED
  BY <1>4, <1>5, <1>6, <1>7, <1>8, <1>9, <1>10 DEF Handle

LEMMA TypedAsk == Typed /\ (\E n \in Nick : AskNick(n)) => Typed'
<1> SUFFICES ASSUME Typed, NEW n \in Nick, AskNick(n) PROVE Typed'
  OBVIOUS
<1>1. Ask(n) \in Ours
  BY DEF Ask, Ours, Tokens
<1>2. toServer' \in Seq(Ours)
  <2>1. toServer \in Seq(Ours)
    BY DEF Typed, TypeOK
  <2> QED
    BY <1>1, <2>1, AppendFacts DEF AskNick
<1>3. asked' \in 0..MaxAsked
  BY DEF AskNick, Typed, TypeOK
<1> QED
  BY <1>2, <1>3 DEF AskNick, Typed, TypeOK, NickLines, session, server

(* What we said last is read: toServer loses its head. *)
LEMMA ReadsTyped ==
  ASSUME Typed, NEW cmd, Reads(cmd)
  PROVE  /\ toServer # <<>> /\ toServer' \in Seq(Ours)
         /\ Head(toServer) = toServer[1] /\ 1 \in 1..Len(toServer)
         /\ Asked \in Nick /\ Head(toServer).token \in Tokens
<1>1. toServer \in Seq(Ours) /\ toServer # <<>> /\ toServer' = Tail(toServer)
  BY DEF Typed, TypeOK, Reads
<1>2. Head(toServer) \in Ours /\ Head(toServer) = toServer[1] /\ 1 \in 1..Len(toServer)
      /\ toServer' \in Seq(Ours)
  BY <1>1, TailFacts
<1> QED
  BY <1>1, <1>2 DEF Asked, Ours

LEMMA TypedReads == Typed /\ ServerReads => Typed'
<1> SUFFICES ASSUME Typed, ServerReads PROVE Typed'
  OBVIOUS
<1>1. toServer' \in Seq(Ours) /\ Asked \in Nick
  BY ReadsTyped DEF ServerReads, ReadPong, NickInUse, Welcome, Rename
<1>2. toClient' \in Seq(Lines) /\ NickLines'
  <2>1. CASE ReadPong \/ (Rename /\ toClient' = toClient)
    BY <2>1 DEF ReadPong, Typed, TypeOK, NickLines
  <2>2. CASE NickInUse
    <3>1. Line("433", Server, Channel, "text") \in Lines
      BY LineTyped DEF Typed, Cmds, Codes, Bodies
    <3> QED
      BY <2>2, <3>1, NickLinesAppend DEF NickInUse, Line
  <2>3. CASE Welcome
    <3> DEFINE a == [Line("001", Server, Channel, "text") EXCEPT !.mine = Asked]
               b == [Line("376", Server, Channel, "text") EXCEPT !.mine = Asked]
    <3>1. /\ Line("001", Server, Channel, "text") \in Lines
          /\ Line("376", Server, Channel, "text") \in Lines
      BY LineTyped DEF Typed, Cmds, Codes, Bodies
    <3>2. a \in Lines /\ b \in Lines /\ a.cmd = "001" /\ b.cmd = "376"
      BY <1>1, <3>1 DEF Lines, Line
    <3>3. toClient' = toClient \o <<a, b>>
      BY <2>3 DEF Welcome
    <3>4. toClient \in Seq(Lines)
      BY DEF Typed, TypeOK
    <3>5. /\ toClient' \in Seq(Lines) /\ Len(toClient') = Len(toClient) + 2
          /\ \A i \in 1..Len(toClient) : toClient'[i] = toClient[i]
          /\ toClient'[Len(toClient) + 1] = a /\ toClient'[Len(toClient) + 2] = b
      <4> HIDE DEF a, b
      <4> QED
        BY <3>2, <3>3, <3>4
    <3>6. \A i \in 1..Len(toClient') :
            i \in 1..Len(toClient) \/ i = Len(toClient) + 1 \/ i = Len(toClient) + 2
      BY <3>4, <3>5
    <3> QED
      BY <3>2, <3>5, <3>6 DEF Typed, NickLines
  <2>4. CASE Rename /\ toClient' # toClient
    <3>1. Line("NICK", mine, Asked, "text") \in Lines
      BY <1>1, LineTyped DEF Typed, TypeOK, Cmds, Bodies
    <3> QED
      BY <1>1, <2>4, <3>1, NickLinesAppend DEF Rename, Line
  <2> QED
    BY <2>1, <2>2, <2>3, <2>4 DEF ServerReads
<1>3. mine' \in Nick /\ theirs' \in Nick /\ registered' \in BOOLEAN /\ renamed' \in BOOLEAN
      /\ owed' \subseteq Tokens
  BY <1>1 DEF ServerReads, ReadPong, NickInUse, Welcome, Rename, server, Typed, TypeOK
<1>4. UNCHANGED <<session, said, asked, dropped>>
  BY DEF ServerReads, ReadPong, NickInUse, Welcome, Rename, Reads
<1> QED
  BY <1>1, <1>2, <1>3, <1>4 DEF Typed, TypeOK, session

(* A line the server says of its own accord, whoever it is from. *)
Speaks(l) ==
  /\ registered /\ said < MaxSaid /\ said' = said + 1
  /\ l \in Lines /\ l.mine = mine /\ l.token = said
  /\ l.cmd = "NICK" => l.target \in Nick /\ l.from = theirs
  /\ l.cmd = "MODE" => l.target \in {mine, Channel}
  /\ l.cmd \in {"PRIVMSG", "NOTICE"} => l.target = Channel \/ SameNick(l.target, mine)
  /\ owed' = IF l.cmd = "PING" THEN owed \cup {said} ELSE owed
  /\ theirs' = theirs \/ (theirs' \in Nick /\ ~SameNick(theirs', mine))
  /\ toClient' = Append(toClient, l)
  /\ UNCHANGED <<session, toServer, registered, mine, renamed, dropped, asked>>

LEMMA Speaking == Typed /\ ServerSays => \E l : Speaks(l)
<1> SUFFICES ASSUME Typed, ServerSays PROVE \E l : Speaks(l)
  OBVIOUS
<1>1. theirs \in Nick /\ mine \in Nick /\ said \in Nat
  BY DEF Typed, TypeOK
<1>2. CASE SayPing
  <2> DEFINE l == Line("PING", Server, Channel, "text")
  <2>1. l \in Lines
    BY LineTyped DEF Typed, Cmds, Bodies
  <2>2. Speaks(l)
    BY <1>2, <2>1 DEF SayPing, Says, Speaks, Line
  <2> QED
    BY <2>2
<1>3. ASSUME NEW cmd \in {"PRIVMSG", "NOTICE"}, NEW t \in Nick \cup {Channel},
             NEW b \in Bodies, SaySpeech(cmd, t, b)
      PROVE  \E l : Speaks(l)
  <2> DEFINE l == Line(cmd, theirs, t, b)
  <2>1. l \in Lines
    BY <1>1, <1>3, LineTyped DEF Typed, Cmds
  <2>2. Speaks(l)
    BY <1>3, <2>1 DEF SaySpeech, Says, Speaks, Line
  <2> QED
    BY <2>2
<1>4. ASSUME NEW t \in Nick \cup {Channel}, SayMode(t)
      PROVE  \E l : Speaks(l)
  <2> DEFINE l == Line("MODE", theirs, t, "text")
  <2>1. l \in Lines
    BY <1>1, LineTyped DEF Typed, Cmds, Bodies
  <2>2. Speaks(l)
    BY <1>4, <2>1 DEF SayMode, Says, Speaks, Line
  <2> QED
    BY <2>2
<1>5. ASSUME NEW cmd \in Plain \cup {"KILL", "422"}, SayOther(cmd)
      PROVE  \E l : Speaks(l)
  <2> DEFINE l == Line(cmd, theirs, Channel, "text")
  <2>1. l \in Lines
    BY <1>1, LineTyped DEF Typed, Cmds, Codes, Bodies
  <2>2. cmd \notin {"NICK", "PING", "MODE", "PRIVMSG", "NOTICE"}
    OBVIOUS
  <2>3. Speaks(l)
    BY <1>5, <2>1, <2>2 DEF SayOther, Says, Speaks, Line
  <2> QED
    BY <2>3
<1>6. ASSUME NEW n \in Nick, SayNick(n)
      PROVE  \E l : Speaks(l)
  <2> DEFINE l == Line("NICK", theirs, n, "text")
  <2>1. l \in Lines
    BY <1>1, LineTyped DEF Typed, Cmds, Bodies
  <2>2. Speaks(l)
    BY <1>6, <2>1 DEF SayNick, Says, Speaks, Line
  <2> QED
    BY <2>2
<1> QED
  BY <1>2, <1>3, <1>4, <1>5, <1>6 DEF ServerSays, Bodies

LEMMA TypedSpeaks ==
  ASSUME Typed, NEW l, Speaks(l)
  PROVE  Typed'
<1>1. toClient' \in Seq(Lines) /\ NickLines'
  BY NickLinesAppend DEF Speaks
<1>2. theirs' \in Nick /\ said' \in 0..MaxSaid
  BY DEF Speaks, Typed, TypeOK
<1>3. owed' \subseteq Tokens
  BY DEF Speaks, Typed, TypeOK, Tokens
<1> QED
  BY <1>1, <1>2, <1>3 DEF Speaks, Typed, TypeOK, session

LEMMA TypedSays == Typed /\ ServerSays => Typed'
BY Speaking, TypedSpeaks

LEMMA TypedStep == Typed /\ [Next]_vars => Typed'
<1>1. Typed /\ UNCHANGED vars => Typed'
  BY DEF Typed, TypeOK, NickLines, vars, session, server
<1> QED
  BY <1>1, TypedHandle, TypedAsk, TypedReads, TypedSays DEF Next

(* The session, the two streams and the server always hold what the model   *)
(* says they hold.                                                          *)
THEOREM Typing == Spec => []TypeOK
<1>1. Typed => TypeOK
  BY DEF Typed
<1> QED
  BY <1>1, TypedInit, TypedStep, PTL DEF Spec

-----------------------------------------------------------------------------
(* The nick we go by, along the stream of lines. *)

(* The nick the server knows us by once it has said the line l. *)
After(l) == IF l.cmd = "NICK" /\ l.from = l.mine THEN l.target ELSE l.mine

ChainOf(s, m) ==
  /\ \A i \in 1..(Len(s) - 1) : s[i + 1].mine = After(s[i])
  /\ s # <<>> => m = After(s[Len(s)])

NickAt(s, m) == IF s = <<>> THEN m ELSE s[1].mine

LEMMA ChainAppend ==
  ASSUME NEW s \in Seq(Lines), NEW l \in Lines, ChainOf(s, l.mine)
  PROVE  /\ ChainOf(Append(s, l), After(l))
         /\ NickAt(Append(s, l), After(l)) = NickAt(s, l.mine)
<1> DEFINE t == Append(s, l)
<1>1. /\ t \in Seq(Lines) /\ t # <<>> /\ Len(t) = Len(s) + 1 /\ Len(s) \in Nat
      /\ \A i \in 1..Len(s) : t[i] = s[i]
      /\ t[Len(s) + 1] = l
  BY AppendFacts
<1>2. s # <<>> => Len(s) >= 1
  OBVIOUS
<1>3. s = <<>> => Len(s) = 0
  OBVIOUS
<1> HIDE DEF t
<1>4. ASSUME NEW i \in 1..(Len(t) - 1) PROVE t[i + 1].mine = After(t[i])
  <2>1. CASE i = Len(s)
    BY <1>1, <1>3, <2>1 DEF ChainOf
  <2>2. CASE i \in 1..(Len(s) - 1)
    BY <1>1, <2>2 DEF ChainOf
  <2> QED
    BY <1>1, <2>1, <2>2
<1>5. ChainOf(t, After(l))
  BY <1>1, <1>4 DEF ChainOf
<1>6. NickAt(t, After(l)) = NickAt(s, l.mine)
  BY <1>1, <1>2, <1>3 DEF NickAt
<1> QED
  BY <1>5, <1>6 DEF t

LEMMA ChainTail ==
  ASSUME NEW s \in Seq(Lines), s # <<>>, NEW m, ChainOf(s, m)
  PROVE  ChainOf(Tail(s), m) /\ NickAt(Tail(s), m) = After(s[1])
<1> DEFINE t == Tail(s)
<1>1. /\ t \in Seq(Lines) /\ Len(s) \in Nat \ {0} /\ Len(t) = Len(s) - 1
      /\ \A i \in 1..(Len(s) - 1) : t[i] = s[i + 1]
  BY TailFacts
<1> HIDE DEF t
<1>5. t = <<>> <=> Len(t) = 0
  BY <1>1
<1>2. ASSUME NEW i \in 1..(Len(t) - 1) PROVE t[i + 1].mine = After(t[i])
  <2>1. t[i] = s[i + 1] /\ t[i + 1] = s[i + 2] /\ i + 1 \in 1..(Len(s) - 1)
    BY <1>1
  <2> QED
    BY <2>1 DEF ChainOf
<1>3. t # <<>> => m = After(t[Len(t)])
  BY <1>1, <1>5 DEF ChainOf
<1>4. NickAt(t, m) = After(s[1])
  BY <1>1, <1>5 DEF NickAt, ChainOf
<1> QED
  BY <1>2, <1>3, <1>4 DEF t, ChainOf

(* A line for us names us by a nick that was ours when it was said. *)
ForUs(l) ==
  /\ l.cmd = "MODE" => l.target \in {l.mine, Channel}
  /\ l.cmd \in {"PRIVMSG", "NOTICE"} => l.target = Channel \/ SameNick(l.target, l.mine)

(* The server keeps our nick and the other user's apart. *)
Apart ==
  /\ registered => ~SameNick(theirs, mine)
  /\ ~registered => mine = First /\ ~renamed

Chain == ~renamed => ChainOf(toClient, mine)
AllForUs == \A i \in 1..Len(toClient) : ForUs(toClient[i])

Following == Typed /\ Apart /\ Chain /\ AllForUs /\ NickFollows /\ RightEvent

LEMMA FollowedIsFirst ==
  ASSUME Typed
  PROVE  Followed = NickAt(toClient, mine) /\ (Followed = NickAt(toClient, mine))'
BY DEF Followed, NickAt, This

LEMMA FollowingInit == Init => Following
BY TypedInit DEF Init, Following, Typed, Apart, Chain, ChainOf, AllForUs, NickFollows,
                 RightEvent, Followed, None, Addressed

(* What every handled line does to the stream. *)
LEMMA HandleTakes ==
  Typed /\ Handle =>
    /\ toClient \in Seq(Lines) /\ toClient # <<>> /\ toClient' = Tail(toClient)
    /\ This = toClient[1] /\ This \in Lines /\ 1 \in 1..Len(toClient)
    /\ UNCHANGED server
BY TailFacts DEF Handle, HandlePing, HandleNumeric, HandleNick, HandleMode, HandlePrivmsg,
       HandleNotice, HandlePlain, Is, Gives, Typed, TypeOK, This

LEMMA FollowingHandle == Following /\ Handle => Following'
<1> SUFFICES ASSUME Following, Handle PROVE Following'
  OBVIOUS
<1>1. Typed /\ Typed'
  BY TypedHandle DEF Following
<1>2. /\ toClient \in Seq(Lines) /\ toClient # <<>> /\ toClient' = Tail(toClient)
      /\ This = toClient[1] /\ This \in Lines /\ 1 \in 1..Len(toClient)
      /\ UNCHANGED <<registered, mine, theirs, renamed>>
  BY <1>1, HandleTakes DEF server
<1>3. Apart'
  BY <1>2 DEF Following, Apart
<1>4. ~renamed => Chain' /\ NickAt(toClient', mine') = After(This)
  BY <1>2, ChainTail DEF Following, Chain
<1>5. AllForUs'
  BY <1>2, TailFacts DEF Following, AllForUs
<1>6. Distinct /\ ~renamed => nick = This.mine
  BY <1>2 DEF Following, NickFollows, Followed
<1>7. ForUs(This)
  BY <1>2 DEF Following, AllForUs
<1>8. NickFollows'
  <2> SUFFICES ASSUME Distinct, ~renamed PROVE nick' = After(This)
    BY <1>1, <1>2, <1>4 DEF NickFollows, Distinct, Followed, NickAt, This
  <2>1. CASE HandleNick
    <3>1. nick \in Nick /\ StartsFold \subseteq Nick \X Nick
      BY <1>1 DEF Typed, TypeOK
    <3>2. <<This.from, nick>> \in Starts <=> This.from = nick
      BY <3>1 DEF Distinct
    <3> QED
      BY <1>6, <2>1, <3>2 DEF HandleNick, Is, After
  <2>2. CASE ~HandleNick
    <3>1. nick' = nick /\ This.cmd # "NICK"
      BY <2>2 DEF Handle, HandlePing, HandleNumeric, HandleMode, HandlePrivmsg, HandleNotice,
                  HandlePlain, Is, Codes, session
    <3> QED
      BY <1>6, <3>1 DEF After
  <2> QED
    BY <2>1, <2>2
<1>9. RightEvent'
  <2> SUFFICES ASSUME Distinct, ~renamed PROVE RightEvent'
    BY <1>2 DEF RightEvent, Distinct
  <2>1. CASE HandlePing
    BY <1>2, <2>1 DEF HandlePing, Following, RightEvent, Addressed, session, Distinct
  <2>2. CASE HandleNumeric \/ HandleNick \/ HandlePlain
    <3>1. last'.cmd \notin {"MODE", "PRIVMSG", "NOTICE"}
      BY <2>2 DEF HandleNumeric, HandleNick, HandlePlain, Is, Gives, Codes
    <3> QED
      BY <3>1 DEF RightEvent
  <2>3. This.target # Channel => This.target \in Nick
    BY <1>2 DEF Lines
  <2>4. nick = This.mine /\ <<Channel, nick>> \notin StartsFold /\ <<nick, nick>> \in Starts
    BY <1>1, <1>6 DEF Typed, TypeOK
  <2>5. CASE HandleMode
    BY <1>7, <2>3, <2>4, <2>5 DEF HandleMode, Is, Gives, RightEvent, Addressed, ForUs
  <2>6. CASE HandlePrivmsg
    BY <1>7, <2>3, <2>4, <2>6
       DEF HandlePrivmsg, Is, Gives, RightEvent, Addressed, ForUs, SameNick
  <2>7. CASE HandleNotice
    BY <1>7, <2>3, <2>4, <2>7
       DEF HandleNotice, Is, Gives, RightEvent, Addressed, ForUs, SameNick
  <2> QED
    BY <2>1, <2>2, <2>5, <2>6, <2>7 DEF Handle
<1> QED
  BY <1>1, <1>2, <1>3, <1>4, <1>5, <1>8, <1>9 DEF Following, Chain


LEMMA FollowingAppend ==
  ASSUME Following, NEW l \in Lines, l.mine = mine, ForUs(l),
         toClient' = Append(toClient, l), mine' = After(l),
         UNCHANGED <<nick, renamed, last>>
  PROVE  Chain' /\ AllForUs' /\ NickFollows' /\ RightEvent'
<1>1. toClient \in Seq(Lines)
  BY DEF Following, Typed, TypeOK
<1>2. ~renamed => Chain' /\ NickAt(toClient', mine') = NickAt(toClient, mine)
  BY <1>1, ChainAppend DEF Following, Chain
<1>3. Chain'
  BY <1>2 DEF Chain
<1>4. AllForUs'
  <2>1. \A i \in 1..Len(toClient') : i \in 1..Len(toClient) \/ i = Len(toClient) + 1
    BY <1>1, AppendFacts
  <2> QED
    BY <1>1, <2>1, AppendFacts DEF AllForUs, Following
<1>5. NickFollows'
  BY <1>2 DEF Following, NickFollows, Distinct, Followed, NickAt, This
<1>6. RightEvent'
  BY DEF Following, RightEvent, Distinct, Addressed
<1> QED
  BY <1>3, <1>4, <1>5, <1>6

LEMMA FollowingReads == Following /\ ServerReads => Following'
<1> SUFFICES ASSUME Following, ServerReads PROVE Following'
  OBVIOUS
<1>1. Typed /\ Typed' /\ Asked \in Nick /\ mine \in Nick
  BY TypedReads, ReadsTyped
     DEF Following, ServerReads, ReadPong, NickInUse, Welcome, Rename, Typed, TypeOK
<1>2. UNCHANGED <<nick, last>>
  BY DEF ServerReads, ReadPong, NickInUse, Welcome, Rename, Reads, session
<1>3. CASE ReadPong \/ (Rename /\ Asked = mine)
  <2>1. UNCHANGED <<toClient, mine, renamed, registered, theirs>>
    BY <1>3 DEF ReadPong, Rename, server
  <2> QED
    BY <1>1, <1>2, <2>1 DEF Following, Apart, Chain, AllForUs, NickFollows, RightEvent,
       Followed, This, Distinct, Addressed
<1>4. CASE NickInUse
  <2> DEFINE l == Line("433", Server, Channel, "text")
  <2>1. l \in Lines
    BY <1>1, LineTyped DEF Typed, Cmds, Codes, Bodies
  <2>2. l.mine = mine /\ ForUs(l) /\ After(l) = mine
    BY DEF Line, ForUs, After
  <2>3. toClient' = Append(toClient, l) /\ UNCHANGED <<mine, renamed, registered, theirs>>
    BY <1>4 DEF NickInUse, server
  <2> HIDE DEF l
  <2> QED
    BY <1>1, <1>2, <2>1, <2>2, <2>3, FollowingAppend DEF Following, Apart
<1>5. CASE Rename /\ Asked # mine
  <2> DEFINE l == Line("NICK", mine, Asked, "text")
  <2>1. l \in Lines
    BY <1>1, LineTyped DEF Typed, Cmds, Bodies
  <2>2. l.mine = mine /\ ForUs(l) /\ After(l) = Asked
    BY DEF Line, ForUs, After
  <2>3. toClient' = Append(toClient, l) /\ mine' = Asked
        /\ UNCHANGED <<renamed, registered, theirs>>
    BY <1>5 DEF Rename
  <2>4. Apart'
    BY <1>5, <2>3 DEF Rename, Apart, Following, SameNick
  <2> HIDE DEF l
  <2> QED
    BY <1>1, <1>2, <2>1, <2>2, <2>3, <2>4, FollowingAppend DEF Following
<1>6. CASE Welcome
  <2> DEFINE a == [Line("001", Server, Channel, "text") EXCEPT !.mine = Asked]
             b == [Line("376", Server, Channel, "text") EXCEPT !.mine = Asked]
  <2>1. a \in Lines /\ b \in Lines /\ a.cmd = "001" /\ b.cmd = "376"
        /\ a.mine = Asked /\ b.mine = Asked
    <3>1. /\ Line("001", Server, Channel, "text") \in Lines
          /\ Line("376", Server, Channel, "text") \in Lines
      BY <1>1, LineTyped DEF Typed, Cmds, Codes, Bodies
    <3> QED
      BY <1>1, <3>1 DEF Lines, Line
  <2>2. /\ toClient' = toClient \o <<a, b>> /\ mine' = Asked /\ mine = First
        /\ renamed' = (Asked # First) /\ ~renamed /\ theirs' = theirs /\ registered' = TRUE
        /\ ~SameNick(Asked, theirs) /\ toClient \in Seq(Lines)
    BY <1>1, <1>6 DEF Welcome, Following, Apart, Typed, TypeOK
  <2> HIDE DEF a, b
  <2> DEFINE s == Append(toClient, a)
  <2>3. s \in Seq(Lines) /\ toClient' = Append(s, b)
    BY <2>1, <2>2
  <2>4. After(a) = Asked /\ After(b) = Asked /\ ForUs(a) /\ ForUs(b)
    BY <2>1 DEF After, ForUs
  <2>5. ~renamed' => /\ ChainOf(toClient', mine')
                     /\ NickAt(toClient', mine') = NickAt(toClient, mine)
    <3> SUFFICES ASSUME Asked = First
                 PROVE  /\ ChainOf(Append(s, b), Asked)
                        /\ NickAt(Append(s, b), Asked) = NickAt(toClient, Asked)
      BY <2>2, <2>3
    <3>1. ChainOf(s, Asked) /\ NickAt(s, Asked) = NickAt(toClient, Asked)
      BY <2>1, <2>2, <2>4, ChainAppend DEF Following, Chain
    <3> QED
      BY <2>1, <2>3, <2>4, <3>1, ChainAppend
  <2>6. AllForUs'
    <3>1. /\ \A i \in 1..Len(toClient) : toClient'[i] = toClient[i]
          /\ toClient'[Len(toClient) + 1] = a /\ toClient'[Len(toClient) + 2] = b
          /\ Len(toClient') = Len(toClient) + 2
      BY <2>1, <2>2
    <3>2. \A i \in 1..Len(toClient') :
            i \in 1..Len(toClient) \/ i = Len(toClient) + 1 \/ i = Len(toClient) + 2
      BY <2>2, <3>1
    <3> QED
      BY <2>4, <3>1, <3>2 DEF AllForUs, Following
  <2>7. NickFollows' /\ RightEvent'
    BY <1>2, <2>2, <2>5 DEF Following, NickFollows, RightEvent, Distinct, Followed, NickAt,
       This, Addressed
  <2>8. Apart'
    BY <2>2 DEF Apart, SameNick
  <2> QED
    BY <1>1, <2>5, <2>6, <2>7, <2>8 DEF Following, Chain
<1> QED
  BY <1>3, <1>4, <1>5, <1>6 DEF ServerReads

LEMMA FollowingSays == Following /\ ServerSays => Following'
<1> SUFFICES ASSUME Following, NEW l, Speaks(l) PROVE Following'
  BY Speaking DEF Following
<1>1. Typed'
  BY TypedSpeaks DEF Following
<1>2. registered /\ ~SameNick(theirs, mine) /\ mine \in Nick /\ theirs # mine
  BY DEF Speaks, Following, Apart, Typed, TypeOK, SameNick
<1>3. l \in Lines /\ l.mine = mine /\ ForUs(l) /\ After(l) = mine
  BY <1>2 DEF Speaks, ForUs, After
<1>4. toClient' = Append(toClient, l) /\ UNCHANGED <<nick, last, mine, renamed, registered>>
  BY DEF Speaks, session
<1>5. Apart'
  BY <1>2, <1>4 DEF Speaks, Apart, Following
<1> QED
  BY <1>1, <1>3, <1>4, <1>5, FollowingAppend DEF Following

LEMMA FollowingStep == Following /\ [Next]_vars => Following'
<1>1. Following /\ (UNCHANGED vars \/ \E n \in Nick : AskNick(n)) => Following'
  <2> SUFFICES ASSUME Following, UNCHANGED vars \/ \E n \in Nick : AskNick(n)
               PROVE  Following'
    OBVIOUS
  <2>1. Typed'
    BY TypedStep DEF Following, Next
  <2>2. UNCHANGED <<nick, last, toClient, mine, renamed, registered, theirs>>
    BY DEF vars, session, server, AskNick
  <2> QED
    BY <2>1, <2>2 DEF Following, Apart, Chain, AllForUs, NickFollows, RightEvent,
       Followed, This, Distinct, Addressed
<1> QED
  BY <1>1, FollowingHandle, FollowingReads, FollowingSays DEF Next

(* Where no nick begins with another one, and we got the nick we asked for  *)
(* first, session->nick is at every line the nick the server knew us by.    *)
THEOREM NickIsFollowed == Spec => []NickFollows
<1>1. Following => NickFollows
  BY DEF Following
<1> QED
  BY <1>1, FollowingInit, FollowingStep, PTL DEF Spec

(* And then every message and mode becomes the event of its addressee.      *)
THEOREM EventsAreRight == Spec => []RightEvent
<1>1. Following => RightEvent
  BY DEF Following
<1> QED
  BY <1>1, FollowingInit, FollowingStep, PTL DEF Spec

-----------------------------------------------------------------------------
(* The connect event, and the PINGs that are owed a PONG. *)

Counted == connects = IF motd_received THEN 1 ELSE 0

LEMMA CountedStep == Counted /\ [Next]_vars => Counted'
<1> SUFFICES ASSUME Counted, [Next]_vars PROVE Counted'
  OBVIOUS
<1>1. CASE HandleNumeric
  BY <1>1 DEF HandleNumeric, Counted
<1>2. CASE ~HandleNumeric
  <2>1. UNCHANGED <<motd_received, connects>>
    <3>1. CASE ServerSays
      BY <3>1 DEF ServerSays, SayPing, SaySpeech, SayMode, SayOther, SayNick, Says, session
    <3>2. CASE ServerReads
      BY <3>2 DEF ServerReads, ReadPong, NickInUse, Welcome, Rename, Reads, session
    <3>3. CASE Handle
      BY <1>2, <3>3 DEF Handle, HandlePing, HandleNick, HandleMode, HandlePrivmsg,
                        HandleNotice, HandlePlain, session
    <3>4. CASE UNCHANGED vars \/ \E n \in Nick : AskNick(n)
      BY <3>4 DEF vars, session, AskNick
    <3> QED
      BY <3>1, <3>2, <3>3, <3>4 DEF Next
  <2> QED
    BY <2>1 DEF Counted
<1> QED
  BY <1>1, <1>2

(* The connect event comes at most once in a session. *)
THEOREM OneConnectEvent == Spec => []ConnectOnce
<1>1. Init => Counted
  BY DEF Init, Counted
<1>2. Counted => ConnectOnce
  BY DEF Counted, ConnectOnce
<1> QED
  BY <1>1, <1>2, CountedStep, PTL DEF Spec

Once(s, cmd) ==
  \A i, j \in 1..Len(s) : s[i].cmd = cmd /\ s[j].cmd = cmd /\ i # j => s[i].token # s[j].token

LEMMA TokensAppend ==
  ASSUME NEW S, NEW s \in Seq(S), NEW e \in S, NEW cmd
  PROVE  /\ TokensOf(Append(s, e), cmd) =
              TokensOf(s, cmd) \cup (IF e.cmd = cmd THEN {e.token} ELSE {})
         /\ Once(s, cmd) /\ (e.cmd = cmd => e.token \notin TokensOf(s, cmd)) =>
              Once(Append(s, e), cmd)
<1> DEFINE t == Append(s, e)
<1>1. /\ Len(t) = Len(s) + 1 /\ Len(s) \in Nat
      /\ \A i \in 1..Len(s) : t[i] = s[i]
      /\ t[Len(s) + 1] = e
  BY AppendFacts
<1> HIDE DEF t
<1>2. 1..Len(t) = 1..Len(s) \cup {Len(s) + 1} /\ Len(s) + 1 \notin 1..Len(s)
  BY <1>1
<1>3. TokensOf(t, cmd) = TokensOf(s, cmd) \cup (IF e.cmd = cmd THEN {e.token} ELSE {})
  BY <1>1, <1>2 DEF TokensOf
<1>4. Once(s, cmd) /\ (e.cmd = cmd => e.token \notin TokensOf(s, cmd)) => Once(t, cmd)
  BY <1>1, <1>2 DEF TokensOf, Once
<1> QED
  BY <1>3, <1>4 DEF t

LEMMA OtherAppend ==
  ASSUME NEW S, NEW s \in Seq(S), NEW e \in S, NEW cmd, e.cmd # cmd, Once(s, cmd)
  PROVE  TokensOf(Append(s, e), cmd) = TokensOf(s, cmd) /\ Once(Append(s, e), cmd)
<1>1. TokensOf(Append(s, e), cmd) =
        TokensOf(s, cmd) \cup (IF e.cmd = cmd THEN {e.token} ELSE {})
  BY TokensAppend
<1>2. Once(Append(s, e), cmd)
  BY TokensAppend
<1> QED
  BY <1>1, <1>2

LEMMA TokensTail ==
  ASSUME NEW S, NEW s \in Seq(S), s # <<>>, NEW cmd
  PROVE  /\ TokensOf(s, cmd) =
              TokensOf(Tail(s), cmd) \cup (IF s[1].cmd = cmd THEN {s[1].token} ELSE {})
         /\ Once(s, cmd) => /\ Once(Tail(s), cmd)
                            /\ s[1].cmd = cmd => s[1].token \notin TokensOf(Tail(s), cmd)
<1> DEFINE t == Tail(s)
<1>1. /\ Len(s) \in Nat \ {0} /\ Len(t) = Len(s) - 1
      /\ \A i \in 1..(Len(s) - 1) : t[i] = s[i + 1]
  BY TailFacts
<1> HIDE DEF t
<1>2. \A i \in 1..Len(t) : i + 1 \in 1..Len(s) /\ i + 1 # 1 /\ t[i] = s[i + 1]
  BY <1>1
<1>3. \A i \in 1..Len(s) : i = 1 \/ (i - 1 \in 1..Len(t) /\ t[i - 1] = s[i])
  BY <1>1
<1>4. TokensOf(t, cmd) \subseteq TokensOf(s, cmd)
  BY <1>2 DEF TokensOf
<1>5. s[1].cmd = cmd => s[1].token \in TokensOf(s, cmd)
  BY <1>1 DEF TokensOf
<1>6. TokensOf(s, cmd) \subseteq
        TokensOf(t, cmd) \cup (IF s[1].cmd = cmd THEN {s[1].token} ELSE {})
  BY <1>3 DEF TokensOf
<1>7. Once(s, cmd) => Once(t, cmd)
  <2> SUFFICES ASSUME Once(s, cmd), NEW i \in 1..Len(t), NEW j \in 1..Len(t),
                      t[i].cmd = cmd, t[j].cmd = cmd, i # j
               PROVE  t[i].token # t[j].token
    BY DEF Once
  <2>1. i + 1 # j + 1
    OBVIOUS
  <2> QED
    BY <1>2, <2>1 DEF Once
<1>8. Once(s, cmd) /\ s[1].cmd = cmd => s[1].token \notin TokensOf(t, cmd)
  BY <1>1, <1>2 DEF TokensOf, Once
<1> QED
  BY <1>4, <1>5, <1>6, <1>7, <1>8 DEF t

Pinged == TokensOf(toClient, "PING")
Ponged == TokensOf(toServer, "PONG")

(* Every PING has a token of its own, be it a PING still or a PONG. *)
Owing ==
  /\ Typed /\ PongsOwed
  /\ Once(toClient, "PING") /\ Once(toServer, "PONG")
  /\ Pinged \cap Ponged = {}
  /\ \A t \in Pinged \cup Ponged : t < said

LEMMA Streams ==
  ASSUME Typed PROVE toClient \in Seq(Lines) /\ toServer \in Seq(Ours) /\ said \in Nat
BY DEF Typed, TypeOK

LEMMA OwingInit == Init => Owing
<1> SUFFICES ASSUME Init PROVE Owing
  OBVIOUS
<1>1. Len(toClient) = 0 /\ Len(toServer) = 1 /\ toServer[1].cmd = "NICK" /\ owed = {}
  BY DEF Init, Ask
<1>2. TokensOf(toClient, "PING") = {} /\ TokensOf(toServer, "PONG") = {}
  BY <1>1 DEF TokensOf
<1> QED
  BY <1>1, <1>2, TypedInit DEF Owing, PongsOwed, Once, Pinged, Ponged

LEMMA OwingHandle == Owing /\ Handle => Owing'
<1> SUFFICES ASSUME Owing, Handle PROVE Owing'
  OBVIOUS
<1>1. /\ Typed /\ Typed' /\ toClient \in Seq(Lines) /\ toServer \in Seq(Ours)
      /\ toClient # <<>> /\ toClient' = Tail(toClient) /\ This = toClient[1] /\ This \in Lines
  BY TypedHandle, HandleTakes, Streams DEF Owing
<1>2. owed' = owed /\ said' = said
  BY DEF Handle, HandlePing, HandleNumeric, HandleNick, HandleMode, HandlePrivmsg,
         HandleNotice, HandlePlain
<1>3. /\ TokensOf(toClient, "PING") =
           TokensOf(toClient', "PING") \cup (IF This.cmd = "PING" THEN {This.token} ELSE {})
      /\ Once(toClient', "PING")
      /\ This.cmd = "PING" => This.token \notin TokensOf(toClient', "PING")
  BY <1>1, TokensTail DEF Owing
<1>4. CASE HandlePing /\ UNCHANGED toServer
  <2>1. This.cmd = "PING" /\ (dropped' \/ UNCHANGED <<toServer, dropped>>)
    BY <1>4 DEF HandlePing, Is
  <2>2. dropped'
    <3>1. Len(Append(toServer, Pong(This.token))) = Len(toServer) + 1
          /\ Len(toServer) \in Nat
      <4>1. Pong(This.token) \in Ours
        BY <1>1 DEF Pong, Ours, Lines
      <4> QED
        BY <1>1, <4>1, AppendFacts
    <3> QED
      BY <1>4, <3>1 DEF HandlePing
  <2> QED
    BY <1>1, <1>2, <1>3, <1>4, <2>2 DEF Owing, PongsOwed, Pinged, Ponged
<1>5. CASE HandlePing /\ ~UNCHANGED toServer
  <2>1. /\ This.cmd = "PING" /\ dropped' = dropped
        /\ toServer' = Append(toServer, Pong(This.token))
    BY <1>5 DEF HandlePing, Is
  <2>2. Pong(This.token) \in Ours /\ Pong(This.token).cmd = "PONG"
        /\ Pong(This.token).token = This.token
    BY <1>1 DEF Pong, Ours, Lines
  <2>3. This.token \notin Ponged
    BY <1>3, <2>1 DEF Owing, Pinged
  <2>4. /\ TokensOf(toServer', "PONG") = TokensOf(toServer, "PONG") \cup {This.token}
        /\ Once(toServer', "PONG")
    BY <1>1, <2>1, <2>2, <2>3, TokensAppend DEF Owing, Ponged
  <2> QED
    BY <1>1, <1>2, <1>3, <2>1, <2>4 DEF Owing, PongsOwed, Pinged, Ponged
<1>6. CASE ~HandlePing
  <2>1. This.cmd # "PING" /\ UNCHANGED <<toServer, dropped>>
    BY <1>6 DEF Handle, HandleNumeric, HandleNick, HandleMode, HandlePrivmsg, HandleNotice,
                HandlePlain, Is, Codes
  <2> QED
    BY <1>1, <1>2, <1>3, <2>1 DEF Owing, PongsOwed, Pinged, Ponged
<1> QED
  BY <1>4, <1>5, <1>6

(* A line other than a PING goes to the client. *)
LEMMA OwingAppend ==
  ASSUME Owing, NEW l \in Lines, l.cmd # "PING", toClient' = Append(toClient, l)
  PROVE  Once(toClient', "PING") /\ Pinged' = Pinged
<1>1. toClient \in Seq(Lines) /\ Once(toClient, "PING")
  BY Streams DEF Owing
<1>2. TokensOf(Append(toClient, l), "PING") = TokensOf(toClient, "PING")
      /\ Once(Append(toClient, l), "PING")
  BY <1>1, OtherAppend
<1> QED
  BY <1>2 DEF Pinged

LEMMA OwingReads == Owing /\ ServerReads => Owing'
<1> SUFFICES ASSUME Owing, ServerReads PROVE Owing'
  OBVIOUS
<1>1. /\ Typed /\ Typed' /\ toClient \in Seq(Lines) /\ toServer \in Seq(Ours)
      /\ toServer # <<>> /\ toServer' = Tail(toServer) /\ Head(toServer) = toServer[1]
      /\ Asked \in Nick /\ UNCHANGED <<said, dropped>>
  BY TypedReads, Streams, ReadsTyped
     DEF Owing, ServerReads, ReadPong, NickInUse, Welcome, Rename, Reads
<1>2. /\ TokensOf(toServer, "PONG") = TokensOf(toServer', "PONG") \cup
           (IF toServer[1].cmd = "PONG" THEN {toServer[1].token} ELSE {})
      /\ Once(toServer', "PONG")
      /\ toServer[1].cmd = "PONG" => toServer[1].token \notin TokensOf(toServer', "PONG")
  BY <1>1, TokensTail DEF Owing
<1>3. CASE ReadPong
  <2>1. /\ toServer[1].cmd = "PONG" /\ owed' = owed \ {toServer[1].token}
        /\ UNCHANGED toClient
    BY <1>1, <1>3 DEF ReadPong, Reads
  <2> QED
    BY <1>1, <1>2, <2>1 DEF Owing, PongsOwed, Pinged, Ponged
<1>4. CASE NickInUse \/ Welcome \/ Rename
  <2>1. toServer[1].cmd # "PONG" /\ owed' = owed
    BY <1>1, <1>4 DEF NickInUse, Welcome, Rename, Reads
  <2>2. Once(toClient', "PING") /\ Pinged' = Pinged
    <3>1. CASE UNCHANGED toClient
      BY <3>1 DEF Owing, Pinged
    <3>2. CASE NickInUse
      <4>1. Line("433", Server, Channel, "text") \in Lines
        BY <1>1, LineTyped DEF Typed, Cmds, Codes, Bodies
      <4> QED
        BY <3>2, <4>1, OwingAppend DEF NickInUse, Line
    <3>3. CASE Rename /\ ~UNCHANGED toClient
      <4>1. Line("NICK", mine, Asked, "text") \in Lines
        BY <1>1, LineTyped DEF Typed, TypeOK, Cmds, Bodies
      <4> QED
        BY <3>3, <4>1, OwingAppend DEF Rename, Line
    <3>4. CASE Welcome
      <4> DEFINE a == [Line("001", Server, Channel, "text") EXCEPT !.mine = Asked]
                 b == [Line("376", Server, Channel, "text") EXCEPT !.mine = Asked]
                 s == Append(toClient, a)
      <4>1. a \in Lines /\ b \in Lines /\ a.cmd = "001" /\ b.cmd = "376"
        <5>1. /\ Line("001", Server, Channel, "text") \in Lines
              /\ Line("376", Server, Channel, "text") \in Lines
          BY <1>1, LineTyped DEF Typed, Cmds, Codes, Bodies
        <5> QED
          BY <1>1, <5>1 DEF Lines, Line
      <4>2. toClient' = toClient \o <<a, b>>
        BY <3>4 DEF Welcome
      <4> HIDE DEF a, b
      <4>3. s \in Seq(Lines) /\ toClient' = Append(s, b)
        BY <1>1, <4>1, <4>2
      <4>4. Once(s, "PING") /\ TokensOf(s, "PING") = Pinged
        <5>1. Once(toClient, "PING") /\ a.cmd # "PING"
          BY <4>1 DEF Owing
        <5> QED
          BY <1>1, <4>1, <5>1, OtherAppend DEF Pinged
      <4>5. TokensOf(Append(s, b), "PING") = TokensOf(s, "PING") /\ Once(Append(s, b), "PING")
        <5>1. b.cmd # "PING"
          BY <4>1
        <5> HIDE DEF s
        <5> QED
          BY <4>1, <4>3, <4>4, <5>1, OtherAppend
      <4> QED
        BY <4>3, <4>4, <4>5 DEF Pinged
    <3> QED
      BY <1>4, <3>1, <3>2, <3>3, <3>4
  <2> QED
    BY <1>1, <1>2, <2>1, <2>2 DEF Owing, PongsOwed, Pinged, Ponged
<1> QED
  BY <1>3, <1>4 DEF ServerReads

LEMMA OwingSays == Owing /\ ServerSays => Owing'
<1> SUFFICES ASSUME Owing, NEW l, Speaks(l) PROVE Owing'
  BY Speaking DEF Owing
<1>1. /\ Typed /\ Typed' /\ toClient \in Seq(Lines) /\ said \in Nat
      /\ l \in Lines /\ l.token = said /\ toClient' = Append(toClient, l)
      /\ said' = said + 1 /\ UNCHANGED <<toServer, dropped>>
      /\ owed' = IF l.cmd = "PING" THEN owed \cup {said} ELSE owed
  BY TypedSpeaks, Streams DEF Owing, Speaks
<1>2. said \notin Pinged \cup Ponged /\ \A t \in Pinged \cup Ponged : t < said + 1
  <2>1. Pinged \cup Ponged \subseteq Nat
    <3>1. \A i \in 1..Len(toClient) : toClient[i] \in Lines /\ toClient[i].token \in Nat
      <4> \A k \in Lines : k.token \in Nat
        BY DEF Lines, Tokens
      <4> QED
        BY <1>1
    <3>2. \A i \in 1..Len(toServer) : toServer[i] \in Ours /\ toServer[i].token \in Nat
      <4> (\A k \in Ours : k.token \in Nat) /\ toServer \in Seq(Ours)
        BY <1>1, Streams DEF Ours, Tokens
      <4> QED
        OBVIOUS
    <3> QED
      BY <3>1, <3>2 DEF Pinged, Ponged, TokensOf
  <2> QED
    BY <1>1, <2>1 DEF Owing
<1>3. /\ Pinged' = Pinged \cup (IF l.cmd = "PING" THEN {said} ELSE {})
      /\ Once(toClient', "PING")
  BY <1>1, <1>2, TokensAppend DEF Owing, Pinged
<1> QED
  BY <1>1, <1>2, <1>3 DEF Owing, PongsOwed, Pinged, Ponged

LEMMA OwingAsk == Owing /\ (\E n \in Nick : AskNick(n)) => Owing'
<1> SUFFICES ASSUME Owing, NEW n \in Nick, AskNick(n) PROVE Owing'
  OBVIOUS
<1>1. Typed' /\ toServer \in Seq(Ours)
  BY TypedAsk, Streams DEF Owing
<1>2. Ask(n) \in Ours /\ Ask(n).cmd # "PONG"
  BY DEF Ask, Ours, Tokens
<1>3. toServer' = Append(toServer, Ask(n)) /\ UNCHANGED <<toClient, owed, dropped, said>>
  BY DEF AskNick
<1>4. Ponged' = Ponged /\ Once(toServer', "PONG")
  <2>1. Once(toServer, "PONG")
    BY DEF Owing
  <2>2. TokensOf(Append(toServer, Ask(n)), "PONG") = TokensOf(toServer, "PONG")
        /\ Once(Append(toServer, Ask(n)), "PONG")
    BY <1>1, <1>2, <2>1, OtherAppend
  <2> QED
    BY <1>3, <2>2 DEF Ponged
<1> QED
  BY <1>1, <1>3, <1>4 DEF Owing, PongsOwed, Pinged, Ponged

(* No PING is forgotten or answered with another one's token, as long as    *)
(* there is room for the PONGs.                                             *)
THEOREM PongsBalanced == Spec => []PongsOwed
<1>1. Owing /\ UNCHANGED vars => Owing'
  <2> SUFFICES ASSUME Owing, UNCHANGED vars PROVE Owing'
    OBVIOUS
  <2>1. UNCHANGED <<toClient, toServer, owed, dropped, said>> /\ Typed'
    BY TypedStep DEF Owing, vars
  <2> QED
    BY <2>1 DEF Owing, PongsOwed, Pinged, Ponged
<1>2. Owing /\ [Next]_vars => Owing'
  BY <1>1, OwingHandle, OwingReads, OwingSays, OwingAsk DEF Next
<1>3. Owing => PongsOwed
  BY DEF Owing
<1> QED
  BY <1>2, <1>3, OwingInit, PTL DEF Spec

-----------------------------------------------------------------------------
(* The engine.  The state CONNECTING is set once, before irc_run is         *)
(* entered, and a disconnect never sets it again: whoever finds it has not  *)
(* registered, and registering is behind finding it.                        *)

Made == tcp \in {"up", "ended"}

(* Who has not registered yet, and that a connection was made to register.  *)
Unregistered ==
  /\ worker \in {"create", "connect", "mark", "settle", "register"} => greeted = 0
  /\ worker = "gap" => greeted = 0
  /\ state = "CONNECTING" => greeted = 0 /\ worker # "register"
  /\ worker \in {"settle", "register"} => Made
  /\ greeted = 1 => Made

EngineInv == EngineTypeOK /\ Unregistered /\ RegisteredOnce

LEMMA InitEngineInv == EngineInit => EngineInv
<1> SUFFICES ASSUME EngineInit PROVE EngineInv
  OBVIOUS
<1>1. EngineTypeOK
  <2>1. state \in States /\ worker \in WorkerSteps /\ greeted \in 0..2
    BY DEF EngineInit, States, WorkerSteps
  <2>2. sock \in BOOLEAN /\ queued \in BOOLEAN /\ full \in BOOLEAN
    BY DEF EngineInit
  <2>4. unread \in 0..MaxUnread
    <3>1. unread = 0
      BY DEF EngineInit
    <3> QED
      BY <3>1, UnreadAssumption
  <2>3. watch \subseteq {"in", "out"} /\ ready \subseteq {"in", "out"}
    BY DEF EngineInit
  <2> QED
    BY <2>1, <2>2, <2>3, <2>4 DEF EngineInit, EngineTypeOK
<1>2. Unregistered /\ RegisteredOnce
  BY DEF EngineInit, Unregistered, RegisteredOnce
<1> QED
  BY <1>1, <1>2 DEF EngineInv

LEMMA EngineSpeaks == ASSUME EngineInv, ServerSpeaks PROVE EngineInv'
<1>1. unread' \in 0..MaxUnread
  BY UnreadAssumption DEF ServerSpeaks, EngineInv, EngineTypeOK
<1> QED
  BY <1>1 DEF ServerSpeaks, EngineInv, EngineTypeOK, Unregistered, Made, RegisteredOnce

LEMMA EngineNetwork ==
  ASSUME EngineInv, TcpEnds \/ \E how \in {"up", "refused"} : TcpAnswers(how)
  PROVE  EngineInv'
<1>1. /\ UNCHANGED <<state, sock, fd, incoming, queued, worker, watch, ready, main, greeted>>
      /\ tcp' \in {"up", "refused", "ended"}
      /\ tcp \in {"connecting", "up"} /\ (tcp = "up" => tcp' = "ended")
  BY DEF TcpEnds, TcpAnswers
<1>2. EngineTypeOK'
  BY <1>1 DEF EngineInv, EngineTypeOK, incoming
<1>3. Made => Made'
  BY <1>1 DEF Made
<1> QED
  BY <1>1, <1>2, <1>3 DEF EngineInv, Unregistered, Made, RegisteredOnce

LEMMA EngineConnecting == ASSUME EngineInv, Connecting PROVE EngineInv'
<1> USE DEF EngineInv, EngineTypeOK, States, WorkerSteps, Unregistered, Made,
            RegisteredOnce, incoming
<1>1. CASE ConnectFails
  BY <1>1 DEF ConnectFails
<1>2. CASE CreateSocket
  BY <1>2 DEF CreateSocket
<1>3. CASE Connect
  BY <1>3 DEF Connect
<1>4. CASE Mark
  BY <1>4 DEF Mark
<1> QED
  BY <1>1, <1>2, <1>3, <1>4 DEF Connecting

(* The kernel reports watched descriptors only. *)
LEMMA EngineSelect == ASSUME EngineInv, Select PROVE EngineInv'
<1>1. ready' \subseteq {"in", "out"}
  BY DEF Select, Reported, EngineInv, EngineTypeOK
<1> QED
  BY <1>1 DEF Select, Leave, EngineInv, EngineTypeOK, States, incoming,
              WorkerSteps, Unregistered, Made, RegisteredOnce

LEMMA EngineRunning == ASSUME EngineInv, Running PROVE EngineInv'
<1> USE DEF EngineInv, EngineTypeOK, States, WorkerSteps, Unregistered, Made,
            RegisteredOnce, GiveUp, Leave, incoming
<1>0. CASE Enter
  BY <1>0 DEF Enter
<1>1. CASE Loop
  BY <1>1 DEF Loop
<1>2. CASE AddGuard
  BY <1>2 DEF AddGuard
<1>10. CASE AddSet
  BY <1>10 DEF AddSet
<1>3. CASE Select
  BY <1>3, EngineSelect
<1>4. CASE ProcessGuard
  BY <1>4 DEF ProcessGuard
<1>5. CASE Branch
  BY <1>5 DEF Branch
<1>6. CASE Settle
  BY <1>6 DEF Settle
<1>7. CASE Register
  <2>1. greeted' \in 0..1 /\ queued' \in BOOLEAN /\ tcp \in {"up", "ended"}
    <3>1. greeted = 0 /\ tcp \in {"up", "ended"}
      BY <1>7 DEF Register
    <3>2. CASE state = "CONNECTED"
      BY <1>7, <3>1, <3>2 DEF Register
    <3>3. CASE state # "CONNECTED"
      <4>1. queued' = queued /\ greeted' = greeted
        BY <1>7, <3>3 DEF Register
      <4> QED
        BY <3>1, <4>1
    <3> QED
      BY <3>1, <3>2, <3>3
  <2> QED
    BY <1>7, <2>1 DEF Register
<1>8. CASE Recv
  <2>1. /\ state' \in {state, "DISCONNECTED"} /\ queued' \in BOOLEAN
        /\ unread' \in 0..MaxUnread /\ full' \in BOOLEAN
        /\ worker' \in {"send", "returned"}
        /\ UNCHANGED <<sock, fd, tcp, watch, ready, main, greeted>>
    BY <1>8, UnreadAssumption DEF Recv, Read
  <2> QED
    BY <2>1
<1>9. CASE Send
  <2>1. /\ state' \in {state, "DISCONNECTED"} /\ queued' \in BOOLEAN
        /\ worker' \in {"loop", "returned"}
        /\ UNCHANGED <<sock, fd, tcp, unread, full, watch, ready, main, greeted>>
    BY <1>9 DEF Send
  <2> QED
    BY <2>1
<1> QED
  BY <1>0, <1>10, <1>1, <1>2, <1>3, <1>4, <1>5, <1>6, <1>7, <1>8, <1>9 DEF Running

LEMMA EngineMain ==
  ASSUME EngineInv, MainSends \/ DisconnectTest \/ Disconnecting
  PROVE  EngineInv'
<1> USE DEF EngineInv, EngineTypeOK, States, Unregistered, Made, RegisteredOnce, incoming
<1>1. CASE MainSends
  BY <1>1 DEF MainSends
<1>2. CASE DisconnectTest
  BY <1>2 DEF DisconnectTest
<1>3. CASE DisconnectClose
  BY <1>3 DEF DisconnectClose
<1>4. CASE DisconnectForget
  BY <1>4 DEF DisconnectForget
<1>5. CASE DisconnectState
  BY <1>5 DEF DisconnectState
<1> QED
  BY <1>1, <1>2, <1>3, <1>4, <1>5 DEF Disconnecting

LEMMA NextEngineInv == EngineInv /\ [EngineNext]_engineVars => EngineInv'
<1> SUFFICES ASSUME EngineInv, [EngineNext]_engineVars PROVE EngineInv'
  OBVIOUS
<1>1. CASE UNCHANGED engineVars
  BY <1>1 DEF engineVars, incoming, EngineInv, EngineTypeOK, Unregistered, Made,
              RegisteredOnce
<1>2. CASE Destroy
  <2>1. EngineTypeOK'
    BY <1>2 DEF Destroy, EngineInv, EngineTypeOK, WorkerSteps, incoming
  <2>2. Unregistered' /\ RegisteredOnce'
    BY <1>2 DEF Destroy, EngineInv, Unregistered, Made, RegisteredOnce
  <2> QED
    BY <2>1, <2>2 DEF EngineInv
<1> QED
  BY <1>1, <1>2, EngineNetwork, EngineSpeaks, EngineConnecting, EngineRunning, EngineMain
     DEF EngineNext, Worker

LEMMA EngineInvariance == EngineSpec => []EngineInv
<1>1. EngineInit => EngineInv
  BY InitEngineInv
<1>2. EngineInv /\ [EngineNext]_engineVars => EngineInv'
  BY NextEngineInv
<1> QED
  BY <1>1, <1>2, PTL DEF EngineSpec

-----------------------------------------------------------------------------
(* Every variable keeps its type, and nothing is connected that was not     *)
(* created.                                                                 *)
THEOREM EngineTyping == EngineSpec => []EngineTypeOK
<1>1. EngineInv => EngineTypeOK
  BY DEF EngineInv
<1> QED
  BY <1>1, EngineInvariance, PTL

(* NICK and USER are sent at most once (libircclient.c 725-750), and only   *)
(* over a connection that was made, whatever irc_disconnect writes to the   *)
(* state while irc_run is at any of its instructions.                       *)
THEOREM RegistersOnce == EngineSpec => []RegisteredOnce
<1>1. EngineInv => RegisteredOnce
  BY DEF EngineInv
<1> QED
  BY <1>1, EngineInvariance, PTL

=============================================================================
